------------------------------ MODULE MetricsLog ------------------------------
(***************************************************************************)
(* What hypernet/services/proxy/metrics promises its callers: an           *)
(* asynchronous log.  An operation that was accepted waits in "pending"    *)
(* and is settled later, in the order of acceptance, together with a whole *)
(* prefix of what is waiting; "stored" remembers every settled operation   *)
(* and whether the database kept it.  MetricsStore implements this module. *)
(***************************************************************************)
EXTENDS Naturals, Sequences

CONSTANT Op                   \* the operations a caller can hand over

VARIABLES pending,            \* accepted, not yet settled, oldest first
          stored              \* settled, with their outcome, oldest first

logVars == <<pending, stored>>

Entry == [op : Op, ok : BOOLEAN]

LogInit == pending = <<>> /\ stored = <<>>

Accept(op) ==
    /\ pending' = Append(pending, op)
    /\ UNCHANGED stored

(* The n oldest pending operations leave together, each with an outcome.   *)
Settle(n) ==
    /\ \E kept \in [1..n -> BOOLEAN] :
          stored' = stored \o [i \in 1..n |-> [op |-> pending[i], ok |-> kept[i]]]
    /\ pending' = SubSeq(pending, n + 1, Len(pending))

LogNext ==
    \/ \E op \in Op : Accept(op)
    \/ \E n \in 1..Len(pending) : Settle(n)

LogSpec == LogInit /\ [][LogNext]_logVars
===============================================================================
