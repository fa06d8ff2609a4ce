----------------------------- MODULE QualityDial ------------------------------
(***************************************************************************)
(* DialTCPWithAutoQuality and DialTCPWithFallback of one ProxyClient       *)
(* (pkg/client/proxy.go): when a call tries again, in which order of       *)
(* protocols, and by what it judges a dial.  The order, the number of      *)
(* errors and the latency of the last dial are fields of the client, which *)
(* goroutines share without a lock.                                        *)
(*                                                                         *)
(* One DialTCP is a few steps here: it reads the manager, and ends with a  *)
(* latency or an error.  What happens in between is the matter of          *)
(* Negotiation and ProxyStream.  Orders are numbered by their rotation.    *)
(***************************************************************************)
EXTENDS Integers, FiniteSets

CONSTANTS
    Calls,       \* calls of the three methods
    Orders,      \* len(c.preferred): one order, and one attempt, for each
    Latencies,   \* what a dial may take
    Thresholds,  \* values of qualityLatencyThreshold, 0 for none
    ErrorLimits  \* values of maxErrorsBeforeFallback, 0 for none

ASSUME QualityAssumptions ==
    /\ Orders \in Nat \ {0} /\ Latencies \subseteq Nat
    /\ Thresholds \subseteq Nat /\ ErrorLimits \subseteq Nat

VARIABLES
    policy,           \* what SetQualityPolicy was given
    rotation,         \* by how much the order of c.mgr is rotated
    errorCount, lastDialLatency,
    entry,            \* the method called
    pc,               \* where a call is
    phase,            \* what becomes of its dial: see Begin
    attempt,          \* the loop variable of DialTCPWithFallback
    loaded,           \* errorCount as an increment has read it
    dials,            \* history: its calls of DialTCP so far
    streams,          \* the streams that are open, by call and dial
    mine,             \* history: the latency of its own last dial
    used,             \* history: the order each attempt found in c.mgr
    mixed, shared     \* history: see DialOk and Begin

client == <<policy, rotation, errorCount, lastDialLatency>>
history == <<mine, used, mixed, shared>>
vars == <<client, entry, pc, phase, attempt, loaded, dials, streams, history>>

Over(c) == pc[c] \in {"idle", "ok", "failed"}

Init ==
    /\ policy \in [latency : Thresholds, errors : ErrorLimits]
    /\ rotation = 0 /\ errorCount = 0 /\ lastDialLatency = 0
    /\ entry \in [Calls -> {"tcp", "fallback", "auto"}]
    /\ pc = [c \in Calls |-> "idle"] /\ phase = [c \in Calls |-> "plain"]
    /\ attempt = [c \in Calls |-> 0] /\ loaded = [c \in Calls |-> 0]
    /\ dials = [c \in Calls |-> 0] /\ streams = {}
    /\ mine = [c \in Calls |-> 0] /\ used = [c \in Calls |-> {}]
    /\ mixed = [c \in Calls |-> FALSE] /\ shared = [c \in Calls |-> FALSE]

-----------------------------------------------------------------------------
(* The call dials: the result of a "plain" dial is the result of the call, *)
(* after a bad "first" one DialTCPWithFallback is called, in a "fallback"  *)
(* the loop goes on.                                                       *)
Dial(c, ph) ==
    /\ phase' = [phase EXCEPT ![c] = ph]
    /\ pc' = [pc EXCEPT ![c] = "connect"]
    /\ dials' = [dials EXCEPT ![c] = @ + 1]

(* DialTCPWithAutoQuality is a plain DialTCP without a policy, and goes to *)
(* the fallback at once after too many errors.                             *)
Begin(c) ==
    /\ pc[c] = "idle"
    /\ Dial(c, CASE entry[c] = "tcp" -> "plain"
                 [] entry[c] = "fallback" -> "fallback"
                 [] entry[c] = "auto" ->
                      IF policy.latency = 0 /\ policy.errors = 0 THEN "plain"
                      ELSE IF policy.errors > 0 /\ errorCount >= policy.errors THEN "fallback"
                      ELSE "first")
    /\ shared' = [d \in Calls |-> shared[d] \/ (d # c /\ ~Over(d))
                                    \/ (d = c /\ \E x \in Calls \ {c} : ~Over(x))]
    /\ UNCHANGED <<client, entry, attempt, loaded, streams, mine, used, mixed>>

(* DialTCP is connected and gives c.mgr to ClientNegotiate.                *)
Negotiate(c) ==
    /\ pc[c] = "connect" /\ pc' = [pc EXCEPT ![c] = "dialling"]
    /\ used' = [used EXCEPT ![c] = @ \cup
                   (IF phase[c] = "fallback" THEN {<<attempt[c], rotation>>} ELSE {})]
    /\ UNCHANGED <<client, entry, phase, attempt, loaded, dials, streams, mine, mixed, shared>>

(* DialTCP succeeds.  Another call that has not judged its own dial yet    *)
(* will find this latency.                                                 *)
DialOk(c) ==
    /\ pc[c] = "dialling"
    /\ pc' = [pc EXCEPT ![c] = IF phase[c] = "plain" THEN "ok" ELSE "judge"]
    /\ \E lat \in Latencies :
          lastDialLatency' = lat /\ mine' = [mine EXCEPT ![c] = lat]
    /\ streams' = streams \cup {<<c, dials[c]>>}
    /\ mixed' = [d \in Calls |-> d # c /\ (mixed[d] \/ pc[d] = "judge")]
    /\ UNCHANGED <<policy, rotation, errorCount, entry, phase, attempt, loaded, dials,
                   used, shared>>

(* DialTCP fails somewhere, has closed what it had opened, and increments  *)
(* the counter, which is a load and a store.                               *)
DialFails(c) ==
    /\ pc[c] \in {"connect", "dialling"} /\ pc' = [pc EXCEPT ![c] = "erring"]
    /\ loaded' = [loaded EXCEPT ![c] = errorCount]
    /\ UNCHANGED <<client, entry, phase, attempt, dials, streams, history>>

CountError(c) ==
    /\ pc[c] = "erring" /\ errorCount' = loaded[c] + 1
    /\ \/ phase[c] = "plain" /\ pc' = [pc EXCEPT ![c] = "failed"] /\ UNCHANGED <<phase, dials>>
       \/ phase[c] = "first" /\ Dial(c, "fallback")
       \/ phase[c] = "fallback" /\ pc' = [pc EXCEPT ![c] = "again"] /\ UNCHANGED <<phase, dials>>
    /\ UNCHANGED <<policy, rotation, lastDialLatency, entry, attempt, loaded, streams, history>>

(* The answer of Stats, taken for the latency of this dial.                *)
FastEnough == policy.latency = 0 \/ lastDialLatency <= policy.latency

Keep(c) ==
    /\ pc[c] = "judge" /\ FastEnough /\ pc' = [pc EXCEPT ![c] = "ok"]
    /\ UNCHANGED <<client, entry, phase, attempt, loaded, dials, streams, history>>

(* Mutant of Discard: the slow stream is left open.                        *)
DiscardLeaks(c) ==
    /\ pc[c] = "judge" /\ ~FastEnough
    /\ \/ phase[c] = "first" /\ Dial(c, "fallback")
       \/ phase[c] = "fallback" /\ pc' = [pc EXCEPT ![c] = "again"] /\ UNCHANGED <<phase, dials>>
    /\ UNCHANGED <<client, entry, attempt, loaded, streams, history>>

(* Too slow: the stream is closed, and the call goes on as after an error. *)
Discard(c) ==
    /\ pc[c] = "judge" /\ ~FastEnough
    /\ streams' = streams \ {<<c, dials[c]>>}
    /\ \/ phase[c] = "first" /\ Dial(c, "fallback")
       \/ phase[c] = "fallback" /\ pc' = [pc EXCEPT ![c] = "again"] /\ UNCHANGED <<phase, dials>>
    /\ UNCHANGED <<client, entry, attempt, loaded, history>>

(* The next round of the loop: a manager with the order rotated.  It stays *)
(* with the client when the call is over.                                  *)
Rotate(c) ==
    /\ pc[c] = "again" /\ attempt[c] + 1 < Orders
    /\ attempt' = [attempt EXCEPT ![c] = @ + 1] /\ rotation' = attempt[c] + 1
    /\ Dial(c, "fallback")
    /\ UNCHANGED <<policy, errorCount, lastDialLatency, entry, loaded, streams, history>>

GiveUp(c) ==
    /\ pc[c] = "again" /\ attempt[c] + 1 >= Orders
    /\ pc' = [pc EXCEPT ![c] = "failed"]
    /\ UNCHANGED <<client, entry, phase, attempt, loaded, dials, streams, history>>

Next ==
    \E c \in Calls :
        \/ Begin(c) \/ Negotiate(c) \/ DialOk(c) \/ DialFails(c) \/ CountError(c)
        \/ Keep(c) \/ Discard(c) \/ Rotate(c) \/ GiveUp(c)

Spec == Init /\ [][Next]_vars

-----------------------------------------------------------------------------
(* What the end of a call means.  A dial is judged by its own latency,     *)
(* unless the dial of another call ended in between; so a stream that the  *)
(* call returns was fast enough, and it is the only one of its streams     *)
(* that is not closed.  A fallback that fails has made all of its attempts *)
(* and has closed all streams, and the attempts that came as far as the    *)
(* negotiation have offered each rotated order once, unless another call   *)
(* on the same client ran meanwhile and replaced the manager.              *)
DialOutcome ==
    \A c \in Calls :
        LET own == {s \in streams : s[1] = c} IN
        /\ pc[c] = "judge" /\ ~mixed[c] => lastDialLatency = mine[c]
        /\ pc[c] = "ok" =>
              /\ own = {<<c, dials[c]>>}
              /\ phase[c] # "plain" /\ policy.latency > 0 /\ ~mixed[c] =>
                    mine[c] <= policy.latency
        /\ pc[c] = "failed" =>
              /\ own = {}
              /\ phase[c] = "fallback" =>
                    /\ dials[c] >= Orders /\ (entry[c] = "fallback" => dials[c] = Orders)
                    /\ ~shared[c] => \A u \in used[c] : u[1] = 0 \/ u[2] = u[1]
===============================================================================
