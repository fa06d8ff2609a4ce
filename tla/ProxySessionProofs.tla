-------------------------- MODULE ProxySessionProofs --------------------------
(***************************************************************************)
(* First the metrics store by itself: what its writer keeps and loses, and *)
(* that it implements the log of MetricsLog.  Then the node around it,     *)
(* in which the store's theorems hold as well; what the panic at shutdown  *)
(* can lose; and the handlers, which write the operations of a session in  *)
(* order.                                                                  *)
(***************************************************************************)
EXTENDS ProxySession, SequenceTheorems, TLAPS

-----------------------------------------------------------------------------
(* The store: Next, Init and Spec are those of MetricsStore.               *)

(* Where the writer is tells what it holds: an open transaction exists     *)
(* only while applying, a flush has something to flush, the select has     *)
(* room for one more operation, and a stopped writer left nothing behind.  *)
WriterState ==
    /\ wpc # "apply" => tx = <<>>
    /\ Len(tx) <= Len(batch)
    /\ wpc \in {"begin", "apply"} => batch # <<>>
    /\ wpc = "select" => Len(batch) < MaxBatch
    /\ wpc = "stopped" => closed /\ queue = <<>> /\ batch = <<>>
    /\ exiting => closed /\ queue = <<>> /\ wpc # "select"
    /\ (\E c \in Closers : cpc[c] = "returned") => wpc = "stopped"
    /\ dbOpen \/ wpc = "stopped" \/ (proc # "up" /\ wpc = "select")

(* Without a fault and without a death every outcome is good.              *)
NoFaultNoLoss ==
    faults = 0 /\ deaths = 0 =>
        /\ \A i \in DOMAIN settled : settled[i].ok
        /\ \A i \in DOMAIN tx : tx[i].ok

(* The marker of a FlushNow call is at the position the call remembered,   *)
(* and "done" is closed only once the writer is past that position.        *)
FlushMarks ==
    /\ \A i \in DOMAIN accepted : \A f \in Flushers :
          accepted[i] = FlushOp(f) => i = mark[f] + 1 /\ fpc[f] # "idle"
    /\ \A f \in Flushers :
          f \in doneCh \/ fpc[f] = "returned" => Len(settled) + Len(tx) > mark[f]
    /\ \A f \in doneCh : fpc[f] # "idle"

IInv == TypeOK /\ OpsConserved /\ WriterState /\ NoFaultNoLoss /\ FlushMarks

-----------------------------------------------------------------------------
(* Sequences.  Discarding operations keeps their number and their order.   *)
LEMMA LostProperties ==
    ASSUME NEW s \in Seq(Op)
    PROVE  /\ Lost(s) \in Seq(Entry)
           /\ Len(Lost(s)) = Len(s)
           /\ OpsOf(Lost(s)) = s
  <1>1. s \in [1..Len(s) -> Op] /\ Len(s) \in Nat
    BY LenProperties
  <1>2. Lost(s) \in [1..Len(s) -> Entry]
    BY <1>1 DEF Lost, Entry
  <1>3. Lost(s) \in Seq(Entry)
    BY <1>1, <1>2, SeqDef
  <1>4. Len(Lost(s)) = Len(s)
    BY <1>1, <1>2, <1>3, LenProperties
  <1>5. OpsOf(Lost(s)) = s
    BY <1>1 DEF OpsOf, Lost
  <1> QED BY <1>3, <1>4, <1>5

LEMMA OpsOfProperties ==
    ASSUME NEW s \in Seq(Entry)
    PROVE  /\ OpsOf(s) \in Seq(Op)
           /\ Len(OpsOf(s)) = Len(s)
           /\ \A i \in 1..Len(s) : OpsOf(s)[i] = s[i].op
  <1>1. s \in [1..Len(s) -> Entry] /\ Len(s) \in Nat
    BY LenProperties
  <1>2. OpsOf(s) \in [1..Len(s) -> Op]
    BY <1>1 DEF OpsOf, Entry
  <1>3. OpsOf(s) \in Seq(Op)
    BY <1>1, <1>2, SeqDef
  <1>4. Len(OpsOf(s)) = Len(s)
    BY <1>1, <1>2, <1>3, LenProperties
  <1>5. \A i \in 1..Len(s) : OpsOf(s)[i] = s[i].op
    BY <1>1 DEF OpsOf
  <1> QED BY <1>3, <1>4, <1>5

LEMMA OpsOfConcat ==
    ASSUME NEW s \in Seq(Entry), NEW t \in Seq(Entry)
    PROVE  OpsOf(s \o t) = OpsOf(s) \o OpsOf(t)
  <1> DEFINE u == OpsOf(s \o t)
             v == OpsOf(s) \o OpsOf(t)
  <1>1. /\ s \o t \in Seq(Entry)
        /\ Len(s \o t) = Len(s) + Len(t)
        /\ Len(s) \in Nat /\ Len(t) \in Nat
        /\ \A i \in 1..Len(s) + Len(t) :
              (s \o t)[i] = IF i <= Len(s) THEN s[i] ELSE t[i - Len(s)]
    BY ConcatProperties, LenProperties
  <1>2. u \in Seq(Op) /\ Len(u) = Len(s) + Len(t)
    BY <1>1, OpsOfProperties
  <1>3. v \in Seq(Op) /\ Len(v) = Len(s) + Len(t)
    <2>1. OpsOf(s) \in Seq(Op) /\ OpsOf(t) \in Seq(Op)
      BY OpsOfProperties
    <2>2. Len(OpsOf(s)) = Len(s) /\ Len(OpsOf(t)) = Len(t)
      BY OpsOfProperties
    <2>3. v \in Seq(Op)
      BY <2>1
    <2>4. Len(v) = Len(OpsOf(s)) + Len(OpsOf(t))
      BY <2>1
    <2> QED BY <2>2, <2>3, <2>4
  <1>4. ASSUME NEW i \in 1..Len(u) PROVE u[i] = v[i]
    <2>1. u[i] = (s \o t)[i].op
      BY <1>1, <1>2, OpsOfProperties
    <2>2. v[i] = IF i <= Len(s) THEN OpsOf(s)[i] ELSE OpsOf(t)[i - Len(s)]
      BY <1>1, <1>2, OpsOfProperties, ConcatProperties
    <2>3. CASE i <= Len(s)
      BY <1>1, <1>2, <2>1, <2>2, <2>3, OpsOfProperties
    <2>4. CASE i > Len(s)
      BY <1>1, <1>2, <2>1, <2>2, <2>4, OpsOfProperties
    <2>5. i <= Len(s) \/ i > Len(s)
      BY <1>1, <1>2
    <2> QED BY <2>3, <2>4, <2>5
  <1> HIDE DEF u, v
  <1>5. u = v
    BY <1>2, <1>3, <1>4, SeqEqual
  <1> QED BY <1>5 DEF u, v

LEMMA OpsOfAppend ==
    ASSUME NEW s \in Seq(Entry), NEW e \in Entry
    PROVE  OpsOf(Append(s, e)) = Append(OpsOf(s), e.op)
  BY OpsOfProperties DEF OpsOf, Entry

LEMMA MoveHead ==
    ASSUME NEW b \in Seq(Op), NEW q \in Seq(Op), q # <<>>
    PROVE  Append(b, Head(q)) \o Tail(q) = b \o q
  OBVIOUS

LEMMA ConcatIndex ==
    ASSUME NEW s \in Seq(Op), NEW t \in Seq(Op), NEW i \in 1..Len(t)
    PROVE  /\ s \o t \in Seq(Op) /\ Len(s \o t) = Len(s) + Len(t)
           /\ (s \o t)[Len(s) + i] = t[i]
  OBVIOUS

LEMMA ConcatTail ==
    ASSUME NEW s \in Seq(Op), NEW t \in Seq(Op)
    PROVE  t = SubSeq(s \o t, Len(s) + 1, Len(s \o t))
  <1> DEFINE u == SubSeq(s \o t, Len(s) + 1, Len(s \o t))
  <1>1. s \o t \in Seq(Op) /\ Len(s \o t) = Len(s) + Len(t)
        /\ Len(s) \in Nat /\ Len(t) \in Nat
    OBVIOUS
  <1>2. u \in Seq(Op) /\ Len(u) = Len(t)
    BY <1>1
  <1>3. ASSUME NEW i \in 1..Len(t) PROVE t[i] = u[i]
    <2>1. u[i] = (s \o t)[Len(s) + i]
      BY <1>1
    <2> QED BY <2>1, ConcatIndex
  <1> HIDE DEF u
  <1>4. t = u
    BY <1>2, <1>3, SeqEqual
  <1> QED BY <1>4 DEF u

LEMMA ConcatAppend ==
    ASSUME NEW s \in Seq(Op), NEW t \in Seq(Op), NEW e \in Op
    PROVE  s \o Append(t, e) = Append(s \o t, e)
  OBVIOUS

LEMMA ConcatAssoc ==
    ASSUME NEW s \in Seq(Op), NEW t \in Seq(Op), NEW u \in Seq(Op)
    PROVE  (s \o t) \o u = s \o (t \o u)
  OBVIOUS

LEMMA OpTypes ==
    /\ \A s \in Sessions, k \in Kinds : [kind |-> k, id |-> s] \in Op
    /\ \A f \in Flushers : FlushOp(f) \in Op
    /\ \A op \in Op : op.kind = "flush" => \E f \in Flushers : op = FlushOp(f) /\ op.id = f
    /\ \A s \in Sessions, k \in Kinds, f \in Flushers : [kind |-> k, id |-> s] # FlushOp(f)
    /\ \A f, g \in Flushers : FlushOp(f) = FlushOp(g) => f = g
  BY DEF Op, FlushOp, Kinds

LEMMA InitIInv == Init => IInv
  <1> SUFFICES ASSUME Init PROVE IInv
    OBVIOUS
  <1>1. TypeOK
    <2>1. /\ queue \in Seq(Op) /\ Len(queue) <= QueueCap
          /\ batch \in Seq(Op) /\ Len(batch) <= MaxBatch
          /\ tx \in Seq(Entry) /\ settled \in Seq(Entry) /\ accepted \in Seq(Op)
      BY CapAssumption DEF Init
    <2>2. /\ fpc \in [Flushers -> {"idle", "waiting", "returned", "skipped", "gone"}]
          /\ cpc \in [Closers -> {"idle", "waiting", "returned"}]
          /\ mark \in [Flushers -> Nat] /\ faults \in Nat /\ deaths \in Nat
      BY DEF Init
    <2>3. /\ proc \in {"up", "crashed", "panicked"}
          /\ closed \in BOOLEAN /\ exiting \in BOOLEAN /\ dbOpen \in BOOLEAN
          /\ wpc \in {"select", "begin", "apply", "stopped"} /\ doneCh \subseteq Flushers
      BY DEF Init
    <2> QED BY <2>1, <2>2, <2>3 DEF TypeOK
  <1>2. OpsConserved
    BY DEF Init, OpsConserved, OpsOf
  <1>3. WriterState
    BY CapAssumption DEF Init, WriterState
  <1>4. NoFaultNoLoss
    BY DEF Init, NoFaultNoLoss
  <1>5. FlushMarks
    BY DEF Init, FlushMarks
  <1> QED BY <1>1, <1>2, <1>3, <1>4, <1>5 DEF IInv

(* A death discards the batch and the channel, oldest first.               *)
LEMMA DieStep ==
    ASSUME IInv, NEW how \in {"crashed", "panicked"}, Die(how)
    PROVE  IInv'
  <1> DEFINE gone == batch \o queue
  <1>0. /\ gone \in Seq(Op) /\ Len(gone) = Len(batch) + Len(queue)
        /\ Lost(gone) \in Seq(Entry) /\ Len(Lost(gone)) = Len(gone)
        /\ OpsOf(Lost(gone)) = gone
    <2>1. gone \in Seq(Op) /\ Len(gone) = Len(batch) + Len(queue)
      BY DEF IInv, TypeOK
    <2> QED BY <2>1, LostProperties
  <1>1. TypeOK'
    <2>1. /\ settled' \in Seq(Entry) /\ accepted' \in Seq(Op)
      BY <1>0 DEF IInv, TypeOK, Die
    <2>2. /\ queue' \in Seq(Op) /\ Len(queue') <= QueueCap
          /\ batch' \in Seq(Op) /\ Len(batch') <= MaxBatch /\ tx' \in Seq(Entry)
      BY CapAssumption DEF Die
    <2>3. /\ fpc' \in [Flushers -> {"idle", "waiting", "returned", "skipped", "gone"}]
          /\ cpc' \in [Closers -> {"idle", "waiting", "returned"}]
          /\ mark' \in [Flushers -> Nat] /\ faults' \in Nat /\ deaths' \in Nat
      BY DEF IInv, TypeOK, Die
    <2>4. /\ proc' \in {"up", "crashed", "panicked"}
          /\ closed' \in BOOLEAN /\ exiting' \in BOOLEAN /\ dbOpen' \in BOOLEAN
          /\ wpc' \in {"select", "begin", "apply", "stopped"} /\ doneCh' \subseteq Flushers
      BY DEF Die
    <2> QED BY <2>1, <2>2, <2>3, <2>4 DEF TypeOK
  <1>2. OpsConserved'
    <2>1. OpsOf(settled') = OpsOf(settled) \o gone
      BY <1>0, OpsOfConcat DEF IInv, TypeOK, Die
    <2>2. OpsOf(settled) \in Seq(Op)
      BY OpsOfProperties DEF IInv, TypeOK
    <2>3. OpsOf(settled') \o batch' \o queue' = OpsOf(settled) \o gone
      BY <1>0, <2>1, <2>2 DEF Die
    <2>4. OpsOf(settled) \o gone = OpsOf(settled) \o batch \o queue
      BY <2>2, ConcatAssoc DEF IInv, TypeOK
    <2>5. accepted' = accepted
      BY DEF Die
    <2>6. OpsOf(tx') = SubSeq(batch', 1, Len(tx'))
      BY DEF Die, OpsOf
    <2> QED BY <2>3, <2>4, <2>5, <2>6 DEF IInv, OpsConserved
  <1>3. WriterState'
    BY CapAssumption DEF IInv, TypeOK, WriterState, Die
  <1>4. NoFaultNoLoss'
    BY DEF IInv, TypeOK, NoFaultNoLoss, Die
  <1>5. FlushMarks'
    <2>1. Len(settled') >= Len(settled) + Len(tx) /\ Len(tx') = 0
      BY <1>0 DEF IInv, TypeOK, WriterState, Die
    <2>2. \A f \in Flushers : fpc'[f] = "returned" => fpc[f] = "returned"
      BY DEF IInv, TypeOK, Die
    <2>3. \A f \in Flushers : fpc'[f] = "idle" => fpc[f] = "idle"
      BY DEF IInv, TypeOK, Die
    <2>4. Len(settled') \in Nat
      BY <1>1 DEF TypeOK
    <2> QED BY <2>1, <2>2, <2>3, <2>4 DEF IInv, TypeOK, FlushMarks, Die
  <1> QED BY <1>1, <1>2, <1>3, <1>4, <1>5 DEF IInv

(* An accepted send appends the same operation to channel and history.     *)
LEMMA AcceptedConserves ==
    ASSUME IInv, NEW op \in Op, SendAccepted(op)
    PROVE  OpsConserved'
  <1>1. OpsOf(settled) \in Seq(Op)
    BY OpsOfProperties DEF IInv, TypeOK
  <1>2. OpsOf(settled) \o batch \in Seq(Op)
    BY <1>1 DEF IInv, TypeOK
  <1>3. OpsOf(settled) \o batch \o Append(queue, op)
           = Append(OpsOf(settled) \o batch \o queue, op)
    BY <1>2, ConcatAppend DEF IInv, TypeOK
  <1> QED BY <1>3 DEF SendAccepted, IInv, OpsConserved

(* Sends that leave the process alive keep every part but FlushMarks.      *)
LEMMA SendStep ==
    ASSUME IInv, NEW op \in Op, SendAccepted(op),
           fpc' \in [Flushers -> {"idle", "waiting", "returned", "skipped", "gone"}],
           mark' \in [Flushers -> Nat]
    PROVE  TypeOK' /\ OpsConserved' /\ WriterState' /\ NoFaultNoLoss'
  <1>1. TypeOK'
    BY CapAssumption DEF IInv, TypeOK, SendAccepted
  <1>2. OpsConserved'
    BY AcceptedConserves
  <1>3. WriterState'
    BY DEF IInv, TypeOK, WriterState, SendAccepted
  <1>4. NoFaultNoLoss'
    BY DEF IInv, NoFaultNoLoss, SendAccepted
  <1> QED BY <1>1, <1>2, <1>3, <1>4

LEMMA DroppedStep ==
    ASSUME IInv, SendDropped,
           fpc' \in [Flushers -> {"idle", "waiting", "returned", "skipped", "gone"}],
           mark' \in [Flushers -> Nat]
    PROVE  TypeOK' /\ OpsConserved' /\ WriterState' /\ NoFaultNoLoss'
  <1>1. TypeOK'
    BY DEF IInv, TypeOK, SendDropped
  <1>2. OpsConserved'
    BY DEF IInv, OpsConserved, SendDropped
  <1>3. WriterState'
    BY DEF IInv, WriterState, SendDropped
  <1>4. NoFaultNoLoss'
    BY DEF IInv, NoFaultNoLoss, SendDropped
  <1> QED BY <1>1, <1>2, <1>3, <1>4

(* Any operation but a marker.                                             *)
LEMMA OfferStep ==
    ASSUME IInv, NEW k \in Kinds, NEW s \in Sessions, Offer([kind |-> k, id |-> s])
    PROVE  IInv'
  <1> DEFINE op == [kind |-> k, id |-> s]
  <1>0. op \in Op /\ \A f \in Flushers : op # FlushOp(f)
    BY OpTypes
  <1> HIDE DEF op
  <1>1. CASE SendAccepted(op) /\ UNCHANGED <<fpc, mark>>
    <2>1. TypeOK' /\ OpsConserved' /\ WriterState' /\ NoFaultNoLoss'
      BY <1>0, <1>1, SendStep DEF IInv, TypeOK
    <2>2. FlushMarks'
      BY <1>0, <1>1 DEF IInv, TypeOK, FlushMarks, SendAccepted
    <2> QED BY <2>1, <2>2 DEF IInv
  <1>2. CASE SendDropped /\ UNCHANGED <<fpc, mark>>
    <2>1. TypeOK' /\ OpsConserved' /\ WriterState' /\ NoFaultNoLoss'
      BY <1>2, DroppedStep DEF IInv, TypeOK
    <2>2. FlushMarks'
      BY <1>2 DEF IInv, TypeOK, FlushMarks, SendDropped
    <2> QED BY <2>1, <2>2 DEF IInv
  <1>3. CASE SendPanics
    BY <1>3, DieStep DEF SendPanics
  <1> QED BY <1>1, <1>2, <1>3 DEF Offer, op

LEMMA FlushNowStep ==
    ASSUME IInv, NEW f \in Flushers, FlushNow(f)
    PROVE  IInv'
  <1>0. FlushOp(f) \in Op /\ \A g \in Flushers : FlushOp(f) = FlushOp(g) => f = g
    BY OpTypes
  <1>1. fpc[f] = "idle" /\ f \notin doneCh
    BY DEF IInv, FlushMarks, FlushNow
  <1>2. CASE SendAccepted(FlushOp(f)) /\ fpc' = [fpc EXCEPT ![f] = "waiting"]
             /\ mark' = [mark EXCEPT ![f] = Len(accepted)]
    <2>0. /\ fpc' \in [Flushers -> {"idle", "waiting", "returned", "skipped", "gone"}]
          /\ mark' \in [Flushers -> Nat]
      BY <1>2 DEF IInv, TypeOK
    <2>1. TypeOK' /\ OpsConserved' /\ WriterState' /\ NoFaultNoLoss'
      BY <1>0, <1>2, <2>0, SendStep
    <2>2. ASSUME NEW i \in DOMAIN accepted', NEW g \in Flushers, accepted'[i] = FlushOp(g)
          PROVE  i = mark'[g] + 1 /\ fpc'[g] # "idle"
      <3>1. CASE i \in DOMAIN accepted
        BY <1>1, <1>2, <2>2, <3>1 DEF IInv, TypeOK, FlushMarks, SendAccepted
      <3>2. CASE i = Len(accepted) + 1
        BY <1>0, <1>2, <2>2, <3>2 DEF IInv, TypeOK, SendAccepted
      <3> QED BY <1>0, <1>2, <3>1, <3>2 DEF IInv, TypeOK, SendAccepted
    <2>3. ASSUME NEW g \in Flushers, g \in doneCh' \/ fpc'[g] = "returned"
          PROVE  Len(settled') + Len(tx') > mark'[g]
      <3>1. g # f
        BY <1>1, <1>2, <2>3 DEF IInv, TypeOK, SendAccepted
      <3> QED BY <1>2, <2>3, <3>1 DEF IInv, TypeOK, FlushMarks, SendAccepted
    <2>4. \A g \in doneCh' : fpc'[g] # "idle"
      BY <1>2 DEF IInv, TypeOK, FlushMarks, SendAccepted
    <2>5. FlushMarks'
      BY <2>2, <2>3, <2>4 DEF FlushMarks
    <2> QED BY <2>1, <2>5 DEF IInv
  <1>3. CASE SendDropped /\ fpc' = [fpc EXCEPT ![f] = "skipped"]
             /\ mark' = [mark EXCEPT ![f] = Len(accepted)]
    <2>0. /\ fpc' \in [Flushers -> {"idle", "waiting", "returned", "skipped", "gone"}]
          /\ mark' \in [Flushers -> Nat]
      BY <1>3 DEF IInv, TypeOK
    <2>1. TypeOK' /\ OpsConserved' /\ WriterState' /\ NoFaultNoLoss'
      BY <1>3, <2>0, DroppedStep
    <2>2. FlushMarks'
      BY <1>1, <1>3 DEF IInv, TypeOK, FlushMarks, SendDropped
    <2> QED BY <2>1, <2>2 DEF IInv
  <1>4. CASE SendPanics
    BY <1>4, DieStep DEF SendPanics
  <1> QED BY <1>2, <1>3, <1>4 DEF FlushNow

LEMMA FlushReturnStep ==
    ASSUME IInv, NEW f \in Flushers, FlushReturn(f)
    PROVE  IInv'
  <1>1. TypeOK'
    BY DEF IInv, TypeOK, FlushReturn
  <1>2. OpsConserved' /\ NoFaultNoLoss'
    BY DEF IInv, OpsConserved, NoFaultNoLoss, FlushReturn
  <1>3. WriterState'
    BY DEF IInv, WriterState, FlushReturn
  <1>4. FlushMarks'
    BY DEF IInv, TypeOK, FlushMarks, FlushReturn
  <1> QED BY <1>1, <1>2, <1>3, <1>4 DEF IInv

LEMMA CloseStep ==
    ASSUME IInv, NEW c \in Closers, Close(c)
    PROVE  IInv'
  <1>1. TypeOK'
    BY DEF IInv, TypeOK, Close
  <1>2. OpsConserved' /\ NoFaultNoLoss'
    BY DEF IInv, OpsConserved, NoFaultNoLoss, Close
  <1>3. WriterState'
    BY DEF IInv, TypeOK, WriterState, Close
  <1>4. FlushMarks'
    BY DEF IInv, FlushMarks, Close
  <1> QED BY <1>1, <1>2, <1>3, <1>4 DEF IInv

LEMMA CloseReturnStep ==
    ASSUME IInv, NEW c \in Closers, CloseReturn(c)
    PROVE  IInv'
  <1>1. TypeOK'
    BY DEF IInv, TypeOK, CloseReturn
  <1>2. OpsConserved' /\ NoFaultNoLoss'
    BY DEF IInv, OpsConserved, NoFaultNoLoss, CloseReturn
  <1>3. WriterState'
    BY DEF IInv, TypeOK, WriterState, CloseReturn
  <1>4. FlushMarks'
    BY DEF IInv, FlushMarks, CloseReturn
  <1> QED BY <1>1, <1>2, <1>3, <1>4 DEF IInv

LEMMA NewStoreStep ==
    ASSUME IInv, NewStore
    PROVE  IInv'
  <1>1. TypeOK'
    BY DEF IInv, TypeOK, NewStore
  <1>2. OpsConserved' /\ NoFaultNoLoss'
    BY DEF IInv, OpsConserved, NoFaultNoLoss, NewStore
  <1>3. WriterState'
    BY DEF IInv, WriterState, NewStore
  <1>4. FlushMarks'
    BY DEF IInv, FlushMarks, NewStore
  <1> QED BY <1>1, <1>2, <1>3, <1>4 DEF IInv

-----------------------------------------------------------------------------
(* The writer.                                                             *)
LEMMA RecvStep ==
    ASSUME IInv, Recv
    PROVE  IInv'
  <1>0. /\ Head(queue) \in Op /\ Tail(queue) \in Seq(Op)
        /\ Len(Tail(queue)) = Len(queue) - 1 /\ queue # <<>>
        /\ Len(batch') = Len(batch) + 1
    BY DEF IInv, TypeOK, Recv
  <1>a. Len(batch) < MaxBatch /\ tx = <<>> /\ ~exiting /\ dbOpen
        /\ (\A c \in Closers : cpc[c] # "returned")
    BY DEF IInv, WriterState, Recv
  <1>b. batch' \in Seq(Op) /\ Len(batch') <= MaxBatch /\ batch' # <<>>
    BY <1>0, <1>a, CapAssumption DEF IInv, TypeOK, Recv
  <1>c. wpc' = "begin" \/ (wpc' = "select" /\ Len(batch') < MaxBatch)
    BY <1>0, <1>b, CapAssumption DEF IInv, TypeOK, Recv
  <1>1. TypeOK'
    <2>1. queue' \in Seq(Op) /\ Len(queue') <= QueueCap
      BY <1>0, CapAssumption DEF IInv, TypeOK, Recv
    <2>2. wpc' \in {"select", "begin", "apply", "stopped"}
      BY <1>c
    <2> QED BY <1>b, <2>1, <2>2 DEF IInv, TypeOK, Recv, callers
  <1>2. OpsConserved'
    <2>1. OpsOf(settled) \in Seq(Op)
      BY OpsOfProperties DEF IInv, TypeOK
    <2>2. OpsOf(settled) \o batch' \o queue' = OpsOf(settled) \o (batch' \o queue')
      BY <1>1, <2>1, ConcatAssoc DEF TypeOK
    <2>3. batch' \o queue' = batch \o queue
      BY <1>0, MoveHead DEF IInv, TypeOK, Recv
    <2>4. OpsOf(settled) \o (batch \o queue) = OpsOf(settled) \o batch \o queue
      BY <2>1, ConcatAssoc DEF IInv, TypeOK
    <2>5. tx = <<>> /\ tx' = tx /\ settled' = settled /\ accepted' = accepted
      BY DEF IInv, WriterState, Recv, callers
    <2>6. OpsOf(tx') = SubSeq(batch', 1, Len(tx'))
      BY <2>5 DEF OpsOf
    <2> QED BY <2>2, <2>3, <2>4, <2>5, <2>6 DEF IInv, OpsConserved
  <1>3. WriterState'
    <2>1. Len(tx') <= Len(batch')
      BY <1>a, <1>b DEF Recv
    <2> QED BY <1>a, <1>b, <1>c, <2>1 DEF WriterState, Recv, callers
  <1>4. NoFaultNoLoss' /\ FlushMarks'
    BY DEF IInv, NoFaultNoLoss, FlushMarks, Recv, callers
  <1> QED BY <1>1, <1>2, <1>3, <1>4 DEF IInv

(* RecvClosed, Tick and BeginOk move the writer and touch no operation.    *)
LEMMA QuietStep ==
    ASSUME IInv, RecvClosed \/ Tick \/ BeginOk
    PROVE  IInv'
  <1>1. TypeOK'
    BY DEF IInv, TypeOK, RecvClosed, Tick, BeginOk, callers
  <1>2. OpsConserved' /\ NoFaultNoLoss'
    BY DEF IInv, OpsConserved, NoFaultNoLoss, RecvClosed, Tick, BeginOk, callers
  <1>3. WriterState'
    BY DEF IInv, TypeOK, WriterState, RecvClosed, Tick, BeginOk, callers
  <1>4. FlushMarks'
    BY DEF IInv, FlushMarks, RecvClosed, Tick, BeginOk, callers
  <1> QED BY <1>1, <1>2, <1>3, <1>4 DEF IInv

(* A flush ends: the whole batch is settled, in order, whatever became of  *)
(* each operation.                                                         *)
LEMMA FlushOverStep ==
    ASSUME IInv, NEW entries \in Seq(Entry), OpsOf(entries) = batch,
           wpc \in {"begin", "apply"}, FlushOver(entries), faults' \in Nat,
           faults' = 0 /\ deaths = 0 => faults = 0 /\ \A i \in DOMAIN entries : entries[i].ok
    PROVE  IInv'
  <1>0. /\ Len(entries) = Len(batch) /\ OpsOf(settled) \in Seq(Op)
        /\ settled' = settled \o entries
        /\ settled' \in Seq(Entry) /\ Len(settled') = Len(settled) + Len(entries)
    BY OpsOfProperties DEF IInv, TypeOK, FlushOver
  <1>1. TypeOK'
    BY <1>0, CapAssumption DEF IInv, TypeOK, FlushOver, callers
  <1>2. OpsConserved'
    <2>1. OpsOf(settled') = OpsOf(settled) \o batch
      BY <1>0, OpsOfConcat DEF IInv, TypeOK
    <2>2. OpsOf(settled') \o batch' \o queue' = OpsOf(settled) \o batch \o queue
      BY <1>0, <2>1 DEF IInv, TypeOK, FlushOver
    <2>3. OpsOf(tx') = SubSeq(batch', 1, Len(tx')) /\ accepted' = accepted
      BY DEF FlushOver, OpsOf, callers
    <2> QED BY <2>2, <2>3 DEF IInv, OpsConserved
  <1>3. WriterState'
    BY CapAssumption DEF IInv, TypeOK, WriterState, FlushOver, callers
  <1>4. NoFaultNoLoss'
    <2> SUFFICES ASSUME faults' = 0, deaths' = 0, NEW i \in 1..Len(settled')
                 PROVE  settled'[i].ok
      <3>1. DOMAIN settled' = 1..Len(settled') /\ tx' = <<>>
        BY <1>0 DEF FlushOver
      <3> QED BY <3>1 DEF NoFaultNoLoss
    <2>1. /\ \A j \in 1..Len(settled) : settled[j].ok
          /\ \A j \in 1..Len(entries) : entries[j].ok
          /\ Len(settled) \in Nat /\ Len(entries) \in Nat
      BY DEF IInv, TypeOK, NoFaultNoLoss, FlushOver, callers
    <2>2. settled'[i] = IF i <= Len(settled) THEN settled[i] ELSE entries[i - Len(settled)]
      BY <1>0 DEF IInv, TypeOK
    <2>3. CASE i <= Len(settled)
      BY <2>1, <2>2, <2>3
    <2>4. CASE i > Len(settled)
      BY <1>0, <2>1, <2>2, <2>4
    <2>5. i <= Len(settled) \/ i > Len(settled)
      BY <1>0, <2>1
    <2> QED BY <2>3, <2>4, <2>5
  <1>5. FlushMarks'
    <2>1. Len(settled') + Len(tx') >= Len(settled) + Len(tx)
      BY <1>0 DEF IInv, TypeOK, WriterState, FlushOver
    <2>2. Len(settled') + Len(tx') \in Nat /\ Len(settled) + Len(tx) \in Nat
      BY <1>1 DEF IInv, TypeOK
    <2> QED BY <2>1, <2>2 DEF IInv, TypeOK, FlushMarks, FlushOver, callers
  <1> QED BY <1>1, <1>2, <1>3, <1>4, <1>5 DEF IInv

LEMMA BeginFailsStep ==
    ASSUME IInv, BeginFails
    PROVE  IInv'
  <1>1. Lost(batch) \in Seq(Entry) /\ OpsOf(Lost(batch)) = batch
    BY LostProperties DEF IInv, TypeOK
  <1>2. faults' \in Nat /\ faults' # 0
    BY DEF IInv, TypeOK, BeginFails
  <1> QED BY <1>1, <1>2, FlushOverStep DEF BeginFails

LEMMA CommitStep ==
    ASSUME IInv, Commit
    PROVE  IInv'
  <1>1. Lost(batch) \in Seq(Entry) /\ OpsOf(Lost(batch)) = batch
    BY LostProperties DEF IInv, TypeOK
  <1>2. OpsOf(tx) = batch
    BY SubSeqFull DEF IInv, TypeOK, OpsConserved, Commit
  <1>3. CASE FlushOver(tx) /\ UNCHANGED faults
    <2>1. faults = 0 /\ deaths = 0 => \A i \in DOMAIN tx : tx[i].ok
      BY DEF IInv, NoFaultNoLoss
    <2>2. tx \in Seq(Entry) /\ faults' \in Nat /\ faults' = faults
      BY <1>3 DEF IInv, TypeOK
    <2> QED BY <1>2, <1>3, <2>1, <2>2, FlushOverStep DEF Commit
  <1>4. CASE faults' = faults + 1 /\ FlushOver(Lost(batch))
    <2>1. faults' \in Nat /\ faults' # 0
      BY <1>4 DEF IInv, TypeOK
    <2> QED BY <1>1, <1>4, <2>1, FlushOverStep DEF Commit
  <1> QED BY <1>3, <1>4 DEF Commit

(* One operation of the batch is applied.                                  *)
LEMMA ApplyOpStep ==
    ASSUME IInv, NEW ok \in BOOLEAN, ApplyOp(ok)
    PROVE  IInv'
  <1> DEFINE n == Len(tx) + 1
             op == batch[n]
             e == [op |-> op, ok |-> ok]
             pos == Len(settled) + n
  <1>1. /\ n \in 1..Len(batch) /\ op \in Op /\ e \in Entry /\ e.op = op /\ e.ok = ok
        /\ tx' = Append(tx, e) /\ tx' \in Seq(Entry) /\ Len(tx') = n
    BY DEF IInv, TypeOK, ApplyOp, Entry
  <1>2. doneCh' = (IF op.kind = "flush" THEN doneCh \cup {op.id} ELSE doneCh)
        /\ ((faults' = faults /\ ok) \/ faults' = faults + 1)
        /\ wpc = "apply"
        /\ UNCHANGED <<callers, queue, batch, wpc, exiting, settled>>
    BY DEF ApplyOp
  <1>3. op.kind = "flush" => \E f \in Flushers : op = FlushOp(f) /\ op.id = f
    BY <1>1, OpTypes
  <1>4. pos \in DOMAIN accepted /\ accepted[pos] = op
    <2>1. OpsOf(settled) \in Seq(Op) /\ Len(OpsOf(settled)) = Len(settled)
      BY OpsOfProperties DEF IInv, TypeOK
    <2>2. (OpsOf(settled) \o batch) \in Seq(Op)
          /\ Len(OpsOf(settled) \o batch) = Len(settled) + Len(batch)
          /\ (OpsOf(settled) \o batch)[pos] = op
      <3>1. batch \in Seq(Op)
        BY DEF IInv, TypeOK
      <3> HIDE DEF n
      <3>2. /\ OpsOf(settled) \o batch \in Seq(Op)
            /\ Len(OpsOf(settled) \o batch) = Len(OpsOf(settled)) + Len(batch)
            /\ (OpsOf(settled) \o batch)[Len(OpsOf(settled)) + n] = batch[n]
        BY <1>1, <2>1, <3>1, ConcatIndex
      <3> QED BY <2>1, <3>2
    <2>3. pos \in 1..(Len(settled) + Len(batch))
      BY <1>1 DEF IInv, TypeOK
    <2> HIDE DEF n, op, pos
    <2> QED BY <2>2, <2>3 DEF IInv, TypeOK, OpsConserved
  <1>5. TypeOK'
    <2>1. doneCh' \subseteq Flushers
      BY <1>2, <1>3 DEF IInv, TypeOK
    <2>2. faults' \in Nat
      BY <1>2 DEF IInv, TypeOK
    <2> QED BY <1>1, <1>2, <2>1, <2>2 DEF IInv, TypeOK, callers
  <1>6. OpsConserved'
    <2>1. OpsOf(tx') = Append(SubSeq(batch, 1, Len(tx)), op)
      BY <1>1, OpsOfAppend DEF IInv, TypeOK, OpsConserved
    <2>2. Append(SubSeq(batch, 1, Len(tx)), op) = SubSeq(batch, 1, n)
      BY <1>1 DEF IInv, TypeOK
    <2> QED BY <1>1, <1>2, <2>1, <2>2 DEF IInv, OpsConserved, callers
  <1>7. WriterState'
    BY <1>1, <1>2 DEF IInv, TypeOK, WriterState, callers
  <1>8. NoFaultNoLoss'
    <2> SUFFICES ASSUME faults' = 0, deaths' = 0 PROVE \A i \in DOMAIN tx' : tx'[i].ok
      BY <1>2 DEF IInv, TypeOK, NoFaultNoLoss, callers
    <2>1. faults = 0 /\ deaths = 0 /\ ok
      BY <1>2 DEF IInv, TypeOK, callers
    <2>2. \A i \in DOMAIN tx : tx[i].ok
      BY <2>1 DEF IInv, NoFaultNoLoss
    <2>3. \A i \in DOMAIN tx' : (i \in DOMAIN tx /\ tx'[i] = tx[i]) \/ tx'[i] = e
      BY <1>1 DEF IInv, TypeOK
    <2> HIDE DEF e
    <2> QED BY <1>1, <2>1, <2>2, <2>3
  <1>9. FlushMarks'
    <2>1. Len(settled') + Len(tx') = Len(settled) + Len(tx) + 1
          /\ Len(settled) \in Nat /\ Len(tx) \in Nat
      BY <1>1, <1>2 DEF IInv, TypeOK
    <2>2. \A f \in Flushers : op = FlushOp(f) => pos = mark[f] + 1 /\ fpc[f] # "idle"
      BY <1>4 DEF IInv, FlushMarks
    <2>3. ASSUME NEW f \in Flushers, f \in doneCh' \/ fpc'[f] = "returned"
          PROVE  Len(settled') + Len(tx') > mark'[f]
      <3>1. CASE f \in doneCh \/ fpc[f] = "returned"
        BY <1>2, <2>1, <3>1 DEF IInv, TypeOK, FlushMarks, callers
      <3>2. CASE op = FlushOp(f)
        BY <1>2, <2>1, <2>2, <3>2 DEF IInv, TypeOK, callers
      <3> QED BY <1>2, <1>3, <2>3, <3>1, <3>2 DEF callers
    <2>4. \A f \in doneCh' : fpc'[f] # "idle"
      BY <1>2, <1>3, <2>2 DEF IInv, FlushMarks, callers
    <2>5. \A i \in DOMAIN accepted' : \A f \in Flushers :
             accepted'[i] = FlushOp(f) => i = mark'[f] + 1 /\ fpc'[f] # "idle"
      BY <1>2 DEF IInv, FlushMarks, callers
    <2> QED BY <2>3, <2>4, <2>5 DEF FlushMarks
  <1> QED BY <1>5, <1>6, <1>7, <1>8, <1>9 DEF IInv

LEMMA StutterStep ==
    ASSUME IInv, UNCHANGED vars
    PROVE  IInv'
  <1> USE DEF vars, store
  <1>1. TypeOK'
    BY DEF IInv, TypeOK
  <1>2. OpsConserved' /\ NoFaultNoLoss'
    BY DEF IInv, OpsConserved, NoFaultNoLoss
  <1>3. WriterState'
    BY DEF IInv, WriterState
  <1>4. FlushMarks'
    BY DEF IInv, FlushMarks
  <1> QED BY <1>1, <1>2, <1>3, <1>4 DEF IInv

(* IInv is inductive.                                                      *)
LEMMA NextIInv == IInv /\ [Next]_vars => IInv'
  <1> SUFFICES ASSUME IInv, [Next]_vars PROVE IInv'
    OBVIOUS
  <1>1. CASE CallOp
    <2>1. ASSUME NEW s \in Sessions, StartSession(s) \/ EndSession(s) \/ AddQualitySample(s)
                 \/ AddEvent(s) \/ \E zero \in BOOLEAN : UpdateSession(s, zero)
          PROVE  \E k \in Kinds : Offer([kind |-> k, id |-> s])
      BY <2>1 DEF StartSession, EndSession, AddQualitySample, AddEvent, UpdateSession, Kinds
    <2> QED BY <1>1, <2>1, OfferStep, FlushNowStep DEF CallOp
  <1>2. CASE Writer
    BY <1>2, RecvStep, QuietStep, BeginFailsStep, ApplyOpStep, CommitStep DEF Writer
  <1>3. CASE \E f \in Flushers : FlushReturn(f)
    BY <1>3, FlushReturnStep
  <1>4. CASE \E c \in Closers : Close(c) \/ CloseReturn(c)
    BY <1>4, CloseStep, CloseReturnStep
  <1>5. CASE Crash
    BY <1>5, DieStep DEF Crash
  <1>6. CASE NewStore
    BY <1>6, NewStoreStep
  <1>7. CASE UNCHANGED vars
    BY <1>7, StutterStep
  <1> QED BY <1>1, <1>2, <1>3, <1>4, <1>5, <1>6, <1>7 DEF Next

(* Every behaviour of the store satisfies the inductive invariant.         *)
THEOREM StoreInvariant == Spec => []IInv
  BY InitIInv, NextIInv, PTL DEF Spec

(* The channel and the batch stay within their bounds and every variable   *)
(* within its type, for any number of sessions, callers, faults and deaths.*)
THEOREM StoreTypeOK == Spec => []TypeOK
  <1>1. IInv => TypeOK
    BY DEF IInv
  <1> QED BY <1>1, StoreInvariant, PTL

(* No accepted operation is forgotten, duplicated or reordered.            *)
THEOREM StoreConservesOps == Spec => []OpsConserved
  <1>1. IInv => OpsConserved
    BY DEF IInv
  <1> QED BY <1>1, StoreInvariant, PTL

(* The writer never touches a database that Close has closed.              *)
THEOREM WriterAlwaysHasDB == Spec => []WriterHasDB
  <1>1. IInv => WriterHasDB
    BY DEF IInv, WriterState, WriterHasDB
  <1> QED BY <1>1, StoreInvariant, PTL

(* When Close has returned, everything accepted is settled, and kept if    *)
(* nothing failed.                                                         *)
THEOREM CloseAlwaysDrains == Spec => []CloseDrains
  <1>1. IInv => CloseDrains
    <2> SUFFICES ASSUME IInv, \E c \in Closers : cpc[c] = "returned"
                 PROVE  /\ Len(settled) = Len(accepted)
                        /\ faults = 0 /\ deaths = 0 => \A i \in DOMAIN settled : settled[i].ok
      BY DEF CloseDrains
    <2>1. queue = <<>> /\ batch = <<>>
      BY DEF IInv, WriterState
    <2>2. OpsOf(settled) \in Seq(Op) /\ Len(OpsOf(settled)) = Len(settled)
      BY OpsOfProperties DEF IInv, TypeOK
    <2>3. OpsOf(settled) \o batch \o queue = OpsOf(settled)
      BY <2>1, <2>2
    <2> QED BY <2>2, <2>3 DEF IInv, OpsConserved, NoFaultNoLoss
  <1> QED BY <1>1, StoreInvariant, PTL

(* When FlushNow returns from its wait, every earlier operation has been   *)
(* applied or settled.                                                     *)
THEOREM FlushNowAlwaysApplied == Spec => []FlushNowApplied
  <1>1. IInv => FlushNowApplied
    BY DEF IInv, FlushMarks, FlushNowApplied
  <1> QED BY <1>1, StoreInvariant, PTL

-----------------------------------------------------------------------------
(* The abstract log.  Settling the oldest operations of pending is one     *)
(* step of it, whatever the outcomes are.                                  *)
LEMMA SettleStep ==
    ASSUME IInv, NEW entries \in Seq(Entry), NEW p \in Seq(Op), NEW r \in Seq(Op),
           OpsOf(entries) = p, batch \o queue = p \o r,
           settled' = settled \o entries, (batch \o queue)' = r
    PROVE  [Log!LogNext]_Log!logVars
  <1> DEFINE n == Len(p)
             kept == [i \in 1..n |-> entries[i].ok]
             made == [i \in 1..n |-> [op |-> (p \o r)[i], ok |-> kept[i]]]
  <1>1. Len(entries) = n /\ n \in Nat /\ Len(r) \in Nat /\ Len(p \o r) = n + Len(r)
    BY OpsOfProperties
  <1>2. entries \in [1..n -> Entry] /\ kept \in [1..n -> BOOLEAN]
    <2>1. entries \in [1..n -> Entry]
      BY <1>1, LenProperties
    <2>2. \A i \in 1..n : entries[i].ok \in BOOLEAN
      BY <2>1 DEF Entry
    <2> QED BY <2>1, <2>2
  <1>3. ASSUME NEW i \in 1..n
        PROVE  entries[i] = [op |-> (p \o r)[i], ok |-> kept[i]]
    <2>1. entries[i].op = p[i]
      BY <1>1, OpsOfProperties
    <2>2. (p \o r)[i] = p[i]
      BY <1>1
    <2>3. entries[i] \in Entry
      BY <1>2
    <2> QED BY <2>1, <2>2, <2>3 DEF Entry
  <1>4. entries = made
    BY <1>2, <1>3
  <1>5. r = SubSeq(p \o r, n + 1, Len(p \o r))
    BY ConcatTail
  <1>6. CASE p = <<>>
    <2>1. entries = <<>>
      BY <1>1, <1>6
    <2>2. settled' = settled
      BY <2>1 DEF IInv, TypeOK
    <2>3. p \o r = r
      BY <1>6
    <2> QED BY <2>2, <2>3 DEF Log!logVars
  <1>7. CASE p # <<>>
    <2>1. n \in 1..Len(batch \o queue)
      BY <1>1, <1>7
    <2> HIDE DEF n, made
    <2>2. Log!Settle(n)
      BY <1>2, <1>4, <1>5 DEF Log!Settle, made
    <2> QED BY <2>1, <2>2 DEF Log!LogNext
  <1> QED BY <1>6, <1>7

LEMMA DieSettles ==
    ASSUME IInv, NEW how, Die(how)
    PROVE  [Log!LogNext]_Log!logVars
  <1> DEFINE p == batch \o queue
  <1>1. p \in Seq(Op) /\ p = p \o <<>> /\ <<>> \in Seq(Op)
    BY DEF IInv, TypeOK
  <1>2. Lost(p) \in Seq(Entry) /\ OpsOf(Lost(p)) = p
    BY <1>1, LostProperties
  <1>3. settled' = settled \o Lost(p) /\ (batch \o queue)' = <<>>
    BY DEF Die
  <1> HIDE DEF p
  <1>4. batch \o queue = p
    BY DEF p
  <1> QED BY <1>1, <1>2, <1>3, <1>4, SettleStep

LEMMA FlushOverSettles ==
    ASSUME IInv, NEW entries \in Seq(Entry), OpsOf(entries) = batch, FlushOver(entries)
    PROVE  [Log!LogNext]_Log!logVars
  <1>1. (batch \o queue)' = queue
    BY DEF IInv, TypeOK, FlushOver
  <1> QED BY <1>1, SettleStep DEF IInv, TypeOK, FlushOver

LEMMA SendLogs ==
    ASSUME IInv, NEW op \in Op, SendAccepted(op) \/ SendDropped \/ SendPanics
    PROVE  [Log!LogNext]_Log!logVars
  <1>1. CASE SendAccepted(op)
    <2>1. (batch \o queue)' = Append(batch \o queue, op)
      BY <1>1, ConcatAppend DEF IInv, TypeOK, SendAccepted
    <2>2. Log!Accept(op)
      BY <1>1, <2>1 DEF Log!Accept, SendAccepted
    <2> QED BY <2>2 DEF Log!LogNext
  <1>2. CASE SendDropped
    <2>1. UNCHANGED <<batch, queue, settled>>
      BY <1>2 DEF SendDropped
    <2> QED BY <2>1 DEF Log!logVars
  <1>3. CASE SendPanics
    BY <1>3, DieSettles DEF SendPanics
  <1> QED BY <1>1, <1>2, <1>3

LEMMA WriterLogs ==
    ASSUME IInv, Writer
    PROVE  [Log!LogNext]_Log!logVars
  <1>0. Lost(batch) \in Seq(Entry) /\ OpsOf(Lost(batch)) = batch
    BY LostProperties DEF IInv, TypeOK
  <1>1. CASE Recv
    <2>1. (batch \o queue)' = batch \o queue
      BY <1>1, MoveHead DEF IInv, TypeOK, Recv
    <2> QED BY <1>1, <2>1 DEF Recv, Log!logVars
  <1>2. CASE RecvClosed \/ Tick \/ BeginOk
    <2>1. UNCHANGED <<batch, queue, settled>>
      BY <1>2 DEF RecvClosed, Tick, BeginOk
    <2> QED BY <2>1 DEF Log!logVars
  <1>3. CASE BeginFails
    BY <1>0, <1>3, FlushOverSettles DEF BeginFails
  <1>4. CASE \E ok \in BOOLEAN : ApplyOp(ok)
    <2>1. UNCHANGED <<batch, queue, settled>>
      BY <1>4 DEF ApplyOp
    <2> QED BY <2>1 DEF Log!logVars
  <1>5. CASE Commit
    <2>1. OpsOf(tx) = batch /\ tx \in Seq(Entry)
      BY <1>5, SubSeqFull DEF IInv, TypeOK, OpsConserved, Commit
    <2> QED BY <1>0, <1>5, <2>1, FlushOverSettles DEF Commit
  <1> QED BY <1>1, <1>2, <1>3, <1>4, <1>5 DEF Writer

LEMMA NextLogs == IInv /\ [Next]_vars => [Log!LogNext]_Log!logVars
  <1> SUFFICES ASSUME IInv, [Next]_vars PROVE [Log!LogNext]_Log!logVars
    OBVIOUS
  <1>1. CASE CallOp
    <2>1. CASE \E s \in Sessions, k \in Kinds : Offer([kind |-> k, id |-> s])
      BY <2>1, SendLogs, OpTypes DEF Offer
    <2>2. CASE \E f \in Flushers : FlushNow(f)
      BY <2>2, SendLogs, OpTypes DEF FlushNow
    <2>3. (\E s \in Sessions, k \in Kinds : Offer([kind |-> k, id |-> s]))
          \/ (\E f \in Flushers : FlushNow(f))
      BY <1>1 DEF CallOp, StartSession, EndSession, AddQualitySample, AddEvent,
                  UpdateSession, Kinds
    <2> QED BY <2>1, <2>2, <2>3
  <1>2. CASE Writer
    BY <1>2, WriterLogs
  <1>3. CASE \E f \in Flushers : FlushReturn(f)
    BY <1>3 DEF FlushReturn, Log!logVars
  <1>4. CASE \E c \in Closers : Close(c) \/ CloseReturn(c)
    BY <1>4 DEF Close, CloseReturn, Log!logVars
  <1>5. CASE Crash
    BY <1>5, DieSettles DEF Crash
  <1>6. CASE NewStore
    BY <1>6 DEF NewStore, Log!logVars
  <1>7. CASE UNCHANGED vars
    BY <1>7 DEF vars, store, Log!logVars
  <1> QED BY <1>1, <1>2, <1>3, <1>4, <1>5, <1>6, <1>7 DEF Next

(* The store implements the asynchronous log: with pending read as the     *)
(* batch followed by the channel, every step accepts one operation,        *)
(* settles a prefix of pending, or changes neither.                        *)
THEOREM StoreImplementsLog == Spec => LogRefined
  <1>1. Init => Log!LogInit
    BY DEF Init, Log!LogInit
  <1> QED BY <1>1, StoreInvariant, NextLogs, PTL DEF Spec, LogRefined, Log!LogSpec

-----------------------------------------------------------------------------
LEMMA ConcatHead ==
    ASSUME NEW s \in Seq(Entry), NEW t \in Seq(Entry)
    PROVE  SubSeq(s \o t, 1, Len(s)) = s
  <1> DEFINE u == SubSeq(s \o t, 1, Len(s))
  <1>1. s \o t \in Seq(Entry) /\ Len(s \o t) = Len(s) + Len(t)
        /\ Len(s) \in Nat /\ Len(t) \in Nat
    OBVIOUS
  <1>2. u \in Seq(Entry) /\ Len(u) = Len(s)
    BY <1>1
  <1>3. ASSUME NEW i \in 1..Len(s) PROVE s[i] = u[i]
    BY <1>1
  <1> HIDE DEF u
  <1>4. s = u
    BY <1>2, <1>3, SeqEqual
  <1> QED BY <1>4 DEF u

(* Whenever the settled operations change, the whole batch has joined them.*)
LEMMA SettlesWholeBatch ==
    ASSUME IInv, Next, settled' # settled
    PROVE  \E t \in Seq(Entry) : settled' = settled \o t /\ Len(t) >= Len(batch)
  <1>1. ASSUME NEW how, Die(how)
        PROVE  \E t \in Seq(Entry) : settled' = settled \o t /\ Len(t) >= Len(batch)
    <2> DEFINE p == batch \o queue
    <2>1. p \in Seq(Op) /\ Len(p) >= Len(batch)
      BY DEF IInv, TypeOK
    <2>2. Lost(p) \in Seq(Entry) /\ Len(Lost(p)) = Len(p)
      BY <2>1, LostProperties
    <2>3. settled' = settled \o Lost(p)
      BY <1>1 DEF Die
    <2> QED BY <2>1, <2>2, <2>3
  <1>2. ASSUME FlushOver(tx), Len(tx) = Len(batch)
        PROVE  \E t \in Seq(Entry) : settled' = settled \o t /\ Len(t) >= Len(batch)
    <2>1. tx \in Seq(Entry) /\ Len(tx) >= Len(batch) /\ settled' = settled \o tx
      BY <1>2 DEF IInv, TypeOK, FlushOver
    <2> QED BY <2>1
  <1>3. ASSUME FlushOver(Lost(batch))
        PROVE  \E t \in Seq(Entry) : settled' = settled \o t /\ Len(t) >= Len(batch)
    <2>1. Lost(batch) \in Seq(Entry) /\ Len(Lost(batch)) = Len(batch) /\ Len(batch) \in Nat
      BY LostProperties DEF IInv, TypeOK
    <2>2. settled' = settled \o Lost(batch)
      BY <1>3 DEF FlushOver
    <2> QED BY <2>1, <2>2
  <1>4. CASE CallOp
    <2>1. SendPanics
      BY <1>4 DEF CallOp, StartSession, EndSession, AddQualitySample, AddEvent,
                  UpdateSession, FlushNow, Offer, SendAccepted, SendDropped
    <2> QED BY <1>1, <2>1 DEF SendPanics
  <1>5. CASE Writer
    <2>1. CASE BeginFails
      BY <1>3, <2>1 DEF BeginFails
    <2>2. CASE Commit
      BY <1>2, <1>3, <2>2 DEF Commit
    <2>3. BeginFails \/ Commit
      BY <1>5 DEF Writer, Recv, RecvClosed, Tick, BeginOk, ApplyOp
    <2> QED BY <2>1, <2>2, <2>3
  <1>6. CASE Crash
    BY <1>1, <1>6 DEF Crash
  <1>7. CallOp \/ Writer \/ Crash
    BY DEF Next, FlushReturn, Close, CloseReturn, NewStore
  <1> QED BY <1>4, <1>5, <1>6, <1>7

(* The settled operations only grow, and by whole batches.                 *)
THEOREM StoreBatchAtomic == Spec => BatchAtomic
  <1> DEFINE Whole == settled' # settled =>
                         /\ Len(settled') >= Len(settled) + Len(batch)
                         /\ SubSeq(settled', 1, Len(settled)) = settled
  <1>1. IInv /\ [Next]_vars => [Whole]_vars
    <2> SUFFICES ASSUME IInv, Next, settled' # settled
                 PROVE  /\ Len(settled') >= Len(settled) + Len(batch)
                        /\ SubSeq(settled', 1, Len(settled)) = settled
      OBVIOUS
    <2>1. PICK t \in Seq(Entry) : settled' = settled \o t /\ Len(t) >= Len(batch)
      BY SettlesWholeBatch
    <2>2. settled \in Seq(Entry) /\ batch \in Seq(Op)
      BY DEF IInv, TypeOK
    <2>3. Len(settled') >= Len(settled) + Len(batch)
      BY <2>1, <2>2
    <2> QED BY <2>1, <2>2, <2>3, ConcatHead
  <1> QED BY <1>1, StoreInvariant, PTL DEF Spec, BatchAtomic

-----------------------------------------------------------------------------
(* The node around the store.                                              *)

(* A step of a session calls the store once, as a caller of the store may, *)
(* or leaves the store alone.                                              *)
LEMMA SessionStepIsStoreStep ==
    ASSUME NEW s \in Sessions, SessionStep(s)
    PROVE  Next \/ UNCHANGED vars
<1>1. CASE Arrive(s) \/ DialTarget(s) \/ ServeOther(s) \/ HandlerReturn(s)
           \/ QualityTick(s) \/ QualityStop(s)
  BY <1>1 DEF Arrive, DialTarget, ServeOther, HandlerReturn, QualityTick, QualityStop
<1>2. CASE HandlerStart(s)
  <2>1. MayCall /\ StartSession(s) BY <1>2 DEF HandlerStart
  <2> QED BY <2>1 DEF MayCall, CallOp, Next
<1>3. CASE RequestFails(s) \/ DialFails(s) \/ TcpProxyError(s) \/ PipeOver(s)
  <2>1. MayCall /\ AddEvent(s) BY <1>3 DEF RequestFails, DialFails, TcpProxyError, PipeOver
  <2> QED BY <2>1 DEF MayCall, CallOp, Next
<1>4. CASE HandlerEnd(s)
  <2>1. MayCall /\ EndSession(s) BY <1>4 DEF HandlerEnd
  <2> QED BY <2>1 DEF MayCall, CallOp, Next
<1>5. CASE QualitySample(s)
  <2>1. MayCall /\ AddQualitySample(s) BY <1>5 DEF QualitySample
  <2> QED BY <2>1 DEF MayCall, CallOp, Next
<1> QED BY <1>1, <1>2, <1>3, <1>4, <1>5 DEF SessionStep

LEMMA NodeStepIsStoreStep ==
    ASSUME [NodeNext]_allVars
    PROVE  [Next]_vars
<1>1. CASE \E s \in Sessions : SessionStep(s)
  BY <1>1, SessionStepIsStoreStep
<1>2. CASE CloseStore \/ StoreClosed
  <2>1. Close(Main) \/ CloseReturn(Main) BY <1>2 DEF CloseStore, StoreClosed
  <2> QED BY <2>1, MainAssumption DEF Next
<1>3. CASE CloseHost \/ Exit
  BY <1>3 DEF CloseHost, Exit
<1>4. CASE WriterStep \/ NodeCrash \/ NodeRestart
  <2>1. Writer \/ Crash \/ NewStore BY <1>4 DEF WriterStep, NodeCrash, NodeRestart
  <2> QED BY <2>1 DEF Next
<1>5. CASE UNCHANGED allVars
  BY <1>5 DEF allVars
<1> QED BY <1>1, <1>2, <1>3, <1>4, <1>5 DEF NodeNext

(* The node is built of calls of the store, so a behaviour of the node is  *)
(* one of the store: what is proved of the store holds inside the node.    *)
LEMMA NodeUsesStore == NodeSpec => Spec
<1>1. NodeInit => Init BY DEF NodeInit
<1>2. [NodeNext]_allVars => [Next]_vars BY NodeStepIsStoreStep
<1> QED BY <1>1, <1>2, PTL DEF NodeSpec, Spec

(* Inside the node, too, no accepted operation is forgotten, duplicated or *)
(* reordered, and Run's Close drains the store.                            *)
THEOREM NodeConservesOps == NodeSpec => [](OpsConserved /\ WriterHasDB /\ CloseDrains)
BY NodeUsesStore, StoreConservesOps, WriterAlwaysHasDB, CloseAlwaysDrains, PTL

-----------------------------------------------------------------------------
(* The panic.  Where Run is tells whether the channel is closed and        *)
(* whether its Close has returned; a new process starts over.              *)
MainInv ==
    /\ closed => mpc # "running"
    /\ mpc \in {"running", "closing", "storeClosed", "hostClosed", "exited"}
    /\ mpc \in {"storeClosed", "hostClosed", "exited"} => cpc[Main] = "returned"

(* A call of the store by a handler or a quality loop.                     *)
LEMMA CallKeepsMain ==
    ASSUME IInv, MainInv, NEW op, Offer(op), NEW k, NEW s, NEW goesOn,
           AfterCall(k, s, goesOn), goesOn => mpc' = mpc
    PROVE  MainInv'
<1>1. CASE SendPanics
  <2>1. closed' = FALSE /\ proc' = "panicked" BY <1>1 DEF SendPanics, Die
  <2>2. mpc' = "running" BY <2>1 DEF AfterCall, AllGone
  <2> QED BY <2>1, <2>2 DEF MainInv
<1>2. CASE ~SendPanics
  <2>1. proc' = "up" /\ closed' = closed /\ cpc' = cpc
    BY <1>2 DEF Offer, SendAccepted, SendDropped
  <2>2. mpc' = mpc BY <2>1 DEF AfterCall
  <2> QED BY <2>1, <2>2 DEF MainInv
<1> QED BY <1>1, <1>2

LEMMA NodeStepKeepsMain ==
    ASSUME IInv, MainInv, [NodeNext]_allVars
    PROVE  MainInv'
<1>0. cpc \in [Closers -> {"idle", "waiting", "returned"}] /\ Main \in Closers
  BY MainAssumption DEF IInv, TypeOK
<1>1. ASSUME NEW s \in Sessions, SessionStep(s) PROVE MainInv'
  <2>1. CASE Arrive(s) \/ DialTarget(s) \/ ServeOther(s) \/ HandlerReturn(s)
             \/ QualityTick(s) \/ QualityStop(s)
    BY <2>1 DEF Arrive, DialTarget, ServeOther, HandlerReturn, QualityTick, QualityStop, Handler,
                vars, store, MainInv
  <2>2. CASE HandlerStart(s)
    BY <2>2, CallKeepsMain DEF HandlerStart, StartSession, Handler
  <2>3. CASE RequestFails(s) \/ DialFails(s) \/ TcpProxyError(s) \/ PipeOver(s)
    BY <2>3, CallKeepsMain DEF RequestFails, DialFails, TcpProxyError, PipeOver, AddEvent, Handler
  <2>4. CASE HandlerEnd(s)
    BY <2>4, CallKeepsMain DEF HandlerEnd, EndSession, Handler
  <2>5. CASE QualitySample(s)
    BY <2>5, CallKeepsMain DEF QualitySample, AddQualitySample
  <2> QED BY <1>1, <2>1, <2>2, <2>3, <2>4, <2>5 DEF SessionStep
<1>2. CASE CloseStore
  BY <1>2 DEF CloseStore, MainStep, Close, MainInv
<1>3. CASE StoreClosed
  BY <1>0, <1>3 DEF StoreClosed, MainStep, CloseReturn, MainInv
<1>4. CASE CloseHost \/ Exit
  BY <1>4 DEF CloseHost, Exit, MainStep, vars, store, MainInv
<1>5. CASE WriterStep
  <2>1. Writer /\ mpc' = mpc BY <1>5 DEF WriterStep, node
  <2>2. closed' = closed /\ cpc' = cpc
    BY <2>1 DEF Writer, Recv, RecvClosed, Tick, BeginOk, BeginFails, ApplyOp, Commit, FlushOver, callers
  <2> QED BY <2>1, <2>2 DEF MainInv
<1>6. CASE NodeCrash
  BY <1>6 DEF NodeCrash, Crash, Die, AllGone, MainInv
<1>7. CASE NodeRestart
  BY <1>7 DEF NodeRestart, NewStore, node, MainInv
<1>8. CASE UNCHANGED allVars
  BY <1>8 DEF allVars, vars, store, node, MainInv
<1> QED BY <1>1, <1>2, <1>3, <1>4, <1>5, <1>6, <1>7, <1>8 DEF NodeNext

(* Only a send panics, and then the channel is closed.                     *)
LEMMA PanicsOnSend ==
    ASSUME [NodeNext]_allVars, proc = "up", proc' = "panicked"
    PROVE  closed /\ settled' = settled \o Lost(batch \o queue)
<1>1. [Next]_vars BY NodeStepIsStoreStep
<1>2. CASE CallOp
  <2>1. (\E op : Offer(op)) \/ (\E f \in Flushers : FlushNow(f))
    BY <1>2 DEF CallOp, StartSession, EndSession, AddQualitySample, AddEvent, UpdateSession
  <2>2. SendPanics BY <2>1 DEF Offer, FlushNow, SendAccepted, SendDropped
  <2> QED BY <2>2 DEF SendPanics, Die
<1>3. CASE Writer
  BY <1>3 DEF Writer, Recv, RecvClosed, Tick, BeginOk, BeginFails, ApplyOp, Commit, FlushOver, callers
<1>4. CASE (\E f \in Flushers : FlushReturn(f)) \/ (\E c \in Closers : Close(c) \/ CloseReturn(c))
  BY <1>4 DEF FlushReturn, Close, CloseReturn
<1>5. CASE Crash \/ NewStore \/ UNCHANGED vars
  BY <1>5 DEF Crash, Die, NewStore, vars
<1> QED BY <1>1, <1>2, <1>3, <1>4, <1>5 DEF Next

(* For any number of sessions and any bounds: the panic that the order of  *)
(* Run's deferred calls makes possible happens only in a shutdown, loses   *)
(* at most a batch and a full channel while Close waits, and nothing that  *)
(* was accepted once Close has returned.                                   *)
THEOREM PanicCostBounded == NodeSpec => PanicCost
<1>1. NodeInit => MainInv BY DEF NodeInit, Init, MainInv
<1>2. IInv /\ MainInv /\ [NodeNext]_allVars => MainInv' BY NodeStepKeepsMain
<1>3. ASSUME IInv, MainInv, [NodeNext]_allVars, proc = "up", proc' = "panicked"
      PROVE  /\ mpc # "running"
             /\ Len(settled') <= Len(settled) + (IF mpc = "closing" THEN MaxBatch + QueueCap ELSE 0)
  <2>1. closed /\ settled' = settled \o Lost(batch \o queue) BY <1>3, PanicsOnSend
  <2>2. /\ batch \in Seq(Op) /\ queue \in Seq(Op) /\ settled \in Seq(Entry)
        /\ Len(batch) <= MaxBatch /\ Len(queue) <= QueueCap
    BY <1>3 DEF IInv, TypeOK
  <2>3. batch \o queue \in Seq(Op) /\ Len(batch \o queue) = Len(batch) + Len(queue) BY <2>2
  <2>4. Lost(batch \o queue) \in Seq(Entry) /\ Len(Lost(batch \o queue)) = Len(batch) + Len(queue)
    BY <2>3, LostProperties
  <2>5. Len(settled') = Len(settled) + (Len(batch) + Len(queue)) BY <2>1, <2>2, <2>4
  <2>6. mpc # "running" BY <1>3, <2>1 DEF MainInv
  <2>7. CASE mpc = "closing" BY <2>2, <2>5, <2>6, <2>7, CapAssumption
  <2>8. CASE mpc # "closing"
    <3>1. wpc = "stopped" BY <1>3, <2>6, <2>8, MainAssumption DEF MainInv, IInv, WriterState
    <3>2. batch = <<>> /\ queue = <<>> BY <1>3, <3>1 DEF IInv, WriterState
    <3> QED BY <2>2, <2>5, <2>6, <2>8, <3>2
  <2> QED BY <2>7, <2>8
<1>4. NodeSpec => []IInv BY NodeUsesStore, StoreInvariant, PTL
<1>5. IInv /\ MainInv /\ [NodeNext]_allVars =>
        [proc = "up" /\ proc' = "panicked" =>
            /\ mpc # "running"
            /\ Len(settled') <= Len(settled)
                  + (IF mpc = "closing" THEN MaxBatch + QueueCap ELSE 0)]_allVars
  BY <1>3
<1> QED BY <1>1, <1>2, <1>4, <1>5, PTL DEF NodeSpec, PanicCost

-----------------------------------------------------------------------------
(* The order of a session's operations.  SessionOrder is not inductive: it *)
(* has to say which operations a handler cannot have written yet.          *)
Ordered(s) ==
    /\ \A i, j \in At("start", s) : i = j
    /\ \A i, j \in At("end", s) : i = j
    /\ \A i \in At("start", s), j \in At("event", s) \cup At("end", s) : i < j
    /\ \A i \in At("event", s), j \in At("end", s) : i < j

NotYet(s) ==
    /\ hpc[s] \in {"idle", "starting"} =>
          At("start", s) = {} /\ At("event", s) = {} /\ At("end", s) = {}
    /\ hpc[s] \in {"request", "failing", "piping", "ending"} => At("end", s) = {}

OrderInv ==
    /\ accepted \in Seq(Op) /\ DOMAIN hpc = Sessions
    /\ \A s \in Sessions : Ordered(s) /\ NotYet(s)

(* Where an operation stands after one more was accepted.                  *)
LEMMA AtAppend ==
    ASSUME accepted \in Seq(Op), NEW op \in Op, accepted' = Append(accepted, op),
           NEW k, NEW s
    PROVE  /\ At(k, s) \subseteq 1..Len(accepted)
           /\ op = [kind |-> k, id |-> s] => At(k, s)' = At(k, s) \cup {Len(accepted) + 1}
           /\ op # [kind |-> k, id |-> s] => At(k, s)' = At(k, s)
<1>1. /\ Len(accepted) \in Nat /\ DOMAIN accepted = 1..Len(accepted)
      /\ DOMAIN accepted' = 1..(Len(accepted) + 1)
      /\ accepted'[Len(accepted) + 1] = op
      /\ \A i \in 1..Len(accepted) : accepted'[i] = accepted[i]
  OBVIOUS
<1> QED BY <1>1 DEF At

LEMMA OfferAccepts ==
    ASSUME NEW op, Offer(op)
    PROVE  accepted' = Append(accepted, op) \/ accepted' = accepted
BY DEF Offer, SendAccepted, SendDropped, SendPanics, Die

(* One operation of session s is offered, in a place of its handler where  *)
(* such an operation may be, and no other handler moves on.                *)
LEMMA CallKeepsOrder ==
    ASSUME OrderInv, NEW s \in Sessions, NEW k \in Kinds,
           Offer([kind |-> k, id |-> s]),
           k = "start" => hpc[s] = "starting",
           k = "event" => hpc[s] \in {"request", "failing", "piping"},
           k = "end" => hpc[s] = "ending",
           DOMAIN hpc' = Sessions,
           \A t \in Sessions \ {s} : hpc'[t] \in {hpc[t], "done", "gone"},
           \/ hpc'[s] \in {"done", "gone", "closing"}
           \/ k = "start" /\ hpc'[s] = "request"
           \/ k = "event" /\ hpc'[s] \in {"failing", "ending"}
           \/ k \notin {"start", "event", "end"} /\ hpc'[s] = hpc[s]
    PROVE  OrderInv'
<1> DEFINE op == [kind |-> k, id |-> s]
<1>0. op \in Op /\ accepted \in Seq(Op) BY DEF Op, OrderInv
<1>1. CASE accepted' = accepted
  <2>1. \A t \in Sessions : \A q : At(q, t)' = At(q, t) BY <1>1 DEF At
  <2>2. \A t \in Sessions : Ordered(t)' BY <2>1 DEF OrderInv, Ordered
  <2>3. \A t \in Sessions : NotYet(t)' BY <2>1 DEF OrderInv, NotYet
  <2> QED BY <1>0, <1>1, <2>2, <2>3 DEF OrderInv
<1>2. CASE accepted' = Append(accepted, op)
  <2>1. accepted' \in Seq(Op) /\ Len(accepted) \in Nat BY <1>0, <1>2
  <2>2. ASSUME NEW t \in Sessions \ {s} PROVE Ordered(t)' /\ NotYet(t)'
    <3>1. \A q : op # [kind |-> q, id |-> t] BY <2>2
    <3>2. \A q : At(q, t)' = At(q, t) BY <1>0, <1>2, <3>1, AtAppend
    <3>3. Ordered(t)' BY <3>2 DEF OrderInv, Ordered
    <3>4. NotYet(t)' BY <3>2 DEF OrderInv, NotYet
    <3> QED BY <3>3, <3>4
  <2>3. /\ \A q : At(q, s) \subseteq 1..Len(accepted)
        /\ At(k, s)' = At(k, s) \cup {Len(accepted) + 1}
        /\ \A q : q # k => At(q, s)' = At(q, s)
    <3>1. \A q : q # k => op # [kind |-> q, id |-> s] OBVIOUS
    <3> QED BY <1>0, <1>2, <3>1, AtAppend
  <2>4. Ordered(s) /\ NotYet(s) BY DEF OrderInv
  <2>5. Ordered(s)'
    <3>1. CASE k = "start" BY <2>1, <2>3, <2>4, <3>1 DEF Ordered, NotYet
    <3>2. CASE k = "event" BY <2>1, <2>3, <2>4, <3>2 DEF Ordered, NotYet
    <3>3. CASE k = "end" BY <2>1, <2>3, <2>4, <3>3 DEF Ordered, NotYet
    <3>4. CASE k \notin {"start", "event", "end"} BY <2>3, <2>4, <3>4 DEF Ordered
    <3> QED BY <3>1, <3>2, <3>3, <3>4
  <2>6. NotYet(s)' BY <2>3, <2>4 DEF NotYet
  <2> QED BY <2>1, <2>2, <2>5, <2>6 DEF OrderInv
<1> QED BY <1>1, <1>2, OfferAccepts

(* A step that offers nothing and only lets handlers move forward between  *)
(* two of their calls.                                                     *)
LEMMA QuietKeepsOrder ==
    ASSUME OrderInv, accepted' = accepted, DOMAIN hpc' = Sessions,
           \A t \in Sessions :
               \/ hpc'[t] \in {hpc[t], "done", "gone"}
               \/ hpc[t] = "idle" /\ hpc'[t] = "starting"
               \/ hpc[t] = "request" /\ hpc'[t] \in {"piping", "ending"}
    PROVE  OrderInv'
<1>1. \A t \in Sessions : \A q : At(q, t)' = At(q, t) BY DEF At
<1>2. \A t \in Sessions : Ordered(t)' BY <1>1 DEF OrderInv, Ordered
<1>3. \A t \in Sessions : NotYet(t)' BY <1>1 DEF OrderInv, NotYet
<1> QED BY <1>2, <1>3 DEF OrderInv

(* After a call the handler has moved on, or the process is gone.          *)
LEMMA CallMoves ==
    ASSUME DOMAIN hpc = Sessions, NEW s \in Sessions, NEW k, NEW next,
           AfterCall(k, s, Handler(s, next))
    PROVE  /\ DOMAIN hpc' = Sessions
           /\ \A t \in Sessions \ {s} : hpc'[t] \in {hpc[t], "done", "gone"}
           /\ hpc'[s] \in {next, hpc[s], "gone"}
           /\ hpc'[s] = next \/ hpc'[s] = "gone" \/ hpc[s] \in {"idle", "done"}
BY DEF AfterCall, Handler, AllGone

LEMMA SessionStepKeepsOrder ==
    ASSUME OrderInv, NEW s \in Sessions, SessionStep(s)
    PROVE  OrderInv'
<1>0. DOMAIN hpc = Sessions BY DEF OrderInv
<1>1. CASE Arrive(s) \/ DialTarget(s) \/ ServeOther(s) \/ HandlerReturn(s)
           \/ QualityTick(s) \/ QualityStop(s)
  <2>1. accepted' = accepted
    BY <1>1 DEF Arrive, DialTarget, ServeOther, HandlerReturn, QualityTick, QualityStop, vars
  <2>2. \/ hpc' = hpc
        \/ hpc[s] = "idle" /\ hpc' = [hpc EXCEPT ![s] = "starting"]
        \/ hpc[s] = "request" /\ hpc' = [hpc EXCEPT ![s] = "piping"]
        \/ hpc[s] = "request" /\ hpc' = [hpc EXCEPT ![s] = "ending"]
        \/ hpc' = [hpc EXCEPT ![s] = "done"]
    BY <1>1 DEF Arrive, DialTarget, ServeOther, HandlerReturn, QualityTick, QualityStop, Handler
  <2> QED BY <1>0, <2>1, <2>2, QuietKeepsOrder
<1>2. CASE HandlerStart(s)
  <2>1. /\ hpc[s] = "starting" /\ Offer([kind |-> "start", id |-> s])
        /\ AfterCall("start", s, Handler(s, "request"))
    BY <1>2 DEF HandlerStart, StartSession
  <2>2. /\ DOMAIN hpc' = Sessions
        /\ \A t \in Sessions \ {s} : hpc'[t] \in {hpc[t], "done", "gone"}
        /\ hpc'[s] = "request" \/ hpc'[s] = "gone"
    BY <1>0, <2>1, CallMoves
  <2>3. "start" \in Kinds BY DEF Kinds
  <2> QED BY <2>1, <2>2, <2>3, CallKeepsOrder
<1>3. CASE RequestFails(s) \/ DialFails(s) \/ TcpProxyError(s) \/ PipeOver(s)
  <2>1. hpc[s] \in {"request", "failing", "piping"} /\ Offer([kind |-> "event", id |-> s])
    BY <1>3 DEF RequestFails, DialFails, TcpProxyError, PipeOver, AddEvent
  <2>2. PICK next \in {"failing", "ending"} : AfterCall("event", s, Handler(s, next))
    BY <1>3 DEF RequestFails, DialFails, TcpProxyError, PipeOver
  <2> QED BY <1>0, <2>1, <2>2, CallMoves, CallKeepsOrder DEF Kinds
<1>4. CASE HandlerEnd(s)
  <2>1. /\ hpc[s] = "ending" /\ Offer([kind |-> "end", id |-> s])
        /\ AfterCall("end", s, Handler(s, "closing"))
    BY <1>4 DEF HandlerEnd, EndSession
  <2>2. /\ DOMAIN hpc' = Sessions
        /\ \A t \in Sessions \ {s} : hpc'[t] \in {hpc[t], "done", "gone"}
        /\ hpc'[s] = "closing" \/ hpc'[s] = "gone"
    BY <1>0, <2>1, CallMoves
  <2>3. "end" \in Kinds BY DEF Kinds
  <2> QED BY <2>1, <2>2, <2>3, CallKeepsOrder
<1>5. CASE QualitySample(s)
  <2>1. Offer([kind |-> "sample", id |-> s]) BY <1>5 DEF QualitySample, AddQualitySample
  <2>2. \/ hpc' = hpc
        \/ hpc' = [t \in Sessions |-> IF hpc[t] \in {"idle", "done"} THEN hpc[t] ELSE "gone"]
    BY <1>5 DEF QualitySample, AfterCall, AllGone
  <2> QED BY <1>0, <2>1, <2>2, CallKeepsOrder DEF Kinds
<1> QED BY <1>1, <1>2, <1>3, <1>4, <1>5 DEF SessionStep

LEMMA NodeStepKeepsOrder ==
    ASSUME OrderInv, [NodeNext]_allVars
    PROVE  OrderInv'
<1>0. DOMAIN hpc = Sessions BY DEF OrderInv
<1>1. CASE \E s \in Sessions : SessionStep(s)
  BY <1>1, SessionStepKeepsOrder
<1>2. CASE CloseStore \/ StoreClosed \/ CloseHost \/ Exit
  <2>1. hpc' = hpc /\ accepted' = accepted
    BY <1>2 DEF CloseStore, StoreClosed, CloseHost, Exit, MainStep, Close, CloseReturn, vars
  <2> QED BY <1>0, <2>1, QuietKeepsOrder
<1>3. CASE WriterStep
  <2>1. accepted' = accepted
    <3>1. Writer BY <1>3 DEF WriterStep
    <3> QED BY <3>1 DEF Writer, Recv, RecvClosed, Tick, BeginOk, BeginFails, ApplyOp, Commit,
                       FlushOver, callers
  <2>2. hpc' = hpc BY <1>3 DEF WriterStep, node
  <2> QED BY <1>0, <2>1, <2>2, QuietKeepsOrder
<1>4. CASE NodeCrash
  <2>1. accepted' = accepted BY <1>4 DEF NodeCrash, Crash, Die
  <2>2. hpc' = [t \in Sessions |-> IF hpc[t] \in {"idle", "done"} THEN hpc[t] ELSE "gone"]
    BY <1>4 DEF NodeCrash, AllGone
  <2> QED BY <2>1, <2>2, QuietKeepsOrder
<1>5. CASE NodeRestart
  <2>1. hpc' = hpc /\ accepted' = accepted BY <1>5 DEF NodeRestart, NewStore, node
  <2> QED BY <1>0, <2>1, QuietKeepsOrder
<1>6. CASE UNCHANGED allVars
  <2>1. hpc' = hpc /\ accepted' = accepted BY <1>6 DEF allVars, vars, node
  <2> QED BY <1>0, <2>1, QuietKeepsOrder
<1> QED BY <1>1, <1>2, <1>3, <1>4, <1>5, <1>6 DEF NodeNext

(* The handlers write the operations of every session in order, whatever   *)
(* the other handlers, the quality loops, the shutdown and crashes do, and *)
(* whichever operations the full channel drops.                            *)
THEOREM SessionsInOrder == NodeSpec => []SessionOrder
<1>1. NodeInit => OrderInv
  <2> SUFFICES ASSUME NodeInit PROVE OrderInv OBVIOUS
  <2>1. accepted = <<>> /\ DOMAIN hpc = Sessions BY DEF NodeInit, Init
  <2>2. \A s \in Sessions : \A k : At(k, s) = {} BY <2>1 DEF At
  <2> QED BY <2>1, <2>2 DEF OrderInv, Ordered, NotYet
<1>2. OrderInv /\ [NodeNext]_allVars => OrderInv' BY NodeStepKeepsOrder
<1>3. OrderInv => SessionOrder BY DEF OrderInv, Ordered, SessionOrder
<1> QED BY <1>1, <1>2, <1>3, PTL DEF NodeSpec

-----------------------------------------------------------------------------
(* Why a row is open and why one is missing.  Both properties speak of what *)
(* the writer has settled; what carries them there is that a handler past  *)
(* a call has sent the operation of that call or has found the channel     *)
(* full, and that the settled operations are a prefix of the accepted ones. *)
Sent(k, s) == At(k, s) # {} \/ Gave(k, s)

Places == {"idle", "starting", "request", "failing", "piping", "ending", "closing", "done", "gone"}

CallsMade(s) ==
    /\ hpc[s] \in Places
    /\ hpc[s] \in {"request", "failing", "piping", "ending", "closing", "done"} => Sent("start", s)
    /\ At("event", s) # {} \/ At("end", s) # {} => Sent("start", s)
    /\ hpc[s] \in {"closing", "done"} => Sent("end", s)

SentInv == OrderInv /\ \A s \in Sessions : CallsMade(s)

(* What was sent stays sent.                                               *)
LEMMA SentStays ==
    ASSUME accepted \in Seq(Op), dropped \subseteq dropped',
           accepted' = accepted \/ \E op \in Op : accepted' = Append(accepted, op),
           NEW k, NEW s, Sent(k, s)
    PROVE  Sent(k, s)'
<1>1. CASE accepted' = accepted BY <1>1 DEF Sent, At, Gave
<1>2. ASSUME NEW op \in Op, accepted' = Append(accepted, op) PROVE Sent(k, s)'
  <2>1. At(k, s) \subseteq At(k, s)' BY <1>2, AtAppend
  <2> QED BY <2>1 DEF Sent, Gave
<1> QED BY <1>1, <1>2

(* A step that sends nothing, drops nothing and moves handlers on between  *)
(* two of their calls.                                                     *)
LEMMA QuietKeepsSent ==
    ASSUME SentInv, OrderInv', accepted' = accepted, dropped' = dropped,
           \A t \in Sessions :
               \/ hpc'[t] \in {hpc[t], "gone"}
               \/ hpc[t] = "idle" /\ hpc'[t] = "starting"
               \/ hpc[t] = "request" /\ hpc'[t] \in {"piping", "ending"}
               \/ hpc[t] = "closing" /\ hpc'[t] = "done"
    PROVE  SentInv'
<1>1. \A t \in Sessions : \A k : At(k, t)' = At(k, t) /\ (Sent(k, t)' <=> Sent(k, t))
  BY DEF At, Sent, Gave
<1>2. ASSUME NEW t \in Sessions PROVE CallsMade(t)'
  <2>1. CallsMade(t) BY DEF SentInv
  <2>2. hpc'[t] \in Places BY <2>1 DEF CallsMade, Places
  <2> QED BY <1>1, <2>1, <2>2 DEF CallsMade
<1> QED BY <1>2 DEF SentInv

(* A call of session s: afterwards the operation is on the channel, or it  *)
(* was dropped, or the process is gone.                                    *)
LEMMA CallKeepsSent ==
    ASSUME SentInv, OrderInv', NEW s \in Sessions, NEW k \in Kinds,
           Offer([kind |-> k, id |-> s]),
           dropped' = IF proc' = "up" /\ accepted' = accepted
                      THEN dropped \cup {[kind |-> k, id |-> s]} ELSE dropped,
           k \in {"event", "end"} => hpc[s] \in {"request", "failing", "piping", "ending"},
           \A t \in Sessions \ {s} : hpc'[t] \in {hpc[t], "gone"},
           \/ hpc'[s] = "gone"
           \/ /\ proc' = "up"
              /\ \/ k = "start" /\ hpc'[s] = "request"
                 \/ k = "event" /\ hpc'[s] \in {"failing", "ending"}
                 \/ k = "end" /\ hpc'[s] = "closing"
           \/ k = "sample" /\ hpc'[s] = hpc[s]
    PROVE  SentInv'
<1> DEFINE op == [kind |-> k, id |-> s]
<1>1. op \in Op /\ accepted \in Seq(Op) BY DEF Op, SentInv, OrderInv
<1>2. accepted' = accepted \/ accepted' = Append(accepted, op) BY OfferAccepts
<1>3. dropped \subseteq dropped' OBVIOUS
<1>4. \A t \in Sessions : \A q : Sent(q, t) => Sent(q, t)'
  BY <1>1, <1>2, <1>3, SentStays
<1>5. \A t \in Sessions : \A q : [kind |-> q, id |-> t] # op => At(q, t)' = At(q, t)
  <2>1. CASE accepted' = accepted BY <2>1 DEF At
  <2>2. CASE accepted' = Append(accepted, op) BY <1>1, <2>2, AtAppend
  <2> QED BY <1>2, <2>1, <2>2
<1>6. proc' = "up" => Sent(k, s)'
  <2>1. CASE accepted' = accepted BY <2>1 DEF Sent, Gave
  <2>2. CASE accepted' = Append(accepted, op)
    <3>1. At(k, s)' # {} BY <1>1, <2>2, AtAppend
    <3> QED BY <3>1 DEF Sent
  <2> QED BY <1>2, <2>1, <2>2
<1>7. ASSUME NEW t \in Sessions \ {s} PROVE CallsMade(t)'
  <2>1. CallsMade(t) BY DEF SentInv
  <2>2. At("event", t)' = At("event", t) /\ At("end", t)' = At("end", t) BY <1>5
  <2>3. hpc'[t] \in Places BY <2>1 DEF CallsMade, Places
  <2> QED BY <1>4, <2>1, <2>2, <2>3 DEF CallsMade
<1>8. CallsMade(s)'
  <2>1. CallsMade(s) BY DEF SentInv
  <2>2. hpc'[s] \in Places BY <2>1 DEF CallsMade, Places
  <2>3. k \in {"event", "end"} => Sent("start", s)' BY <1>4, <2>1 DEF CallsMade
  <2>4. k \notin {"event", "end"} => At("event", s)' = At("event", s) /\ At("end", s)' = At("end", s)
    BY <1>5
  <2>5. At("event", s)' # {} \/ At("end", s)' # {} => Sent("start", s)'
    BY <1>4, <2>1, <2>3, <2>4 DEF CallsMade
  <2>6. CASE hpc'[s] = "gone" BY <2>2, <2>5, <2>6 DEF CallsMade
  <2>7. CASE k = "sample" /\ hpc'[s] = hpc[s] BY <1>4, <2>1, <2>2, <2>5, <2>7 DEF CallsMade
  <2>8. CASE proc' = "up" /\ k = "start" /\ hpc'[s] = "request"
    BY <1>6, <2>2, <2>5, <2>8 DEF CallsMade
  <2>9. CASE k = "event" /\ hpc'[s] \in {"failing", "ending"}
    BY <2>2, <2>3, <2>5, <2>9 DEF CallsMade
  <2>10. CASE proc' = "up" /\ k = "end" /\ hpc'[s] = "closing"
    BY <1>6, <2>2, <2>3, <2>5, <2>10 DEF CallsMade
  <2> QED BY <2>6, <2>7, <2>8, <2>9, <2>10
<1> QED BY <1>7, <1>8 DEF SentInv

(* After a call made while the process was up: as CallMoves, and where the *)
(* operation went.                                                         *)
LEMMA CallRecords ==
    ASSUME NEW s \in Sessions, NEW k, NEW next, hpc[s] \notin {"idle", "done"},
           DOMAIN hpc = Sessions, AfterCall(k, s, Handler(s, next))
    PROVE  /\ dropped' = IF proc' = "up" /\ accepted' = accepted
                         THEN dropped \cup {[kind |-> k, id |-> s]} ELSE dropped
           /\ \A t \in Sessions \ {s} : hpc'[t] \in {hpc[t], "gone"}
           /\ hpc'[s] = "gone" \/ (proc' = "up" /\ hpc'[s] = next)
<1>1. CASE proc' = "up" /\ Handler(s, next) BY <1>1 DEF AfterCall, Handler
<1>2. CASE AllGone BY <1>2 DEF AfterCall, AllGone
<1> QED BY <1>1, <1>2 DEF AfterCall

(* A handler moves past a call only by making it.                          *)
LEMMA SessionStepKeepsSent ==
    ASSUME SentInv, OrderInv', NEW s \in Sessions, SessionStep(s)
    PROVE  SentInv'
<1>0. DOMAIN hpc = Sessions BY DEF SentInv, OrderInv
<1>1. CASE Arrive(s) \/ DialTarget(s) \/ ServeOther(s) \/ HandlerReturn(s)
           \/ QualityTick(s) \/ QualityStop(s)
  <2>1. accepted' = accepted /\ dropped' = dropped
    BY <1>1 DEF Arrive, DialTarget, ServeOther, HandlerReturn, QualityTick, QualityStop, vars
  <2>2. \/ hpc' = hpc
        \/ hpc[s] = "idle" /\ hpc' = [hpc EXCEPT ![s] = "starting"]
        \/ hpc[s] = "request" /\ hpc' = [hpc EXCEPT ![s] = "piping"]
        \/ hpc[s] = "request" /\ hpc' = [hpc EXCEPT ![s] = "ending"]
        \/ hpc[s] = "closing" /\ hpc' = [hpc EXCEPT ![s] = "done"]
    BY <1>1 DEF Arrive, DialTarget, ServeOther, HandlerReturn, QualityTick, QualityStop, Handler
  <2> QED BY <1>0, <2>1, <2>2, QuietKeepsSent
<1>2. CASE HandlerStart(s)
  <2>1. /\ hpc[s] = "starting" /\ Offer([kind |-> "start", id |-> s])
        /\ AfterCall("start", s, Handler(s, "request"))
    BY <1>2 DEF HandlerStart, StartSession
  <2>2. "start" \in Kinds BY DEF Kinds
  <2> QED BY <1>0, <2>1, <2>2, CallRecords, CallKeepsSent
<1>3. CASE RequestFails(s) \/ DialFails(s) \/ TcpProxyError(s) \/ PipeOver(s)
  <2>1. hpc[s] \in {"request", "failing", "piping"} /\ Offer([kind |-> "event", id |-> s])
    BY <1>3 DEF RequestFails, DialFails, TcpProxyError, PipeOver, AddEvent
  <2>2. PICK next \in {"failing", "ending"} : AfterCall("event", s, Handler(s, next))
    BY <1>3 DEF RequestFails, DialFails, TcpProxyError, PipeOver
  <2>3. "event" \in Kinds BY DEF Kinds
  <2> QED BY <1>0, <2>1, <2>2, <2>3, CallRecords, CallKeepsSent
<1>4. CASE HandlerEnd(s)
  <2>1. /\ hpc[s] = "ending" /\ Offer([kind |-> "end", id |-> s])
        /\ AfterCall("end", s, Handler(s, "closing"))
    BY <1>4 DEF HandlerEnd, EndSession
  <2>2. "end" \in Kinds BY DEF Kinds
  <2> QED BY <1>0, <2>1, <2>2, CallRecords, CallKeepsSent
<1>5. CASE QualitySample(s)
  <2>1. Offer([kind |-> "sample", id |-> s]) BY <1>5 DEF QualitySample, AddQualitySample
  <2>2. \/ hpc' = hpc
        \/ hpc' = [t \in Sessions |-> IF hpc[t] \in {"idle", "done"} THEN hpc[t] ELSE "gone"]
    BY <1>5 DEF QualitySample, AfterCall, AllGone
  <2>3. dropped' = IF proc' = "up" /\ accepted' = accepted
                   THEN dropped \cup {[kind |-> "sample", id |-> s]} ELSE dropped
    BY <1>5 DEF QualitySample, AfterCall
  <2>4. \A t \in Sessions : hpc'[t] \in {hpc[t], "gone"} BY <2>2
  <2>5. "sample" \in Kinds BY DEF Kinds
  <2> QED BY <2>1, <2>3, <2>4, <2>5, CallKeepsSent
<1> QED BY <1>1, <1>2, <1>3, <1>4, <1>5 DEF SessionStep

(* Quality loops, the writer and shutdown make no session's calls.         *)
LEMMA NodeStepKeepsSent ==
    ASSUME SentInv, [NodeNext]_allVars
    PROVE  SentInv'
<1>0. DOMAIN hpc = Sessions /\ OrderInv' BY NodeStepKeepsOrder DEF SentInv, OrderInv
<1>1. CASE \E s \in Sessions : SessionStep(s)
  BY <1>0, <1>1, SessionStepKeepsSent
<1>2. CASE CloseStore \/ StoreClosed \/ CloseHost \/ Exit
  <2>1. hpc' = hpc /\ accepted' = accepted /\ dropped' = dropped
    BY <1>2 DEF CloseStore, StoreClosed, CloseHost, Exit, MainStep, Close, CloseReturn, vars
  <2> QED BY <1>0, <2>1, QuietKeepsSent
<1>3. CASE WriterStep
  <2>1. accepted' = accepted
    <3>1. Writer BY <1>3 DEF WriterStep
    <3> QED BY <3>1 DEF Writer, Recv, RecvClosed, Tick, BeginOk, BeginFails, ApplyOp, Commit,
                       FlushOver, callers
  <2>2. hpc' = hpc /\ dropped' = dropped BY <1>3 DEF WriterStep, node
  <2> QED BY <1>0, <2>1, <2>2, QuietKeepsSent
<1>4. CASE NodeCrash
  <2>1. accepted' = accepted /\ dropped' = dropped BY <1>4 DEF NodeCrash, Crash, Die
  <2>2. hpc' = [t \in Sessions |-> IF hpc[t] \in {"idle", "done"} THEN hpc[t] ELSE "gone"]
    BY <1>4 DEF NodeCrash, AllGone
  <2> QED BY <1>0, <2>1, <2>2, QuietKeepsSent
<1>5. CASE NodeRestart
  <2>1. hpc' = hpc /\ accepted' = accepted /\ dropped' = dropped
    BY <1>5 DEF NodeRestart, NewStore, node
  <2> QED BY <1>0, <2>1, QuietKeepsSent
<1>6. CASE UNCHANGED allVars
  <2>1. hpc' = hpc /\ accepted' = accepted /\ dropped' = dropped
    BY <1>6 DEF allVars, vars, node
  <2> QED BY <1>0, <2>1, QuietKeepsSent
<1> QED BY <1>1, <1>2, <1>3, <1>4, <1>5, <1>6 DEF NodeNext

(* The settled operations are the first of the accepted ones, the rest is  *)
(* in the batch or on the channel.                                         *)
LEMMA SettledIsPrefix ==
    ASSUME TypeOK, OpsConserved
    PROVE  /\ DOMAIN settled = 1..Len(settled) /\ Len(settled) \in Nat
           /\ DOMAIN settled \subseteq DOMAIN accepted
           /\ \A i \in DOMAIN settled : accepted[i] = settled[i].op /\ settled[i].ok \in BOOLEAN
           /\ \A i \in DOMAIN accepted \ DOMAIN settled :
                 /\ i - Len(settled) \in DOMAIN (batch \o queue)
                 /\ accepted[i] = (batch \o queue)[i - Len(settled)]
<1>1. /\ settled \in Seq(Entry) /\ batch \in Seq(Op) /\ queue \in Seq(Op) /\ batch \o queue \in Seq(Op)
      /\ \A i \in DOMAIN settled : settled[i] \in Entry
  BY DEF TypeOK
<1>2. OpsOf(settled) \in Seq(Op) /\ Len(OpsOf(settled)) = Len(settled)
      /\ \A i \in 1..Len(settled) : OpsOf(settled)[i] = settled[i].op
  BY <1>1, OpsOfProperties
<1>3. accepted = OpsOf(settled) \o (batch \o queue)
  BY <1>1, <1>2, ConcatAssoc DEF OpsConserved
<1>4. DOMAIN settled = 1..Len(settled) /\ Len(settled) \in Nat
  BY <1>1
<1>5. \A i \in DOMAIN settled : settled[i].ok \in BOOLEAN
  BY <1>1 DEF Entry
<1> DEFINE a == OpsOf(settled)
           b == batch \o queue
<1>6. a \in Seq(Op) /\ b \in Seq(Op) /\ Len(a) = Len(settled)
  BY <1>1, <1>2
<1> HIDE DEF a, b
<1>7. /\ DOMAIN (a \o b) = 1..(Len(a) + Len(b)) /\ Len(a) \in Nat /\ Len(b) \in Nat
      /\ DOMAIN b = 1..Len(b)
      /\ \A i \in 1..Len(a) : (a \o b)[i] = a[i]
      /\ \A i \in (Len(a) + 1)..(Len(a) + Len(b)) : (a \o b)[i] = b[i - Len(a)]
  BY <1>6
<1>8. accepted = a \o b
  BY <1>3 DEF a, b
<1>9. \A i \in 1..Len(settled) : a[i] = settled[i].op
  BY <1>2 DEF a
<1>10. \A i \in DOMAIN accepted \ DOMAIN settled : i - Len(settled) \in DOMAIN b /\ accepted[i] = b[i - Len(settled)]
  BY <1>4, <1>6, <1>7, <1>8
<1>11. DOMAIN settled \subseteq DOMAIN accepted /\ \A i \in DOMAIN settled : accepted[i] = settled[i].op
  BY <1>4, <1>6, <1>7, <1>8, <1>9
<1> QED BY <1>4, <1>5, <1>10, <1>11 DEF b

(* A settled operation was kept or failed.                                 *)
LEMMA KeptOrFailed ==
    ASSUME TypeOK, OpsConserved, NEW k, NEW s, NEW i \in At(k, s), i \in DOMAIN settled
    PROVE  Kept(k, s, i) \/ Failed(k, s)
<1>1. settled[i].op = [kind |-> k, id |-> s] /\ settled[i].ok \in BOOLEAN /\ settled[i] \in Entry
  BY SettledIsPrefix DEF At, TypeOK
<1>2. CASE settled[i].ok BY <1>1, <1>2 DEF Kept
<1>3. CASE ~settled[i].ok
  <2>1. settled[i] = Fate(k, s) BY <1>1, <1>3 DEF Fate, Entry
  <2> QED BY <2>1 DEF Failed
<1> QED BY <1>1, <1>2, <1>3

(* A start kept and no end kept: the end was sent, and dropped or lost.    *)
LEMMA OpenRows ==
    ASSUME TypeOK, OpsConserved, SentInv
    PROVE  OpenRowExplained
<1> SUFFICES ASSUME NEW s \in Sessions, HasRow(s, Len(settled)), ~RowEnded(s),
                    hpc[s] \notin {"starting", "request", "failing", "piping", "ending", "gone"}
             PROVE  Pending("end", s) \/ Gave("end", s) \/ Failed("end", s)
  BY DEF OpenRowExplained
<1>1. PICK i \in 1..Len(settled) : Kept("start", s, i) BY DEF HasRow
<1>2. i \in At("start", s) BY <1>1, SettledIsPrefix DEF At, Kept
<1>3. hpc[s] \in {"closing", "done"}
  BY <1>2 DEF SentInv, OrderInv, NotYet, CallsMade, Places
<1>4. CASE Gave("end", s) BY <1>4
<1>5. CASE At("end", s) # {}
  <2>1. PICK j : j \in At("end", s) BY <1>5
  <2>2. i < j BY <1>2, <2>1 DEF SentInv, OrderInv, Ordered
  <2>3. CASE j \in DOMAIN settled
    <3>1. Kept("end", s, j) \/ Failed("end", s) BY <2>1, <2>3, KeptOrFailed
    <3>2. i \in 1..j BY <1>1, <2>2, <2>3, SettledIsPrefix
    <3>3. Kept("end", s, j) => RowEnded(s) BY <1>1, <2>3, <3>2 DEF RowEnded, HasRow
    <3> QED BY <3>1, <3>3
  <2>4. CASE j \notin DOMAIN settled
    BY <2>1, <2>4, SettledIsPrefix DEF At, Pending
  <2> QED BY <2>3, <2>4
<1> QED BY <1>3, <1>4, <1>5 DEF SentInv, CallsMade, Sent

(* An end or event without a start: the start was sent, and dropped or lost. *)
LEMMA MissingRows ==
    ASSUME TypeOK, OpsConserved, SentInv
    PROVE  MissingRowExplained
<1> SUFFICES ASSUME NEW s \in Sessions, NEW j \in DOMAIN settled,
                    Kept("event", s, j) \/ Kept("end", s, j)
             PROVE  HasRow(s, j) \/ Gave("start", s) \/ Failed("start", s)
  BY DEF MissingRowExplained
<1>1. j \in At("event", s) \cup At("end", s) BY SettledIsPrefix DEF At, Kept
<1>2. CASE Gave("start", s) BY <1>2
<1>3. CASE At("start", s) # {}
  <2>1. PICK i : i \in At("start", s) BY <1>3
  <2>2. i < j BY <1>1, <2>1 DEF SentInv, OrderInv, Ordered
  <2>3. i \in DOMAIN accepted /\ DOMAIN accepted = 1..Len(accepted) /\ Len(accepted) \in Nat
    BY <2>1 DEF At, TypeOK
  <2>4. i \in 1..j /\ i \in DOMAIN settled
    BY <2>2, <2>3, SettledIsPrefix
  <2>5. Kept("start", s, i) \/ Failed("start", s) BY <2>1, <2>4, KeptOrFailed
  <2> QED BY <2>4, <2>5 DEF HasRow
<1> QED BY <1>1, <1>2, <1>3 DEF SentInv, CallsMade, Sent

(* SentInv with the store's own invariants, in every state of the node.    *)
LEMMA NodeSends == NodeSpec => [](TypeOK /\ OpsConserved /\ SentInv)
<1>1. NodeInit => SentInv
  <2> SUFFICES ASSUME NodeInit PROVE SentInv OBVIOUS
  <2>1. accepted = <<>> /\ hpc = [s \in Sessions |-> "idle"] BY DEF NodeInit, Init
  <2>2. \A s \in Sessions : \A k : At(k, s) = {} BY <2>1 DEF At
  <2>3. OrderInv BY <2>1, <2>2 DEF OrderInv, Ordered, NotYet
  <2> QED BY <2>1, <2>2, <2>3 DEF SentInv, CallsMade, Places
<1>2. SentInv /\ [NodeNext]_allVars => SentInv' BY NodeStepKeepsSent
<1>3. NodeSpec => [](TypeOK /\ OpsConserved)
  BY NodeUsesStore, StoreTypeOK, StoreConservesOps, PTL
<1> QED BY <1>1, <1>2, <1>3, PTL DEF NodeSpec

(* A row that stays open belongs to a handler that runs or was cut off, or *)
(* to an end that is on the way, was dropped or failed: no early return    *)
(* and no interleaving with the shutdown skips the deferred EndSession.    *)
THEOREM OpenRowsAreExplained == NodeSpec => []OpenRowExplained
BY NodeSends, OpenRows, PTL

(* An event or an end without the row of its session means that the start  *)
(* was dropped by the full channel or failed in its transaction.           *)
THEOREM MissingRowsAreExplained == NodeSpec => []MissingRowExplained
BY NodeSends, MissingRows, PTL
===============================================================================
