----------------------------- MODULE MetricsStore -----------------------------
(***************************************************************************)
(* The SQLite metrics store of hypernet/services/proxy/metrics/store.go:   *)
(* callers put operations on a bounded channel without ever blocking, one  *)
(* writer goroutine collects them into batches and writes each batch in    *)
(* one transaction, FlushNow waits for a marker operation to be applied,   *)
(* Close closes the channel and waits for the writer.                      *)
(*                                                                         *)
(* A step of the writer is one select, one Begin, one apply or one Commit; *)
(* callers interleave between any two of them.  The database is kept as    *)
(* the sequence of settled operations with the outcome each one had; what  *)
(* a table holds is a function of that sequence (HasRow, RowEnded).        *)
(***************************************************************************)
EXTENDS Naturals, Sequences

CONSTANTS
    Sessions,      \* session identifiers (uuid strings in the code)
    Flushers,      \* calls of FlushNow
    Closers,       \* goroutines that call Close
    QueueCap,      \* capacity of Store.ops (1024)
    MaxBatch,      \* batch length that forces a flush (128)
    MaxOps,        \* bound: operations accepted in a behaviour
    MaxFaults,     \* bound: failures of Begin, apply and Commit
    MaxDeaths      \* bound: crashes and panics of the process

ASSUME CapAssumption == QueueCap \in Nat \ {0} /\ MaxBatch \in Nat \ {0}
ASSUME BoundAssumption == MaxOps \in Nat /\ MaxFaults \in Nat /\ MaxDeaths \in Nat

VARIABLES
    proc,          \* "up", or how the process died
    queue,         \* contents of the channel Store.ops
    closed,        \* the channel has been closed
    batch,         \* writerLoop's local batch
    tx,            \* outcomes of the applies of the open transaction
    wpc,           \* where the writer goroutine is
    exiting,       \* the flush in progress was caused by the closed channel
    settled,       \* every operation that left the writer, with its outcome
    dbOpen,        \* Store.db is usable
    fpc,           \* FlushNow calls
    doneCh,        \* FlushNow calls whose channel "done" is closed
    cpc,           \* Close calls
    faults, deaths,
    accepted,      \* history: operations the channel accepted
    mark           \* history: Len(accepted) when a FlushNow was called

store == <<queue, closed, batch, tx, wpc, exiting, settled, dbOpen, fpc, doneCh, cpc>>
vars == <<proc, store, faults, deaths, accepted, mark>>

Kinds == {"start", "end", "update", "sample", "event"}
FlushOp(f) == [kind |-> "flush", id |-> f]
Op == [kind : Kinds, id : Sessions] \cup {FlushOp(f) : f \in Flushers}
Entry == [op : Op, ok : BOOLEAN]

(* The outcome of operations that were discarded.                          *)
Lost(s) == [i \in DOMAIN s |-> [op |-> s[i], ok |-> FALSE]]
OpsOf(s) == [i \in DOMAIN s |-> s[i].op]

-----------------------------------------------------------------------------
(* The tables, as the apply methods leave them.  opStart inserts a row     *)
(* unless the id is there; opEnd updates the row if the id is there.       *)
Kept(kind, s, i) == settled[i].ok /\ settled[i].op = [kind |-> kind, id |-> s]

HasRow(s, n) == \E i \in 1..n : Kept("start", s, i)

RowEnded(s) == \E i \in DOMAIN settled : Kept("end", s, i) /\ HasRow(s, i)

-----------------------------------------------------------------------------
(* NewStore: empty channel, writer goroutine at its select.                *)
Init ==
    /\ proc = "up" /\ dbOpen = TRUE
    /\ queue = <<>> /\ closed = FALSE
    /\ batch = <<>> /\ tx = <<>> /\ wpc = "select" /\ exiting = FALSE
    /\ settled = <<>>
    /\ fpc = [f \in Flushers |-> "idle"] /\ doneCh = {}
    /\ cpc = [c \in Closers |-> "idle"]
    /\ faults = 0 /\ deaths = 0
    /\ accepted = <<>> /\ mark = [f \in Flushers |-> 0]

(* The process ends: whatever is in memory or in an open transaction goes. *)
Die(how) ==
    /\ proc' = how /\ deaths' = deaths + 1
    /\ settled' = settled \o Lost(batch \o queue)
    /\ queue' = <<>> /\ closed' = FALSE
    /\ batch' = <<>> /\ tx' = <<>> /\ wpc' = "select" /\ exiting' = FALSE
    /\ dbOpen' = FALSE /\ doneCh' = {}
    /\ fpc' = [f \in Flushers |-> IF fpc[f] = "waiting" THEN "gone" ELSE fpc[f]]
    /\ cpc' = [c \in Closers |-> "idle"]
    /\ UNCHANGED <<faults, accepted, mark>>

Crash ==
    /\ proc = "up" /\ deaths < MaxDeaths
    /\ Die("crashed")

(* A new process opens the same file; the tables are as they were.         *)
NewStore ==
    /\ proc # "up"
    /\ proc' = "up" /\ dbOpen' = TRUE
    /\ UNCHANGED <<queue, closed, batch, tx, wpc, exiting, settled, fpc, doneCh, cpc,
                   faults, deaths, accepted, mark>>

-----------------------------------------------------------------------------
(* Mutant of SendAccepted: one operation more than the channel holds.      *)
SendAcceptedOffByOne(op) ==
    /\ ~closed /\ Len(queue) <= QueueCap
    /\ queue' = Append(queue, op)
    /\ accepted' = Append(accepted, op)
    /\ UNCHANGED <<proc, closed, batch, tx, wpc, exiting, settled, dbOpen, doneCh, cpc,
                   faults, deaths>>

(* Mutant of SendAccepted: the operation is sent twice.                    *)
SendAcceptedTwice(op) ==
    /\ ~closed /\ Len(queue) + 1 < QueueCap
    /\ queue' = queue \o <<op, op>>
    /\ accepted' = accepted \o <<op, op>>
    /\ UNCHANGED <<proc, closed, batch, tx, wpc, exiting, settled, dbOpen, doneCh, cpc,
                   faults, deaths>>

(* select { case s.ops <- op: default: }: accepted, dropped when the       *)
(* channel is full, and a panic when it is closed.                         *)
SendAccepted(op) ==
    /\ ~closed /\ Len(queue) < QueueCap
    /\ queue' = Append(queue, op)
    /\ accepted' = Append(accepted, op)
    /\ UNCHANGED <<proc, closed, batch, tx, wpc, exiting, settled, dbOpen, doneCh, cpc,
                   faults, deaths>>

SendDropped ==
    /\ ~closed /\ Len(queue) >= QueueCap
    /\ UNCHANGED <<proc, queue, closed, batch, tx, wpc, exiting, settled, dbOpen, doneCh,
                   cpc, faults, deaths, accepted>>

SendPanics == closed /\ Die("panicked")

Offer(op) ==
    /\ proc = "up"
    /\ \/ SendAccepted(op) /\ UNCHANGED <<fpc, mark>>
       \/ SendDropped /\ UNCHANGED <<fpc, mark>>
       \/ SendPanics

StartSession(s) == Offer([kind |-> "start", id |-> s])
EndSession(s) == Offer([kind |-> "end", id |-> s])
AddQualitySample(s) == Offer([kind |-> "sample", id |-> s])
AddEvent(s) == Offer([kind |-> "event", id |-> s])

(* Both deltas zero: nothing is sent.                                      *)
UpdateSession(s, zero) == ~zero /\ Offer([kind |-> "update", id |-> s])

-----------------------------------------------------------------------------
(* FlushNow sends a marker; a full channel makes it return at once.        *)
FlushNow(f) ==
    /\ proc = "up" /\ fpc[f] = "idle"
    /\ \/ /\ SendAccepted(FlushOp(f))
          /\ fpc' = [fpc EXCEPT ![f] = "waiting"]
          /\ mark' = [mark EXCEPT ![f] = Len(accepted)]
       \/ /\ SendDropped
          /\ fpc' = [fpc EXCEPT ![f] = "skipped"]
          /\ mark' = [mark EXCEPT ![f] = Len(accepted)]
       \/ SendPanics

(* <-done                                                                  *)
FlushReturn(f) ==
    /\ proc = "up" /\ fpc[f] = "waiting" /\ f \in doneCh
    /\ fpc' = [fpc EXCEPT ![f] = "returned"]
    /\ UNCHANGED <<proc, queue, closed, batch, tx, wpc, exiting, settled, dbOpen, doneCh,
                   cpc, faults, deaths, accepted, mark>>

(* Mutant of Close: the database is closed before wg.Wait.                 *)
CloseDbFirst(c) ==
    /\ proc = "up" /\ cpc[c] = "idle"
    /\ closed' = TRUE /\ dbOpen' = FALSE
    /\ cpc' = [cpc EXCEPT ![c] = "waiting"]
    /\ UNCHANGED <<proc, queue, batch, tx, wpc, exiting, settled, fpc, doneCh,
                   faults, deaths, accepted, mark>>

(* once.Do(close(s.ops)), then wg.Wait.                                    *)
Close(c) ==
    /\ proc = "up" /\ cpc[c] = "idle"
    /\ closed' = TRUE
    /\ cpc' = [cpc EXCEPT ![c] = "waiting"]
    /\ UNCHANGED <<proc, queue, batch, tx, wpc, exiting, settled, dbOpen, fpc, doneCh,
                   faults, deaths, accepted, mark>>

(* Mutant of CloseReturn: the database is closed without wg.Wait.          *)
CloseReturnNoWait(c) ==
    /\ proc = "up" /\ cpc[c] = "waiting"
    /\ dbOpen' = FALSE
    /\ cpc' = [cpc EXCEPT ![c] = "returned"]
    /\ UNCHANGED <<proc, queue, closed, batch, tx, wpc, exiting, settled, fpc, doneCh,
                   faults, deaths, accepted, mark>>

(* wg.Wait is over; db.Close.                                              *)
CloseReturn(c) ==
    /\ proc = "up" /\ cpc[c] = "waiting" /\ wpc = "stopped"
    /\ dbOpen' = FALSE
    /\ cpc' = [cpc EXCEPT ![c] = "returned"]
    /\ UNCHANGED <<proc, queue, closed, batch, tx, wpc, exiting, settled, fpc, doneCh,
                   faults, deaths, accepted, mark>>

-----------------------------------------------------------------------------
(* writerLoop.                                                             *)
callers == <<proc, closed, dbOpen, fpc, cpc, deaths, accepted, mark>>

(* Mutant of Recv: "done" is closed when the marker is received.           *)
RecvSignalsFlush ==
    /\ proc = "up" /\ wpc = "select" /\ queue # <<>>
    /\ queue' = Tail(queue)
    /\ batch' = Append(batch, Head(queue))
    /\ wpc' = IF Len(batch') >= MaxBatch THEN "begin" ELSE "select"
    /\ doneCh' = IF Head(queue).kind = "flush" THEN doneCh \cup {Head(queue).id} ELSE doneCh
    /\ UNCHANGED <<callers, tx, exiting, settled, faults>>

(* case o := <-s.ops: append, flush when the batch is long enough.         *)
Recv ==
    /\ proc = "up" /\ wpc = "select" /\ queue # <<>>
    /\ queue' = Tail(queue)
    /\ batch' = Append(batch, Head(queue))
    /\ wpc' = IF Len(batch') >= MaxBatch THEN "begin" ELSE "select"
    /\ UNCHANGED <<callers, tx, exiting, settled, doneCh, faults>>

(* Mutant of RecvClosed: the loop returns without the last flush.          *)
RecvClosedNoFlush ==
    /\ proc = "up" /\ wpc = "select" /\ queue = <<>> /\ closed
    /\ exiting' = TRUE
    /\ wpc' = "stopped"
    /\ UNCHANGED <<callers, queue, batch, tx, settled, doneCh, faults>>

(* case _, !ok := <-s.ops: closed and drained; flush and return.           *)
RecvClosed ==
    /\ proc = "up" /\ wpc = "select" /\ queue = <<>> /\ closed
    /\ exiting' = TRUE
    /\ wpc' = IF batch = <<>> THEN "stopped" ELSE "begin"
    /\ UNCHANGED <<callers, queue, batch, tx, settled, doneCh, faults>>

(* Mutant of Tick: the ticker flushes full batches only.                   *)
TickFullOnly ==
    /\ proc = "up" /\ wpc = "select" /\ Len(batch) >= MaxBatch
    /\ wpc' = "begin"
    /\ UNCHANGED <<callers, queue, batch, tx, exiting, settled, doneCh, faults>>

(* case <-ticker.C: flush.  With an empty batch flush returns at once.     *)
Tick ==
    /\ proc = "up" /\ wpc = "select" /\ batch # <<>>
    /\ wpc' = "begin"
    /\ UNCHANGED <<callers, queue, batch, tx, exiting, settled, doneCh, faults>>

(* Mutant of FlushOver: the batch is not reset.                            *)
FlushOverKeepsBatch(entries) ==
    /\ settled' = settled \o entries
    /\ tx' = <<>>
    /\ wpc' = IF exiting THEN "stopped" ELSE "select"
    /\ UNCHANGED <<callers, queue, batch, exiting, doneCh>>

(* flush is over: batch = nil, back to the select or out of the loop.      *)
FlushOver(entries) ==
    /\ settled' = settled \o entries
    /\ batch' = <<>> /\ tx' = <<>>
    /\ wpc' = IF exiting THEN "stopped" ELSE "select"
    /\ UNCHANGED <<callers, queue, exiting, doneCh>>

BeginOk ==
    /\ proc = "up" /\ wpc = "begin"
    /\ wpc' = "apply"
    /\ UNCHANGED <<callers, queue, batch, tx, exiting, settled, doneCh, faults>>

(* Begin fails: the batch is dropped, its FlushNow markers with it.        *)
BeginFails ==
    /\ proc = "up" /\ wpc = "begin" /\ faults < MaxFaults
    /\ faults' = faults + 1
    /\ FlushOver(Lost(batch))

(* Mutant of ApplyOp: every operation is committed on its own.             *)
ApplyOpAutoCommit(ok) ==
    /\ proc = "up" /\ wpc = "apply" /\ batch # <<>> /\ ok
    /\ settled' = Append(settled, [op |-> Head(batch), ok |-> ok])
    /\ batch' = Tail(batch)
    /\ UNCHANGED <<callers, queue, tx, wpc, exiting, doneCh, faults>>

(* Mutant of ApplyOp: the marker of FlushNow does not close "done".        *)
ApplyOpNoSignal(ok) ==
    /\ proc = "up" /\ wpc = "apply" /\ Len(tx) < Len(batch) /\ ok
    /\ tx' = Append(tx, [op |-> batch[Len(tx) + 1], ok |-> ok])
    /\ UNCHANGED <<callers, queue, batch, wpc, exiting, settled, doneCh, faults>>

(* _ = o.apply(tx) for the next operation of the batch.  The marker of     *)
(* FlushNow closes "done" here and cannot fail.                            *)
ApplyOp(ok) ==
    LET op == batch[Len(tx) + 1] IN
    /\ proc = "up" /\ wpc = "apply" /\ Len(tx) < Len(batch)
    /\ tx' = Append(tx, [op |-> op, ok |-> ok])
    /\ \/ ok /\ UNCHANGED faults
       \/ ~ok /\ op.kind # "flush" /\ faults < MaxFaults /\ faults' = faults + 1
    /\ doneCh' = IF op.kind = "flush" THEN doneCh \cup {op.id} ELSE doneCh
    /\ UNCHANGED <<callers, queue, batch, wpc, exiting, settled>>

(* _ = tx.Commit(): a failed commit is not noticed.                        *)
Commit ==
    /\ proc = "up" /\ wpc = "apply" /\ Len(tx) = Len(batch)
    /\ \/ FlushOver(tx) /\ UNCHANGED faults
       \/ faults < MaxFaults /\ faults' = faults + 1 /\ FlushOver(Lost(batch))

Writer == Recv \/ RecvClosed \/ Tick \/ BeginOk \/ BeginFails
          \/ (\E ok \in BOOLEAN : ApplyOp(ok)) \/ Commit

-----------------------------------------------------------------------------
CallOp ==
    /\ Len(accepted) < MaxOps /\ (closed => deaths < MaxDeaths)
    /\ \/ \E s \in Sessions : \/ StartSession(s) \/ EndSession(s)
                              \/ AddQualitySample(s) \/ AddEvent(s)
                              \/ \E zero \in BOOLEAN : UpdateSession(s, zero)
       \/ \E f \in Flushers : FlushNow(f)

Next ==
    \/ CallOp
    \/ Writer
    \/ \E f \in Flushers : FlushReturn(f)
    \/ \E c \in Closers : Close(c) \/ CloseReturn(c)
    \/ Crash
    \/ NewStore

Spec == Init /\ [][Next]_vars

(* Go's select picks among the ready cases at random and the ticker keeps  *)
(* firing, so no ready case of the writer is passed over for ever; a       *)
(* goroutine whose channel or wait group is ready is scheduled.            *)
Fairness ==
    /\ WF_vars(Recv) /\ WF_vars(RecvClosed) /\ WF_vars(Tick)
    /\ WF_vars(BeginOk) /\ WF_vars(ApplyOp(TRUE)) /\ WF_vars(Commit)
    /\ \A f \in Flushers : WF_vars(FlushReturn(f))
    /\ \A c \in Closers : WF_vars(CloseReturn(c))

FairSpec == Spec /\ Fairness
-----------------------------------------------------------------------------
(* Type correctness, with the two bounds of the code: the channel never    *)
(* holds more than QueueCap operations and the batch never more than       *)
(* MaxBatch.                                                               *)
TypeOK ==
    /\ proc \in {"up", "crashed", "panicked"}
    /\ queue \in Seq(Op) /\ Len(queue) <= QueueCap
    /\ batch \in Seq(Op) /\ Len(batch) <= MaxBatch
    /\ tx \in Seq(Entry) /\ settled \in Seq(Entry) /\ accepted \in Seq(Op)
    /\ closed \in BOOLEAN /\ exiting \in BOOLEAN /\ dbOpen \in BOOLEAN
    /\ wpc \in {"select", "begin", "apply", "stopped"}
    /\ fpc \in [Flushers -> {"idle", "waiting", "returned", "skipped", "gone"}]
    /\ doneCh \subseteq Flushers
    /\ cpc \in [Closers -> {"idle", "waiting", "returned"}]
    /\ faults \in Nat /\ deaths \in Nat
    /\ mark \in [Flushers -> Nat]

(* Nothing the channel accepted is forgotten, duplicated or reordered by   *)
(* the select, by a batch boundary, by a failed flush or by a crash: what  *)
(* was settled, then the batch, then the channel, is exactly what was      *)
(* accepted, and an open transaction has applied a prefix of the batch.    *)
OpsConserved ==
    /\ OpsOf(settled) \o batch \o queue = accepted
    /\ OpsOf(tx) = SubSeq(batch, 1, Len(tx))

(* writerLoop never begins, applies or commits on a database that Close    *)
(* has already closed, however many goroutines call Close and whenever.    *)
WriterHasDB == wpc \in {"begin", "apply"} => dbOpen

(* Close is a drain: when it returns, every operation accepted before it   *)
(* has been settled, and none is lost unless a Begin, an apply or a Commit *)
(* failed or an earlier process died.                                      *)
CloseDrains ==
    (\E c \in Closers : cpc[c] = "returned") =>
        /\ Len(settled) = Len(accepted)
        /\ faults = 0 /\ deaths = 0 => \A i \in DOMAIN settled : settled[i].ok

(* When FlushNow returns from its wait, every operation accepted before    *)
(* the call has been applied in a transaction or settled.                  *)
FlushNowApplied ==
    \A f \in Flushers :
        fpc[f] = "returned" => Len(settled) + Len(tx) > mark[f]

(* The settled operations only grow, and by whole batches: no reader of    *)
(* the tables ever sees a part of a batch without the rest of it.          *)
BatchAtomic ==
    [][settled' # settled =>
          /\ Len(settled') >= Len(settled) + Len(batch)
          /\ SubSeq(settled', 1, Len(settled)) = settled]_vars

(* Every accepted operation is settled: the ticker empties a batch that    *)
(* never becomes full.                                                     *)
EventuallySettled ==
    \A n \in 1..MaxOps : (Len(accepted) >= n) ~> (Len(settled) >= n)

(* Whoever waits for the writer stops waiting: Close unless the process    *)
(* dies first, FlushNow unless the batch that carried its marker was       *)
(* dropped by a failed Begin.                                              *)
WaitsEnd ==
    /\ \A c \in Closers : (cpc[c] = "waiting") ~> (cpc[c] = "returned" \/ proc # "up")
    /\ \A f \in Flushers :
          (fpc[f] = "waiting") ~>
              \/ fpc[f] # "waiting"
              \/ \E i \in DOMAIN settled : settled[i] = [op |-> FlushOp(f), ok |-> FALSE]

(* The store implements the asynchronous log.                              *)
Log == INSTANCE MetricsLog WITH pending <- batch \o queue, stored <- settled
LogRefined == Log!LogSpec

===============================================================================
