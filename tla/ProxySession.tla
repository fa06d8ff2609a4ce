----------------------------- MODULE ProxySession -----------------------------
(***************************************************************************)
(* The node process around the metrics store: the stream handlers of       *)
(* hypernet/services/proxy/server (handleProxyStream, one per proxy        *)
(* stream), the quality loop each of them starts, and the shutdown         *)
(* sequence of hypernet/node/daemon Run.                                   *)
(*                                                                         *)
(* A handler and its quality loop run on context.Background and know       *)
(* nothing of the shutdown: Run's deferred calls close the store first and *)
(* the libp2p host last.  A session id is a fresh uuid, so no session      *)
(* outlives its process.                                                   *)
(***************************************************************************)
EXTENDS MetricsStore

CONSTANTS Main,            \* the goroutine of Run, which calls Close
          MaxSamples       \* bound: quality samples of a session

ASSUME MainAssumption == Main \in Closers /\ MaxSamples \in Nat

VARIABLES
    hpc,           \* where the handler of a session is
    qpc,           \* where its quality loop is
    done,          \* sessions whose channel "done" is closed
    samples,       \* quality samples a session has taken
    mpc,           \* where Run is
    dropped        \* history: operations that found the channel full

node == <<hpc, qpc, done, samples, mpc, dropped>>
allVars == <<vars, node>>

NodeInit ==
    /\ Init
    /\ hpc = [s \in Sessions |-> "idle"] /\ qpc = [s \in Sessions |-> "none"]
    /\ done = {} /\ samples = [s \in Sessions |-> 0]
    /\ mpc = "running" /\ dropped = {}

Alive == proc = "up" /\ mpc # "exited"
MayCall == Len(accepted) < MaxOps /\ (closed => deaths < MaxDeaths)

-----------------------------------------------------------------------------
(* The process is gone, and with it every goroutine.                       *)
AllGone ==
    /\ hpc' = [s \in Sessions |-> IF hpc[s] \in {"idle", "done"} THEN hpc[s] ELSE "gone"]
    /\ qpc' = [s \in Sessions |-> IF qpc[s] = "none" THEN "none" ELSE "stopped"]
    /\ mpc' = "running"

(* What a call of the store leaves behind: the panic of a send on the      *)
(* closed channel takes the whole process down, otherwise the caller goes  *)
(* on as "goesOn" says.                                                    *)
AfterCall(kind, s, goesOn) ==
    /\ \/ proc' = "up" /\ goesOn
       \/ proc' # "up" /\ AllGone
    /\ dropped' = IF proc' = "up" /\ accepted' = accepted
                  THEN dropped \cup {[kind |-> kind, id |-> s]} ELSE dropped

Handler(s, next) == hpc' = [hpc EXCEPT ![s] = next] /\ UNCHANGED <<qpc, mpc>>

-----------------------------------------------------------------------------
(* handleProxyStream.                                                      *)

(* A stream arrives: the quality loop is started before the session is.    *)
(* Without a quality interval there is no loop; MaxSamples = 0 amounts to  *)
(* that.                                                                   *)
Arrive(s) ==
    /\ Alive /\ mpc # "hostClosed" /\ hpc[s] = "idle"
    /\ hpc' = [hpc EXCEPT ![s] = "starting"]
    /\ qpc' = [qpc EXCEPT ![s] = "waiting"]
    /\ UNCHANGED <<vars, done, samples, mpc, dropped>>

(* Mutant of HandlerStart: the session is recorded for some requests only. *)
HandlerStartOptional(s) ==
    /\ Alive /\ hpc[s] = "starting" /\ MayCall
    /\ \/ StartSession(s) /\ AfterCall("start", s, Handler(s, "request"))
       \/ UNCHANGED <<vars, dropped>> /\ Handler(s, "request")
    /\ UNCHANGED <<done, samples>>

HandlerStart(s) ==
    /\ Alive /\ hpc[s] = "starting" /\ MayCall
    /\ StartSession(s) /\ AfterCall("start", s, Handler(s, "request"))
    /\ UNCHANGED <<done, samples>>

(* Mutant of RequestFails: the early return skips EndSession.              *)
RequestFailsNoEnd(s) ==
    /\ Alive /\ hpc[s] = "request" /\ MayCall
    /\ AddEvent(s) /\ AfterCall("event", s, Handler(s, "closing"))
    /\ UNCHANGED <<done, samples>>

(* handshake_failed, read_request_error or bad_request, and return.  (The  *)
(* one return that writes no event is under ServeOther.)                   *)
RequestFails(s) ==
    /\ Alive /\ hpc[s] = "request" /\ MayCall
    /\ AddEvent(s) /\ AfterCall("event", s, Handler(s, "ending"))
    /\ UNCHANGED <<done, samples>>

(* handleTCPProxy: dial_error or write_ok_error, and after it the          *)
(* tcp_proxy_error of its caller.                                          *)
DialFails(s) ==
    /\ Alive /\ hpc[s] = "request" /\ MayCall
    /\ AddEvent(s) /\ AfterCall("event", s, Handler(s, "failing"))
    /\ UNCHANGED <<done, samples>>

TcpProxyError(s) ==
    /\ Alive /\ hpc[s] = "failing" /\ MayCall
    /\ AddEvent(s) /\ AfterCall("event", s, Handler(s, "ending"))
    /\ UNCHANGED <<done, samples>>

(* handleTCPProxy: the target answers and pipeBidirectional begins.        *)
DialTarget(s) ==
    /\ Alive /\ hpc[s] = "request"
    /\ Handler(s, "piping")
    /\ UNCHANGED <<vars, done, samples, dropped>>

(* pipeBidirectional returns: session_closed.                              *)
PipeOver(s) ==
    /\ Alive /\ hpc[s] = "piping" /\ MayCall
    /\ AddEvent(s) /\ AfterCall("event", s, Handler(s, "ending"))
    /\ UNCHANGED <<done, samples>>

(* The ways through the handler that write no event: handleUDPProxy, a     *)
(* protocol the switch does not know, and the return in the obfuscation    *)
(* exchange when the agreed line cannot be written.                        *)
ServeOther(s) ==
    /\ Alive /\ hpc[s] = "request"
    /\ Handler(s, "ending")
    /\ UNCHANGED <<vars, done, samples, dropped>>

(* Mutant of HandlerEnd: the explicit call and the deferred one both run.  *)
HandlerEndTwice(s) ==
    /\ Alive /\ hpc[s] = "ending" /\ MayCall
    /\ EndSession(s) /\ \E next \in {"ending", "closing"} : AfterCall("end", s, Handler(s, next))
    /\ UNCHANGED <<done, samples>>

(* The deferred EndSession, then the deferred close(done).                 *)
HandlerEnd(s) ==
    /\ Alive /\ hpc[s] = "ending" /\ MayCall
    /\ EndSession(s) /\ AfterCall("end", s, Handler(s, "closing"))
    /\ UNCHANGED <<done, samples>>

HandlerReturn(s) ==
    /\ Alive /\ hpc[s] = "closing"
    /\ Handler(s, "done") /\ done' = done \cup {s}
    /\ UNCHANGED <<vars, samples, dropped>>

-----------------------------------------------------------------------------
(* runQualityLoop: the ticker fires, the ping is over, done is seen.  With *)
(* both the ticker and done ready the select may take either.              *)
QualityTick(s) ==
    /\ Alive /\ qpc[s] = "waiting" /\ samples[s] < MaxSamples
    /\ qpc' = [qpc EXCEPT ![s] = "pinging"]
    /\ samples' = [samples EXCEPT ![s] = @ + 1]
    /\ UNCHANGED <<vars, hpc, done, mpc, dropped>>

QualitySample(s) ==
    /\ Alive /\ qpc[s] = "pinging" /\ MayCall
    /\ AddQualitySample(s)
    /\ AfterCall("sample", s, qpc' = [qpc EXCEPT ![s] = "waiting"] /\ UNCHANGED <<hpc, mpc>>)
    /\ UNCHANGED <<done, samples>>

QualityStop(s) ==
    /\ Alive /\ qpc[s] = "waiting" /\ s \in done
    /\ qpc' = [qpc EXCEPT ![s] = "stopped"]
    /\ UNCHANGED <<vars, hpc, done, samples, mpc, dropped>>

-----------------------------------------------------------------------------
(* Run after <-ctx.Done(): its deferred calls, last one first.             *)
MainStep(from, to) ==
    /\ Alive /\ mpc = from /\ mpc' = to
    /\ UNCHANGED <<hpc, qpc, done, samples, dropped>>

CloseStore == MainStep("running", "closing") /\ Close(Main)

(* Mutant of StoreClosed: the database is closed under the writer.         *)
StoreClosedNoWait == MainStep("closing", "storeClosed") /\ CloseReturnNoWait(Main)

StoreClosed == MainStep("closing", "storeClosed") /\ CloseReturn(Main)
CloseHost == MainStep("storeClosed", "hostClosed") /\ UNCHANGED vars
Exit == MainStep("hostClosed", "exited") /\ UNCHANGED vars

(* The writer goroutine of the store, a crash, and the next process.       *)
WriterStep == Alive /\ Writer /\ UNCHANGED node
NodeCrash == Alive /\ Crash /\ AllGone /\ UNCHANGED <<done, samples, dropped>>
NodeRestart == NewStore /\ UNCHANGED node

-----------------------------------------------------------------------------
SessionStep(s) ==
    \/ Arrive(s) \/ HandlerStart(s) \/ RequestFails(s) \/ DialFails(s) \/ TcpProxyError(s)
    \/ DialTarget(s) \/ PipeOver(s) \/ ServeOther(s) \/ HandlerEnd(s) \/ HandlerReturn(s)
    \/ QualityTick(s) \/ QualitySample(s) \/ QualityStop(s)

NodeNext ==
    \/ \E s \in Sessions : SessionStep(s)
    \/ CloseStore \/ StoreClosed \/ CloseHost \/ Exit
    \/ WriterStep \/ NodeCrash \/ NodeRestart

NodeSpec == NodeInit /\ [][NodeNext]_allVars

(* The writer as in MetricsStore; a handler that has a call to make makes  *)
(* it.  Nothing obliges a stream to arrive, a relay to end, or a peer to   *)
(* answer a ping.                                                          *)
NodeFairness ==
    /\ WF_allVars(Alive /\ Recv /\ UNCHANGED node) /\ WF_allVars(Alive /\ Tick /\ UNCHANGED node)
    /\ WF_allVars(Alive /\ RecvClosed /\ UNCHANGED node)
    /\ WF_allVars(Alive /\ BeginOk /\ UNCHANGED node)
    /\ WF_allVars(Alive /\ ApplyOp(TRUE) /\ UNCHANGED node)
    /\ WF_allVars(Alive /\ Commit /\ UNCHANGED node)
    /\ WF_allVars(StoreClosed) /\ WF_allVars(CloseHost) /\ WF_allVars(Exit)
    /\ \A s \in Sessions :
          WF_allVars(HandlerStart(s)) /\ WF_allVars(HandlerEnd(s)) /\ WF_allVars(HandlerReturn(s))

NodeFairSpec == NodeSpec /\ NodeFairness
-----------------------------------------------------------------------------
At(kind, s) == {i \in DOMAIN accepted : accepted[i] = [kind |-> kind, id |-> s]}

(* In the stream of operations a session is started at most once, ended at *)
(* most once, and between the two come all events its handler writes;      *)
(* samples may come at any time.                                           *)
SessionOrder ==
    \A s \in Sessions :
        /\ \A i, j \in At("start", s) : i = j
        /\ \A i, j \in At("end", s) : i = j
        /\ \A i \in At("start", s), j \in At("event", s) \cup At("end", s) : i < j
        /\ \A i \in At("event", s), j \in At("end", s) : i < j

Fate(kind, s) == [op |-> [kind |-> kind, id |-> s], ok |-> FALSE]
Failed(kind, s) == Fate(kind, s) \in {settled[i] : i \in DOMAIN settled}
Pending(kind, s) == [kind |-> kind, id |-> s] \in {(batch \o queue)[i] : i \in DOMAIN (batch \o queue)}
Gave(kind, s) == [kind |-> kind, id |-> s] \in dropped

(* A session whose row is open for ever has a reason: its handler was cut  *)
(* off by the end of its process, or its end was dropped by the full       *)
(* channel or lost in a failed transaction.  Otherwise it is still running *)
(* or its end is on the way.                                               *)
OpenRowExplained ==
    \A s \in Sessions :
        HasRow(s, Len(settled)) /\ ~RowEnded(s) =>
            \/ hpc[s] \in {"starting", "request", "failing", "piping", "ending", "gone"}
            \/ Pending("end", s) \/ Gave("end", s) \/ Failed("end", s)

(* An event or an end that is stored without the row of its session has a  *)
(* reason too: the start was dropped, or its transaction failed.  It never *)
(* overtakes a start that is still on the way.                             *)
MissingRowExplained ==
    \A s \in Sessions, i \in DOMAIN settled :
        Kept("event", s, i) \/ Kept("end", s, i) =>
            HasRow(s, i) \/ Gave("start", s) \/ Failed("start", s)

(* What the panic of a send on the closed channel costs.  It comes only in *)
(* a shutdown, also after a crash and a restart.  While Close waits for    *)
(* the writer it takes with it what the writer has not committed, a full   *)
(* batch and a full channel at most; from the moment Close has returned,   *)
(* while the host is still open and handlers run on, it takes nothing.     *)
PanicCost ==
    [][proc = "up" /\ proc' = "panicked" =>
          /\ mpc # "running"
          /\ Len(settled') <= Len(settled)
                + (IF mpc = "closing" THEN MaxBatch + QueueCap ELSE 0)]_allVars

(* A session that has begun to end gets its row closed in the database, if *)
(* nothing was dropped and no transaction and no process failed.           *)
SessionsGetEnded ==
    \A s \in Sessions :
        (hpc[s] = "ending") ~>
            (RowEnded(s) \/ dropped # {} \/ faults > 0 \/ deaths > 0 \/ mpc = "exited")

-----------------------------------------------------------------------------
(* What ARCHITECTURE.md asks of the daemon: a graceful shutdown.  The code *)
(* closes the channel while handlers that will still send on it run.       *)
NoPanic == proc # "panicked"
===============================================================================
