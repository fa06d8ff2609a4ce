# hyper-net: TLA+ models and proofs

This directory holds a verification development for the Go program in `src/`:
TLA+ modules translated from its source, TLC configurations that model-check
them on small instances, and TLAPS proofs of the properties that matter most,
for every value of the parameters. `PROJECT.json` records which definition
stands for which source lines, which run checks which property, and which small
change of the model (a plausible bug of the code) breaks it.

* [1. The system](#1-the-system)
* [2. Modules and how they correspond to the code](#2-modules-and-how-they-correspond-to-the-code)
* [3. Runs](#3-runs)
* [4. Proofs](#4-proofs)
* [5. Where the code and its words disagree](#5-where-the-code-and-its-words-disagree)
* [6. What is not modelled](#6-what-is-not-modelled)
* [7. Plan](#7-plan)

Run from this directory: `tlc -config MCMetricsStore.cfg MCMetricsStore`,
`tlapm ProxySessionProofs.tla`, and likewise for the others.

## 1. The system

hyper-net is a node of a peer-to-peer proxy network on libp2p. A client host
opens streams to a node; the node dials a target on its behalf and relays.

| Component | State | Operations | Talks to | Hard because | Correct when |
|---|---|---|---|---|---|
| metrics store (`services/proxy/metrics/store.go`) | channel of 1024 operations, the writer's batch, an SQLite file | StartSession, EndSession, UpdateSession, AddQualitySample, AddEvent, FlushNow, Close; the writer goroutine | every stream handler and quality loop calls it; `Run` closes it | sends never block and drop silently; batches, ticker and Close interleave; errors of Begin, Exec and Commit are ignored; the process may die | nothing accepted is lost, doubled or reordered; batches are atomic; Close drains; FlushNow's promise |
| protocol manager (`protomanager/manager.go`) | registered adapters, preferred order, transports | Register, SupportedNames, ChooseCommon, ChooseCommonTransport, setters | both ends of the negotiation | lists with repeated and unknown names | the answer is the best common protocol in the client's order |
| protocol negotiation (`protonegotiate/negotiate.go`, `client/proxy.go`, `server/proxy.go`, `daemon/run.go`) | `chosenProto` in the client, `lastChosen` per peer in the node | ClientNegotiate, HandleStream, RememberChosenProtocol, the two readers | a stream of its own before each proxy stream | two unsynchronised copies of one decision, keyed by object on one side and by peer on the other | both ends act on the same protocol |
| proxy server (`server/proxy.go`) | sessions, counters, deadlines | handleProxyStream, handleTCPProxy, handleUDPProxy, pipeBidirectional, runQualityLoop | metrics store, negotiation, obfuscation, targets | one goroutine per stream, one per quality loop, deferred calls, early returns | every session is recorded from start to end; a relay loses no byte and ends |
| proxy client (`pkg/client/proxy.go`) | manager, chosen protocol, quality history | DialTCP, DialTCPDirect, DialUDP, DialTCPWithFallback, DialTCPWithAutoQuality | negotiation, adapters, node | retries with a rotated order; shared without a lock | a dial that succeeds is a usable tunnel |
| node daemon (`node/daemon/run.go`) | host, DHT, store, name registration | Run and its deferred calls, DNS loop | all of the above | the order of shutdown; periodic refresh | shuts down without losing what was accepted |
| obfuscation negotiation and wrappers (`server/obfs_negotiate.go`, `core/network/obfuscate`) | agreed padding and delay, frame buffer | AgreeObfs, Parse/FormatObfsLine, PaddingConn, DelayConn | first line of a proxy stream | both ends must wrap alike; frame lengths | what is written on one end is read on the other |
| protocol adapters (`pkg/protoadapters`) | session keys, counters, one mutex per session | Handshake, Read, Write, Close | proxy stream | the mutex is held while Read waits | duplex: a reader does not stop a writer |
| smart client (`services/proxy/smartclient`) | provider cache with a TTL, latency and failures per peer | DialTCPViaProtocol: lookup, order, dial one provider after the other, one second lookup | DHT, a proxy client for each dial | cache and statistics are shared by calls that look up and dial for minutes; scores looked up by position during the sort | a call fails only for a reason of its own; lists do not get old; blame is exact; the order follows the scores |
| DHT name system (`services/dns`) | records in the DHT, a cache | Register, Resolve, Unregister, Refresh; validator | DHT, daemon's loop | read-then-write on a replicated store; stale caches and replicas | a live name keeps its owner |
| inbound proxies (`services/proxy/inbound`), REALITY front, proxy-forwarder, tls-front | a listener, two connections per handler | SOCKS5, HTTP CONNECT, dokodemo; outbounds freedom, redirect, blackhole | targets, proxy client | four variants of one shape: who closes the listener, which accept errors end the loop, what is read before the dial, one copy or both awaited | what is sent arrives, in order and whole; handlers and loops end |
| transports, libp2p node, configuration, other tools | library objects | wrappers | | | |

The hazards that follow from this, each at its line, are in `PROJECT.json`
under `hazards`: they are what the properties are for.

## 2. Modules and how they correspond to the code

```
MetricsLog            what the store promises
   ^ refined by
MetricsStore  <-----------+                    MCMetricsStore
   ^ extended by          |
ProxySession  <------ ProxySessionProofs       MCProxySession

ProtoManager  <------ NegotiationProofs        MCProtoManager
   ^ extended by          |
Negotiation   <-----------+                    MCNegotiation

ProxyStream   <------ ProxyStreamProofs        MCProxyStream

QualityDial   <------ QualityDialProofs        MCQualityDial

SmartClient   <------ SmartClientProofs        MCSmartClient

LocalProxy    <------ LocalProxyProofs         MCLocalProxy

DuplexSession <------ DuplexSessionProofs      MCDuplexSession

NameSystem    <------ NameSystemProofs         MCNameSystem
```

**MetricsLog** is the abstract specification: operations are accepted into a
pending sequence and leave it from the front, several at once, each with the
outcome "kept" or "lost".

**MetricsStore** is `metrics/store.go`. `queue` is the channel, `batch` and
`tx` are the local variables of `writerLoop`, `wpc` the writer's place in its
loop. A caller's `select { case s.ops <- op: default: }` is `Offer`: accepted,
dropped on a full channel, or a panic on a closed one (`Die`). The writer's
steps are one receive (`Recv`, `RecvClosed`), one tick (`Tick`), Begin
(`BeginOk`, `BeginFails`), one `apply` (`ApplyOp`), Commit. The code ignores the
errors of apply and Commit, and so does the model: the outcome is only visible
in `settled`, the sequence of all operations that left the writer with what
became of each. A table is a function of `settled` (`HasRow`, `RowEnded`), because the apply methods are an insert that ignores conflicts, an
update by id and two plain inserts; all columns but the session id are left
out. `Die` rolls an open transaction back and loses what is in memory;
`NewStore` opens the same file again. Two history variables: `accepted`, and
`mark`, what had been accepted when a FlushNow was called.

**ProxySession** is the node process around the store. `hpc[s]` follows
`handleProxyStream` through its early returns, each with the event it writes,
to the deferred EndSession and close(done); `qpc[s]` follows `runQualityLoop`,
which starts before StartSession and may still sample after EndSession; `mpc`
follows Run's deferred calls in their order (store first, host last). The store
calls are the actions of MetricsStore themselves, conjoined with what the
caller does next (`AfterCall`), so nothing of the store is modelled twice.
Streams and pings are reduced to which branch is taken.

**ProtoManager** holds the operators of `protomanager/manager.go`: a manager is
a record. `SupportedNames` is the list that the stable sort of the code
produces: preferred names by their last index, then the others by name.
Adapters and names are integers, the empty name is `None = 0`.

**Negotiation** is the agreement on a protocol. An attempt `<<d, k>>` is the
k-th attempt of the call `d` of DialTCPWithFallback; `dpc` is the client's
place in DialTCP, `npc` the node's negotiation handler for it, `chosenProto` the
field of the client object, `lastChosen` the node's map by peer id, `mode` and
`snap` what each end finally acts on. Streams deliver or break
(`NegotiateFails`, `HandleStreamFails`, `DialFails`); the node restarts with
another configuration (`Restart`). The reads of `chosenProto` in DialTCP are a
series of comparisons without a lock: while another goroutine of the same
client is dialling, `PickHandshake` may see none of them succeed. `orderly` is
a history variable: the attempt has run alone for its peer, its negotiation
succeeded, no restart fell into it and its proxy stream came after
RememberChosenProtocol.

**ProxyStream** is one proxy stream with both of its ends: `cli` is the dial
(DialTCP, DialTCPDirect or DialUDP, by `setup.kind`) and then the caller, `srv`
is handleProxyStream and the two copying goroutines of the relay, `up` and
`down` are the wires. A message is what one write, or the writes of one step,
put on a wire; it carries the wrappers of its writer (`enc`), and only a reader
with the same wrappers can tell what it is. Any other reader fails, takes the
bytes for some other line, or goes on waiting. How much of an unframed stream a
single read returns is open (`Chunks`), which is what decides how much a
bufio.Reader holds when it is dropped; the peek at the first byte can also tear
the message (`Torn`). DelayConn changes no byte but hides SetDeadline, and so do
PaddingConn and prefixConn, hence `deadline` is set only on bare streams. The
configuration of both ends and the outcome of the negotiation (`mode` and `snap`
of Negotiation, in all combinations) are chosen in Init. `gap` is a history
variable, and so is `srv.lost`: a reader was dropped with something in it. The counters errorCount
and lastDialLatency and the byte counters of a session are left out.

**QualityDial** is the choice of what to dial: DialTCPWithAutoQuality and
DialTCPWithFallback of one client, around dials that are reduced to when they
read the manager (`Negotiate`) and how they end (`DialOk` with a latency,
`DialFails`). `rotation`, `errorCount` and `lastDialLatency` are the fields of
the client that goroutines share without a lock; `errorCount++` is a load and a
store. `phase` says what follows a dial: the end of the call, the fallback, or
the next round of its loop. DialTCPDirect and DialUDP touch the same fields as
DialTCP and are the entry "tcp". History: `mine` and `used`, what a call itself
measured and offered; `mixed` and `shared`, which other calls came between.

**SmartClient** is `smartclient.go`: calls of DialTCPViaProtocol that share
`cache` (providerCache) and `stats` (peerStats), of which only the sections under
the mutex are atomic. A call takes a fresh entry (`BeginCached`) or looks up
(`BeginFetch`, then the region and everywhere), orders the list once (`Order`),
dials (`DialOk`, `DialFails`, `NoAddress`) and, after a cached list, looks up
once more and tries that list unordered, as the code does; if that lookup fails or
finds nobody, the call returns the error of the cached list's last dial
(`Listless`). The DHT's answers are the environment, and so is `reach`, the peers
through which the target of a call can be reached: a peer that is down is in
nobody's, and a healthy peer whose call is for a dead target ("ERR dial target")
is missing in that call's only. `SliceStable` is what Go's insertion sort
does with a comparison that reads the old scores by position: it reverses each
strictly descending run. `age`, `dialled`, `failing`, `given` and `lookups` are history.

**LocalProxy** is the shape that six servers share: an accept loop (`loop`,
`ln`) and one connection's handler (`h`) with its two copying goroutines
(`copies`). `kind` picks the server: the inbounds of the daemon (SOCKS5, HTTP
CONNECT, dokodemo), the REALITY listener, proxy-forwarder and tls-front. `up` and
`down` are unread messages, `buf` what http.ReadRequest's reader has taken along
with the request, `fed`, `got` and `told` what has arrived. `stalled` are the ends
that have stopped reading, so that a write to them blocks once the buffers on the
way are full; `single` says that proxy-forwarder's stream is a shadowsocks session,
whose waiting Read keeps the Write of the other copy out (`BlockedUp`,
`BlockedDown`). The end of the process, which cuts every connection, is left out.

**DuplexSession** is a framed session between two ends, each with the
goroutines of a relay: `rd` reads until it fails, `wr` writes, `du` is
`runDummy` of the plain adapter, `cl` a call of Close. `lock` has the mutexes
of an end and who holds them: `mu` (and `wmu` around plain's writes) for plain
and shadowsocks, `readMu` and `writeMu` for hysteria2; hysteria2's `mu` is never
held across a step. Reading and writing a frame are two steps each, header and
body, over a pipe that blocks when it is full (`Window`, the flow control of the
stream). Both ends use the adapter they agreed on; how a caller's write is cut,
refused or split and what becomes of bytes that do not fit a reader's buffer is
per adapter. PaddingConn ("padding") frames in the same way without a lock; a
write that is longer than its 16-bit length goes out without a frame
(`WriteUnframed`), after which the reader takes data for a header. ProxyStream,
which is about what is on the wire, leaves the locks and the length limits out.

**NameSystem** is one name in the DHT: `store` is what each replica holds,
`call` the call of Register, Refresh or Unregister in which a daemon's goroutine
is, `outcome` and `tries` the registration loop of `daemon/run.go`, `cache` the
resolver's. Register is four kinds of steps: it takes its timestamp
(`RegisterBegin`), asks the DHT and decides (`RegisterGet`), stores locally
(`PutLocal`) and distributes (`Deliver`); the other two calls begin with the
question. The DHT itself is external: a replica keeps what the validator's
Select prefers, the new record first (`Accept`), a lookup hears some of the
replicas and corrects others (`GetValue`, `SearchValue`, `Correct`), messages are
lost, a process restarts with nothing. A lookup reads all replicas in one step.
Clocks are `now` plus a constant per process, in whole seconds as in the code.
`lossy` and the field `raced` of a call are history: what was lost, and what
overlapped. A daemon's names share its loop: while one of them fails, the others
are registered again as well, which for a name it holds is one more put by its
owner and for a refused name another try that the model does not have. Unregister has no caller in the program but is part of the package.

## 3. Runs

| Run | Question | Result |
|---|---|---|
| `metrics_store` | Callers, FlushNow, Close, one transaction fault, one crash and restart: conservation and order of operations, database open while used, Close drains, FlushNow applied, atomic batches, refinement of MetricsLog; everything accepted is settled, Close returns, and FlushNow unless its batch was dropped | holds, liveness under `Fairness` |
| `proto_manager` | every two managers built from lists of up to two of three names: offers are complete, duplicate-free and in the preferred order, the answer is the client's best common protocol and transport | holds |
| `negotiation` | two goroutines share a client, one retries, one restart of the node with another configuration: orderly dials agree, only answers are kept, every attempt ends on both sides | holds, liveness under `FairSpec` |
| `proxy_session` | a handler and its quality loop compete for a channel of one operation, with shutdown, one failed Begin, apply or Commit, panic, crash, restart: order, every incomplete record explained, what the panic of the shutdown costs, and an ended session gets its row closed if nothing was dropped and nothing failed | holds, liveness under `NodeFairness` |
| `proxy_stream` | 1400 pairs of configurations, two messages each way: an OK means a tunnel with equal wrappers; the target gets what the caller wrote and the caller what the target sent, with the stated exceptions; fitting ends wait for each other only after a torn hello; a dial returns, a relay ends | holds, liveness under `Fairness` |
| `name_system` | two daemons whose clocks differ, three replicas, a client, one loss or restart: a live name is taken over only in a race, within one second or after a loss; replicas agree on the second; not every daemon gives up; how old an answer can be | holds |
| `duplex_session` | both ends of a plain, shadowsocks, hysteria2 or padded session read, write, send dummies and close: readers get the bytes in order up to the first write without a frame; every call returns unless the end is stuck in one of two named ways; a Close that got through ends both readers | holds, liveness under `Fairness` |
| `quality_dial` | two calls on one client with any method and policy: a dial is judged by its own latency unless another ended in between, only the returned stream is left open, a failed fallback has tried every rotated order unless another call interfered | holds |
| `smart_client` | two calls to targets of their own, three peers, one change of who reaches what or one caller that gives up: a call that ends with the error of a dial has looked up once itself and could not reach its target through any peer it was given; a list is at most TTL plus a lookup old; the failures counted are exactly the dials that failed, at most two of a call | holds |
| `local_proxy` | six servers, two messages each way, ends that half-close, stop reading or disappear at any time, one Accept error: messages arrive in order, also those sent with the request; what a returning handler may cut; what it may wait for; which accept loops stop | holds, liveness under `Spec` |
| `order_follows_scores` | do better peers come first? | violated, see 5 |
| `no_panic` | is the shutdown graceful? | violated, see 5 |

**Bounds.** The channel holds one or two operations and a batch two, instead of
1024 and 128: with three accepted operations the channel fills, a batch fills,
a shorter one is flushed by the ticker, and one is left for Close. One fault
and one death meet every place of the writer and of the callers. `MaxOps`
bounds `accepted`, the only sequence that would grow; it is a guard of the
callers, never of the writer. A call after Close panics and is a death, so
callers stop then unless `MaxDeaths` leaves one. In ProxySession six operations are start, event, two samples and end,
with one to spare; sessions share only the channel, and the quality loop
already competes for it. In Negotiation three protocols, with vmess
the one a rotated manager does not register, and two node configurations make
the three outcomes of a negotiation possible: same answer as before, another
answer, none. Two attempts of one call and one of another are enough for every
kind of rival: earlier, later and overlapping, of the same and of another
goroutine. Two hosts would not meet: the node keeps one entry per
peer. In ProxyStream two messages
each way are enough for one to be lost behind a line and the next to show the
gap, and the parameters 0 to 3 give every case of AgreeObfs: switched off,
limited, unchanged, inverted. In NameSystem two
seconds, clocks that are up to two seconds apart and TTLs of one and two make
records expire for one process and not for another; two calls of Refresh or
Unregister besides the registrations let a deleted name be revived and a revived
one be raced; a third replica is needed for two puts to arrive in different
orders; one fault (`MaxFaults`) is enough for a lost answer, a lost delivery, a
failed put and a restart, one at a time. Runs with three seconds and with two
faults, without the client, show nothing else. In
DuplexSession a pipe of one piece is full after a header, so that a writer can
stop within and between frames; a write of three bytes is more than a frame of
two and more than one of the buffers, a write of nothing is plain's empty frame.
Larger pipes and two writes an end, each with fewer lengths, show nothing else;
PaddingConn writes twice, so that something follows the write without a frame.
In QualityDial three orders give a fallback two retries, one from the current
order and one from a rotated one; the policies are all combinations of a
threshold between the two latencies and a limit of two errors with none. In
SmartClient of three peers one is in the region, one is announced without an
address and one only connected; a TTL and a lookup of one unit in three units of
time let an entry expire, be refreshed, and be replaced by a slower lookup; Init
has every `reach`, so that one call's target is dead and the other's is not, and
one disturbance, a change of it or a cancellation, meets every step. The counterexample run has three
announced peers, because for two the order is right. `SortReversesRuns` compares
`SliceStable` with the loops of Go's insertion sort for all lists up to five and
three scores. In LocalProxy two messages each way are enough for one in the HTTP
reader and one behind it; connections share nothing but the loop, so one is
followed.
Several goroutines that call Close at once are left to the proofs, which hold for any number of them.

**Deadlock** checking is off where the system may stop: after the bound on
operations, after all attempts are over, after the process has exited.

**Fairness.** The writer's receive, tick, Begin, apply and Commit are weakly
fair: the goroutine is runnable, Go's select chooses at random among the ready
cases and the ticker keeps firing. Faults are never fair. FlushNow and Close
return when their channel or wait group is ready. In Negotiation the handler
goroutines and the next statement of a running dial are fair, together, since
attempts are bounded and every step takes one of them further; a dial whose
handler is gone sees its stream closed, since the handler's libp2p stream is
closed or reset (`npc = "failed"` and NegotiateFails). In ProxyStream the
statements of both ends, the copying of what has arrived, the end of a dial of
the target and the passing of a deadline are fair; the caller, the target and
the loss of the connection are not. In DuplexSession it is
enough that the goroutines do not all stand still while one of them can move:
calls are bounded, so no goroutine can be overtaken for ever. In LocalProxy the
same holds of goroutines, accept loop and the kernel's dial, but not of a copy
that is blocked, by an end that does not read or by the mutex of a session; replies
are a few bytes and fit the socket's buffer. The dial of
proxy-forwarder goes through a node, has no deadline and is not fair, nor are
client, target and cancellation. Nobody is obliged to dial, to retry, to answer a ping, to end a relay, to crash or to restart.

## 4. Proofs

All proofs are for arbitrary finite or infinite sets of sessions, callers,
hosts, clients and calls and arbitrary bounds; the only assumptions are the
`ASSUME`s of the modules (positive capacities, bounds in Nat, functions with
the right domain).

**ProxySessionProofs**, the store. The first half of the module is about
MetricsStore alone and uses its assumption only. `IInv = TypeOK /\ OpsConserved /\ WriterState /\
NoFaultNoLoss /\ FlushMarks` is inductive (`StoreInvariant`). OpsConserved,
"settled, then batch, then channel, is what was accepted", is nearly inductive
by itself, but needs the types for its arithmetic and `WriterState` to know that
a stopped writer has an empty batch and channel. `NoFaultNoLoss` is what
CloseDrains needs: while nothing failed, all outcomes are good, those in the
open transaction included. `FlushMarks` says where the marker of a waiting
FlushNow is: at position `mark + 1` of what was accepted, and past it once
"done" is closed. From IInv follow `StoreTypeOK`, `StoreConservesOps`,
`WriterAlwaysHasDB`, `CloseAlwaysDrains`, `FlushNowAlwaysApplied`; with one
lemma per way of settling, `StoreBatchAtomic` and `StoreImplementsLog`.

**ProxySessionProofs**, the node. Its steps are built from the store's actions
(`NodeUsesStore`), hence (`NodeConservesOps`) the theorems above hold inside the
node, whatever handlers, quality loops and shutdown do. `PanicCostBounded` says what
the panic of the shutdown costs. `MainInv` ties the place of Run to the store: the
channel is closed only in a shutdown, and when Run has left its call of Close that
call has returned, so that everything accepted is settled (CloseDrains) and a panic
has nothing left to take; before that the channel and the batch are bounded by the
types.
`SessionsInOrder`: SessionOrder speaks about the past only, so `OrderInv` adds
which operations a handler at a given place cannot have written yet.
`OpenRowsAreExplained` and `MissingRowsAreExplained` need the converse:
`CallsMade` says that a handler past a call has sent that operation or found the
channel full. What was sent and is not settled is pending, because what is
settled is a prefix of what was accepted (`SettledIsPrefix`, from the store's
OpsConserved): only drops, failed transactions and a process that died are left
to explain a row that is open or missing.

**NegotiationProofs.** `OrderlyDialsAlwaysAgree`. The property says nothing
before both ends have decided; `AgreeInv` says for every stage of an orderly
attempt where its answer is (in the client's field, in the node's map, in
`mode`, in `snap`), that its rivals are at rest while it runs, and that an
attempt at rest cannot touch either copy except by beginning, which ends the
orderliness of the other. `OnlyAnswersAreEverKept` adds to it (`KeptInv`) that an
answer on its way is one of the node's own.
The protocol manager comes first in the module: `OffersAlwaysInOrder` and
`AnswersAreClientsBest`, for lists of any length. The insertion sort is a
recursive function, and the provers have no induction; a set of counterexamples
has a least element (`Least`, from the well-foundedness of `<` on Nat), which
takes its place. `ManagerOK` says that `registrationOrder` lists `protocols`
without repetition, in every state of the two managers.

**ProxyStreamProofs.** `OkAlwaysMeansTunnel` and `TargetFedInOrder`, for any
number of messages. Both rest on one fact about the protocol: until the reply the
two ends take turns (`Turns`), so that at most one message is in flight and a
reader that is dropped, after the peek, the OBFS line or the request, holds
nothing but what it was asked for; a UDP tunnel, which does not wait, is the
exception that FedInOrder names. `Oks` says that an "ok" the client can still
read was written by a node that has reached the target, `UpUnits` what the
client's wire holds behind its first message, and `Feeding` that what is still to
be fed follows what was fed.
`CallerGivenInOrder` and `WaitsAreExplained` speak of fitting ends only, and need
to know that these wrap the stream alike: `PairInv` says at every place of the
client and of the node which layers that end has put on, as a function of the
configuration (`ClientSide`, `ServerSide`; `SameFraming` is what follows for the
two together). `Pace` bounds how far one end can be ahead of the other, and
`ObfsTurn`, `HelloTurn` and `RequestTurn` say of each thing that is waited for
that it is on its way and readable with the layers the waiting end has, unless the
peek has torn it: WaitExplained is the case where nothing is on its way.
`Giving` and `Tape` number the messages behind "OK": the ones on the wire follow
what the caller has been given, and what is missing before it is exactly what the
reader of the reply line held. The framing of a stream is the set of its layers
other than delays, each with its rank, and `DataIn` counts with a cardinality:
as a filtered sequence neither could be reasoned about without induction. On a
UDP tunnel the client waits for no reply line, and the theorem shows that it gets
no foreign bytes either.

**NameSystemProofs.** `AnswersAreBounded`. AnswerAge speaks of the moment of the
answer; `Ages` says it of the entry's expiry once and for all, and `Types` that
replicas and calls hold nothing but records, which is all that a lookup can put
into a cache. Clocks may differ by any amount: the resolver's own clock judges
both the record and the entry.
`ReplicasAlwaysAgree`, `SomeoneAlwaysHolds` and `LiveNamesAreKept` share
`NameInv`. ReplicasAgree speaks of moments without calls; between them `Lag` says
that a replica that is behind a record is still to be sent it, `Reached` that a
put leaves no replica empty behind it, and `Behind` that an older record can only
arrive at an empty replica while the newer one is still on its way there. For
races, `Alone` says that a call that has noticed no other is the only one, so the
name that it found free, expired or its own stays so until it has put
(`Entitled`). `Holding` is what keeps a name: once a daemon has put a record, some
replica holds a daemon's record for ever. SomeoneAlwaysHolds asks for at least
one daemon, without which there is nobody to hold the name.

**QualityDialProofs.** `DialsEndWell`, for any number of calls, orders and
policies. `QInv` adds to DialOutcome, call by call, when it has a stream open
(`Owns`), how its dials count its attempts (`Counted`), and that a call that has
the client to itself finds the manager it has put there (`Alone`).

**SmartClientProofs.** `ListsAreFresh`: ListAge speaks of lists in use; `AgeInv`
says the same of the cache's entry (asked for at most a lookup before fetchedAt)
and of the lookups that are running (the clock does not pass their deadline), so
that a slow lookup that replaces a newer list cannot make the bound worse.
`FailuresAreExplained`: `FailInv` says of every call that each peer it was given
is still ahead in its list, has no address, or was at some moment of the call one
through which it could not reach its target, or the call was cancelled
(`Explained`); that `failing` includes the peers that it cannot reach now
(`FailSeen`); and how often it has asked at each place (`AtPlace`): never before a
cached list has failed, once after. Ordering must not lose a peer for that, which
is `OrderPermutes`. `BlameIsExact`: `BlameInv` adds that the failed dials are
finitely many, one more with each dial that fails, and how many of them one call
can have made: none of a peer ahead in a first list, one of a peer behind, one more
in a list fetched after a cached one (`Counted`).
`OrderPermutes`: orderProviders sorts with a comparison that looks scores up by
position, so nothing follows from the theory of sorting; but what it does is
reverse the strictly descending runs of scores where they stand. Every position is
in one run (`RunBegins`, `RunStops`, by a least element), the positions of a run
agree on its ends (`OneRun`), and mirroring within the run is its own inverse:
the result is a permutation of the list. This is the insertion sort that
sort.SliceStable uses up to 20 elements; longer lists are merged in blocks, which
is not modelled.

**LocalProxyProofs.** `RelaysInOrder` and `NothingIsCut`, for any number of
messages and accept errors. RelayedInOrder speaks of what has arrived; `LInv`
says where the rest is: what has arrived, what the reader of the request holds
(`buf`) and what is unread are, one behind the other, what was sent, unless the
receiver is gone (`UpChain`, `DownChain`). `Finished` says why a copy is over,
which NothingCut needs at the moment the handler returns; `Replies` and `Places`
say what the client has been told and what cannot have happened yet at a place
of the handler.

**DuplexSessionProofs.** `BytesReadInOrder`, for all four adapters and any
window, frame size, padding, buffers, calls and dummies. What a reader has got
says nothing about what it will get, so `OrderInv` follows the bytes from the
caller of Write to the caller of Read. `Writing`: the frame and the rest of the
slice are the bytes behind those sent, and in plain only the holder of wmu is in
the middle of a frame, which is what keeps a dummy's head from coming between a
head and its body. `Flow`: the pieces of a pipe form a chain of heads and bodies
(`Chain`) that begins where the reader is, with the first byte the reader has not
got, and ends where the writer is, or at the first piece that PaddingConn sent
without a frame; a reader that has passed such a piece is `Lost`, and from
there on nothing is promised. `Reading`: what is left over in `pending` follows
what the reader has got, and is empty while it waits for a frame. The positions in
the chain are existentially quantified, so no recursion over the pipe is needed: a
send extends the chain at one end (`ChainGrows`), a read takes its first link
(`ChainShrinks`). Flow says nothing of a closed or finished reader, where a write
may be lost.

Only model-checked: liveness, which needs fairness. Every invariant and every
action property that a run checks is stated by a theorem.

## 5. Where the code and its words disagree

Two of these are runs that end in a short counterexample.

* Run (`no_panic`) closes the metrics store before the host, and handlers do not
  know about the shutdown: a handler that writes its end after Close makes the
  process panic (send on closed channel). While Close still waits for the writer,
  the panic takes with it what the writer has not committed, a batch and a channel
  at most; once Close has returned nothing that was accepted is lost
  (PanicCost). The rows of running sessions stay open.
* The comparison in orderProviders (`order_follows_scores`) looks scores up by
  position while the sort moves the elements. Two providers come out right; of
  three with the scores 160, 100, 100 the slow one comes out in the middle. What
  still holds is that every provider of the list is tried (`OrderPermutes`), and
  BlameExact.

In the following the code says less than its comment; the properties state what
holds.

* The comment in `handleProxyStream` bases the handshake on the protocol agreed
  last with the peer. The negotiation handler stores it after it has sent the
  answer, so the proxy stream of a client that already has the answer can find
  the older entry or none: OrderlyDialsAgree.
* The peek in `handleProxyStream` (comment: the first byte goes back into the
  stream for the handshake) reads through a bufio.Reader that takes whatever has
  arrived; the byte goes back, the rest is dropped. Unless the read returned
  that single byte, the token, hash or frame behind it is torn. vless and vmess
  dials on a bare stream are then ended by the client's deadline; shadowsocks
  and hysteria2 dials have none (DialReturns leaves them out, WaitExplained
  says that this is the only cause). A token that begins with O, T, U or D and a
  stream that begins with an OBFS line are not affected.
* DialTCP takes the end of the stream for a success, and the line "ERR" without
  a space, which is how vless refuses a token, for the beginning of the target's
  answer: OkMeansTunnel.

`FlushNow` (comment: it waits until all operations written before the call have
been applied) returns at once when the channel is full, which `FlushNow` and
FlushNowApplied state. When it does wait, the marker goes with its batch if
Begin fails, which is why WaitsEnd leaves that case out, and
it is acknowledged before Commit, so that a second connection to a database file
may not see the operations yet. (An in-memory database has a single connection,
on which a query waits for the transaction to end.)

CallsReturn names what one mutex for both directions costs. A shadowsocks or
plain session whose Read waits for the peer lets no Write through, so in a relay
the answer of a target waits until the client sends something more, and two ends
that both read first wait for each other; two ends that both write more than the
stream's window do so too. Each of the two exceptions is needed: without it TLC
finds the other. In the plain adapter Close needs the same mutex and cannot wake
a waiting Read, and `runDummy`, meant to keep an idle connection from looking
idle, sends nothing exactly while Read waits on it. hysteria2Session has a mutex
for each direction and none of this; its Read drops what does not fit the
caller's buffer, which ReadInOrder says.

FedInOrder and GotInOrder name the other places where bytes go astray: data of
the target that arrive together with "OK" are dropped with the reader of the
reply line; datagrams that arrive together with an unwrapped UDP request line
are dropped with the peek; hysteria2 hands the padding of its frames to the
reader. A deadline set by a handshake is never cleared and ends the tunnel that
follows (ClientDeadline, ServerDeadline); in a UDP relay the goroutine in
ReadFromUDP stays when the deadline has ended the other.

DialTCPWithFallback reads the latency of its dial back from the client. When
goroutines share one, a fast stream can be closed for the slow dial of another
goroutine, and a slow one kept (`mixed` in DialOutcome; the exception is
needed). A retry leaves the client with the rotated manager, so the default order
is not offered again, and nothing ever lowers errorCount except a lost update.

SmartClient counts every failed dial against the peer it went through. A call to a
dead target blames every healthy peer that it is given, while calls to other
targets succeed through the same peers, and no success takes a failure back:
BlameExact says that the count is exact, and no more than that is true.

NothingCut, HandlersEnd and ServeStops name how the local servers differ.
proxy-forwarder and tls-front return after the first copy that ends, so a client
that half-closes loses the answer; the inbounds wait for both and pass no end of
file on, so one silent end keeps a connection. A write to an end that does not
read keeps it too. If proxy-forwarder's stream is a shadowsocks session, the copy
that waits for the target keeps the other one from writing (CallsReturn), so that
a client that has sent something and gone leaves its handler behind as long as the
target is silent. Nobody closes the listener of
SOCKS5 and of proxy-forwarder, whose loops look at the context only after Accept
has returned. A redirect target with a port out of range is accepted,
since the error returned is nil, and connections go to port 80 of no host.

About names the code says little that could be refuted, but a reader should
know what the properties of NameSystem leave open. Two daemons that register at
the same time can both be told that they have the name; in the same second they
leave the replicas divided for good, because the validator cannot tell the
records apart and a replica keeps the one that came last. A daemon that has
restarted and whose clock is behind publishes a record that the other replicas
refuse, and PutValue reports success. Refresh looks neither at expiry nor at
deletion, so the daemon's ticker revives a name that was unregistered, with a
TTL of a day. A daemon that was refused never registers again, also when the name
becomes free, unless another of its names is still failing. The cache is counted from the lookup, so Resolve can
return a record up to a TTL after it has expired, although the comment at
`namesystem.go:187` wants to avoid "almost expired" answers.

The schema also declares that an event's session exists (a foreign key, which
SQLite does not enforce unless told to). `MissingRowExplained` says when that
fails: the start was dropped by the full channel, or its transaction failed.

## 6. What is not modelled

Column values, JSON, SQL text, logging, GeoIP; cryptography and TLS (library
code); the configuration of libp2p, its DHT and NAT traversal; flag parsing
(`pkg/config`); the command-line tools other than proxy-forwarder and tls-front,
which call the client library, measure and print. These have no state of their own that a step could
disturb, or are outside the repository. `pkg/dns`, `pkg/inbound`, `pkg/reality`,
`pkg/transport` and parts of `hypernet/services/proxy/adapters` are earlier
copies of packages under `hypernet/` with the same logic. In NameSystem
signatures and the form of names are left out: every record is signed by the
daemon that publishes it.

The transports (`core/network/transport`) are wrappers around the HTTP/2,
websocket and KCP libraries, and nothing in the daemon or the tools uses them;
their framing and locks are those of DuplexSession's adapters. The one queue they
have, `connCh` of the gRPC listener, drops a stream when it is full, but what the
peer then sees depends on the HTTP/2 library. Roles, relay and economy are
constants and interfaces.

UpdateSession is modelled in the store but has no caller in the server, so the
node never writes that operation.

## 7. Plan

Done, in this order: MetricsStore with MetricsLog and its proofs; ProtoManager;
Negotiation and its agreement proof; ProxySession, which composes handlers,
quality loops and shutdown with the store; ProxyStream, the bytes of one stream
with the relay at its end; NameSystem with the bound on the age of answers;
DuplexSession, the locks of the framed sessions and the frames of PaddingConn;
SmartClient and QualityDial, the calls that share a client, with their proofs;
LocalProxy, the servers that relay for a local client, with its proofs; the proofs
about ProtoManager, the rows of ProxySession, what NameSystem's replicas hold, the
order of DuplexSession's bytes, both directions of ProxyStream, and what
orderProviders of SmartClient does to a list.

Next: the relay of LocalProxy's proxy-forwarder composed with ProxyStream, so that
a half-close is followed from the local client to the target.
