---------------------------- MODULE DuplexSession ----------------------------
(***************************************************************************)
(* The two ends of one connection wrapped by a protocol adapter that       *)
(* frames what it carries, obfsSession of the plain adapter, ssAEAD of     *)
(* shadowsocks and hysteria2Session, or by PaddingConn ("padding"). Each   *)
(* end has a goroutine that reads and one that writes, as the relay has,   *)
(* one that may call Close and, for plain, the dummy traffic of runDummy.  *)
(* The module is about the locks: ssAEAD and obfsSession have one mutex    *)
(* for both directions and hold it while they wait for the connection,     *)
(* hysteria2Session has one for each direction, and PaddingConn has none,  *)
(* which with one caller for each direction is the same.                   *)
(*                                                                         *)
(* The connection is two flow-controlled pipes of at most Window pieces; a *)
(* piece is the header or the body of a frame, which io.ReadFull reads     *)
(* whole.  The bytes an end writes are numbered 1, 2, ...; padding is 0.   *)
(***************************************************************************)
EXTENDS Integers, Sequences, FiniteSetsExt

CONSTANTS Adapters,    \* the adapters looked at
          Window,      \* pieces a pipe holds before a write to it blocks
          MaxFrame,    \* bytes a frame can carry (0xFFFF, 16K for hysteria2)
          MaxPad,      \* bytes of padding of a frame
          Writes,      \* lengths a caller's Write may have
          Buffers,     \* sizes of the buffer a caller's Read may bring
          MaxWrites,   \* bound on the calls of Write of an end, per adapter
          MaxDummies   \* bound on the dummy frames of an end

ASSUME DuplexAssumption ==
    /\ Adapters \subseteq {"plain", "shadowsocks", "hysteria2", "padding"}
    /\ {Window, MaxFrame, MaxPad} \subseteq Nat \ {0}
    /\ Writes \subseteq Nat
    /\ Buffers \subseteq Nat \ {0}
    /\ MaxWrites \in [Adapters -> Nat] /\ MaxDummies \in Nat

Ends == {"a", "b"}

Peer(e) == CHOOSE x \in Ends : x # e

VARIABLES adapter,   \* the adapter both ends have agreed on
          dummies,   \* plain: whether runDummy is running
          lock,      \* holder of each mutex of an end
          closed,    \* the session's closed flag
          open,      \* whether an end's side of the connection is open
          pipe,      \* pieces an end has sent and its peer has not read
          pending,   \* payload that did not fit the caller's buffer
          rd, wr, du, cl,  \* where the goroutines of an end are
          data,      \* what is left of the slice given to Write
          cur,       \* the frame Write is sending
          given,     \* bytes given to Write so far: 1 .. given
          calls,     \* calls of Write so far
          ticks,     \* rounds of runDummy so far
          unframed,  \* history: the first byte PaddingConn sent without a frame, or 0
          got        \* what the reader has been given

vars == <<adapter, dummies, lock, closed, open, pipe, pending, rd, wr, du, cl,
          data, cur, given, calls, ticks, unframed, got>>

reading == <<pending, rd, got>>
writing == <<wr, data, cur, given, calls, unframed>>
dummy   == <<du, ticks>>
config  == <<adapter, dummies>>

-------------------------------------------------------------------------------
(* Settings, locks and frames *)

\* The options that decide whether plain frames at all and sends dummies
Options == [enabled : {"unset", "true", "false"},
            dummyMax : {"unset", "off", "on"}]

parseObfsSettings(raw) ==
    [enabled |-> raw.enabled # "false",
     dummies |-> raw.enabled # "false" /\ raw.dummyMax # "off"]

ReadLock  == IF adapter \in {"hysteria2", "padding"} THEN "readMu" ELSE "mu"

\* Mutant: one mutex for both directions in every adapter
WriteLockShared == ReadLock

WriteLock == IF adapter \in {"hysteria2", "padding"} THEN "writeMu" ELSE "mu"

\* ssAEAD and PaddingConn have no flag: their Close is that of the connection
Closed(e) == closed[e]

Free(e, l) == lock[e][l] = "nobody"

\* Padding that can be told from none: plain cuts it off, so that there it only
\* makes an empty write into a dummy frame.
Pads(bytes) == IF adapter = "hysteria2" \/ (adapter = "plain" /\ bytes = <<>>)
                 THEN 0 .. MaxPad ELSE {0}

Frame(bytes, pad) == [bytes |-> bytes, pad |-> pad]

\* Only plain can have a frame without anything behind the header
Empty(f) == adapter = "plain" /\ f.bytes = <<>> /\ f.pad = 0

\* hysteria2 does not say how much of a frame is padding, and returns it all
Payload(f) == IF adapter = "hysteria2"
                THEN f.bytes \o [i \in 1 .. f.pad |-> 0]
                ELSE f.bytes

\* A write to a peer that has gone succeeds for a while, and is lost
Send(e, piece) ==
    /\ open[e]
    /\ \/ /\ open[Peer(e)] /\ Len(pipe[e]) < Window
          /\ pipe' = [pipe EXCEPT ![e] = Append(@, piece)]
       \/ ~ open[Peer(e)] /\ UNCHANGED pipe

SendFails(e) == ~ open[e] \/ ~ open[Peer(e)]

Inbound(e) == pipe[Peer(e)]

Take(e) == pipe' = [pipe EXCEPT ![Peer(e)] = Tail(@)]

First(s, n) == SubSeq(s, 1, Min({n, Len(s)}))

Beyond(s, n) == SubSeq(s, n + 1, Len(s))

Unlock(e, held) ==
    lock' = [lock EXCEPT ![e] =
                [l \in DOMAIN @ |-> IF l \in held THEN "nobody" ELSE @[l]]]

Init ==
    /\ adapter \in Adapters
    /\ \E raw \in Options :
          /\ parseObfsSettings(raw).enabled
          /\ dummies = (adapter = "plain" /\ parseObfsSettings(raw).dummies)
    /\ lock = [e \in Ends |-> [l \in {"mu", "wmu", "readMu", "writeMu"} |-> "nobody"]]
    /\ closed = [e \in Ends |-> FALSE]
    /\ open = [e \in Ends |-> TRUE]
    /\ pipe = [e \in Ends |-> <<>>]
    /\ pending = [e \in Ends |-> <<>>]
    /\ rd = [e \in Ends |-> "idle"]
    /\ wr = [e \in Ends |-> "idle"]
    /\ du = [e \in Ends |-> IF dummies THEN "sleep" ELSE "done"]
    /\ cl = [e \in Ends |-> "idle"]
    /\ data = [e \in Ends |-> <<>>]
    /\ cur = [e \in Ends |-> Frame(<<>>, 0)]
    /\ given = [e \in Ends |-> 0]
    /\ calls = [e \in Ends |-> 0]
    /\ ticks = [e \in Ends |-> 0]
    /\ unframed = [e \in Ends |-> 0]
    /\ got = [e \in Ends |-> <<>>]

-------------------------------------------------------------------------------
(* Read: the relay calls it again until it fails *)

\* copy(p, bytes), and what did not fit
Deliver(e, bytes, n) ==
    /\ got' = [got EXCEPT ![e] = @ \o First(bytes, n)]
    /\ pending' = [pending EXCEPT ![e] =
                      IF adapter = "hysteria2" THEN <<>>
                      ELSE Beyond(bytes, n)]

\* Takes the lock: the session is closed, or something is left over, or the
\* next frame is waited for with the lock held.
ReadBegin(e) ==
    /\ rd[e] = "idle" /\ Free(e, ReadLock)
    /\ \/ /\ Closed(e)
          /\ rd' = [rd EXCEPT ![e] = "done"]
          /\ UNCHANGED <<lock, pending, got>>
       \/ /\ ~ Closed(e) /\ pending[e] # <<>>
          /\ \E size \in Buffers : Deliver(e, pending[e], size)
          /\ UNCHANGED <<lock, rd>>
       \/ /\ ~ Closed(e) /\ pending[e] = <<>>
          /\ lock' = [lock EXCEPT ![e][ReadLock] = "reader"]
          /\ rd' = [rd EXCEPT ![e] = "head"]
          /\ UNCHANGED <<pending, got>>
    /\ UNCHANGED <<config, closed, open, pipe, cl, writing, dummy>>

ReadHead(e) ==
    /\ rd[e] = "head" /\ open[e] /\ Inbound(e) # <<>>
    /\ Take(e)
    /\ rd' = [rd EXCEPT ![e] = IF Empty(Head(Inbound(e)).frame) THEN "head" ELSE "body"]
    /\ UNCHANGED <<config, lock, closed, open, pending, got, cl, writing, dummy>>

\* A piece out of place is read as if it belonged there, which 0 stands for.
ReadBody(e) ==
    /\ rd[e] = "body" /\ open[e] /\ Inbound(e) # <<>>
    /\ Take(e)
    /\ LET piece == Head(Inbound(e))
           bytes == IF piece.part = "body" THEN Payload(piece.frame) ELSE <<0>>
       IN  \/ /\ bytes = <<>> /\ adapter # "padding"   \* a dummy frame
              /\ rd' = [rd EXCEPT ![e] = "head"]
              /\ UNCHANGED <<lock, pending, got>>
           \/ /\ bytes = <<>> /\ adapter = "padding"   \* returns 0, nil
              /\ rd' = [rd EXCEPT ![e] = "idle"]
              /\ Unlock(e, {ReadLock})
              /\ UNCHANGED <<pending, got>>
           \/ /\ bytes # <<>>
              /\ \E size \in Buffers : Deliver(e, bytes, size)
              /\ rd' = [rd EXCEPT ![e] = "idle"]
              /\ Unlock(e, {ReadLock})
    /\ UNCHANGED <<config, closed, open, cl, writing, dummy>>

\* End of file, in the middle of a frame or not, or this end is closed
ReadFails(e) ==
    /\ rd[e] \in {"head", "body"}
    /\ ~ open[e] \/ (~ open[Peer(e)] /\ Inbound(e) = <<>>)
    /\ rd' = [rd EXCEPT ![e] = "done"]
    /\ Unlock(e, {ReadLock})
    /\ UNCHANGED <<config, closed, open, pipe, pending, got, cl, writing, dummy>>

-------------------------------------------------------------------------------
(* Write *)

\* An empty slice makes a frame in plain and PaddingConn only
WriteCall(e) ==
    /\ wr[e] = "idle" /\ calls[e] < MaxWrites[adapter]
    /\ \E n \in Writes :
          /\ n > 0 \/ adapter \in {"plain", "padding"}
          /\ data' = [data EXCEPT ![e] = [i \in 1 .. n |-> given[e] + i]]
          /\ given' = [given EXCEPT ![e] = @ + n]
    /\ calls' = [calls EXCEPT ![e] = @ + 1]
    /\ wr' = [wr EXCEPT ![e] = "lock"]
    /\ UNCHANGED <<config, lock, closed, open, pipe, cl, reading, cur, unframed, dummy>>

\* PaddingConn sends what does not fit a frame as it is
Overlong(e) == adapter = "padding" /\ Len(data[e]) > MaxFrame

WriteUnframed(e) ==
    /\ wr[e] = "lock" /\ Overlong(e)
    /\ Send(e, [part |-> "none", frame |-> Frame(data[e], 0)])
    /\ unframed' = [unframed EXCEPT ![e] = IF @ = 0 THEN Head(data[e]) ELSE @]
    /\ data' = [data EXCEPT ![e] = <<>>]
    /\ wr' = [wr EXCEPT ![e] = "idle"]
    /\ UNCHANGED <<config, lock, closed, open, cl, reading, cur, given, calls, dummy>>

\* The next frame takes what fits of the data
NextFrame(e, pad) ==
    /\ cur' = [cur EXCEPT ![e] = Frame(First(data[e], MaxFrame), pad)]
    /\ data' = [data EXCEPT ![e] = Beyond(@, MaxFrame)]

\* Takes the lock: the session is closed, or ssAEAD refuses what is too long,
\* or the (first) frame is built.
WriteBegin(e) ==
    /\ wr[e] = "lock" /\ Free(e, WriteLock) /\ ~ Overlong(e)
    /\ LET refused == adapter = "shadowsocks" /\ Len(data[e]) > MaxFrame
       IN  \/ /\ Closed(e) \/ refused
              /\ wr' = [wr EXCEPT ![e] = "done"]
              /\ data' = [data EXCEPT ![e] = <<>>]
              /\ UNCHANGED <<lock, cur>>
           \/ /\ ~ Closed(e) /\ ~ refused
              /\ \E pad \in Pads(data[e]) : NextFrame(e, pad)
              /\ lock' = [lock EXCEPT ![e][WriteLock] = "writer"]
              /\ wr' = [wr EXCEPT ![e] = IF adapter = "plain" THEN "wmu" ELSE "head"]
    /\ UNCHANGED <<config, closed, open, pipe, cl, reading, given, calls, unframed, dummy>>

\* plain: wmu is taken with mu held
WriteWmu(e) ==
    /\ wr[e] = "wmu" /\ Free(e, "wmu")
    /\ lock' = [lock EXCEPT ![e]["wmu"] = "writer"]
    /\ wr' = [wr EXCEPT ![e] = "head"]
    /\ UNCHANGED <<config, closed, open, pipe, cl, reading, data, cur, given, calls, unframed, dummy>>

Held == IF adapter = "plain" THEN {"mu", "wmu"} ELSE {WriteLock}

\* Write is over: its locks are free, its frame and slice are gone
Forget(e) ==
    /\ Unlock(e, Held)
    /\ cur' = [cur EXCEPT ![e] = Frame(<<>>, 0)]
    /\ data' = [data EXCEPT ![e] = <<>>]

\* Write returns: plain has cut what was too long, which io.Copy takes for an
\* error, and the relay's copy ends.
WriteReturn(e) ==
    /\ wr' = [wr EXCEPT ![e] = IF data[e] = <<>> THEN "idle" ELSE "done"]
    /\ Forget(e)

WriteHead(e) ==
    /\ wr[e] = "head"
    /\ Send(e, [part |-> "head", frame |-> cur[e]])
    /\ \/ Empty(cur[e]) /\ WriteReturn(e)
       \/ /\ ~ Empty(cur[e])
          /\ wr' = [wr EXCEPT ![e] = "body"]
          /\ UNCHANGED <<lock, cur, data>>
    /\ UNCHANGED <<config, closed, open, cl, reading, given, calls, unframed, dummy>>

\* hysteria2 goes on with the next frame, the others return
WriteBody(e) ==
    /\ wr[e] = "body"
    /\ Send(e, [part |-> "body", frame |-> cur[e]])
    /\ \/ /\ adapter = "hysteria2" /\ data[e] # <<>>
          /\ \E pad \in Pads(data[e]) : NextFrame(e, pad)
          /\ wr' = [wr EXCEPT ![e] = "head"]
          /\ UNCHANGED lock
       \/ /\ adapter # "hysteria2" \/ data[e] = <<>>
          /\ WriteReturn(e)
    /\ UNCHANGED <<config, closed, open, cl, reading, given, calls, unframed, dummy>>

\* Mutant: the error return forgets to unlock
WriteFailsKeepsLock(e) ==
    /\ wr[e] \in {"head", "body"} /\ SendFails(e)
    /\ wr' = [wr EXCEPT ![e] = "done"]
    /\ UNCHANGED <<config, lock, closed, open, pipe, cl, reading, data, cur, given, calls, unframed, dummy>>

WriteFails(e) ==
    /\ wr[e] \in {"head", "body"} \/ (wr[e] = "lock" /\ Overlong(e))
    /\ SendFails(e)
    /\ wr' = [wr EXCEPT ![e] = "done"]
    /\ Forget(e)
    /\ UNCHANGED <<config, closed, open, pipe, cl, reading, given, calls, unframed, dummy>>

-------------------------------------------------------------------------------
(* Dummy traffic of plain *)

DummyFrame == Frame(<<>>, 1)

DummyWakes(e) ==
    /\ du[e] = "sleep" /\ ticks[e] < MaxDummies
    /\ du' = [du EXCEPT ![e] = "lock"]
    /\ ticks' = [ticks EXCEPT ![e] = @ + 1]
    /\ UNCHANGED <<config, lock, closed, open, pipe, cl, reading, writing>>

\* mu is held for the look at `closed' only
DummyCheck(e) ==
    /\ du[e] = "lock" /\ Free(e, "mu")
    /\ du' = [du EXCEPT ![e] = IF closed[e] THEN "done" ELSE "wmu"]
    /\ UNCHANGED <<config, lock, closed, open, pipe, cl, reading, writing, ticks>>

\* Mutant: the dummy frame is sent without wmu
DummyWmuIgnored(e) ==
    /\ du[e] = "wmu"
    /\ du' = [du EXCEPT ![e] = "head"]
    /\ UNCHANGED <<config, lock, closed, open, pipe, cl, reading, writing, ticks>>

DummyWmu(e) ==
    /\ du[e] = "wmu" /\ Free(e, "wmu")
    /\ lock' = [lock EXCEPT ![e]["wmu"] = "dummy"]
    /\ du' = [du EXCEPT ![e] = "head"]
    /\ UNCHANGED <<config, closed, open, pipe, cl, reading, writing, ticks>>

DummySend(e) ==
    \/ /\ du[e] = "head"
       /\ Send(e, [part |-> "head", frame |-> DummyFrame])
       /\ du' = [du EXCEPT ![e] = "body"]
       /\ UNCHANGED <<config, lock, closed, open, cl, reading, writing, ticks>>
    \/ /\ du[e] = "body"
       /\ Send(e, [part |-> "body", frame |-> DummyFrame])
       /\ du' = [du EXCEPT ![e] = "sleep"]
       /\ Unlock(e, {"wmu"})
       /\ UNCHANGED <<config, closed, open, cl, reading, writing, ticks>>

\* The error of a dummy's Write is ignored
DummyFails(e) ==
    /\ du[e] \in {"head", "body"} /\ SendFails(e)
    /\ du' = [du EXCEPT ![e] = "sleep"]
    /\ Unlock(e, {"wmu"})
    /\ UNCHANGED <<config, closed, open, pipe, cl, reading, writing, ticks>>

-------------------------------------------------------------------------------
(* Close *)

CloseCall(e) ==
    /\ cl[e] = "idle"
    /\ cl' = [cl EXCEPT ![e] = "lock"]
    /\ UNCHANGED <<config, lock, closed, open, pipe, reading, writing, dummy>>

\* plain's flag is behind the mutex that a waiting Read holds, hysteria2's
\* behind one that is never held for long; the others close the connection.
Close(e) ==
    /\ cl[e] = "lock"
    /\ adapter = "plain" => Free(e, "mu")
    /\ closed' = [closed EXCEPT ![e] = adapter \in {"plain", "hysteria2"}]
    /\ open' = [open EXCEPT ![e] = FALSE]
    /\ cl' = [cl EXCEPT ![e] = "done"]
    /\ UNCHANGED <<config, lock, pipe, reading, writing, dummy>>

-------------------------------------------------------------------------------
Reader(e) == ReadBegin(e) \/ ReadHead(e) \/ ReadBody(e) \/ ReadFails(e)

WriteStep(e) ==
    \/ WriteBegin(e) \/ WriteUnframed(e) \/ WriteWmu(e) \/ WriteHead(e)
    \/ WriteBody(e) \/ WriteFails(e)

DummyStep(e) ==
    DummyWakes(e) \/ DummyCheck(e) \/ DummyWmu(e) \/ DummySend(e) \/ DummyFails(e)

Step(e) == Reader(e) \/ WriteStep(e) \/ DummyStep(e) \/ Close(e)

Next == \E e \in Ends : Step(e) \/ WriteCall(e) \/ CloseCall(e)

\* The goroutines that can run do not all stand still.  Nothing more is needed
\* of the scheduler or of the mutexes, as an end has a bounded number of calls
\* to make.  The source of the writer may be silent and Close need not be called.
Fairness == WF_vars(\E e \in Ends : Step(e))

Spec == Init /\ [][Next]_vars /\ Fairness

-------------------------------------------------------------------------------
(* Properties *)

\* The reader of an end gets the bytes its peer's callers gave to Write, in
\* order and without a gap, whatever the frames, the dummies, the buffers and
\* the end of the connection: Read of src/pkg/protoadapters/plain/plain.go and
\* shadowsocks/cipher.go.  hysteria2Session.Read returns padding among the
\* bytes and drops what does not fit the caller's buffer: there the order is
\* all that is left.  PaddingConn keeps the order until a Write that is too long
\* for a frame goes out without one; nothing holds for what comes after it.
ReadInOrder == \A e \in Ends :
    IF adapter = "hysteria2"
      THEN \A i, j \in DOMAIN got[e] :
              i < j /\ got[e][i] # 0 /\ got[e][j] # 0 => got[e][i] < got[e][j]
      ELSE \A i \in DOMAIN got[e] :
              got[e][i] = i \/ (0 < unframed[Peer(e)] /\ unframed[Peer(e)] <= i)

\* The two ways in which an end with one mutex for both directions waits
\* without end: its Read sits on the mutex and the peer is silent; or both
\* ends are writing, both pipes are full, and nobody can get at Read.
PeerSilent(e) == rd[e] \in {"head", "body"} /\ Inbound(e) = <<>>

BothFull == \A e \in Ends : open[e] /\ Len(pipe[e]) = Window

Stuck(e) == adapter \in {"plain", "shadowsocks"} /\ (PeerSilent(e) \/ BothFull)

\* Write, Close and the rounds of runDummy have all returned in the end, but for
\* those of an end that is stuck for good in one of the two ways above.  With
\* the two mutexes of hysteria2Session they always return, and Close of
\* shadowsocks always does, as it needs no lock.
CallsReturn == <>[](\A e \in Ends :
    /\ wr[e] \in {"idle", "done"} \/ Stuck(e)
    /\ du[e] \in {"sleep", "done"} \/ Stuck(e)
    /\ cl[e] # "lock" \/ (adapter = "plain" /\ Stuck(e)))

\* Once Close has got through at one end, the readers of both ends finish, also
\* those that were waiting for a frame or for a lock.
CloseEndsReaders == <>[]((\E e \in Ends : ~ open[e]) => \A e \in Ends : rd[e] = "done")
=============================================================================
