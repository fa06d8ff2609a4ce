------------------------- MODULE DuplexSessionProofs -------------------------
(***************************************************************************)
(* Why a reader gets its peer's bytes in order: the pieces of a pipe are   *)
(* heads and bodies in turn, from where the reader is to where the writer  *)
(* is, and the bytes of each body follow those of the body before it.      *)
(***************************************************************************)
EXTENDS DuplexSession, SequenceTheorems, TLAPS

Locks == {"mu", "wmu", "readMu", "writeMu"}
FrameType == [bytes : Seq(Nat), pad : Nat]
PieceType == [part : {"head", "body", "none"}, frame : FrameType]
WritePlaces == {"idle", "lock", "wmu", "head", "body", "done"}

Types ==
    /\ adapter \in {"plain", "shadowsocks", "hysteria2", "padding"}
    /\ DOMAIN lock = Ends /\ \A e \in Ends : DOMAIN lock[e] = Locks
    /\ closed \in [Ends -> BOOLEAN]
    /\ open \in [Ends -> BOOLEAN]
    /\ pipe \in [Ends -> Seq(PieceType)]
    /\ pending \in [Ends -> Seq(Nat)] /\ got \in [Ends -> Seq(Nat)]
    /\ rd \in [Ends -> {"idle", "head", "body", "done"}]
    /\ wr \in [Ends -> WritePlaces]
    /\ du \in [Ends -> {"sleep", "lock", "wmu", "head", "body", "done"}]
    /\ DOMAIN cl = Ends
    /\ data \in [Ends -> Seq(Nat)] /\ cur \in [Ends -> FrameType]
    /\ given \in [Ends -> Nat] /\ unframed \in [Ends -> Nat]

(* The bytes of an end that have reached its pipe, or have been lost.      *)
Sent(w) == given[w] - Len(data[w]) - Len(cur[w].bytes)

(* What a Write holds: the bytes after those sent, in order; and of plain  *)
(* only the holder of wmu sends.                                           *)
Writing(w) ==
    /\ Sent(w) >= 0
    /\ \A k \in 1..Len(data[w]) : data[w][k] = given[w] - Len(data[w]) + k
    /\ \A k \in 1..Len(cur[w].bytes) : cur[w].bytes[k] = Sent(w) + k
    /\ wr[w] \in {"idle", "lock", "done"} => cur[w].bytes = <<>>
    /\ wr[w] \in {"idle", "done"} => data[w] = <<>>
    /\ adapter = "plain" /\ wr[w] \in {"head", "body"} => lock[w]["wmu"] = "writer"
    /\ du[w] \in {"head", "body"} => lock[w]["wmu"] = "dummy"
    /\ adapter # "plain" => du[w] = "done"
    /\ unframed[w] > 0 => adapter = "padding"

(* s are the bytes behind the first n, but for those at and after u, the   *)
(* first one that PaddingConn has sent without a frame.                    *)
InPlace(s, n, u) == \A k \in 1..Len(s) : s[k] = n + k \/ (0 < u /\ u <= n + k)

(* The bytes go up, and the padding among them does not count.             *)
Rising(g) == \A i, j \in 1..Len(g) : i < j /\ g[i] # 0 /\ g[j] # 0 => g[i] < g[j]

(* What a reader has been given and what it keeps for the next Read.       *)
Reading(r) ==
    /\ rd[r] \in {"head", "body"} \/ adapter = "hysteria2" => pending[r] = <<>>
    /\ IF adapter = "hysteria2"
         THEN Rising(got[r])
         ELSE /\ InPlace(got[r], 0, unframed[Peer(r)])
              /\ InPlace(pending[r], Len(got[r]), unframed[Peer(r)])

Mid(w) == wr[w] = "body" \/ du[w] = "body"

Hollow(ad, f) == ad = "plain" /\ f.bytes = <<>> /\ f.pad = 0

After(ad, p) == IF p.part = "head" /\ ~Hollow(ad, p.frame) THEN "body" ELSE "head"

Carried(p) == IF p.part = "head" THEN 0 ELSE Len(p.frame.bytes)

Run(bytes, before) == \A k \in 1..Len(bytes) : bytes[k] = before + k

(* A piece where the frames are at `at' and `before' bytes have passed.    *)
Link(ad, p, before, at, after, next) ==
    /\ p.part = at /\ next = After(ad, p) /\ after = before + Carried(p)
    /\ at = "body" => Run(p.frame.bytes, before)

(* How many bytes come before each piece of a pipe, and what it has to be. *)
Places == [Nat -> Nat]
Parts == {"head", "body"}
Moves == [Nat -> Parts]

(* Before the n-th piece of a pipe the piece i is the at[i] of a frame,    *)
(* and pos[i] bytes come before it.                                        *)
Chain(ad, s, n, pos, at) ==
    \A i \in 1..(n - 1) : Link(ad, s[i], pos[i], at[i], pos[i + 1], at[i + 1])

Below(g, b) == \A i \in 1..Len(g) : g[i] <= b

(* The reader has got the first b bytes of w, in hysteria2 some of them.   *)
Level(w, b) ==
    IF adapter = "hysteria2"
      THEN Below(got[Peer(w)], b)
      ELSE b = Len(got[Peer(w)]) + Len(pending[Peer(w)])

(* The chain begins where the reader is.                                   *)
Begins(w, pos, at) ==
    at[1] = (IF rd[Peer(w)] = "body" THEN "body" ELSE "head") /\ Level(w, pos[1])

(* It ends where the writer is, or with the first piece without a frame.   *)
Ending(w, s, n, pos, at) ==
    IF unframed[w] = 0
      THEN /\ n = Len(s) + 1
           /\ open[w] => (at[n] = "body" <=> Mid(w))
           /\ open[w] /\ wr[w] # "done" => pos[n] = Sent(w)
      ELSE /\ n <= Len(s) /\ s[n].part = "none"
           /\ at[n] = "head" /\ pos[n] = unframed[w] - 1

Follows(w, n, pos, at) ==
    Chain(adapter, pipe[w], n, pos, at) /\ Begins(w, pos, at) /\ Ending(w, pipe[w], n, pos, at)

(* The reader has passed a piece without a frame.                          *)
Lost(w) == unframed[w] > 0 /\ Len(got[Peer(w)]) + Len(pending[Peer(w)]) >= unframed[w] - 1

Flow(w) ==
    open[Peer(w)] /\ rd[Peer(w)] # "done" =>
        \/ Lost(w)
        \/ \E n \in Nat \ {0}, pos \in Places, at \in Moves :
              Follows(w, n, pos, at)

OrderInv == Types /\ \A e \in Ends : Writing(e) /\ Reading(e) /\ Flow(e)

-----------------------------------------------------------------------------
LEMMA Peers ==
    /\ Ends = {"a", "b"} /\ Peer("a") = "b" /\ Peer("b") = "a"
    /\ \A e \in Ends : Peer(e) \in Ends /\ Peer(e) # e /\ Peer(Peer(e)) = e
<1>1. Peer("a") = "b" BY DEF Peer, Ends
<1>2. Peer("b") = "a" BY DEF Peer, Ends
<1> QED BY <1>1, <1>2 DEF Ends

LEMMA MinOfTwo ==
    ASSUME NEW m \in Nat, NEW n \in Nat
    PROVE  Min({m, n}) = IF m < n THEN m ELSE n
<1>1. PICK x \in {m, n} : \A y \in {m, n} : x <= y OBVIOUS
<1>2. Min({m, n}) \in {m, n} /\ \A y \in {m, n} : Min({m, n}) <= y BY <1>1 DEF Min
<1> QED BY <1>2

(* What copy puts into the caller's buffer, and what is left.              *)
LEMMA Copied ==
    ASSUME NEW s \in Seq(Nat), NEW n \in Nat
    PROVE  /\ First(s, n) \in Seq(Nat) /\ Beyond(s, n) \in Seq(Nat)
           /\ Len(First(s, n)) = IF n < Len(s) THEN n ELSE Len(s)
           /\ Len(Beyond(s, n)) = Len(s) - Len(First(s, n))
           /\ \A k \in 1..Len(First(s, n)) : First(s, n)[k] = s[k]
           /\ \A k \in 1..Len(Beyond(s, n)) : Beyond(s, n)[k] = s[n + k]
<1>1. Len(s) \in Nat /\ Min({n, Len(s)}) = IF n < Len(s) THEN n ELSE Len(s) BY MinOfTwo
<1> DEFINE m == IF n < Len(s) THEN n ELSE Len(s)
<1>2. First(s, n) = SubSeq(s, 1, m) BY <1>1 DEF First
<1>3. m \in Nat /\ m <= Len(s) BY <1>1
<1>4. First(s, n) \in Seq(Nat) /\ Len(First(s, n)) = m
      /\ \A k \in 1..m : First(s, n)[k] = s[k]
  BY <1>2, <1>3
<1>5. CASE n < Len(s)
  <2>1. n + 1 \in 1..Len(s) /\ Len(s) \in 1..Len(s) BY <1>1, <1>5
  <2>2. Beyond(s, n) = SubSeq(s, n + 1, Len(s)) BY DEF Beyond
  <2>3. Beyond(s, n) = [k \in 1..(Len(s) - n) |-> s[n + k]] BY <2>1, <2>2
  <2>4. Len(Beyond(s, n)) = Len(s) - n BY <1>1, <1>5, <2>2
  <2>5. Beyond(s, n) \in Seq(Nat) BY <2>1, <2>2
  <2> QED BY <1>1, <1>4, <1>5, <2>3, <2>4, <2>5
<1>6. CASE ~(n < Len(s))
  <2>1. Beyond(s, n) = <<>> BY <1>1, <1>6 DEF Beyond
  <2>2. Beyond(s, n) \in Seq(Nat) /\ Len(Beyond(s, n)) = 0 BY <2>1
  <2>3. Len(First(s, n)) = Len(s) BY <1>4, <1>6
  <2>4. \A k \in 1..Len(Beyond(s, n)) : Beyond(s, n)[k] = s[n + k] BY <2>2
  <2>5. Len(Beyond(s, n)) = Len(s) - Len(First(s, n)) BY <1>1, <2>2, <2>3
  <2>6. Len(First(s, n)) = IF n < Len(s) THEN n ELSE Len(s) BY <1>6, <2>3
  <2>7. \A k \in 1..Len(First(s, n)) : First(s, n)[k] = s[k] BY <1>4
  <2> QED BY <1>4, <2>2, <2>4, <2>5, <2>6, <2>7
<1> QED BY <1>5, <1>6

Zero(p) == [i \in 1..p |-> 0]

LEMMA Zeros ==
    ASSUME NEW b \in Seq(Nat), NEW p \in Nat
    PROVE  /\ b \o Zero(p) \in Seq(Nat) /\ Len(b \o Zero(p)) = Len(b) + p
           /\ \A k \in 1..Len(b) : (b \o Zero(p))[k] = b[k]
           /\ \A k \in 1..Len(b \o Zero(p)) : k > Len(b) => (b \o Zero(p))[k] = 0
<1> DEFINE z == Zero(p)
<1>1. z \in Seq(Nat) /\ Len(z) = p /\ \A i \in 1..p : z[i] = 0 BY DEF Zero
<1> HIDE DEF z
<1>2. Len(b) \in Nat OBVIOUS
<1>3. b \o z \in Seq(Nat) /\ Len(b \o z) = Len(b) + p BY <1>1, ConcatProperties
<1>4. \A k \in 1..(Len(b) + p) : (b \o z)[k] = IF k <= Len(b) THEN b[k] ELSE z[k - Len(b)]
  BY <1>1, ConcatProperties
<1>5. \A k \in 1..Len(b) : (b \o z)[k] = b[k] BY <1>2, <1>4
<1>6. ASSUME NEW k \in 1..(Len(b) + p), k > Len(b) PROVE (b \o z)[k] = 0
  <2>1. k - Len(b) \in 1..p BY <1>2, <1>6
  <2>2. (b \o z)[k] = z[k - Len(b)]
    <3>1. k \in Int /\ ~(k <= Len(b)) BY <1>2, <1>6
    <3> QED BY <1>4, <1>6, <3>1
  <2>3. z[k - Len(b)] = 0 BY <1>1, <2>1
  <2> QED BY <2>2, <2>3
<1>7. \A k \in 1..Len(b \o z) : k > Len(b) => (b \o z)[k] = 0 BY <1>3, <1>6
<1> QED BY <1>3, <1>5, <1>7 DEF z

(* hysteria2 returns the padding behind the bytes.                         *)
LEMMA PayloadFacts ==
    ASSUME NEW f \in FrameType
    PROVE  /\ Payload(f) \in Seq(Nat) /\ Len(Payload(f)) >= Len(f.bytes)
           /\ \A k \in 1..Len(f.bytes) : Payload(f)[k] = f.bytes[k]
           /\ \A k \in 1..Len(Payload(f)) : k > Len(f.bytes) => Payload(f)[k] = 0
           /\ adapter # "hysteria2" => Payload(f) = f.bytes
<1>1. f.bytes \in Seq(Nat) /\ f.pad \in Nat /\ Len(f.bytes) \in Nat BY DEF FrameType
<1>2. CASE adapter = "hysteria2"
  <2>1. Payload(f) = f.bytes \o Zero(f.pad) BY <1>2 DEF Payload, Zero
  <2>2. /\ Payload(f) \in Seq(Nat) /\ Len(Payload(f)) = Len(f.bytes) + f.pad
        /\ \A k \in 1..Len(f.bytes) : Payload(f)[k] = f.bytes[k]
        /\ \A k \in 1..Len(Payload(f)) : k > Len(f.bytes) => Payload(f)[k] = 0
    <3> DEFINE b == f.bytes
               p == f.pad
               s == Payload(f)
    <3>1. b \in Seq(Nat) /\ p \in Nat /\ s = b \o Zero(p) BY <1>1, <2>1
    <3> HIDE DEF b, p, s
    <3>2. /\ s \in Seq(Nat) /\ Len(s) = Len(b) + p
          /\ \A k \in 1..Len(b) : s[k] = b[k]
          /\ \A k \in 1..Len(s) : k > Len(b) => s[k] = 0
      BY ONLY <3>1, Zeros
    <3> QED BY <3>2 DEF b, p, s
  <2> QED BY <1>1, <1>2, <2>2
<1>3. CASE adapter # "hysteria2" BY <1>1, <1>3 DEF Payload
<1> QED BY <1>2, <1>3

LEMMA UnlockFacts ==
    ASSUME Types, NEW e \in Ends, NEW held, Unlock(e, held)
    PROVE  /\ DOMAIN lock' = Ends /\ \A x \in Ends : DOMAIN lock'[x] = Locks
           /\ \A x \in Ends : \A l \in Locks :
                 x # e \/ l \notin held => lock'[x][l] = lock[x][l]
BY DEF Unlock, Types

LEMMA LockFacts ==
    ASSUME Types, NEW e \in Ends, NEW l \in Locks, NEW who, lock' = [lock EXCEPT ![e][l] = who]
    PROVE  /\ DOMAIN lock' = Ends /\ \A x \in Ends : DOMAIN lock'[x] = Locks
           /\ lock'[e][l] = who
           /\ \A x \in Ends : \A k \in Locks : x # e \/ k # l => lock'[x][k] = lock[x][k]
BY DEF Types

LEMMA LockNames == ReadLock \in Locks \ {"wmu"} /\ WriteLock \in Locks \ {"wmu"}
BY DEF ReadLock, WriteLock, Locks

(* A send puts the piece into the pipe, or the peer's end is closed.       *)
LEMMA SendFacts ==
    ASSUME Types, NEW e \in Ends, NEW p \in PieceType, Send(e, p)
    PROVE  /\ pipe' \in [Ends -> Seq(PieceType)] /\ open[e]
           /\ pipe'[Peer(e)] = pipe[Peer(e)]
           /\ ~open[Peer(e)] \/ pipe'[e] = Append(pipe[e], p)
<1>1. pipe[e] \in Seq(PieceType) /\ Append(pipe[e], p) \in Seq(PieceType) BY DEF Types
<1>2. Peer(e) \in Ends /\ Peer(e) # e BY Peers
<1>3. pipe' = [pipe EXCEPT ![e] = Append(@, p)] \/ (~open[Peer(e)] /\ pipe' = pipe)
  BY DEF Send
<1> QED BY <1>1, <1>2, <1>3 DEF Send, Types

LEMMA TakeFacts ==
    ASSUME Types, NEW e \in Ends, Inbound(e) # <<>>, Take(e)
    PROVE  /\ pipe' \in [Ends -> Seq(PieceType)] /\ pipe'[e] = pipe[e]
           /\ pipe'[Peer(e)] = Tail(pipe[Peer(e)])
           /\ Head(pipe[Peer(e)]) \in PieceType /\ Head(pipe[Peer(e)]) = pipe[Peer(e)][1]
           /\ Len(pipe[Peer(e)]) \in Nat \ {0}
<1>1. Peer(e) \in Ends /\ Peer(e) # e BY Peers
<1>2. pipe[Peer(e)] \in Seq(PieceType) /\ pipe[Peer(e)] # <<>> BY <1>1 DEF Types, Inbound
<1>3. Tail(pipe[Peer(e)]) \in Seq(PieceType) BY <1>2
<1>4. /\ Head(pipe[Peer(e)]) \in PieceType /\ Head(pipe[Peer(e)]) = pipe[Peer(e)][1]
      /\ Len(pipe[Peer(e)]) \in Nat \ {0}
  BY <1>2
<1> QED BY <1>1, <1>3, <1>4 DEF Take, Types

LEMMA DeliverFacts ==
    ASSUME Types, NEW e \in Ends, NEW bytes \in Seq(Nat), NEW n \in Buffers, Deliver(e, bytes, n)
    PROVE  /\ got' \in [Ends -> Seq(Nat)] /\ pending' \in [Ends -> Seq(Nat)]
           /\ got'[e] = got[e] \o First(bytes, n)
           /\ pending'[e] = IF adapter = "hysteria2" THEN <<>> ELSE Beyond(bytes, n)
           /\ got'[Peer(e)] = got[Peer(e)] /\ pending'[Peer(e)] = pending[Peer(e)]
<1>1. n \in Nat BY DuplexAssumption
<1>2. First(bytes, n) \in Seq(Nat) /\ Beyond(bytes, n) \in Seq(Nat) BY <1>1, Copied
<1>3. got[e] \in Seq(Nat) /\ <<>> \in Seq(Nat) BY DEF Types
<1>4. got[e] \o First(bytes, n) \in Seq(Nat) BY <1>2, <1>3
<1> QED BY <1>2, <1>3, <1>4, Peers DEF Deliver, Types

LEMMA NextFrameFacts ==
    ASSUME Types, NEW e \in Ends, NEW pad \in Pads(data[e]), NextFrame(e, pad)
    PROVE  /\ cur' \in [Ends -> FrameType] /\ data' \in [Ends -> Seq(Nat)]
           /\ cur'[e].bytes = First(data[e], MaxFrame) /\ data'[e] = Beyond(data[e], MaxFrame)
           /\ cur'[Peer(e)] = cur[Peer(e)] /\ data'[Peer(e)] = data[Peer(e)]
<1>1. MaxFrame \in Nat /\ MaxPad \in Nat BY DuplexAssumption
<1>2. pad \in Nat BY <1>1 DEF Pads
<1>3. data[e] \in Seq(Nat) BY DEF Types
<1>4. First(data[e], MaxFrame) \in Seq(Nat) /\ Beyond(data[e], MaxFrame) \in Seq(Nat)
  BY <1>1, <1>3, Copied
<1>5. Frame(First(data[e], MaxFrame), pad) \in FrameType BY <1>2, <1>4 DEF Frame, FrameType
<1> QED BY <1>4, <1>5, Peers DEF NextFrame, Types, Frame

LEMMA ForgetFacts ==
    ASSUME Types, NEW e \in Ends, Forget(e)
    PROVE  /\ cur' \in [Ends -> FrameType] /\ data' \in [Ends -> Seq(Nat)]
           /\ cur'[e].bytes = <<>> /\ data'[e] = <<>>
           /\ cur'[Peer(e)] = cur[Peer(e)] /\ data'[Peer(e)] = data[Peer(e)]
<1>1. Frame(<<>>, 0) \in FrameType /\ Frame(<<>>, 0).bytes = <<>> BY DEF Frame, FrameType
<1> QED BY <1>1, Peers DEF Forget, Types

-----------------------------------------------------------------------------
(* The types.                                                              *)
LEMMA PieceFacts ==
    ASSUME NEW f \in FrameType, NEW part \in {"head", "body", "none"}
    PROVE  [part |-> part, frame |-> f] \in PieceType
BY DEF PieceType

LEMMA DummyType == DummyFrame \in FrameType /\ DummyFrame.bytes = <<>> /\ DummyFrame.pad = 1
BY DEF DummyFrame, Frame, FrameType

LEMMA ReaderTypes ==
    ASSUME Types, NEW e \in Ends, Reader(e)
    PROVE  Types'
<1>1. CASE ReadBegin(e)
  <2>1. CASE ~Closed(e) /\ pending[e] # <<>>
    <3>1. pending[e] \in Seq(Nat) BY DEF Types
    <3>2. CASE \E size \in Buffers : Deliver(e, pending[e], size) /\ UNCHANGED <<lock, rd>>
      BY <1>1, <3>1, <3>2, DeliverFacts DEF ReadBegin, Types, config, writing, dummy
    <3> QED BY <1>1, <2>1, <3>2 DEF ReadBegin
  <2>2. CASE ~(~Closed(e) /\ pending[e] # <<>>)
    <3>1. UNCHANGED <<pending, got>> BY <1>1, <2>2 DEF ReadBegin
    <3>2. rd' \in [Ends -> {"idle", "head", "body", "done"}] BY <1>1, <2>2 DEF ReadBegin, Types
    <3>3. DOMAIN lock' = Ends /\ \A x \in Ends : DOMAIN lock'[x] = Locks
      <4>1. lock' = lock \/ lock' = [lock EXCEPT ![e][ReadLock] = "reader"]
        BY <1>1, <2>2 DEF ReadBegin
      <4> QED BY <4>1, LockFacts, LockNames DEF Types
    <3> QED BY <1>1, <3>1, <3>2, <3>3 DEF ReadBegin, Types, config, writing, dummy
  <2> QED BY <2>1, <2>2
<1>2. CASE ReadHead(e)
  BY <1>2, TakeFacts DEF ReadHead, Types, config, writing, dummy
<1>3. CASE ReadBody(e)
  <2> DEFINE piece == Head(Inbound(e))
             bytes == IF piece.part = "body" THEN Payload(piece.frame) ELSE <<0>>
  <2>1. pipe' \in [Ends -> Seq(PieceType)] /\ piece \in PieceType
    BY <1>3, TakeFacts DEF ReadBody, Inbound
  <2>2. bytes \in Seq(Nat)
    <3>1. piece.frame \in FrameType BY <2>1 DEF PieceType
    <3>2. Payload(piece.frame) \in Seq(Nat) BY <3>1, PayloadFacts
    <3> QED BY <3>2
  <2>3. rd' \in [Ends -> {"idle", "head", "body", "done"}] BY <1>3 DEF ReadBody, Types
  <2>4. DOMAIN lock' = Ends /\ \A x \in Ends : DOMAIN lock'[x] = Locks
    BY <1>3, UnlockFacts DEF ReadBody, Types
  <2>5. UNCHANGED <<pending, got>> \/ \E size \in Buffers : Deliver(e, bytes, size)
    BY <1>3 DEF ReadBody
  <2>6. pending' \in [Ends -> Seq(Nat)] /\ got' \in [Ends -> Seq(Nat)]
    <3> HIDE DEF bytes
    <3> QED BY <2>2, <2>5, DeliverFacts DEF Types
  <2> QED BY <1>3, <2>1, <2>3, <2>4, <2>6 DEF ReadBody, Types, config, writing, dummy
<1>4. CASE ReadFails(e)
  BY <1>4, UnlockFacts DEF ReadFails, Types, config, writing, dummy
<1> QED BY <1>1, <1>2, <1>3, <1>4 DEF Reader

LEMMA WriterTypes ==
    ASSUME Types, NEW e \in Ends, WriteStep(e) \/ WriteCall(e)
    PROVE  Types'
<1>0. /\ cur[e] \in FrameType /\ data[e] \in Seq(Nat) /\ DOMAIN unframed = Ends
      /\ \A part \in {"head", "body", "none"} : [part |-> part, frame |-> cur[e]] \in PieceType
  BY PieceFacts DEF Types
<1>1. CASE WriteCall(e)
  <2>1. PICK n \in Writes : /\ data' = [data EXCEPT ![e] = [i \in 1..n |-> given[e] + i]]
                            /\ given' = [given EXCEPT ![e] = @ + n]
    BY <1>1 DEF WriteCall
  <2>2. n \in Nat /\ given[e] \in Nat BY DuplexAssumption DEF Types
  <2>3. [i \in 1..n |-> given[e] + i] \in Seq(Nat) BY <2>2
  <2>4. data' \in [Ends -> Seq(Nat)] BY <2>1, <2>3 DEF Types
  <2>5. given' \in [Ends -> Nat] BY <2>1, <2>2 DEF Types
  <2>6. wr' \in [Ends -> WritePlaces] BY <1>1 DEF WriteCall, Types, WritePlaces
  <2> QED BY <1>1, <2>4, <2>5, <2>6 DEF WriteCall, Types, config, reading, dummy
<1>2. CASE WriteUnframed(e)
  <2>1. Frame(data[e], 0) \in FrameType BY <1>0 DEF Frame, FrameType
  <2>2. pipe' \in [Ends -> Seq(PieceType)]
    BY <1>2, <2>1, PieceFacts, SendFacts DEF WriteUnframed
  <2>3. data[e] # <<>>
    <3>1. MaxFrame \in Nat /\ Len(data[e]) > MaxFrame
      BY <1>2, DuplexAssumption DEF WriteUnframed, Overlong
    <3> QED BY <1>0, <3>1
  <2>4. Head(data[e]) \in Nat BY <1>0, <2>3
  <2>5. unframed' \in [Ends -> Nat] BY <1>2, <2>4 DEF WriteUnframed, Types
  <2>6. data' \in [Ends -> Seq(Nat)] BY <1>2 DEF WriteUnframed, Types
  <2>7. wr' \in [Ends -> WritePlaces] BY <1>2 DEF WriteUnframed, Types, WritePlaces
  <2> QED BY <1>2, <2>2, <2>5, <2>6, <2>7 DEF WriteUnframed, Types, config, reading, dummy
<1>3. CASE WriteBegin(e)
  <2>1. wr' \in [Ends -> WritePlaces] BY <1>3 DEF WriteBegin, Types, WritePlaces
  <2>2. DOMAIN lock' = Ends /\ \A x \in Ends : DOMAIN lock'[x] = Locks
    <3>1. lock' = lock \/ lock' = [lock EXCEPT ![e][WriteLock] = "writer"] BY <1>3 DEF WriteBegin
    <3> QED BY <3>1, LockFacts, LockNames DEF Types
  <2>3. \/ cur' = cur /\ data' = [data EXCEPT ![e] = <<>>]
        \/ \E pad \in Pads(data[e]) : NextFrame(e, pad)
    BY <1>3 DEF WriteBegin
  <2>4. cur' \in [Ends -> FrameType] /\ data' \in [Ends -> Seq(Nat)]
    <3>1. CASE cur' = cur /\ data' = [data EXCEPT ![e] = <<>>] BY <3>1 DEF Types
    <3>2. CASE \E pad \in Pads(data[e]) : NextFrame(e, pad) BY <3>2, NextFrameFacts
    <3> QED BY <2>3, <3>1, <3>2
  <2> QED BY <1>3, <2>1, <2>2, <2>4 DEF WriteBegin, Types, config, reading, dummy
<1>4. CASE WriteWmu(e)
  <2>1. wr' \in [Ends -> WritePlaces] BY <1>4 DEF WriteWmu, Types, WritePlaces
  <2>2. DOMAIN lock' = Ends /\ \A x \in Ends : DOMAIN lock'[x] = Locks
    BY <1>4 DEF WriteWmu, Types
  <2> QED BY <1>4, <2>1, <2>2 DEF WriteWmu, Types, config, reading, dummy
<1>5. ASSUME WriteReturn(e)
      PROVE  /\ wr' \in [Ends -> WritePlaces]
             /\ cur' \in [Ends -> FrameType] /\ data' \in [Ends -> Seq(Nat)]
             /\ DOMAIN lock' = Ends /\ \A x \in Ends : DOMAIN lock'[x] = Locks
  <2>1. wr' \in [Ends -> WritePlaces] BY <1>5 DEF WriteReturn, Types, WritePlaces
  <2>2. Forget(e) /\ Unlock(e, Held) BY <1>5 DEF WriteReturn, Forget
  <2> QED BY <2>1, <2>2, ForgetFacts, UnlockFacts
<1>6. CASE WriteHead(e)
  <2>1. pipe' \in [Ends -> Seq(PieceType)] BY <1>0, <1>6, SendFacts DEF WriteHead
  <2>2. CASE WriteReturn(e)
    BY <1>5, <1>6, <2>1, <2>2 DEF WriteHead, Types, config, reading, dummy
  <2>3. CASE wr' = [wr EXCEPT ![e] = "body"] /\ UNCHANGED <<lock, cur, data>>
    BY <1>6, <2>1, <2>3 DEF WriteHead, Types, WritePlaces, config, reading, dummy
  <2> QED BY <1>6, <2>2, <2>3 DEF WriteHead
<1>7. CASE WriteBody(e)
  <2>1. pipe' \in [Ends -> Seq(PieceType)] BY <1>0, <1>7, SendFacts DEF WriteBody
  <2>2. CASE WriteReturn(e)
    BY <1>5, <1>7, <2>1, <2>2 DEF WriteBody, Types, config, reading, dummy
  <2>3. CASE /\ \E pad \in Pads(data[e]) : NextFrame(e, pad)
             /\ wr' = [wr EXCEPT ![e] = "head"] /\ UNCHANGED lock
    <3>1. cur' \in [Ends -> FrameType] /\ data' \in [Ends -> Seq(Nat)]
      BY <2>3, NextFrameFacts
    <3>2. wr' \in [Ends -> WritePlaces] BY <2>3 DEF Types, WritePlaces
    <3> QED BY <1>7, <2>1, <2>3, <3>1, <3>2 DEF WriteBody, Types, config, reading, dummy
  <2> QED BY <1>7, <2>2, <2>3 DEF WriteBody
<1>8. CASE WriteFails(e)
  <2>1. Forget(e) /\ Unlock(e, Held) BY <1>8 DEF WriteFails, Forget
  <2>2. wr' \in [Ends -> WritePlaces] BY <1>8 DEF WriteFails, Types, WritePlaces
  <2> QED BY <1>8, <2>1, <2>2, ForgetFacts, UnlockFacts DEF WriteFails, Types, config, reading, dummy
<1> QED BY <1>1, <1>2, <1>3, <1>4, <1>6, <1>7, <1>8 DEF WriteStep

LEMMA OtherTypes ==
    ASSUME Types, NEW e \in Ends, DummyStep(e) \/ Close(e) \/ CloseCall(e)
    PROVE  Types'
<1>0. /\ [part |-> "head", frame |-> DummyFrame] \in PieceType
      /\ [part |-> "body", frame |-> DummyFrame] \in PieceType
  BY DummyType, PieceFacts
<1>1. CASE DummyWakes(e) \/ DummyCheck(e)
  BY <1>1 DEF DummyWakes, DummyCheck, Types, config, reading, writing
<1>2. CASE DummyWmu(e)
  <2>1. DOMAIN lock' = Ends /\ \A x \in Ends : DOMAIN lock'[x] = Locks
    BY <1>2 DEF DummyWmu, Types
  <2> QED BY <1>2, <2>1 DEF DummyWmu, Types, config, reading, writing
<1>3. CASE DummySend(e)
  <2>1. pipe' \in [Ends -> Seq(PieceType)] BY <1>0, <1>3, SendFacts DEF DummySend
  <2>2. DOMAIN lock' = Ends /\ \A x \in Ends : DOMAIN lock'[x] = Locks
    BY <1>3, UnlockFacts DEF DummySend, Types
  <2> QED BY <1>3, <2>1, <2>2 DEF DummySend, Types, config, reading, writing
<1>4. CASE DummyFails(e)
  BY <1>4, UnlockFacts DEF DummyFails, Types, config, reading, writing
<1>5. CASE Close(e)
  BY <1>5 DEF Close, Types, config, reading, writing, dummy
<1>6. CASE CloseCall(e)
  BY <1>6 DEF CloseCall, Types, config, reading, writing, dummy
<1> QED BY <1>1, <1>2, <1>3, <1>4, <1>5, <1>6 DEF DummyStep

-----------------------------------------------------------------------------
(* The writers.                                                            *)
LEMMA WritingKept ==
    ASSUME NEW w \in Ends, Writing(w), adapter' = adapter, wr'[w] = wr[w], data'[w] = data[w],
           cur'[w] = cur[w], given'[w] = given[w], du'[w] = du[w], unframed'[w] = unframed[w],
           lock'[w]["wmu"] = lock[w]["wmu"]
    PROVE  Writing(w)'
BY DEF Writing, Sent

(* The bytes of the next frame and those left follow those sent.           *)
LEMMA NextFrameInOrder ==
    ASSUME Types, Types', NEW e \in Ends, Writing(e), NEW pad \in Pads(data[e]), NextFrame(e, pad),
           given' = given
    PROVE  /\ Sent(e)' = given[e] - Len(data[e])
           /\ Sent(e)' >= 0
           /\ \A k \in 1..Len(data'[e]) : data'[e][k] = given[e] - Len(data'[e]) + k
           /\ \A k \in 1..Len(cur'[e].bytes) : cur'[e].bytes[k] = Sent(e)' + k
<1> DEFINE d == data[e]
           f == First(d, MaxFrame)
           b == Beyond(d, MaxFrame)
<1>1. d \in Seq(Nat) /\ Len(d) \in Nat /\ MaxFrame \in Nat /\ given[e] \in Nat
  BY DuplexAssumption DEF Types
<1>2. cur[e].bytes \in Seq(Nat) /\ Len(cur[e].bytes) \in Nat BY DEF Types, FrameType
<1>3. cur'[e].bytes = f /\ data'[e] = b BY NextFrameFacts
<1>4. /\ Len(f) = IF MaxFrame < Len(d) THEN MaxFrame ELSE Len(d)
      /\ Len(b) = Len(d) - Len(f)
      /\ \A k \in 1..Len(f) : f[k] = d[k]
      /\ \A k \in 1..Len(b) : b[k] = d[MaxFrame + k]
  BY <1>1, Copied
<1>5. \A k \in 1..Len(d) : d[k] = given[e] - Len(d) + k BY DEF Writing
<1>6. Len(d) <= given[e] BY <1>1, <1>2 DEF Writing, Sent
<1>7. Sent(e)' = given[e] - Len(b) - Len(f) BY <1>3 DEF Sent
<1> HIDE DEF d, f, b
<1>8. Len(f) \in Nat /\ Len(b) \in Nat /\ Len(f) <= Len(d) BY <1>1, <1>4
<1>9. Sent(e)' = given[e] - Len(d)
  <2>1. Len(b) = Len(d) - Len(f) BY <1>4
  <2>2. given[e] - Len(b) - Len(f) = given[e] - Len(d) BY <1>1, <1>8, <2>1
  <2> QED BY <1>7, <2>2
<1>10. ASSUME NEW k \in 1..Len(b) PROVE b[k] = given[e] - Len(b) + k
  <2>1. MaxFrame < Len(d) /\ Len(b) = Len(d) - MaxFrame BY <1>1, <1>4, <1>8, <1>10
  <2>2. MaxFrame + k \in 1..Len(d) BY <1>1, <1>8, <1>10, <2>1
  <2>3. b[k] = d[MaxFrame + k] BY <1>4
  <2>4. d[MaxFrame + k] = given[e] - Len(d) + (MaxFrame + k) BY <1>5, <2>2
  <2>5. given[e] - Len(d) + (MaxFrame + k) = given[e] - Len(b) + k
    BY ONLY <1>1, <1>8, <2>1, k \in 1..Len(b)
  <2> QED BY <2>3, <2>4, <2>5
<1>11. ASSUME NEW k \in 1..Len(f) PROVE f[k] = given[e] - Len(d) + k
  <2>1. k \in 1..Len(d) BY ONLY <1>1, <1>8, k \in 1..Len(f)
  <2> QED BY <1>4, <1>5, <2>1
<1> QED BY <1>1, <1>3, <1>6, <1>9, <1>10, <1>11 DEF d

LEMMA WriterWriting ==
    ASSUME Types, Types', NEW e \in Ends, Writing(e), WriteStep(e) \/ WriteCall(e)
    PROVE  Writing(e)'
<1>0. /\ data[e] \in Seq(Nat) /\ Len(data[e]) \in Nat /\ cur[e].bytes \in Seq(Nat)
      /\ Len(cur[e].bytes) \in Nat /\ given[e] \in Nat /\ Len(<<>>) = 0
      /\ wr[e] \in WritePlaces /\ unframed[e] \in Nat
  BY DEF Types, FrameType
<1>1. adapter' = adapter /\ du' = du
  BY DEF WriteStep, WriteCall, WriteBegin, WriteUnframed, WriteWmu, WriteHead, WriteBody, WriteFails,
         config, dummy
(* Write returns or fails: nothing is held any more. *)
<1>2. ASSUME Forget(e), given' = given, unframed' = unframed,
             wr[e] \in {"head", "body"} \/ adapter = "padding", wr'[e] \in {"idle", "done"}
      PROVE  Writing(e)'
  <2>1. cur'[e].bytes = <<>> /\ data'[e] = <<>> BY <1>2, ForgetFacts
  <2>2. Sent(e)' = given[e] BY <1>0, <1>2, <2>1 DEF Sent
  <2>3. du[e] \notin {"head", "body"}
    <3>1. adapter = "plain" => wr[e] \in {"head", "body"} BY <1>2
    <3> QED BY <3>1 DEF Writing
  <2> QED BY <1>0, <1>1, <1>2, <2>1, <2>2, <2>3 DEF Writing
<1>3. CASE WriteCall(e)
  <2>1. PICK n \in Writes : /\ data' = [data EXCEPT ![e] = [i \in 1..n |-> given[e] + i]]
                            /\ given' = [given EXCEPT ![e] = @ + n]
    BY <1>3 DEF WriteCall
  <2>2. n \in Nat BY DuplexAssumption
  <2>3. data'[e] = [i \in 1..n |-> given[e] + i] /\ given'[e] = given[e] + n BY <2>1 DEF Types
  <2>4. Len(data'[e]) = n /\ \A k \in 1..n : data'[e][k] = given[e] + k BY <1>0, <2>2, <2>3
  <2>5. cur' = cur /\ unframed' = unframed /\ lock' = lock /\ wr'[e] = "lock" /\ cur[e].bytes = <<>>
    BY <1>3 DEF WriteCall, Writing, Types
  <2>6. Sent(e)' = given[e] BY <1>0, <2>2, <2>3, <2>4, <2>5 DEF Sent
  <2>7. \A k \in 1..Len(data'[e]) : data'[e][k] = given'[e] - Len(data'[e]) + k
    BY <1>0, <2>2, <2>3, <2>4
  <2> QED BY <1>0, <1>1, <2>5, <2>6, <2>7 DEF Writing
<1>4. CASE WriteUnframed(e)
  <2>1. /\ data'[e] = <<>> /\ cur' = cur /\ given' = given /\ lock' = lock /\ wr'[e] = "idle"
        /\ adapter = "padding" /\ cur[e].bytes = <<>>
    BY <1>4 DEF WriteUnframed, Overlong, Writing, Types
  <2>2. Sent(e)' = given[e] BY <1>0, <2>1 DEF Sent
  <2> QED BY <1>0, <1>1, <2>1, <2>2 DEF Writing
<1>5. CASE WriteBegin(e)
  <2>1. /\ given' = given /\ unframed' = unframed /\ cur[e].bytes = <<>>
    BY <1>5 DEF WriteBegin, Writing
  <2>2. CASE wr'[e] = "done" /\ data'[e] = <<>> /\ UNCHANGED <<lock, cur>>
    <3>1. Sent(e)' = given[e] BY <1>0, <2>1, <2>2 DEF Sent
    <3> QED BY <1>0, <1>1, <2>1, <2>2, <3>1 DEF Writing
  <2>3. CASE /\ \E pad \in Pads(data[e]) : NextFrame(e, pad)
             /\ lock' = [lock EXCEPT ![e][WriteLock] = "writer"]
             /\ wr'[e] = IF adapter = "plain" THEN "wmu" ELSE "head"
    <3>1. lock'[e]["wmu"] = lock[e]["wmu"] BY <2>3, LockFacts, LockNames DEF Locks
    <3> QED BY <1>0, <1>1, <2>1, <2>3, <3>1, NextFrameInOrder DEF Writing
  <2> QED BY <1>5, <2>2, <2>3 DEF WriteBegin, Types
<1>6. CASE WriteWmu(e)
  <2>1. /\ data' = data /\ cur' = cur /\ given' = given /\ unframed' = unframed
        /\ wr[e] = "wmu" /\ wr'[e] = "head"
    BY <1>6 DEF WriteWmu, Types
  <2>2. lock'[e]["wmu"] = "writer" BY <1>6, LockFacts DEF WriteWmu, Locks
  <2>3. du[e] \notin {"head", "body"} BY <1>6 DEF WriteWmu, Writing, Free
  <2>4. Sent(e)' = Sent(e) BY <2>1 DEF Sent
  <2> QED BY <1>1, <2>1, <2>2, <2>3, <2>4 DEF Writing
<1>7. CASE WriteHead(e)
  <2>1. given' = given /\ unframed' = unframed /\ wr[e] = "head" BY <1>7 DEF WriteHead
  <2>2. CASE WriteReturn(e)
    <3>1. wr'[e] \in {"idle", "done"} /\ Forget(e) BY <2>2 DEF WriteReturn, Types
    <3> QED BY <1>2, <2>1, <3>1
  <2>3. CASE wr' = [wr EXCEPT ![e] = "body"] /\ UNCHANGED <<lock, cur, data>>
    <3>1. Sent(e)' = Sent(e) /\ wr'[e] = "body" BY <2>1, <2>3 DEF Sent, Types
    <3> QED BY <1>1, <2>1, <2>3, <3>1 DEF Writing
  <2> QED BY <1>7, <2>2, <2>3 DEF WriteHead
<1>8. CASE WriteBody(e)
  <2>1. given' = given /\ unframed' = unframed /\ wr[e] = "body" BY <1>8 DEF WriteBody
  <2>2. CASE WriteReturn(e)
    <3>1. wr'[e] \in {"idle", "done"} /\ Forget(e) BY <2>2 DEF WriteReturn, Types
    <3> QED BY <1>2, <2>1, <3>1
  <2>3. CASE /\ adapter = "hysteria2" /\ \E pad \in Pads(data[e]) : NextFrame(e, pad)
             /\ wr' = [wr EXCEPT ![e] = "head"] /\ UNCHANGED lock
    <3>1. wr'[e] = "head" BY <2>3 DEF Types
    <3> QED BY <1>0, <1>1, <2>1, <2>3, <3>1, NextFrameInOrder DEF Writing
  <2> QED BY <1>8, <2>2, <2>3 DEF WriteBody
<1>9. CASE WriteFails(e)
  <2>1. /\ Forget(e) /\ given' = given /\ unframed' = unframed /\ wr'[e] = "done"
        /\ wr[e] \in {"head", "body"} \/ adapter = "padding"
    BY <1>9 DEF WriteFails, Overlong, Types
  <2> QED BY <1>2, <2>1
<1> QED BY <1>3, <1>4, <1>5, <1>6, <1>7, <1>8, <1>9 DEF WriteStep

LEMMA DummyWriting ==
    ASSUME Types, Types', NEW e \in Ends, Writing(e), DummyStep(e)
    PROVE  Writing(e)'
<1>1. adapter' = adapter /\ UNCHANGED writing
  BY DEF DummyStep, DummyWakes, DummyCheck, DummyWmu, DummySend, DummyFails, config
<1>2. Sent(e)' = Sent(e) BY <1>1 DEF Sent, writing
<1>3. du[e] # "done" /\ adapter = "plain"
  BY DEF DummyStep, DummyWakes, DummyCheck, DummyWmu, DummySend, DummyFails, Writing
<1>4. CASE DummyWakes(e) \/ DummyCheck(e)
  <2>1. lock' = lock /\ du'[e] \notin {"head", "body"} BY <1>4 DEF DummyWakes, DummyCheck, Types
  <2> QED BY <1>1, <1>2, <1>3, <2>1 DEF Writing, writing
<1>5. CASE DummyWmu(e)
  <2>1. lock'[e]["wmu"] = "dummy" BY <1>5, LockFacts DEF DummyWmu, Locks
  <2>2. wr[e] \notin {"head", "body"} BY <1>3, <1>5 DEF DummyWmu, Writing, Free
  <2> QED BY <1>1, <1>2, <1>3, <2>1, <2>2 DEF Writing, writing
<1>6. CASE du[e] = "head" /\ du'[e] = "body" /\ lock' = lock
  BY <1>1, <1>2, <1>3, <1>6 DEF Writing, writing
<1>7. CASE du[e] \in {"head", "body"} /\ du'[e] = "sleep"
  <2>1. wr[e] \notin {"head", "body"} BY <1>3, <1>7 DEF Writing
  <2> QED BY <1>1, <1>2, <1>3, <1>7, <2>1 DEF Writing, writing
<1> QED BY <1>4, <1>5, <1>6, <1>7 DEF DummyStep, DummySend, DummyFails, Types

-----------------------------------------------------------------------------
(* Chains.                                                                 *)
LEMMA Appended ==
    ASSUME NEW S, NEW s \in Seq(S), NEW p \in S
    PROVE  /\ Append(s, p) \in Seq(S) /\ Len(s) \in Nat
           /\ Append(s, p)[Len(s) + 1] = p /\ Len(Append(s, p)) = Len(s) + 1
           /\ \A i \in 1..Len(s) : Append(s, p)[i] = s[i]
BY AppendProperties

LEMMA Shortened ==
    ASSUME NEW S, NEW s \in Seq(S), s # <<>>
    PROVE  /\ Tail(s) \in Seq(S) /\ Len(s) \in Nat /\ Len(s) >= 1 /\ Len(Tail(s)) = Len(s) - 1
           /\ \A i \in 1..(Len(s) - 1) : Tail(s)[i] = s[i + 1]
BY HeadTailProperties, EmptySeq

Extend(f, n, v) == [f EXCEPT ![n + 1] = v]
Shift(f) == [i \in Nat |-> f[i + 1]]

LEMMA PlaceTypes ==
    ASSUME NEW pos \in Places, NEW at \in Moves, NEW n \in Nat
    PROVE  pos[n] \in Nat /\ at[n] \in {"head", "body"}
BY DEF Places, Moves, Parts

LEMMA ExtendedPos ==
    ASSUME NEW f \in Places, NEW n \in Nat, NEW v \in Nat
    PROVE  /\ Extend(f, n, v) \in Places /\ Extend(f, n, v)[n + 1] = v
           /\ \A i \in 1..n : Extend(f, n, v)[i] = f[i]
BY DEF Extend, Places

LEMMA ExtendedAt ==
    ASSUME NEW f \in Moves, NEW n \in Nat, NEW v \in Parts
    PROVE  /\ Extend(f, n, v) \in Moves /\ Extend(f, n, v)[n + 1] = v
           /\ \A i \in 1..n : Extend(f, n, v)[i] = f[i]
BY DEF Extend, Moves

LEMMA ShiftedPos ==
    ASSUME NEW f \in Places
    PROVE  Shift(f) \in Places /\ \A i \in Nat : Shift(f)[i] = f[i + 1]
BY DEF Shift, Places

LEMMA ShiftedAt ==
    ASSUME NEW f \in Moves
    PROVE  Shift(f) \in Moves /\ \A i \in Nat : Shift(f)[i] = f[i + 1]
BY DEF Shift, Moves

LEMMA ChainKept ==
    ASSUME NEW ad, NEW s \in Seq(PieceType), NEW p \in PieceType, NEW n \in Nat, NEW pos, NEW at,
           Chain(ad, s, n, pos, at), n <= Len(s) + 1
    PROVE  Chain(ad, Append(s, p), n, pos, at)
<1>1. Len(s) \in Nat /\ \A i \in 1..Len(s) : Append(s, p)[i] = s[i] BY Appended
<1>2. \A i \in 1..(n - 1) : i \in 1..Len(s) BY <1>1
<1>3. \A i \in 1..(n - 1) : Append(s, p)[i] = s[i] BY <1>1, <1>2
<1> QED BY <1>3 DEF Chain

LEMMA LinkTypes ==
    ASSUME NEW ad, NEW p \in PieceType
    PROVE  After(ad, p) \in Parts /\ Carried(p) \in Nat
BY DEF After, Parts, Carried, PieceType, FrameType

LEMMA OneMore ==
    ASSUME NEW n \in Nat, NEW i \in 1..n
    PROVE  i = n \/ (i \in 1..(n - 1) /\ i + 1 \in 1..n)
OBVIOUS

LEMMA ChainGrows ==
    ASSUME NEW ad, NEW s \in Seq(PieceType), NEW p \in PieceType, NEW n \in Nat, n = Len(s) + 1,
           NEW pos \in Places, NEW at \in Moves, Chain(ad, s, n, pos, at),
           p.part = at[n], at[n] = "body" => Run(p.frame.bytes, pos[n]),
           NEW q, q = Extend(pos, n, pos[n] + Carried(p)), NEW a, a = Extend(at, n, After(ad, p))
    PROVE  /\ q \in Places /\ a \in Moves
           /\ Chain(ad, Append(s, p), n + 1, q, a) /\ q[1] = pos[1] /\ a[1] = at[1]
           /\ a[n + 1] = After(ad, p) /\ q[n + 1] = pos[n] + Carried(p)
<1> DEFINE v == pos[n] + Carried(p)
           m == After(ad, p)
<1>1. n >= 1 /\ Append(s, p)[n] = p /\ \A i \in 1..(n - 1) : Append(s, p)[i] = s[i]
  BY Appended
<1>2. v \in Nat /\ m \in Parts
  <2>1. pos[n] \in Nat /\ Carried(p) \in Nat /\ m \in Parts BY LinkTypes, PlaceTypes
  <2> QED BY ONLY <2>1
<1>0. q = Extend(pos, n, v) /\ a = Extend(at, n, m) OBVIOUS
<1> HIDE DEF v, m
<1>3. a \in Moves /\ a[n + 1] = m /\ \A i \in 1..n : a[i] = at[i]
  BY ONLY <1>0, <1>2, n \in Nat, at \in Moves, ExtendedAt
<1>4. q \in Places /\ q[n + 1] = v /\ \A i \in 1..n : q[i] = pos[i]
  BY ONLY <1>0, <1>2, n \in Nat, pos \in Places, ExtendedPos
<1>5. ASSUME NEW i \in 1..n
      PROVE  Link(ad, Append(s, p)[i], q[i], a[i], q[i + 1], a[i + 1])
  <2>1. CASE i = n
    <3>1. n \in 1..n BY <1>1
    <3>2. q[n] = pos[n] /\ a[n] = at[n] BY <1>3, <1>4, <3>1
    <3>3. Link(ad, p, pos[n], at[n], v, m) BY DEF Link, v, m
    <3> QED BY <1>1, <1>3, <1>4, <2>1, <3>2, <3>3
  <2>2. CASE i # n
    <3>1. i \in 1..(n - 1) /\ i + 1 \in 1..n BY <2>2, OneMore
    <3>2. Append(s, p)[i] = s[i] BY <1>1, <3>1
    <3>3. Link(ad, s[i], pos[i], at[i], pos[i + 1], at[i + 1]) BY <3>1 DEF Chain
    <3>4. a[i] = at[i] /\ q[i] = pos[i] /\ a[i + 1] = at[i + 1] /\ q[i + 1] = pos[i + 1]
      BY <1>3, <1>4, <3>1
    <3> QED BY <3>2, <3>3, <3>4
  <2> QED BY <2>1, <2>2
<1>6. (n + 1) - 1 = n OBVIOUS
<1>7. Chain(ad, Append(s, p), n + 1, q, a) BY <1>5, <1>6 DEF Chain
<1>8. 1 \in 1..n BY <1>1
<1>9. q[1] = pos[1] /\ a[1] = at[1] BY <1>3, <1>4, <1>8
<1> QED BY <1>3, <1>4, <1>7, <1>9 DEF v, m

LEMMA OneLess ==
    ASSUME NEW n \in Nat, n > 1
    PROVE  /\ n - 1 \in Nat \ {0} /\ 1 \in 1..(n - 1) /\ (n - 1) + 1 = n /\ 1 + 1 = 2
           /\ \A i \in 1..((n - 1) - 1) : i + 1 \in 1..(n - 1) /\ i \in Nat /\ i + 1 \in Nat
OBVIOUS

LEMMA ChainShrinks ==
    ASSUME NEW ad, NEW s \in Seq(PieceType), s # <<>>, NEW n \in Nat, n > 1, n <= Len(s) + 1,
           NEW pos \in Places, NEW at \in Moves, Chain(ad, s, n, pos, at),
           NEW q, q = Shift(pos), NEW a, a = Shift(at)
    PROVE  /\ q \in Places /\ a \in Moves
           /\ Link(ad, s[1], pos[1], at[1], q[1], a[1])
           /\ Chain(ad, Tail(s), n - 1, q, a) /\ q[n - 1] = pos[n] /\ a[n - 1] = at[n]
<1> DEFINE t == Tail(s)
<1>1. \A i \in 1..((n - 1) - 1) : t[i] = s[i + 1]
  <2>1. Len(s) \in Nat /\ \A i \in 1..(Len(s) - 1) : t[i] = s[i + 1] BY Shortened
  <2>2. \A i \in 1..((n - 1) - 1) : i \in 1..(Len(s) - 1) BY <2>1
  <2> QED BY <2>1, <2>2
<1> HIDE DEF t
<1>2. a \in Moves /\ \A i \in Nat : a[i] = at[i + 1] BY ShiftedAt
<1>3. q \in Places /\ \A i \in Nat : q[i] = pos[i + 1] BY ShiftedPos
<1>4. /\ n - 1 \in Nat \ {0} /\ 1 \in 1..(n - 1) /\ (n - 1) + 1 = n /\ 1 + 1 = 2
      /\ \A i \in 1..((n - 1) - 1) : i + 1 \in 1..(n - 1) /\ i \in Nat /\ i + 1 \in Nat
  BY OneLess
<1>5. ASSUME NEW i \in 1..((n - 1) - 1)
      PROVE  Link(ad, t[i], q[i], a[i], q[i + 1], a[i + 1])
  <2>1. i + 1 \in 1..(n - 1) /\ i \in Nat /\ i + 1 \in Nat BY <1>4
  <2>2. t[i] = s[i + 1] BY <1>1
  <2>3. Link(ad, s[i + 1], pos[i + 1], at[i + 1], pos[(i + 1) + 1], at[(i + 1) + 1])
    BY <2>1 DEF Chain
  <2>4. a[i] = at[i + 1] /\ q[i] = pos[i + 1] BY <1>2, <1>3, <2>1
  <2>5. a[i + 1] = at[(i + 1) + 1] /\ q[i + 1] = pos[(i + 1) + 1] BY <1>2, <1>3, <2>1
  <2> QED BY <2>2, <2>3, <2>4, <2>5
<1>6. Chain(ad, t, n - 1, q, a) BY <1>5 DEF Chain
<1>7. q[1] = pos[1 + 1] /\ a[1] = at[1 + 1] BY <1>2, <1>3
<1>8. q[n - 1] = pos[n] /\ a[n - 1] = at[n]
  <2>1. q[n - 1] = pos[(n - 1) + 1] /\ a[n - 1] = at[(n - 1) + 1] BY <1>2, <1>3, <1>4
  <2> QED BY <1>4, <2>1
<1>9. Link(ad, s[1], pos[1], at[1], q[1], a[1])
  <2>1. Link(ad, s[1], pos[1], at[1], pos[1 + 1], at[1 + 1]) BY <1>4 DEF Chain
  <2> QED BY <1>7, <2>1
<1> QED BY <1>2, <1>3, <1>6, <1>8, <1>9 DEF t

-----------------------------------------------------------------------------
(* From the reader to the writer.                                          *)
LEMMA FlowBy ==
    ASSUME NEW w \in Ends, NEW n \in Nat \ {0}, NEW pos \in Places, NEW at \in Moves,
           Follows(w, n, pos, at)'
    PROVE  Flow(w)'
BY Zenon DEF Flow

LEMMA FlowOf ==
    ASSUME NEW w \in Ends, Flow(w), open[Peer(w)], rd[Peer(w)] # "done", ~Lost(w)
    PROVE  \E n \in Nat \ {0}, pos \in Places, at \in Moves : Follows(w, n, pos, at)
BY Zenon DEF Flow

LEMMA LevelKept ==
    ASSUME NEW w \in Ends, adapter' = adapter, NEW b, Level(w, b),
           \/ got'[Peer(w)] = got[Peer(w)] /\ pending'[Peer(w)] = pending[Peer(w)]
           \/ /\ adapter # "hysteria2"
              /\ Len(got'[Peer(w)]) + Len(pending'[Peer(w)])
                    = Len(got[Peer(w)]) + Len(pending[Peer(w)])
    PROVE  Level(w, b)'
BY Peers DEF Level

LEMMA LostKept ==
    ASSUME NEW w \in Ends, unframed'[w] = unframed[w], Lost(w),
           \/ got'[Peer(w)] = got[Peer(w)] /\ pending'[Peer(w)] = pending[Peer(w)]
           \/ Len(got'[Peer(w)]) + Len(pending'[Peer(w)])
                 = Len(got[Peer(w)]) + Len(pending[Peer(w)])
    PROVE  Lost(w)'
BY DEF Lost

(* Nothing is sent or received, and both ends stay where they are.         *)
LEMMA FlowKept ==
    ASSUME NEW w \in Ends, Flow(w), adapter' = adapter,
           pipe'[w] = pipe[w], unframed'[w] = unframed[w],
           open'[Peer(w)] => open[Peer(w)],
           rd'[Peer(w)] # "done" =>
              rd[Peer(w)] # "done" /\ (rd'[Peer(w)] = "body" <=> rd[Peer(w)] = "body"),
           \/ got'[Peer(w)] = got[Peer(w)] /\ pending'[Peer(w)] = pending[Peer(w)]
           \/ /\ adapter # "hysteria2"
              /\ Len(got'[Peer(w)]) + Len(pending'[Peer(w)])
                    = Len(got[Peer(w)]) + Len(pending[Peer(w)]),
           open'[w] => open[w] /\ (Mid(w)' <=> Mid(w)),
           open'[w] /\ wr'[w] # "done" => wr[w] # "done" /\ Sent(w)' = Sent(w)
    PROVE  Flow(w)'
<1> SUFFICES ASSUME open'[Peer(w)], rd'[Peer(w)] # "done" PROVE Flow(w)'
  BY DEF Flow
<1>1. CASE Lost(w)
  <2>1. Lost(w)' BY <1>1, LostKept
  <2> QED BY <2>1 DEF Flow
<1>2. CASE ~Lost(w)
  <2>1. PICK n \in Nat \ {0}, pos \in Places, at \in Moves : Follows(w, n, pos, at)
    BY <1>2, FlowOf, Zenon
  <2>2. Chain(adapter', pipe'[w], n, pos, at) BY <2>1 DEF Follows
  <2>3. Begins(w, pos, at)'
    <3>1. Level(w, pos[1])' BY <2>1, LevelKept DEF Follows, Begins
    <3> QED BY <2>1, <3>1 DEF Follows, Begins
  <2>4. Ending(w, pipe[w], n, pos, at)' BY <2>1 DEF Follows, Ending
  <2>5. Follows(w, n, pos, at)' BY <2>2, <2>3, <2>4 DEF Follows
  <2> QED BY <2>1, <2>5, FlowBy
<1> QED BY <1>1, <1>2

(* A head or a body is sent.                                               *)
LEMMA FlowAppends ==
    ASSUME Types, NEW w \in Ends, Flow(w), NEW p \in PieceType, adapter' = adapter,
           open' = open, rd' = rd, got' = got, pending' = pending, unframed' = unframed, open[w],
           pipe'[w] = Append(pipe[w], p), p.part = IF Mid(w) THEN "body" ELSE "head",
           (wr[w] # "done" /\ Run(p.frame.bytes, Sent(w))) \/ p.frame.bytes = <<>>,
           Mid(w)' <=> After(adapter, p) = "body",
           wr'[w] # "done" => wr[w] # "done" /\ Sent(w)' = Sent(w) + Carried(p)
    PROVE  Flow(w)'
<1> SUFFICES ASSUME open[Peer(w)], rd[Peer(w)] # "done" PROVE Flow(w)'
  BY DEF Flow
<1>1. CASE Lost(w)
  <2>1. Lost(w)' BY <1>1, LostKept
  <2> QED BY <2>1 DEF Flow
<1>2. CASE ~Lost(w)
  <2>1. PICK n \in Nat \ {0}, pos \in Places, at \in Moves : Follows(w, n, pos, at)
    BY <1>2, FlowOf, Zenon
  <2>2. pipe[w] \in Seq(PieceType) /\ Len(pipe[w]) \in Nat BY DEF Types
  <2>3. Chain(adapter, pipe[w], n, pos, at) BY <2>1 DEF Follows
  <2>4. Len(pipe'[w]) = Len(pipe[w]) + 1 /\ \A i \in 1..Len(pipe[w]) : pipe'[w][i] = pipe[w][i]
    BY <2>2, Appended
  <2>5. CASE unframed[w] = 0
    <3>1. n = Len(pipe[w]) + 1 /\ (at[n] = "body" <=> Mid(w)) /\ (wr[w] # "done" => pos[n] = Sent(w))
      BY <2>1, <2>5 DEF Follows, Ending
    <3>2. at[n] \in {"head", "body"} BY <2>1, PlaceTypes
    <3>3. p.part = at[n] BY <3>1, <3>2
    <3>4. Run(p.frame.bytes, pos[n])
      <4>1. CASE p.frame.bytes = <<>> BY <4>1 DEF Run
      <4>2. CASE wr[w] # "done" /\ Run(p.frame.bytes, Sent(w)) BY <3>1, <4>2
      <4> QED BY <4>1, <4>2
    <3>5. PICK q \in Places, a \in Moves :
             /\ n + 1 \in Nat \ {0}
             /\ Chain(adapter, Append(pipe[w], p), n + 1, q, a) /\ q[1] = pos[1] /\ a[1] = at[1]
             /\ a[n + 1] = After(adapter, p) /\ q[n + 1] = pos[n] + Carried(p)
      <4> DEFINE x == Extend(pos, n, pos[n] + Carried(p))
                 y == Extend(at, n, After(adapter, p))
      <4>1. n \in Nat /\ n = Len(pipe[w]) + 1 /\ n + 1 \in Nat \ {0} BY <3>1
      <4>3. x = Extend(pos, n, pos[n] + Carried(p)) /\ y = Extend(at, n, After(adapter, p))
        OBVIOUS
      <4> HIDE DEF x, y
      <4>4. pipe[w] \in Seq(PieceType) BY <2>2
      <4>5. at[n] = "body" => Run(p.frame.bytes, pos[n]) BY <3>4
      <4>2. /\ x \in Places /\ y \in Moves
            /\ Chain(adapter, Append(pipe[w], p), n + 1, x, y) /\ x[1] = pos[1] /\ y[1] = at[1]
            /\ y[n + 1] = After(adapter, p) /\ x[n + 1] = pos[n] + Carried(p)
        BY ONLY <2>3, <3>3, <4>1, <4>3, <4>4, <4>5, p \in PieceType, pos \in Places,
                at \in Moves, ChainGrows
      <4> QED BY <4>1, <4>2, Zenon
    <3>6. Begins(w, q, a)'
      <4>1. Level(w, pos[1])' BY <2>1, LevelKept DEF Follows, Begins
      <4> QED BY <2>1, <3>5, <4>1 DEF Follows, Begins
    <3>7. Ending(w, pipe[w], n + 1, q, a)' BY <2>4, <2>5, <3>1, <3>5 DEF Ending
    <3>8. Follows(w, n + 1, q, a)' BY <3>5, <3>6, <3>7 DEF Follows
    <3> QED BY <3>5, <3>8, FlowBy
  <2>6. CASE unframed[w] # 0
    <3>1. n <= Len(pipe[w]) /\ pipe[w][n].part = "none" /\ at[n] = "head" /\ pos[n] = unframed[w] - 1
      BY <2>1, <2>6 DEF Follows, Ending
    <3>2. Chain(adapter', pipe'[w], n, pos, at) BY <2>2, <2>3, <3>1, ChainKept
    <3>3. Begins(w, pos, at)'
      <4>1. Level(w, pos[1])' BY <2>1, LevelKept DEF Follows, Begins
      <4> QED BY <2>1, <4>1 DEF Follows, Begins
    <3>4. n \in 1..Len(pipe[w]) BY <2>2, <3>1
    <3>5. Ending(w, pipe[w], n, pos, at)' BY <2>2, <2>4, <2>6, <3>1, <3>4 DEF Ending
    <3>6. Follows(w, n, pos, at)' BY <3>2, <3>3, <3>5 DEF Follows
    <3> QED BY <3>6, FlowBy
  <2> QED BY <2>5, <2>6
<1> QED BY <1>1, <1>2

(* PaddingConn sends what is too long: the chain ends there.               *)
LEMMA FlowUnframed ==
    ASSUME Types, NEW w \in Ends, Flow(w), NEW p \in PieceType, adapter' = adapter,
           open' = open, rd' = rd, got' = got, pending' = pending, open[w], wr[w] # "done",
           pipe'[w] = Append(pipe[w], p), p.part = "none", ~Mid(w),
           unframed'[w] = IF unframed[w] = 0 THEN Sent(w) + 1 ELSE unframed[w], Sent(w) \in Nat
    PROVE  Flow(w)'
<1> SUFFICES ASSUME open[Peer(w)], rd[Peer(w)] # "done" PROVE Flow(w)'
  BY DEF Flow
<1>1. CASE Lost(w)
  <2>1. unframed[w] \in Nat /\ unframed[w] > 0 BY <1>1 DEF Lost, Types
  <2>2. unframed'[w] = unframed[w] BY <2>1
  <2>3. Lost(w)' BY <1>1, <2>2, LostKept
  <2> QED BY <2>3 DEF Flow
<1>2. CASE ~Lost(w)
  <2>1. PICK n \in Nat \ {0}, pos \in Places, at \in Moves : Follows(w, n, pos, at)
    BY <1>2, FlowOf, Zenon
  <2>2. pipe[w] \in Seq(PieceType) /\ Len(pipe[w]) \in Nat BY DEF Types
  <2>3. Chain(adapter, pipe[w], n, pos, at) BY <2>1 DEF Follows
  <2>4. /\ Len(pipe'[w]) = Len(pipe[w]) + 1 /\ \A i \in 1..Len(pipe[w]) : pipe'[w][i] = pipe[w][i]
        /\ pipe'[w][Len(pipe[w]) + 1] = p
    BY ONLY <2>2, p \in PieceType, pipe'[w] = Append(pipe[w], p), Appended
  <2>5. n <= Len(pipe[w]) + 1
    <3>1. n = Len(pipe[w]) + 1 \/ n <= Len(pipe[w]) BY <2>1 DEF Follows, Ending
    <3> QED BY ONLY <2>2, <3>1, n \in Nat \ {0}
  <2>6. Chain(adapter', pipe'[w], n, pos, at) BY <2>2, <2>3, <2>5, ChainKept
  <2>7. Begins(w, pos, at)'
    <3>1. Level(w, pos[1])' BY <2>1, LevelKept DEF Follows, Begins
    <3> QED BY <2>1, <3>1 DEF Follows, Begins
  <2>8. at[n] \in {"head", "body"} BY <2>1, PlaceTypes
  <2>9. Ending(w, pipe[w], n, pos, at)'
    <3>1. CASE unframed[w] = 0
      <4>1. n = Len(pipe[w]) + 1 /\ at[n] = "head" /\ pos[n] = Sent(w)
        BY <2>1, <2>8, <3>1 DEF Follows, Ending
      <4>2. unframed'[w] = Sent(w) + 1 /\ unframed'[w] # 0 BY <3>1
      <4>3. n <= Len(pipe'[w]) /\ pipe'[w][n] = p /\ pos[n] = unframed'[w] - 1
        BY ONLY <2>2, <2>4, <4>1, <4>2, Sent(w) \in Nat
      <4> QED BY <4>1, <4>2, <4>3 DEF Ending
    <3>2. CASE unframed[w] # 0
      <4>1. n <= Len(pipe[w]) /\ pipe[w][n].part = "none" /\ at[n] = "head"
            /\ pos[n] = unframed[w] - 1
        BY <2>1, <3>2 DEF Follows, Ending
      <4>2. n \in 1..Len(pipe[w]) BY <2>2, <4>1
      <4> QED BY <2>2, <2>4, <3>2, <4>1, <4>2 DEF Ending
    <3> QED BY <3>1, <3>2
  <2>10. Follows(w, n, pos, at)' BY <2>6, <2>7, <2>9 DEF Follows
  <2> QED BY <2>10, FlowBy
<1> QED BY <1>1, <1>2

(* The reader takes the first piece, which is where it belongs.            *)
LEMMA FlowTakes ==
    ASSUME Types, NEW w \in Ends, Flow(w), Writing(w), ~Lost(w), open[Peer(w)], rd[Peer(w)] # "done",
           pipe[w] # <<>>
    PROVE  \E n \in Nat \ {0}, pos \in Places, at \in Moves, b \in Nat :
              /\ Chain(adapter, Tail(pipe[w]), n, pos, at)
              /\ Level(w, b)
              /\ Link(adapter, pipe[w][1], b, IF rd[Peer(w)] = "body" THEN "body" ELSE "head",
                      pos[1], at[1])
              /\ Ending(w, Tail(pipe[w]), n, pos, at)
<1>1. PICK n \in Nat \ {0}, pos \in Places, at \in Moves : Follows(w, n, pos, at)
  BY FlowOf, Zenon
<1>2. pipe[w] \in Seq(PieceType) /\ unframed[w] \in Nat BY DEF Types
<1>3. /\ Len(pipe[w]) \in Nat /\ Len(pipe[w]) >= 1 /\ Len(Tail(pipe[w])) = Len(pipe[w]) - 1
      /\ \A i \in 1..(Len(pipe[w]) - 1) : Tail(pipe[w])[i] = pipe[w][i + 1]
  BY <1>2, Shortened
<1>4. n > 1
  <2>1. SUFFICES ASSUME n = 1 PROVE FALSE BY <1>1
  <2>2. unframed[w] # 0 BY <1>1, <1>3, <2>1 DEF Follows, Ending
  <2>3. pos[1] = unframed[w] - 1 BY <1>1, <2>1, <2>2 DEF Follows, Ending
  <2>4. adapter = "padding" BY <1>2, <2>2 DEF Writing
  <2>5. pos[1] = Len(got[Peer(w)]) + Len(pending[Peer(w)]) BY <1>1, <2>4 DEF Follows, Begins, Level
  <2>6. pos[1] \in Nat /\ unframed[w] > 0 BY <1>1, <1>2, <2>2, PlaceTypes
  <2>7. pos[1] >= unframed[w] - 1 BY <2>3, <2>6
  <2>8. Len(got[Peer(w)]) + Len(pending[Peer(w)]) >= unframed[w] - 1 BY <2>5, <2>7, Zenon
  <2>9. Lost(w) BY ONLY <2>6, <2>8 DEF Lost
  <2> QED BY <2>9
<1>5. n <= Len(pipe[w]) + 1
  <2>1. n = Len(pipe[w]) + 1 \/ n <= Len(pipe[w]) BY <1>1 DEF Follows, Ending
  <2> QED BY <1>3, <2>1
<1>6. Chain(adapter, pipe[w], n, pos, at) BY <1>1 DEF Follows
<1> DEFINE q == Shift(pos)
           a == Shift(at)
<1>8. /\ q \in Places /\ a \in Moves
      /\ Link(adapter, pipe[w][1], pos[1], at[1], q[1], a[1])
      /\ Chain(adapter, Tail(pipe[w]), n - 1, q, a) /\ q[n - 1] = pos[n] /\ a[n - 1] = at[n]
  <2>1. n \in Nat BY <1>1
  <2> QED BY ONLY <1>2, <1>4, <1>5, <1>6, <2>1, pipe[w] # <<>>, pos \in Places, at \in Moves,
                  ChainShrinks
<1> HIDE DEF q, a
<1>9. n - 1 \in Nat \ {0} /\ pos[1] \in Nat BY <1>1, <1>4, PlaceTypes
<1>10. Level(w, pos[1]) BY <1>1 DEF Follows, Begins
<1>11. Link(adapter, pipe[w][1], pos[1], IF rd[Peer(w)] = "body" THEN "body" ELSE "head", q[1], a[1])
  BY <1>1, <1>8 DEF Follows, Begins
<1>12. Ending(w, Tail(pipe[w]), n - 1, q, a)
  <2>1. CASE unframed[w] = 0
    <3>1. /\ n = Len(pipe[w]) + 1
          /\ open[w] => (at[n] = "body" <=> Mid(w))
          /\ open[w] /\ wr[w] # "done" => pos[n] = Sent(w)
      BY <1>1, <2>1 DEF Follows, Ending
    <3>2. n - 1 = Len(Tail(pipe[w])) + 1 BY <1>3, <3>1
    <3> QED BY <1>8, <2>1, <3>1, <3>2, Zenon DEF Ending
  <2>2. CASE unframed[w] # 0
    <3>1. /\ n <= Len(pipe[w]) /\ pipe[w][n].part = "none" /\ at[n] = "head"
          /\ pos[n] = unframed[w] - 1
      BY <1>1, <2>2 DEF Follows, Ending
    <3>2. n - 1 \in 1..(Len(pipe[w]) - 1) /\ (n - 1) + 1 = n /\ n - 1 <= Len(Tail(pipe[w]))
      <4>1. Len(pipe[w]) \in Nat /\ Len(Tail(pipe[w])) = Len(pipe[w]) - 1 /\ n <= Len(pipe[w]) /\ n > 1
        BY <1>3, <1>4, <3>1
      <4> QED BY ONLY <4>1, n \in Nat
    <3>3. Tail(pipe[w])[n - 1] = pipe[w][n] BY <1>3, <3>2
    <3> QED BY <1>8, <2>2, <3>1, <3>2, <3>3 DEF Ending
  <2> QED BY <2>1, <2>2
<1> QED BY <1>8, <1>9, <1>10, <1>11, <1>12, Zenon

(* It goes on behind that piece.                                           *)
LEMMA FlowResumes ==
    ASSUME NEW w \in Ends, NEW n \in Nat \ {0}, NEW pos \in Places, NEW at \in Moves,
           adapter' = adapter, open' = open, UNCHANGED writing, du' = du,
           pipe'[w] = Tail(pipe[w]), Chain(adapter, Tail(pipe[w]), n, pos, at),
           Ending(w, Tail(pipe[w]), n, pos, at), Level(w, pos[1])',
           at[1] = IF rd'[Peer(w)] = "body" THEN "body" ELSE "head"
    PROVE  Flow(w)'
<1>1. Begins(w, pos, at)' BY DEF Begins
<1>2. Sent(w)' = Sent(w) /\ Mid(w)' = Mid(w) /\ unframed' = unframed /\ wr' = wr
  BY DEF Sent, Mid, writing
<1>3. Ending(w, pipe[w], n, pos, at)' BY <1>2 DEF Ending
<1>4. Follows(w, n, pos, at)' BY <1>1, <1>3 DEF Follows
<1> QED BY <1>4, FlowBy

-----------------------------------------------------------------------------
(* The readers.                                                            *)
LEMMA ReadingKept ==
    ASSUME NEW r \in Ends, Reading(r), adapter' = adapter, got'[r] = got[r], pending'[r] = pending[r],
           rd'[r] \in {"head", "body"} => rd[r] \in {"head", "body"} \/ pending[r] = <<>>,
           unframed'[Peer(r)] = unframed[Peer(r)] \/ unframed[Peer(r)] = 0
    PROVE  Reading(r)'
BY DEF Reading, InPlace

LEMMA Joined ==
    ASSUME NEW g \in Seq(Nat), NEW f \in Seq(Nat), NEW h, h = g \o f
    PROVE  /\ h \in Seq(Nat) /\ Len(h) = Len(g) + Len(f) /\ Len(g) \in Nat /\ Len(f) \in Nat
           /\ \A i \in 1..Len(g) : h[i] = g[i]
           /\ \A i \in 1..Len(h) : i \in 1..Len(g) \/ (i - Len(g) \in 1..Len(f) /\ h[i] = f[i - Len(g)])
<1>1. Len(g) \in Nat /\ Len(f) \in Nat OBVIOUS
<1>2. h \in Seq(Nat) /\ Len(h) = Len(g) + Len(f) BY ConcatProperties
<1>3. \A i \in 1..(Len(g) + Len(f)) : h[i] = IF i <= Len(g) THEN g[i] ELSE f[i - Len(g)]
  BY ConcatProperties
<1>4. \A i \in 1..Len(g) : h[i] = g[i]
  <2>1. \A i \in 1..Len(g) : i \in 1..(Len(g) + Len(f)) /\ i <= Len(g) BY <1>1
  <2> QED BY <1>3, <2>1
<1>5. ASSUME NEW i \in 1..Len(h), i \notin 1..Len(g)
      PROVE  i - Len(g) \in 1..Len(f) /\ h[i] = f[i - Len(g)]
  <2>1. i \in 1..(Len(g) + Len(f)) /\ ~(i <= Len(g)) /\ i - Len(g) \in 1..Len(f)
    BY ONLY <1>1, <1>2, <1>5, i \in 1..Len(h)
  <2> QED BY <1>3, <2>1
<1> QED BY <1>1, <1>2, <1>4, <1>5

(* What a buffer of n bytes takes of s goes to the end of g.               *)
LEMMA DeliveredInOrder ==
    ASSUME NEW g \in Seq(Nat), NEW s \in Seq(Nat), NEW n \in Nat, NEW u \in Nat,
           InPlace(g, 0, u), InPlace(s, Len(g), u)
    PROVE  /\ InPlace(g \o First(s, n), 0, u)
           /\ InPlace(Beyond(s, n), Len(g \o First(s, n)), u)
           /\ Len(g \o First(s, n)) + Len(Beyond(s, n)) = Len(g) + Len(s)
<1> DEFINE f == First(s, n)
           h == g \o First(s, n)
           t == Beyond(s, n)
<1>1. /\ f \in Seq(Nat) /\ t \in Seq(Nat)
      /\ Len(f) = IF n < Len(s) THEN n ELSE Len(s)
      /\ Len(t) = Len(s) - Len(f)
      /\ \A k \in 1..Len(f) : f[k] = s[k]
      /\ \A k \in 1..Len(t) : t[k] = s[n + k]
  BY Copied
<1>2. h = g \o f OBVIOUS
<1> HIDE DEF f, h, t
<1>3. /\ h \in Seq(Nat) /\ Len(h) = Len(g) + Len(f) /\ Len(g) \in Nat /\ Len(f) \in Nat
      /\ \A i \in 1..Len(g) : h[i] = g[i]
      /\ \A i \in 1..Len(h) : i \in 1..Len(g) \/ (i - Len(g) \in 1..Len(f) /\ h[i] = f[i - Len(g)])
  <2>1. f \in Seq(Nat) BY <1>1
  <2> QED BY ONLY <1>2, <2>1, g \in Seq(Nat), Joined
<1>4. Len(s) \in Nat /\ Len(t) \in Nat /\ Len(f) <= Len(s) BY <1>1, <1>3
<1>5. ASSUME NEW i \in 1..Len(h) PROVE h[i] = 0 + i \/ (0 < u /\ u <= 0 + i)
  <2>1. CASE i \in 1..Len(g) BY <1>3, <2>1 DEF InPlace
  <2>2. CASE i - Len(g) \in 1..Len(f) /\ h[i] = f[i - Len(g)]
    <3>1. i - Len(g) \in 1..Len(s) /\ Len(g) + (i - Len(g)) = 0 + i
      BY ONLY <1>3, <1>4, <2>2, i \in 1..Len(h)
    <3>2. h[i] = s[i - Len(g)] BY <1>1, <2>2
    <3>3. s[i - Len(g)] = Len(g) + (i - Len(g)) \/ (0 < u /\ u <= Len(g) + (i - Len(g)))
      BY <3>1 DEF InPlace
    <3> QED BY ONLY <3>1, <3>2, <3>3
  <2> QED BY <1>3, <2>1, <2>2
<1>6. ASSUME NEW k \in 1..Len(t) PROVE t[k] = Len(h) + k \/ (0 < u /\ u <= Len(h) + k)
  <2>1. n + k \in 1..Len(s) /\ Len(g) + (n + k) = Len(h) + k
    <3>1. Len(f) = IF n < Len(s) THEN n ELSE Len(s) BY <1>1
    <3>2. Len(t) = Len(s) - Len(f) /\ Len(h) = Len(g) + Len(f) BY <1>1, <1>3
    <3>3. Len(g) \in Nat /\ Len(s) \in Nat BY <1>3, <1>4
    <3> QED BY ONLY <3>1, <3>2, <3>3, n \in Nat, k \in 1..Len(t)
  <2>2. t[k] = s[n + k] BY <1>1
  <2>3. s[n + k] = Len(g) + (n + k) \/ (0 < u /\ u <= Len(g) + (n + k)) BY <2>1 DEF InPlace
  <2> QED BY ONLY <2>1, <2>2, <2>3
<1>7. Len(h) + Len(t) = Len(g) + Len(s)
  <2>1. Len(t) = Len(s) - Len(f) /\ Len(h) = Len(g) + Len(f) BY <1>1, <1>3
  <2>2. Len(g) \in Nat /\ Len(f) \in Nat /\ Len(s) \in Nat BY <1>3, <1>4
  <2> QED BY ONLY <2>1, <2>2
<1>8. InPlace(h, 0, u) /\ InPlace(t, Len(h), u) BY <1>5, <1>6 DEF InPlace
<1> QED BY <1>7, <1>8 DEF h, t

Padded(s, b, m) == \A k \in 1..Len(s) : s[k] = 0 \/ (k <= m /\ s[k] = b + k)

(* The same in hysteria2, where s is m bytes that follow b and padding.    *)
LEMMA DeliveredRising ==
    ASSUME NEW g \in Seq(Nat), NEW s \in Seq(Nat), NEW n \in Nat, NEW b \in Nat, NEW m \in Nat,
           Rising(g), Below(g, b), Padded(s, b, m)
    PROVE  Rising(g \o First(s, n)) /\ Below(g \o First(s, n), b + m)
<1> DEFINE f == First(s, n)
           h == g \o First(s, n)
<1>1. /\ f \in Seq(Nat) /\ Len(f) <= Len(s) /\ Len(s) \in Nat
      /\ \A k \in 1..Len(f) : f[k] = s[k]
  BY Copied
<1>2. h = g \o f OBVIOUS
<1> HIDE DEF f, h
<1>3. /\ h \in Seq(Nat) /\ Len(h) = Len(g) + Len(f) /\ Len(g) \in Nat /\ Len(f) \in Nat
      /\ \A i \in 1..Len(g) : h[i] = g[i]
      /\ \A i \in 1..Len(h) : i \in 1..Len(g) \/ (i - Len(g) \in 1..Len(f) /\ h[i] = f[i - Len(g)])
  <2>1. f \in Seq(Nat) BY <1>1
  <2> QED BY ONLY <1>2, <2>1, g \in Seq(Nat), Joined
<1>4. ASSUME NEW i \in 1..Len(h), i \notin 1..Len(g)
      PROVE  i > Len(g) /\ (h[i] = 0 \/ (i - Len(g) <= m /\ h[i] = b + (i - Len(g))))
  <2>1. i - Len(g) \in 1..Len(f) /\ h[i] = f[i - Len(g)] BY <1>3, <1>4
  <2>2. i - Len(g) \in 1..Len(s) /\ i > Len(g)
    <3>1. Len(f) <= Len(s) /\ Len(s) \in Nat /\ Len(g) \in Nat /\ Len(f) \in Nat BY <1>1, <1>3
    <3>2. i - Len(g) \in 1..Len(f) /\ i \in Int BY <2>1
    <3> QED BY ONLY <3>1, <3>2
  <2>3. h[i] = s[i - Len(g)] BY <1>1, <2>1
  <2> QED BY <2>2, <2>3 DEF Padded
<1>5. ASSUME NEW i \in 1..Len(h) PROVE h[i] <= b + m
  <2>1. CASE i \in 1..Len(g)
    <3>1. h[i] = g[i] /\ g[i] <= b /\ g[i] \in Nat BY <1>3, <2>1 DEF Below
    <3> QED BY ONLY <3>1, b \in Nat, m \in Nat
  <2>2. CASE i \notin 1..Len(g)
    <3>1. h[i] = 0 \/ (i - Len(g) <= m /\ h[i] = b + (i - Len(g))) BY <1>4, <2>2
    <3>2. Len(g) \in Nat BY <1>3
    <3> QED BY ONLY <3>1, <3>2, i \in 1..Len(h), b \in Nat, m \in Nat
  <2> QED BY <2>1, <2>2
<1>6. ASSUME NEW i \in 1..Len(h), NEW j \in 1..Len(h), i < j, h[i] # 0, h[j] # 0
      PROVE  h[i] < h[j]
  <2>0. Len(g) \in Nat /\ Len(h) \in Nat BY <1>3
  <2>1. CASE j \in 1..Len(g)
    <3>1. i \in 1..Len(g) BY ONLY <1>6, <2>0, <2>1, i \in 1..Len(h)
    <3>2. h[i] = g[i] /\ h[j] = g[j] BY <1>3, <2>1, <3>1
    <3> QED BY <1>6, <2>1, <3>1, <3>2 DEF Rising
  <2>2. CASE j \notin 1..Len(g)
    <3>1. j > Len(g) /\ h[j] = b + (j - Len(g)) BY <1>4, <1>6, <2>2
    <3>2. CASE i \in 1..Len(g)
      <4>1. h[i] = g[i] /\ g[i] <= b /\ g[i] \in Nat BY <1>3, <3>2 DEF Below
      <4> QED BY ONLY <2>0, <3>1, <4>1, b \in Nat, j \in 1..Len(h)
    <3>3. CASE i \notin 1..Len(g)
      <4>1. h[i] = b + (i - Len(g)) BY <1>4, <1>6, <3>3
      <4> QED BY ONLY <1>6, <2>0, <3>1, <4>1, b \in Nat, i \in 1..Len(h), j \in 1..Len(h)
    <3> QED BY <3>2, <3>3
  <2> QED BY <2>1, <2>2
<1>7. Rising(h) /\ Below(h, b + m) BY <1>5, <1>6 DEF Rising, Below
<1> QED BY <1>7 DEF h

LEMMA Sums == \A m, n \in Nat : m + n \in Nat
OBVIOUS

(* A piece has been taken: what was read before stays read.                *)
LEMMA LostFor ==
    ASSUME Types, Types', NEW w \in Ends, Lost(w), unframed' = unframed,
           Len(got'[Peer(w)]) + Len(pending'[Peer(w)]) >= Len(got[Peer(w)]) + Len(pending[Peer(w)])
    PROVE  Lost(w)'
<1>1. /\ Len(got[Peer(w)]) \in Nat /\ Len(pending[Peer(w)]) \in Nat /\ unframed[w] \in Nat
      /\ Len(got'[Peer(w)]) \in Nat /\ Len(pending'[Peer(w)]) \in Nat
  <2>1. Peer(w) \in Ends BY Peers
  <2>2. got[Peer(w)] \in Seq(Nat) /\ pending[Peer(w)] \in Seq(Nat) /\ unframed[w] \in Nat
    BY <2>1 DEF Types
  <2>3. got'[Peer(w)] \in Seq(Nat) /\ pending'[Peer(w)] \in Seq(Nat) BY <2>1 DEF Types
  <2> QED BY ONLY <2>2, <2>3
<1>2. unframed'[w] > 0 /\ Len(got[Peer(w)]) + Len(pending[Peer(w)]) >= unframed'[w] - 1
  BY DEF Lost
<1>3. Len(got'[Peer(w)]) + Len(pending'[Peer(w)]) >= unframed'[w] - 1
  <2> DEFINE x == Len(got[Peer(w)]) + Len(pending[Peer(w)])
             y == Len(got'[Peer(w)]) + Len(pending'[Peer(w)])
  <2>1. x \in Nat /\ y \in Nat /\ y >= x /\ x >= unframed'[w] - 1 /\ unframed'[w] \in Nat
    <3>1. x \in Nat /\ y \in Nat BY <1>1, Sums, Zenon
    <3>2. y >= x /\ x >= unframed'[w] - 1 BY <1>2
    <3> QED BY <1>1, <3>1, <3>2
  <2> HIDE DEF x, y
  <2>2. y >= unframed'[w] - 1 BY ONLY <2>1
  <2> QED BY <2>2 DEF y
<1> QED BY <1>2, <1>3 DEF Lost

LEMMA ReadBeginOrder ==
    ASSUME Types, Types', NEW e \in Ends, NEW w, w = Peer(e), Reading(e), Flow(w), ReadBegin(e)
    PROVE  Reading(e)' /\ Flow(w)'
<1>1. /\ adapter' = adapter /\ open' = open /\ pipe' = pipe /\ UNCHANGED writing /\ du' = du
  BY DEF ReadBegin, config, dummy
<1>2. w \in Ends /\ Peer(w) = e BY Peers
<1>3. Sent(w)' = Sent(w) /\ Mid(w)' = Mid(w) /\ unframed' = unframed /\ wr' = wr
  BY <1>1 DEF Sent, Mid, writing
<1>4. CASE /\ got' = got /\ pending' = pending /\ rd[e] = "idle"
           /\ rd'[e] = "done" \/ (rd'[e] = "head" /\ pending[e] = <<>>)
  <2>1. Reading(e)' BY <1>1, <1>3, <1>4, ReadingKept
  <2>2. Flow(w)' BY <1>1, <1>2, <1>3, <1>4, FlowKept
  <2> QED BY <2>1, <2>2
<1>5. CASE pending[e] # <<>> /\ rd[e] = "idle" /\ rd' = rd
           /\ \E size \in Buffers : Deliver(e, pending[e], size)
  <2>1. PICK size \in Buffers : Deliver(e, pending[e], size) BY <1>5
  <2>2. size \in Nat /\ got[e] \in Seq(Nat) /\ pending[e] \in Seq(Nat) /\ unframed[w] \in Nat
    BY <1>2, DuplexAssumption DEF Types
  <2>3. adapter # "hysteria2" BY <1>5 DEF Reading
  <2>4. got'[e] = got[e] \o First(pending[e], size) /\ pending'[e] = Beyond(pending[e], size)
    BY <2>1, <2>2, <2>3, DeliverFacts
  <2>5. InPlace(got[e], 0, unframed[w]) /\ InPlace(pending[e], Len(got[e]), unframed[w])
    BY <2>3 DEF Reading
  <2>6. /\ InPlace(got'[e], 0, unframed[w]) /\ InPlace(pending'[e], Len(got'[e]), unframed[w])
        /\ Len(got'[e]) + Len(pending'[e]) = Len(got[e]) + Len(pending[e])
    <3> DEFINE g == got[e]
               s == pending[e]
               h == got'[e]
               t == pending'[e]
               u == unframed[w]
    <3>1. g \in Seq(Nat) /\ s \in Seq(Nat) /\ size \in Nat /\ u \in Nat
          /\ InPlace(g, 0, u) /\ InPlace(s, Len(g), u)
          /\ h = g \o First(s, size) /\ t = Beyond(s, size)
      BY <2>2, <2>4, <2>5
    <3> HIDE DEF g, s, h, t, u
    <3>2. InPlace(h, 0, u) /\ InPlace(t, Len(h), u) /\ Len(h) + Len(t) = Len(g) + Len(s)
      BY ONLY <3>1, DeliveredInOrder
    <3> QED BY <3>2 DEF g, s, h, t, u
  <2>7. Reading(e)' BY <1>1, <1>3, <1>5, <2>3, <2>6 DEF Reading
  <2>8. Flow(w)' BY <1>1, <1>2, <1>3, <1>5, <2>3, <2>6, FlowKept
  <2> QED BY <2>7, <2>8
<1> QED BY <1>4, <1>5 DEF ReadBegin, Types

LEMMA ReadFailsOrder ==
    ASSUME Types, NEW e \in Ends, NEW w, w = Peer(e), Reading(e), Flow(w), ReadFails(e)
    PROVE  Reading(e)' /\ Flow(w)'
<1>1. /\ adapter' = adapter /\ got' = got /\ pending' = pending /\ unframed' = unframed
      /\ rd'[e] = "done"
  BY DEF ReadFails, config, writing, Types
<1>2. Peer(w) = e BY Peers
<1>3. Reading(e)' BY <1>1, ReadingKept
<1>4. Flow(w)' BY <1>1, <1>2 DEF Flow
<1> QED BY <1>3, <1>4

LEMMA ReadHeadOrder ==
    ASSUME Types, Types', NEW e \in Ends, NEW w, w = Peer(e), Reading(e), Writing(w), Flow(w),
           ReadHead(e)
    PROVE  Reading(e)' /\ Flow(w)'
<1>1. /\ adapter' = adapter /\ open' = open /\ UNCHANGED writing /\ du' = du
      /\ got' = got /\ pending' = pending /\ rd[e] = "head" /\ open[e] /\ unframed' = unframed
      /\ rd'[e] = IF Empty(Head(pipe[w]).frame) THEN "head" ELSE "body"
  BY DEF ReadHead, config, dummy, writing, Inbound, Types
<1>2. w \in Ends /\ Peer(w) = e BY Peers
<1>3. /\ pipe[w] # <<>> /\ pipe'[w] = Tail(pipe[w]) /\ Head(pipe[w]) = pipe[w][1]
      /\ pipe[w][1] \in PieceType
  BY TakeFacts DEF ReadHead, Inbound
<1>4. Reading(e)' BY <1>1, ReadingKept
<1>5. CASE Lost(w)
  <2>1. Lost(w)' BY <1>1, <1>2, <1>5, LostKept
  <2> QED BY <1>4, <2>1 DEF Flow
<1>6. CASE ~Lost(w)
  <2>1. PICK n \in Nat \ {0}, pos \in Places, at \in Moves, b \in Nat :
              /\ Chain(adapter, Tail(pipe[w]), n, pos, at)
              /\ Level(w, b)
              /\ Link(adapter, pipe[w][1], b, IF rd[Peer(w)] = "body" THEN "body" ELSE "head",
                      pos[1], at[1])
              /\ Ending(w, Tail(pipe[w]), n, pos, at)
    BY <1>1, <1>2, <1>3, <1>6, FlowTakes
  <2>2. Link(adapter, pipe[w][1], b, "head", pos[1], at[1]) BY <1>1, <1>2, <2>1
  <2>3. pos[1] = b /\ at[1] = IF Hollow(adapter, pipe[w][1].frame) THEN "head" ELSE "body"
    BY <2>2 DEF Link, Carried, After
  <2>4. at[1] = rd'[e] BY <1>1, <1>3, <2>3 DEF Hollow, Empty
  <2>5. Level(w, pos[1])' BY <1>1, <1>2, <2>1, <2>3, LevelKept
  <2>6. at[1] = IF rd'[Peer(w)] = "body" THEN "body" ELSE "head" BY <1>1, <1>2, <2>4
  <2>7. Flow(w)' BY <1>1, <1>2, <1>3, <2>1, <2>5, <2>6, FlowResumes
  <2> QED BY <1>4, <2>7
<1> QED BY <1>5, <1>6

(* The bytes of a body follow those that the reader has got.               *)
LEMMA ReadBodyGets ==
    ASSUME Types, Types', NEW e \in Ends, NEW w \in Ends, w = Peer(e), Reading(e), Writing(w),
           rd[e] = "body", NEW bytes \in Seq(Nat), NEW size \in Buffers, Deliver(e, bytes, size),
           adapter' = adapter, unframed' = unframed, rd'[e] = "idle",
           \/ Lost(w)
           \/ \E b \in Nat, m \in Nat :
                 /\ Level(w, b)
                 /\ IF adapter = "hysteria2" THEN Padded(bytes, b, m) ELSE Run(bytes, b)
    PROVE  /\ Reading(e)'
           /\ Lost(w) => Lost(w)'
           /\ \A b, m \in Nat : Level(w, b) /\ (IF adapter = "hysteria2" THEN Padded(bytes, b, m)
                                                ELSE Run(bytes, b) /\ m = Len(bytes))
                 => Level(w, b + m)'
<1>1. /\ size \in Nat /\ got[e] \in Seq(Nat) /\ unframed[w] \in Nat /\ Peer(w) = e
      /\ pending[e] = <<>> /\ Len(pending[e]) = 0 /\ Len(got[e]) \in Nat /\ Len(bytes) \in Nat
  <2>1. Peer(w) = e BY Peers
  <2>2. size \in Nat BY DuplexAssumption
  <2>3. got[e] \in Seq(Nat) /\ unframed[w] \in Nat BY DEF Types
  <2>4. pending[e] = <<>> BY DEF Reading
  <2>5. Len(pending[e]) = 0 /\ Len(got[e]) \in Nat /\ Len(bytes) \in Nat
    BY ONLY <2>3, <2>4, bytes \in Seq(Nat)
  <2> QED BY ONLY <2>1, <2>2, <2>3, <2>4, <2>5
<1>2. /\ got'[e] = got[e] \o First(bytes, size)
      /\ pending'[e] = IF adapter = "hysteria2" THEN <<>> ELSE Beyond(bytes, size)
  BY DeliverFacts
<1>3. CASE adapter = "hysteria2"
  <2>1. ~Lost(w) BY <1>1, <1>3 DEF Lost, Writing
  <2>2. ASSUME NEW b \in Nat, NEW m \in Nat, Level(w, b), Padded(bytes, b, m)
        PROVE  Rising(got'[e]) /\ Below(got'[e], b + m)
    <3>1. Rising(got[e]) /\ Below(got[e], b) BY <1>1, <1>3, <2>2 DEF Reading, Level
    <3>2. got[e] \in Seq(Nat) /\ size \in Nat /\ got'[e] = got[e] \o First(bytes, size) BY <1>1, <1>2
    <3> QED BY ONLY <2>2, <3>1, <3>2, bytes \in Seq(Nat), b \in Nat, m \in Nat, DeliveredRising
  <2>3. Rising(got'[e]) BY <1>3, <2>1, <2>2
  <2>4. Reading(e)' BY <1>2, <1>3, <2>3 DEF Reading
  <2>5. \A b, m \in Nat : Level(w, b) /\ Padded(bytes, b, m) => Level(w, b + m)'
    BY <1>1, <1>3, <2>2 DEF Level
  <2> QED BY <1>3, <2>1, <2>4, <2>5
<1>4. CASE adapter # "hysteria2"
  <2>1. InPlace(bytes, Len(got[e]), unframed[w])
    <3>1. CASE Lost(w)
      <4>1. unframed[w] > 0 /\ Len(got[e]) + Len(pending[e]) >= unframed[w] - 1
        BY <1>1, <3>1 DEF Lost
      <4>2. Len(got[e]) >= unframed[w] - 1 BY ONLY <1>1, <4>1
      <4>3. Len(got[e]) \in Nat /\ unframed[w] \in Nat /\ unframed[w] > 0 BY <1>1, <4>1
      <4>4. \A k \in 1..Len(bytes) : 0 < unframed[w] /\ unframed[w] <= Len(got[e]) + k
        BY ONLY <4>2, <4>3
      <4> QED BY <4>4 DEF InPlace
    <3>2. CASE \E b \in Nat : Level(w, b) /\ Run(bytes, b)
      <4>1. PICK b \in Nat : Level(w, b) /\ Run(bytes, b) BY <3>2
      <4>2. b = Len(got[e]) + Len(pending[e]) BY <1>1, <1>4, <4>1 DEF Level
      <4>3. b = Len(got[e]) BY ONLY <1>1, <4>2
      <4> QED BY <4>1, <4>3 DEF Run, InPlace
    <3> QED BY <1>4, <3>1, <3>2
  <2>2. InPlace(got[e], 0, unframed[w]) BY <1>4 DEF Reading
  <2>3. /\ InPlace(got'[e], 0, unframed[w]) /\ InPlace(pending'[e], Len(got'[e]), unframed[w])
        /\ Len(got'[e]) + Len(pending'[e]) = Len(got[e]) + Len(bytes)
    <3>1. got'[e] = got[e] \o First(bytes, size) /\ pending'[e] = Beyond(bytes, size)
      BY <1>2, <1>4
    <3>2. got[e] \in Seq(Nat) /\ size \in Nat /\ unframed[w] \in Nat BY <1>1
    <3> DEFINE g == got[e]
               h == got'[e]
               t == pending'[e]
               u == unframed[w]
    <3>3. g \in Seq(Nat) /\ bytes \in Seq(Nat) /\ size \in Nat /\ u \in Nat
          /\ InPlace(g, 0, u) /\ InPlace(bytes, Len(g), u)
          /\ h = g \o First(bytes, size) /\ t = Beyond(bytes, size)
      BY <2>1, <2>2, <3>1, <3>2
    <3> HIDE DEF g, h, t, u
    <3>4. InPlace(h, 0, u) /\ InPlace(t, Len(h), u) /\ Len(h) + Len(t) = Len(g) + Len(bytes)
      BY ONLY <3>3, DeliveredInOrder
    <3> QED BY <3>4 DEF g, h, t, u
  <2>4. Reading(e)' BY <1>4, <2>3 DEF Reading
  <2>5. Lost(w) => Lost(w)'
    <3>1. Len(got'[e]) + Len(pending'[e]) >= Len(got[e]) + Len(pending[e])
      <4>1. Len(got[e]) + Len(bytes) >= Len(got[e]) + Len(pending[e]) BY ONLY <1>1
      <4> QED BY <2>3, <4>1, Zenon
    <3> QED BY <1>1, <3>1, LostFor
  <2>6. ASSUME NEW b \in Nat, Level(w, b) PROVE Level(w, b + Len(bytes))'
    <3>1. b = Len(got[e]) + Len(pending[e]) BY <1>1, <1>4, <2>6 DEF Level
    <3>2. b = Len(got[e]) BY ONLY <1>1, <3>1
    <3>3. b + Len(bytes) = Len(got'[e]) + Len(pending'[e]) BY <2>3, <3>2, Zenon
    <3> QED BY <1>1, <1>4, <3>3 DEF Level
  <2> QED BY <1>4, <2>4, <2>5, <2>6
<1> QED BY <1>3, <1>4

LEMMA ReadBodyOrder ==
    ASSUME Types, Types', NEW e \in Ends, NEW w \in Ends, w = Peer(e), Reading(e), Writing(w), Flow(w),
           ReadBody(e)
    PROVE  Reading(e)' /\ Flow(w)'
<1> DEFINE piece == pipe[w][1]
           bytes == IF piece.part = "body" THEN Payload(piece.frame) ELSE << 0 >>
<1>1. /\ adapter' = adapter /\ open' = open /\ UNCHANGED writing /\ du' = du
      /\ rd[e] = "body" /\ open[e] /\ unframed' = unframed /\ Peer(w) = e
  BY Peers DEF ReadBody, config, dummy, writing
<1>2. /\ pipe[w] # <<>> /\ pipe'[w] = Tail(pipe[w]) /\ Head(pipe[w]) = piece
      /\ piece \in PieceType
  BY TakeFacts DEF ReadBody, Inbound
<1>3. piece.frame \in FrameType /\ piece.frame.bytes \in Seq(Nat) BY <1>2 DEF PieceType, FrameType
<1>4. bytes \in Seq(Nat)
  <2>1. Payload(piece.frame) \in Seq(Nat) BY <1>3, PayloadFacts
  <2> QED BY <2>1
<1>5. /\ rd'[e] \in {"head", "idle"}
      /\ \/ bytes = <<>> /\ UNCHANGED <<pending, got>>
         \/ (\E size \in Buffers : Deliver(e, bytes, size)) /\ rd'[e] = "idle"
  BY <1>2 DEF ReadBody, Inbound, Types
<1>6. ASSUME ~Lost(w)
      PROVE  \E n \in Nat \ {0}, pos \in Places, at \in Moves, b \in Nat :
                /\ Chain(adapter, Tail(pipe[w]), n, pos, at) /\ Level(w, b)
                /\ Ending(w, Tail(pipe[w]), n, pos, at)
                /\ piece.part = "body" /\ at[1] = "head" /\ pos[1] = b + Len(piece.frame.bytes)
                /\ Run(piece.frame.bytes, b)
  <2>1. PICK n \in Nat \ {0}, pos \in Places, at \in Moves, b \in Nat :
              /\ Chain(adapter, Tail(pipe[w]), n, pos, at)
              /\ Level(w, b)
              /\ Link(adapter, pipe[w][1], b, IF rd[Peer(w)] = "body" THEN "body" ELSE "head",
                      pos[1], at[1])
              /\ Ending(w, Tail(pipe[w]), n, pos, at)
    BY <1>1, <1>2, <1>6, FlowTakes
  <2>2. Link(adapter, piece, b, "body", pos[1], at[1]) BY <1>1, <2>1
  <2>3. piece.part = "body" /\ at[1] = "head" /\ pos[1] = b + Len(piece.frame.bytes)
        /\ Run(piece.frame.bytes, b)
    BY <2>2 DEF Link, Carried, After
  <2> QED BY <2>1, <2>3, Zenon
(* What the body gives is a run of bytes, in hysteria2 with padding. *)
<1>7. ASSUME NEW b \in Nat, piece.part = "body", Run(piece.frame.bytes, b)
      PROVE  IF adapter = "hysteria2" THEN Padded(bytes, b, Len(piece.frame.bytes))
             ELSE Run(bytes, b) /\ Len(piece.frame.bytes) = Len(bytes)
  <2> DEFINE f == piece.frame
             c == piece.frame.bytes
  <2>1. bytes = Payload(f) BY <1>7
  <2>2. /\ Len(c) \in Nat
        /\ \A k \in 1..Len(c) : bytes[k] = c[k]
        /\ \A k \in 1..Len(bytes) : k > Len(c) => bytes[k] = 0
        /\ adapter # "hysteria2" => bytes = c
    <3>1. /\ \A k \in 1..Len(c) : Payload(f)[k] = c[k]
          /\ \A k \in 1..Len(Payload(f)) : k > Len(c) => Payload(f)[k] = 0
          /\ adapter # "hysteria2" => Payload(f) = c
      BY <1>3, PayloadFacts
    <3>2. Len(c) \in Nat BY <1>3
    <3> HIDE DEF f, c, bytes
    <3> QED BY ONLY <2>1, <3>1, <3>2
  <2>3. Run(c, b) BY <1>7
  <2> HIDE DEF f, c, bytes
  <2>4. ASSUME NEW k \in 1..Len(bytes) PROVE bytes[k] = 0 \/ (k <= Len(c) /\ bytes[k] = b + k)
    <3>1. CASE k > Len(c) BY <2>2, <3>1
    <3>2. CASE ~(k > Len(c))
      <4>1. k \in 1..Len(c) /\ k <= Len(c) BY ONLY <2>2, <3>2, k \in 1..Len(bytes)
      <4> QED BY <2>2, <2>3, <4>1 DEF Run
    <3> QED BY <3>1, <3>2
  <2>5. Padded(bytes, b, Len(c)) BY <2>4 DEF Padded
  <2> QED BY <2>2, <2>3, <2>5 DEF c
<1> HIDE DEF bytes
<1>8. CASE bytes = <<>> /\ UNCHANGED <<pending, got>>
  <2>1. Reading(e)' BY <1>1, <1>5, <1>8, ReadingKept
  <2>2. CASE Lost(w)
    <3>1. Lost(w)' BY <1>1, <1>8, <2>2, LostKept
    <3> QED BY <2>1, <3>1 DEF Flow
  <2>3. CASE ~Lost(w)
    <3>1. PICK n \in Nat \ {0}, pos \in Places, at \in Moves, b \in Nat :
                /\ Chain(adapter, Tail(pipe[w]), n, pos, at) /\ Level(w, b)
                /\ Ending(w, Tail(pipe[w]), n, pos, at)
                /\ piece.part = "body" /\ at[1] = "head" /\ pos[1] = b + Len(piece.frame.bytes)
                /\ Run(piece.frame.bytes, b)
      BY <1>6, <2>3
    <3>2. Len(piece.frame.bytes) = 0
      <4>1. Len(bytes) >= Len(piece.frame.bytes) BY <1>3, <3>1, PayloadFacts DEF bytes
      <4>2. Len(bytes) = 0 /\ Len(piece.frame.bytes) \in Nat BY <1>3, <1>8
      <4> QED BY ONLY <4>1, <4>2
    <3>3. pos[1] = b BY <3>1, <3>2
    <3>4. Level(w, pos[1])' BY <1>1, <1>8, <3>1, <3>3, LevelKept
    <3>5. Flow(w)' BY <1>1, <1>2, <1>5, <3>1, <3>4, FlowResumes
    <3> QED BY <2>1, <3>5
  <2> QED BY <2>2, <2>3
<1>9. CASE (\E size \in Buffers : Deliver(e, bytes, size)) /\ rd'[e] = "idle"
  <2>1. PICK size \in Buffers : Deliver(e, bytes, size) BY <1>9
  <2>2. CASE Lost(w)
    <3>1. Reading(e)' /\ Lost(w)' BY <1>1, <1>4, <1>9, <2>1, <2>2, ReadBodyGets
    <3> QED BY <3>1 DEF Flow
  <2>3. CASE ~Lost(w)
    <3>1. PICK n \in Nat \ {0}, pos \in Places, at \in Moves, b \in Nat :
                /\ Chain(adapter, Tail(pipe[w]), n, pos, at) /\ Level(w, b)
                /\ Ending(w, Tail(pipe[w]), n, pos, at)
                /\ piece.part = "body" /\ at[1] = "head" /\ pos[1] = b + Len(piece.frame.bytes)
                /\ Run(piece.frame.bytes, b)
      BY <1>6, <2>3
    <3>2. PICK m \in Nat : m = Len(piece.frame.bytes) BY <1>3
    <3>3. IF adapter = "hysteria2" THEN Padded(bytes, b, m) ELSE Run(bytes, b) /\ m = Len(bytes)
      BY <1>7, <3>1, <3>2
    <3>4. pos[1] = b + m BY <3>1, <3>2
    <3>5. Level(w, b) BY <3>1
    <3>6. Reading(e)' /\ Level(w, b + m)'
      <4>1. /\ adapter' = adapter /\ unframed' = unframed /\ rd'[e] = "idle" /\ rd[e] = "body"
        BY <1>1, <1>9
      <4>2. \E x \in Nat, y \in Nat :
               Level(w, x) /\ IF adapter = "hysteria2" THEN Padded(bytes, x, y) ELSE Run(bytes, x)
        BY <3>3, <3>5
      <4>3. /\ Reading(e)'
            /\ \A x, y \in Nat :
                  Level(w, x) /\ (IF adapter = "hysteria2" THEN Padded(bytes, x, y)
                                  ELSE Run(bytes, x) /\ y = Len(bytes)) => Level(w, x + y)'
        BY <1>4, <2>1, <4>1, <4>2, ReadBodyGets
      <4> QED BY <3>3, <3>5, <4>3
    <3>7. Level(w, pos[1])' BY <3>4, <3>6
    <3>8. Flow(w)' BY <1>1, <1>2, <1>9, <3>1, <3>7, FlowResumes
    <3> QED BY <3>6, <3>8
  <2> QED BY <2>2, <2>3
<1> QED BY <1>5, <1>8, <1>9

-----------------------------------------------------------------------------
(* The writers' side of the pipe.                                          *)
LEMMA NobodyReads ==
    ASSUME NEW w \in Ends, open' = open, ~open[Peer(w)]
    PROVE  Flow(w)'
BY DEF Flow

(* Only the holder of wmu sends in plain, and nobody else has a dummy.     *)
LEMMA OneSender ==
    ASSUME NEW e \in Ends, Writing(e)
    PROVE  /\ wr[e] \in {"head", "body"} => du[e] \notin {"head", "body"}
           /\ adapter = "padding" => du[e] = "done"
BY DEF Writing

LEMMA WriterFlow ==
    ASSUME Types, Types', NEW e \in Ends, Writing(e), Flow(e), WriteStep(e) \/ WriteCall(e)
    PROVE  Flow(e)'
<1>0. /\ data[e] \in Seq(Nat) /\ Len(data[e]) \in Nat /\ cur[e] \in FrameType
      /\ cur[e].bytes \in Seq(Nat) /\ Len(cur[e].bytes) \in Nat /\ given[e] \in Nat /\ Len(<<>>) = 0
      /\ \A part \in {"head", "body", "none"} : [part |-> part, frame |-> cur[e]] \in PieceType
  BY PieceFacts DEF Types, FrameType
<1>1. /\ adapter' = adapter /\ du' = du /\ open' = open
      /\ rd' = rd /\ got' = got /\ pending' = pending
  BY DEF WriteStep, WriteCall, WriteBegin, WriteUnframed, WriteWmu, WriteHead, WriteBody, WriteFails,
         config, dummy, reading
(* Nothing goes into the pipe. *)
<1>2. ASSUME pipe' = pipe, unframed' = unframed,
             open[e] => (wr[e] = "body" <=> wr'[e] = "body"),
             open[e] /\ wr'[e] # "done" => wr[e] # "done" /\ Sent(e)' = Sent(e)
      PROVE  Flow(e)'
  <2>1. open[e] => (Mid(e)' <=> Mid(e)) BY <1>1, <1>2 DEF Mid
  <2> QED BY <1>1, <1>2, <2>1, FlowKept
<1>3. CASE WriteCall(e)
  <2>1. PICK n \in Writes : /\ data' = [data EXCEPT ![e] = [i \in 1..n |-> given[e] + i]]
                            /\ given' = [given EXCEPT ![e] = @ + n]
    BY <1>3 DEF WriteCall
  <2>2. n \in Nat BY DuplexAssumption
  <2>3. data'[e] = [i \in 1..n |-> given[e] + i] /\ given'[e] = given[e] + n BY <2>1 DEF Types
  <2>4. Len(data'[e]) = n BY <1>0, <2>2, <2>3
  <2>5. /\ cur' = cur /\ unframed' = unframed /\ pipe' = pipe /\ wr[e] = "idle" /\ wr'[e] = "lock"
        /\ cur[e].bytes = <<>> /\ data[e] = <<>>
    BY <1>3 DEF WriteCall, Writing, Types
  <2>6. Sent(e)' = Sent(e)
    <3>1. Sent(e) = given[e] - 0 - 0 BY <1>0, <2>5 DEF Sent
    <3>2. Sent(e)' = (given[e] + n) - n - 0 BY <1>0, <2>3, <2>4, <2>5 DEF Sent
    <3> QED BY <1>0, <2>2, <3>1, <3>2
  <2> QED BY <1>2, <2>5, <2>6
<1>4. CASE WriteUnframed(e)
  <2> DEFINE p == [part |-> "none", frame |-> Frame(data[e], 0)]
  <2>1. /\ wr[e] = "lock" /\ adapter = "padding" /\ cur[e].bytes = <<>> /\ Len(data[e]) > MaxFrame
        /\ Send(e, p)
        /\ unframed'[e] = IF unframed[e] = 0 THEN Head(data[e]) ELSE unframed[e]
    BY <1>4 DEF WriteUnframed, Overlong, Writing, Types
  <2>2. p \in PieceType
    <3>1. Frame(data[e], 0) \in FrameType BY <1>0 DEF Frame, FrameType
    <3> QED BY <3>1, PieceFacts
  <2>3. p.part = "none" OBVIOUS
  <2> HIDE DEF p
  <2>4. open[e] /\ (~open[Peer(e)] \/ pipe'[e] = Append(pipe[e], p)) BY <2>1, <2>2, SendFacts
  <2>5. Sent(e) = given[e] - Len(data[e]) /\ Sent(e) \in Nat
    <3>1. Sent(e) = given[e] - Len(data[e]) - 0 BY <1>0, <2>1 DEF Sent
    <3>2. Sent(e) >= 0 BY DEF Writing
    <3> QED BY <1>0, <3>1, <3>2
  <2>6. Head(data[e]) = Sent(e) + 1
    <3>1. MaxFrame \in Nat BY DuplexAssumption
    <3>2. 1 \in 1..Len(data[e]) BY ONLY <1>0, <2>1, <3>1
    <3>3. data[e][1] = given[e] - Len(data[e]) + 1 BY <3>2 DEF Writing
    <3>4. Head(data[e]) = data[e][1] BY <1>0
    <3> QED BY <2>5, <3>3, <3>4
  <2>7. ~Mid(e) BY <2>1, OneSender DEF Mid
  <2>8. CASE ~open[Peer(e)] BY <1>1, <2>8, NobodyReads
  <2>9. CASE pipe'[e] = Append(pipe[e], p)
    <3>1. unframed'[e] = IF unframed[e] = 0 THEN Sent(e) + 1 ELSE unframed[e] BY <2>1, <2>6
    <3> QED BY <1>1, <2>1, <2>2, <2>3, <2>4, <2>5, <2>7, <2>9, <3>1, FlowUnframed
  <2> QED BY <2>4, <2>8, <2>9
<1>5. CASE WriteBegin(e)
  <2>1. /\ given' = given /\ unframed' = unframed /\ pipe' = pipe /\ wr[e] = "lock"
        /\ cur[e].bytes = <<>>
    BY <1>5 DEF WriteBegin, Writing
  <2>2. CASE wr'[e] = "done" BY <1>2, <2>1, <2>2
  <2>3. CASE /\ \E pad \in Pads(data[e]) : NextFrame(e, pad)
             /\ wr'[e] = IF adapter = "plain" THEN "wmu" ELSE "head"
    <3>1. Sent(e)' = given[e] - Len(data[e]) BY <2>1, <2>3, NextFrameInOrder
    <3>2. Sent(e) = given[e] - Len(data[e]) - 0 BY <1>0, <2>1 DEF Sent
    <3>3. Sent(e)' = Sent(e) BY <1>0, <3>1, <3>2
    <3> QED BY <1>2, <2>1, <2>3, <3>3
  <2> QED BY <1>5, <2>2, <2>3 DEF WriteBegin, Types
<1>6. CASE WriteWmu(e)
  <2>1. /\ Sent(e)' = Sent(e) /\ unframed' = unframed /\ pipe' = pipe
        /\ wr[e] = "wmu" /\ wr'[e] = "head"
    BY <1>6 DEF WriteWmu, Types, Sent
  <2> QED BY <1>2, <2>1
(* A Write that returns has sent all it was given, or its caller is done. *)
<1>7. ASSUME WriteReturn(e), given' = given
      PROVE  /\ wr'[e] \in {"idle", "done"}
             /\ wr'[e] # "done" => Sent(e)' = Sent(e) + Len(cur[e].bytes)
  <2>1. cur'[e].bytes = <<>> /\ data'[e] = <<>> /\ wr'[e] = IF data[e] = <<>> THEN "idle" ELSE "done"
    BY <1>7, ForgetFacts DEF WriteReturn, Types
  <2>2. Sent(e)' = given[e] - 0 - 0 BY <1>0, <1>7, <2>1 DEF Sent
  <2>3. data[e] = <<>> => Sent(e) = given[e] - 0 - Len(cur[e].bytes) BY <1>0 DEF Sent
  <2> QED BY <1>0, <2>1, <2>2, <2>3
(* A piece of the frame in cur is sent. *)
<1>8. ASSUME NEW part \in {"head", "body"}, Send(e, [part |-> part, frame |-> cur[e]]),
             wr[e] = part, unframed' = unframed,
             wr'[e] = "body" <=> part = "head" /\ ~Empty(cur[e]),
             wr'[e] # "done" => Sent(e)' = Sent(e) + (IF part = "head" THEN 0 ELSE Len(cur[e].bytes))
      PROVE  Flow(e)'
  <2> DEFINE p == [part |-> part, frame |-> cur[e]]
  <2>1. p \in PieceType /\ p.part = part /\ p.frame = cur[e] BY <1>0
  <2>2. Send(e, p) BY <1>8
  <2> HIDE DEF p
  <2>3. open[e] /\ (~open[Peer(e)] \/ pipe'[e] = Append(pipe[e], p)) BY <2>1, <2>2, SendFacts
  <2>4. CASE ~open[Peer(e)] BY <1>1, <2>4, NobodyReads
  <2>5. CASE pipe'[e] = Append(pipe[e], p)
    <3>1. du[e] \notin {"head", "body"} BY <1>8, OneSender
    <3>2. p.part = IF Mid(e) THEN "body" ELSE "head" BY <1>8, <2>1, <3>1 DEF Mid
    <3>3. wr[e] # "done" /\ Run(p.frame.bytes, Sent(e)) BY <1>8, <2>1 DEF Writing, Run
    <3>4. Mid(e)' <=> After(adapter, p) = "body"
      BY <1>1, <1>8, <2>1, <3>1 DEF Mid, After, Hollow, Empty
    <3>5. wr'[e] # "done" => Sent(e)' = Sent(e) + Carried(p) BY <1>8, <2>1 DEF Carried
    <3> QED BY <1>1, <1>8, <2>1, <2>3, <2>5, <3>2, <3>3, <3>4, <3>5, FlowAppends
  <2> QED BY <2>3, <2>4, <2>5
<1>9. CASE WriteHead(e)
  <2>1. /\ given' = given /\ unframed' = unframed /\ wr[e] = "head"
        /\ Send(e, [part |-> "head", frame |-> cur[e]])
    BY <1>9 DEF WriteHead
  <2>2. Sent(e) \in Int BY <1>0 DEF Sent
  <2>3. CASE Empty(cur[e]) /\ WriteReturn(e)
    <3>1. Len(cur[e].bytes) = 0 BY <1>0, <2>3 DEF Empty
    <3>2. wr'[e] \in {"idle", "done"} /\ (wr'[e] # "done" => Sent(e)' = Sent(e) + 0)
      BY <1>7, <2>1, <2>3, <3>1
    <3> QED BY <1>8, <2>1, <2>3, <3>2
  <2>4. CASE ~Empty(cur[e]) /\ wr' = [wr EXCEPT ![e] = "body"] /\ UNCHANGED <<lock, cur, data>>
    <3>1. wr'[e] = "body" /\ Sent(e)' = Sent(e) BY <2>1, <2>4 DEF Sent, Types
    <3>2. Sent(e)' = Sent(e) + 0 BY <2>2, <3>1
    <3> QED BY <1>8, <2>1, <2>4, <3>1, <3>2
  <2> QED BY <1>9, <2>3, <2>4 DEF WriteHead
<1>10. CASE WriteBody(e)
  <2>1. /\ given' = given /\ unframed' = unframed /\ wr[e] = "body"
        /\ Send(e, [part |-> "body", frame |-> cur[e]])
    BY <1>10 DEF WriteBody
  <2>2. CASE WriteReturn(e)
    <3>1. wr'[e] \in {"idle", "done"} /\ (wr'[e] # "done" => Sent(e)' = Sent(e) + Len(cur[e].bytes))
      BY <1>7, <2>1, <2>2
    <3> QED BY <1>8, <2>1, <3>1
  <2>3. CASE /\ \E pad \in Pads(data[e]) : NextFrame(e, pad)
             /\ wr' = [wr EXCEPT ![e] = "head"]
    <3>1. wr'[e] = "head" BY <2>3 DEF Types
    <3>2. Sent(e)' = given[e] - Len(data[e]) BY <2>1, <2>3, NextFrameInOrder
    <3>3. Sent(e) = given[e] - Len(data[e]) - Len(cur[e].bytes) BY DEF Sent
    <3>4. Sent(e)' = Sent(e) + Len(cur[e].bytes) BY <1>0, <3>2, <3>3
    <3> QED BY <1>8, <2>1, <3>1, <3>4
  <2> QED BY <1>10, <2>2, <2>3 DEF WriteBody
<1>11. CASE WriteFails(e)
  <2>1. pipe' = pipe /\ unframed' = unframed /\ wr'[e] = "done" /\ (~open[e] \/ ~open[Peer(e)])
    BY <1>11 DEF WriteFails, SendFails, Types
  <2>2. CASE ~open[e] BY <1>2, <2>1, <2>2
  <2>3. CASE ~open[Peer(e)] BY <1>1, <2>3, NobodyReads
  <2> QED BY <2>1, <2>2, <2>3
<1> QED BY <1>3, <1>4, <1>5, <1>6, <1>9, <1>10, <1>11 DEF WriteStep

LEMMA DummyFlow ==
    ASSUME Types, NEW e \in Ends, Writing(e), Flow(e), DummyStep(e)
    PROVE  Flow(e)'
<1>1. /\ adapter' = adapter /\ open' = open /\ UNCHANGED writing
      /\ rd' = rd /\ got' = got /\ pending' = pending
  BY DEF DummyStep, DummyWakes, DummyCheck, DummyWmu, DummySend, DummyFails, config, reading
<1>2. Sent(e)' = Sent(e) /\ wr' = wr /\ unframed' = unframed BY <1>1 DEF Sent, writing
<1>3. adapter = "plain"
  BY DEF DummyStep, DummyWakes, DummyCheck, DummyWmu, DummySend, DummyFails, Writing
<1>4. CASE DummyWakes(e) \/ DummyCheck(e) \/ DummyWmu(e)
  <2>1. pipe' = pipe /\ (Mid(e)' <=> Mid(e))
    BY <1>2, <1>4 DEF DummyWakes, DummyCheck, DummyWmu, Mid, Types
  <2> QED BY <1>1, <1>2, <2>1, FlowKept
<1>5. ASSUME NEW part \in {"head", "body"}, Send(e, [part |-> part, frame |-> DummyFrame]),
             du[e] = part, du'[e] = IF part = "head" THEN "body" ELSE "sleep"
      PROVE  Flow(e)'
  <2> DEFINE p == [part |-> part, frame |-> DummyFrame]
  <2>1. p \in PieceType /\ p.part = part /\ p.frame = DummyFrame BY DummyType, PieceFacts
  <2>2. Send(e, p) BY <1>5
  <2> HIDE DEF p
  <2>3. open[e] /\ (~open[Peer(e)] \/ pipe'[e] = Append(pipe[e], p)) BY <2>1, <2>2, SendFacts
  <2>4. CASE ~open[Peer(e)] BY <1>1, <2>4, NobodyReads
  <2>5. CASE pipe'[e] = Append(pipe[e], p)
    <3>1. wr[e] \notin {"head", "body"} BY <1>5, OneSender
    <3>2. p.part = IF Mid(e) THEN "body" ELSE "head" BY <1>5, <2>1, <3>1 DEF Mid
    <3>3. p.frame.bytes = <<>> BY <2>1, DummyType
    <3>4. Mid(e)' <=> After(adapter, p) = "body"
      BY <1>2, <1>5, <2>1, <3>1, DummyType DEF Mid, After, Hollow
    <3>5. Carried(p) = 0 BY <3>3 DEF Carried
    <3>6. Sent(e)' = Sent(e) + Carried(p)
      <4>1. Sent(e) \in Int BY DEF Sent, Types, FrameType
      <4> QED BY <1>2, <3>5, <4>1
    <3> QED BY <1>1, <1>2, <2>1, <2>3, <2>5, <3>2, <3>3, <3>4, <3>6, FlowAppends
  <2> QED BY <2>3, <2>4, <2>5
<1>6. CASE DummySend(e) BY <1>5, <1>6 DEF DummySend, Types
<1>7. CASE DummyFails(e)
  <2>1. pipe' = pipe /\ (~open[e] \/ ~open[Peer(e)]) BY <1>7 DEF DummyFails, SendFails
  <2>2. CASE ~open[e] BY <1>1, <1>2, <2>1, <2>2, FlowKept
  <2>3. CASE ~open[Peer(e)] BY <1>1, <2>3, NobodyReads
  <2> QED BY <2>1, <2>2, <2>3
<1> QED BY <1>4, <1>6, <1>7 DEF DummyStep

-----------------------------------------------------------------------------
(* What an end does leaves the other one's part alone.                     *)
Same(x) ==
    /\ wr'[x] = wr[x] /\ du'[x] = du[x] /\ data'[x] = data[x] /\ cur'[x] = cur[x]
    /\ given'[x] = given[x] /\ unframed'[x] = unframed[x] /\ lock'[x]["wmu"] = lock[x]["wmu"]

SameReader(x) == rd'[x] = rd[x] /\ got'[x] = got[x] /\ pending'[x] = pending[x]

LEMMA BothEnds ==
    ASSUME NEW e \in Ends, NEW w, w = Peer(e), Types', Writing(e)', Writing(w)', Reading(e)',
           Reading(w)', Flow(e)', Flow(w)'
    PROVE  OrderInv'
<1>1. \A x \in Ends : x = e \/ x = w BY Peers
<1> QED BY <1>1 DEF OrderInv

LEMMA SameWriting ==
    ASSUME NEW x \in Ends, Writing(x), adapter' = adapter, Same(x)
    PROVE  Writing(x)'
BY WritingKept DEF Same

LEMMA SameReading ==
    ASSUME NEW x \in Ends, Reading(x), adapter' = adapter, SameReader(x),
           unframed'[Peer(x)] = unframed[Peer(x)] \/ unframed[Peer(x)] = 0
    PROVE  Reading(x)'
BY ReadingKept DEF SameReader

LEMMA SameFlow ==
    ASSUME NEW x \in Ends, Flow(x), adapter' = adapter, Same(x), SameReader(Peer(x)),
           pipe'[x] = pipe[x], open'[Peer(x)] => open[Peer(x)], open'[x] => open[x]
    PROVE  Flow(x)'
<1>1. Sent(x)' = Sent(x) /\ (Mid(x)' <=> Mid(x)) BY DEF Same, Sent, Mid
<1> QED BY <1>1, FlowKept DEF Same, SameReader

LEMMA ReaderKeeps ==
    ASSUME OrderInv, NEW e \in Ends, Reader(e)
    PROVE  OrderInv'
<1> DEFINE w == Peer(e)
<1>0. Types /\ Types' BY ReaderTypes DEF OrderInv
<1>1. w \in Ends /\ w # e /\ Peer(w) = e BY Peers
<1>2. /\ Writing(e) /\ Reading(e) /\ Flow(e) /\ Writing(w) /\ Reading(w) /\ Flow(w)
  BY <1>1 DEF OrderInv
<1>3. adapter' = adapter /\ open' = open /\ UNCHANGED writing /\ du' = du
  BY DEF Reader, ReadBegin, ReadHead, ReadBody, ReadFails, config, dummy
<1>4. \A x \in Ends : lock'[x]["wmu"] = lock[x]["wmu"]
  <2>1. \/ lock' = lock \/ lock' = [lock EXCEPT ![e][ReadLock] = "reader"] \/ Unlock(e, {ReadLock})
    BY DEF Reader, ReadBegin, ReadHead, ReadBody, ReadFails
  <2>2. "wmu" \in Locks /\ ReadLock \in Locks /\ ReadLock # "wmu" BY LockNames DEF Locks
  <2>3. CASE Unlock(e, {ReadLock}) BY <1>0, <2>2, <2>3, UnlockFacts
  <2>4. CASE lock' = [lock EXCEPT ![e][ReadLock] = "reader"] BY <1>0, <2>2, <2>4, LockFacts
  <2> QED BY <2>1, <2>3, <2>4
<1>5. \A x \in Ends : Same(x) BY <1>3, <1>4 DEF Same, writing
<1>6. SameReader(w) /\ pipe'[e] = pipe[e]
  BY <1>0, <1>1 DEF Reader, ReadBegin, ReadHead, ReadBody, ReadFails, Deliver, Take, SameReader, Types
<1>7. Writing(e)' /\ Writing(w)' BY <1>1, <1>2, <1>3, <1>5, SameWriting
<1>8. Reading(w)' BY <1>1, <1>2, <1>3, <1>5, <1>6, SameReading DEF Same
<1>9. Flow(e)' BY <1>1, <1>2, <1>3, <1>5, <1>6, SameFlow
<1>10. Reading(e)' /\ Flow(w)'
  <2> HIDE DEF w
  <2>1. w = Peer(e) BY DEF w
  <2> QED BY <1>0, <1>1, <1>2, <2>1, ReadBeginOrder, ReadHeadOrder, ReadBodyOrder, ReadFailsOrder
      DEF Reader
<1> QED BY <1>0, <1>7, <1>8, <1>9, <1>10, BothEnds

LEMMA WriterKeeps ==
    ASSUME OrderInv, NEW e \in Ends, WriteStep(e) \/ WriteCall(e)
    PROVE  OrderInv'
<1> DEFINE w == Peer(e)
<1>0. Types /\ Types' BY WriterTypes DEF OrderInv
<1>1. w \in Ends /\ w # e /\ Peer(w) = e BY Peers
<1>2. /\ Writing(e) /\ Reading(e) /\ Flow(e) /\ Writing(w) /\ Reading(w) /\ Flow(w)
  BY <1>1 DEF OrderInv
<1>3. adapter' = adapter /\ open' = open /\ UNCHANGED reading /\ du' = du
  BY DEF WriteStep, WriteCall, WriteBegin, WriteUnframed, WriteWmu, WriteHead, WriteBody, WriteFails,
         config, dummy
<1>4. Same(w) /\ pipe'[w] = pipe[w]
  <2>1. wr'[w] = wr[w] /\ given'[w] = given[w] /\ unframed'[w] = unframed[w]
    <3>1. \/ given' = given /\ unframed' = unframed
          \/ unframed' = unframed /\ \E n : given' = [given EXCEPT ![e] = n]
          \/ given' = given /\ \E n : unframed' = [unframed EXCEPT ![e] = n]
      BY DEF WriteStep, WriteCall, WriteBegin, WriteUnframed, WriteWmu, WriteHead, WriteBody,
         WriteFails
    <3>2. \E place : wr' = [wr EXCEPT ![e] = place]
      BY DEF WriteStep, WriteCall, WriteBegin, WriteUnframed, WriteWmu, WriteHead, WriteBody,
         WriteFails, WriteReturn
    <3> QED BY <1>0, <1>1, <3>1, <3>2 DEF Types
  <2>2. data'[w] = data[w] /\ cur'[w] = cur[w]
    <3>1. \/ Forget(e)
          \/ \E pad \in Pads(data[e]) : NextFrame(e, pad)
          \/ cur' = cur /\ (data' = data \/ \E d : data' = [data EXCEPT ![e] = d])
      BY DEF WriteStep, WriteCall, WriteBegin, WriteUnframed, WriteWmu, WriteHead, WriteBody,
         WriteFails, WriteReturn
    <3>2. CASE Forget(e) BY <1>0, <3>2, ForgetFacts
    <3>3. CASE \E pad \in Pads(data[e]) : NextFrame(e, pad) BY <1>0, <3>3, NextFrameFacts
    <3>4. CASE cur' = cur /\ (data' = data \/ \E d : data' = [data EXCEPT ![e] = d])
      BY <1>0, <1>1, <3>4 DEF Types
    <3> QED BY <3>1, <3>2, <3>3, <3>4
  <2>3. lock'[w]["wmu"] = lock[w]["wmu"]
    <3>1. \/ lock' = lock \/ Unlock(e, Held)
          \/ \E l \in Locks : lock' = [lock EXCEPT ![e][l] = "writer"]
      BY LockNames DEF WriteStep, WriteCall, WriteBegin, WriteUnframed, WriteWmu, WriteHead, WriteBody,
         WriteFails, WriteReturn, Forget, Locks
    <3>2. "wmu" \in Locks BY DEF Locks
    <3>3. CASE Unlock(e, Held) BY <1>0, <1>1, <3>2, <3>3, UnlockFacts
    <3>4. CASE \E l \in Locks : lock' = [lock EXCEPT ![e][l] = "writer"]
      BY <1>0, <1>1, <3>2, <3>4, LockFacts
    <3> QED BY <3>1, <3>3, <3>4
  <2>4. pipe'[w] = pipe[w]
    BY <1>0, <1>1 DEF WriteStep, WriteCall, WriteBegin, WriteUnframed, WriteWmu, WriteHead, WriteBody,
         WriteFails, Send, Types
  <2> QED BY <1>3, <2>1, <2>2, <2>3, <2>4 DEF Same
<1>5. unframed'[e] = unframed[e] \/ unframed[e] = 0
  BY <1>0 DEF WriteStep, WriteCall, WriteBegin, WriteUnframed, WriteWmu, WriteHead, WriteBody,
         WriteFails, Types
<1>6. SameReader(e) /\ SameReader(w) BY <1>3 DEF SameReader, reading
<1>7. Writing(e)' BY <1>0, <1>2, WriterWriting
<1>8. Writing(w)' BY <1>1, <1>2, <1>3, <1>4, SameWriting
<1>9. Reading(e)' BY <1>2, <1>3, <1>4, <1>6, SameReading DEF Same
<1>10. Reading(w)' BY <1>1, <1>2, <1>3, <1>5, <1>6, SameReading
<1>11. Flow(e)' BY <1>0, <1>2, WriterFlow
<1>12. Flow(w)' BY <1>1, <1>2, <1>3, <1>4, <1>6, SameFlow
<1> QED BY <1>0, <1>7, <1>8, <1>9, <1>10, <1>11, <1>12, BothEnds

LEMMA DummyKeeps ==
    ASSUME OrderInv, NEW e \in Ends, DummyStep(e)
    PROVE  OrderInv'
<1> DEFINE w == Peer(e)
<1>0. Types /\ Types' BY OtherTypes DEF OrderInv
<1>1. w \in Ends /\ w # e /\ Peer(w) = e BY Peers
<1>2. /\ Writing(e) /\ Reading(e) /\ Flow(e) /\ Writing(w) /\ Reading(w) /\ Flow(w)
  BY <1>1 DEF OrderInv
<1>3. adapter' = adapter /\ open' = open /\ UNCHANGED reading /\ UNCHANGED writing
  BY DEF DummyStep, DummyWakes, DummyCheck, DummyWmu, DummySend, DummyFails, config
<1>4. Same(w) /\ pipe'[w] = pipe[w]
  <2>1. du'[w] = du[w] /\ pipe'[w] = pipe[w] /\ lock'[w] = lock[w]
    <3>1. \E place : du' = [du EXCEPT ![e] = place]
      BY DEF DummyStep, DummyWakes, DummyCheck, DummyWmu, DummySend, DummyFails
    <3>2. pipe' = pipe \/ \E s : pipe' = [pipe EXCEPT ![e] = s]
      BY DEF DummyStep, DummyWakes, DummyCheck, DummyWmu, DummySend, DummyFails, Send
    <3>3. lock' = lock \/ \E l : lock' = [lock EXCEPT ![e] = l]
      BY DEF DummyStep, DummyWakes, DummyCheck, DummyWmu, DummySend, DummyFails, Unlock
    <3> QED BY <1>0, <1>1, <3>1, <3>2, <3>3 DEF Types
  <2> QED BY <1>3, <2>1 DEF Same, writing
<1>5. SameReader(e) /\ SameReader(w) /\ unframed' = unframed BY <1>3 DEF SameReader, reading, writing
<1>6. Writing(e)' BY <1>0, <1>2, DummyWriting
<1>7. Writing(w)' BY <1>1, <1>2, <1>3, <1>4, SameWriting
<1>8. Reading(e)' /\ Reading(w)' BY <1>1, <1>2, <1>3, <1>5, SameReading
<1>9. Flow(e)' BY <1>0, <1>2, DummyFlow
<1>10. Flow(w)' BY <1>1, <1>2, <1>3, <1>4, <1>5, SameFlow
<1> QED BY <1>0, <1>6, <1>7, <1>8, <1>9, <1>10, BothEnds

LEMMA CloseKeeps ==
    ASSUME OrderInv, NEW e \in Ends, Close(e) \/ CloseCall(e)
    PROVE  OrderInv'
<1>0. Types /\ Types' BY OtherTypes DEF OrderInv
<1>1. /\ adapter' = adapter /\ UNCHANGED <<reading, writing, du, lock, pipe>>
      /\ \A x \in Ends : open'[x] => open[x]
  BY <1>0 DEF Close, CloseCall, config, dummy, Types
<1>2. \A x \in Ends : Same(x) /\ SameReader(x) /\ unframed'[x] = unframed[x] /\ pipe'[x] = pipe[x]
  BY <1>1 DEF Same, SameReader, reading, writing
<1>3. ASSUME NEW x \in Ends PROVE Writing(x)' /\ Reading(x)' /\ Flow(x)'
  <2>1. Writing(x) /\ Reading(x) /\ Flow(x) /\ Peer(x) \in Ends BY Peers DEF OrderInv
  <2> QED BY <1>1, <1>2, <2>1, SameWriting, SameReading, SameFlow
<1> QED BY <1>0, <1>3 DEF OrderInv

LEMMA OrderInit ==
    ASSUME Init
    PROVE  OrderInv
<1>0. <<>> \in Seq(Nat) /\ <<>> \in Seq(PieceType) /\ Len(<<>>) = 0 OBVIOUS
<1>1. Frame(<<>>, 0) \in FrameType /\ Frame(<<>>, 0).bytes = <<>> BY <1>0 DEF Frame, FrameType
<1>2. Types BY <1>0, <1>1, DuplexAssumption DEF Init, Types, WritePlaces, Locks
<1>3. ASSUME NEW e \in Ends PROVE Writing(e) /\ Reading(e) /\ Flow(e)
  <2>0. Peer(e) \in Ends BY Peers
  <2>1. Sent(e) = 0 BY <1>0, <1>1 DEF Init, Sent
  <2>2. Writing(e)
    <3>1. adapter # "plain" => du[e] = "done" BY DEF Init
    <3> QED BY <1>0, <1>1, <2>1, <3>1 DEF Init, Writing
  <2>3. Reading(e) BY <1>0 DEF Init, Reading, InPlace, Rising
  <2>4. Flow(e)
    <3> DEFINE pos == [i \in Nat |-> 0]
               at == [i \in Nat |-> "head"]
    <3>1. pos \in Places /\ at \in Moves /\ pos[1] = 0 /\ at[1] = "head" /\ 1 \in Nat \ {0}
      BY DEF Places, Moves, Parts
    <3> HIDE DEF pos, at
    <3>2. Chain(adapter, pipe[e], 1, pos, at) BY DEF Chain
    <3>3. Begins(e, pos, at) BY <1>0, <2>0, <3>1 DEF Init, Begins, Level, Below
    <3>4. Ending(e, pipe[e], 1, pos, at) BY <1>0, <2>1, <3>1 DEF Init, Ending, Mid
    <3>5. Follows(e, 1, pos, at) BY <3>2, <3>3, <3>4 DEF Follows
    <3> QED BY <3>1, <3>5, Zenon DEF Flow
  <2> QED BY <2>2, <2>3, <2>4
<1> QED BY <1>2, <1>3 DEF OrderInv

LEMMA OrderStep ==
    ASSUME OrderInv, [Next]_vars
    PROVE  OrderInv'
<1>1. CASE Next
  <2>1. PICK e \in Ends : Step(e) \/ WriteCall(e) \/ CloseCall(e) BY <1>1 DEF Next
  <2> QED BY <2>1, ReaderKeeps, WriterKeeps, DummyKeeps, CloseKeeps DEF Step
<1>2. CASE UNCHANGED vars
  <2>1. Types' BY <1>2 DEF vars, OrderInv, Types
  <2>2. /\ adapter' = adapter /\ UNCHANGED <<reading, writing, du, lock, pipe, open>>
    BY <1>2 DEF vars, reading, writing
  <2>3. \A x \in Ends : Same(x) /\ SameReader(x) /\ unframed'[x] = unframed[x] /\ pipe'[x] = pipe[x]
    BY <2>2 DEF Same, SameReader, reading, writing
  <2>4. ASSUME NEW x \in Ends PROVE Writing(x)' /\ Reading(x)' /\ Flow(x)'
    <3>1. Writing(x) /\ Reading(x) /\ Flow(x) /\ Peer(x) \in Ends BY Peers DEF OrderInv
    <3> QED BY <2>2, <2>3, <3>1, SameWriting, SameReading, SameFlow
  <2> QED BY <2>1, <2>4 DEF OrderInv
<1> QED BY <1>1, <1>2

LEMMA OrderGives ==
    ASSUME OrderInv
    PROVE  ReadInOrder
<1> SUFFICES ASSUME NEW e \in Ends
             PROVE  IF adapter = "hysteria2"
                      THEN \A i, j \in DOMAIN got[e] :
                              i < j /\ got[e][i] # 0 /\ got[e][j] # 0 => got[e][i] < got[e][j]
                      ELSE \A i \in DOMAIN got[e] :
                              got[e][i] = i \/ (0 < unframed[Peer(e)] /\ unframed[Peer(e)] <= i)
  BY DEF ReadInOrder
<1>1. Reading(e) BY DEF OrderInv
<1>2. DOMAIN got[e] = 1..Len(got[e]) BY DEF OrderInv, Types
<1>3. CASE adapter = "hysteria2" BY <1>1, <1>2, <1>3 DEF Reading, Rising
<1>4. CASE adapter # "hysteria2"
  <2>1. \A k \in 1..Len(got[e]) :
           got[e][k] = 0 + k \/ (0 < unframed[Peer(e)] /\ unframed[Peer(e)] <= 0 + k)
    BY <1>1, <1>4 DEF Reading, InPlace
  <2>2. \A k \in 1..Len(got[e]) : 0 + k = k OBVIOUS
  <2>3. \A k \in 1..Len(got[e]) :
           got[e][k] = k \/ (0 < unframed[Peer(e)] /\ unframed[Peer(e)] <= k)
    BY <2>1, <2>2
  <2> QED BY <1>2, <1>4, <2>3
<1> QED BY <1>3, <1>4

(* Whatever the adapter, the window, the frames, the writes, the buffers   *)
(* and the dummies, and whenever an end closes, a reader gets its peer's   *)
(* bytes in order: Read and Write of plain, shadowsocks, hysteria2 and     *)
(* PaddingConn.                                                            *)
THEOREM BytesReadInOrder == Spec => []ReadInOrder
<1>1. Init => OrderInv BY OrderInit
<1>2. OrderInv /\ [Next]_vars => OrderInv' BY OrderStep
<1>3. OrderInv => ReadInOrder BY OrderGives
<1> QED BY <1>1, <1>2, <1>3, PTL DEF Spec
=============================================================================
