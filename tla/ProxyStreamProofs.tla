--------------------------- MODULE ProxyStreamProofs ---------------------------
(***************************************************************************)
(* Why "OK" means a tunnel and why the target is fed in order: until the   *)
(* reply the two ends take turns, so at most one message is in flight and  *)
(* no reader that is dropped can hold more than it was asked for.          *)
(* Then, for ends that fit: both wrap the stream alike, so the caller is   *)
(* given what the target sent, and whoever waits is owed a message that is *)
(* on its way.                                                             *)
(***************************************************************************)
EXTENDS ProxyStream, FiniteSetTheorems, TLAPS

Later == {"reply", "tunnel", "closed", "failed"}
ClientPlaces == {"start", "obfs", "shake", "hello", "request"} \cup Later
ServerPlaces == {"peek", "shake", "hello", "read", "dial", "relay", "done"}
Hellos == {"vless", "vmess"}

Shape ==
    /\ setup \in Setups
    /\ DOMAIN cli = {"pc", "layers", "agreed", "deadline", "reply"} /\ cli.pc \in ClientPlaces
    /\ DOMAIN srv = {"pc", "layers", "agreed", "first", "prefixed", "deadline", "dialled",
                     "copyUp", "copyDown", "lost"}
    /\ srv.pc \in ServerPlaces
    /\ srv.first \in BOOLEAN /\ srv.lost \in BOOLEAN /\ srv.dialled \in BOOLEAN
    /\ srv.copyUp \in BOOLEAN /\ srv.copyDown \in BOOLEAN
    /\ wrote \in Nat

Has(wire, S) == \E i \in 1..Len(wire) : wire[i].what \in S

(* Behind its first message the client's wire holds data only, the last    *)
(* that the caller wrote; a request is still followed by all of it.        *)
UpUnits ==
    \A i \in 1..Len(up) :
        /\ i = 1 \/ up[i].what = "data"
        /\ up[i].what = "data" => up[i].n = wrote - (Len(up) - i) /\ up[i].n > 0
        /\ up[i].what # "data" => up[i].n = 0
        /\ up[i].what = "request" => wrote = Len(up) - 1

(* The two ends take turns.                                                *)
Turns ==
    /\ cli.pc \in {"start", "shake", "request"} => up = <<>> /\ down = <<>>
    /\ cli.pc \in {"obfs", "hello"} => Len(up) + Len(down) <= 1
    /\ cli.pc = "reply" => setup.kind # "UDP" /\ (srv.pc \notin {"relay", "done"} => down = <<>>)
    /\ cli.pc \notin {"tunnel", "closed"} => wrote = 0
    /\ cli.pc \in {"tunnel", "closed"} /\ setup.kind # "UDP" => srv.pc \in {"relay", "done"}
    /\ Has(up, {"obfs"}) => cli.pc \in {"obfs", "failed"}
    /\ Has(up, Hellos) => cli.pc \in {"hello", "failed"}
    /\ Has(up, {"request"}) \/ srv.first \/ srv.pc \in {"dial", "relay"} \/ srv.dialled
          => cli.pc \in Later
    /\ srv.pc \in {"peek", "hello", "read"} => ~srv.first

(* An "ok" that the client can still take for the reply is the node's      *)
(* answer to the request.                                                  *)
Oks ==
    /\ cli.pc \in {"reply", "tunnel", "closed"} =>
          \A i \in 1..Len(down) :
              down[i].what = "ok" => srv.dialled /\ down[i].enc = Framing(srv.layers)
    /\ srv.dialled => srv.pc \in {"relay", "done"}
    /\ cli.reply = "ok" => cli.pc \in {"tunnel", "closed"}
    /\ OkMeansTunnel

Foreign == up # <<>> /\ up[1].what = "junk"

(* What is still to be fed follows what was fed.                           *)
Feeding ==
    /\ srv.pc \notin {"relay", "done"} => fed = <<>>
    /\ srv.first /\ srv.pc = "shake" =>
          /\ \A i \in 1..Len(up) : up[i].what = "data"
          /\ IF srv.lost THEN setup.kind = "UDP" ELSE wrote = Len(up)
    /\ srv.pc = "dial" \/ (srv.pc = "relay" /\ srv.copyUp) =>
          /\ \A i \in 1..Len(up) :
                \/ up[i].what = "data"
                \/ i = 1 /\ up[i].what = "junk" /\ Hysteria(srv.layers) /\ fed = <<>>
          /\ \/ setup.kind = "UDP" /\ srv.first /\ srv.lost
             \/ \E i \in 1..Len(fed) : fed[i] # 0
             \/ wrote = Len(up) - (IF Foreign THEN 1 ELSE 0)
          /\ \A i \in 1..Len(fed) :
                fed[i] # 0 /\ (\A k \in (i + 1)..Len(fed) : fed[k] = 0) => fed[i] = wrote - Len(up)
    /\ FedInOrder

(* The wires and what was fed are sequences.                               *)
Wire(w) == \E S : w \in Seq(S)
Wires == Wire(up) /\ Wire(down) /\ Wire(fed)

StreamInv == Shape /\ Wires /\ UpUnits /\ Turns /\ Oks /\ Feeding

-----------------------------------------------------------------------------
(* Sequences.                                                              *)
LEMMA WireFacts ==
    ASSUME NEW w, Wire(w)
    PROVE  Len(w) \in Nat /\ (w = <<>> <=> Len(w) = 0)
BY DEF Wire

LEMMA RestFacts ==
    ASSUME NEW w, Wire(w), NEW k \in 1..Len(w)
    PROVE  /\ Wire(Rest(w, k)) /\ Len(Rest(w, k)) = Len(w) - k
           /\ \A i \in 1..(Len(w) - k) : Rest(w, k)[i] = w[i + k]
<1>1. PICK S : w \in Seq(S) BY DEF Wire
<1>2. Rest(w, k) \in Seq(S) BY <1>1 DEF Rest
<1> QED BY <1>1, <1>2 DEF Wire, Rest

LEMMA TailFacts ==
    ASSUME NEW w, Wire(w), w # <<>>
    PROVE  /\ Wire(Tail(w)) /\ Len(Tail(w)) = Len(w) - 1 /\ Head(w) = w[1] /\ Len(w) \in Nat \ {0}
           /\ \A i \in 1..(Len(w) - 1) : Tail(w)[i] = w[i + 1]
<1>1. PICK S : w \in Seq(S) BY DEF Wire
<1>2. Tail(w) \in Seq(S) BY <1>1
<1> QED BY <1>1, <1>2 DEF Wire

LEMMA AppendFacts ==
    ASSUME NEW w, Wire(w), NEW x
    PROVE  /\ Wire(Append(w, x)) /\ Len(Append(w, x)) = Len(w) + 1
           /\ \A i \in 1..Len(w) : Append(w, x)[i] = w[i]
           /\ Append(w, x)[Len(w) + 1] = x
<1>1. PICK S : w \in Seq(S) BY DEF Wire
<1>2. w \in Seq(S \cup {x})
  <2>1. w \in [1..Len(w) -> S] /\ Len(w) \in Nat BY <1>1
  <2>2. w \in [1..Len(w) -> S \cup {x}] BY <2>1
  <2> QED BY <2>1, <2>2
<1>3. Append(w, x) \in Seq(S \cup {x}) BY <1>2
<1> QED BY <1>2, <1>3 DEF Wire

LEMMA ConsFacts ==
    ASSUME NEW w, Wire(w), NEW x
    PROVE  /\ Wire(<<x>> \o w) /\ Len(<<x>> \o w) = Len(w) + 1
           /\ (<<x>> \o w)[1] = x
           /\ \A i \in 2..(Len(w) + 1) : (<<x>> \o w)[i] = w[i - 1]
<1>1. PICK S : w \in Seq(S) BY DEF Wire
<1>2. w \in Seq(S \cup {x}) /\ <<x>> \in Seq(S \cup {x})
  <2>1. w \in [1..Len(w) -> S] /\ Len(w) \in Nat BY <1>1
  <2>2. w \in [1..Len(w) -> S \cup {x}] BY <2>1
  <2>3. <<x>> \in [1..1 -> S \cup {x}] OBVIOUS
  <2> QED BY <2>1, <2>2, <2>3
<1>3. <<x>> \o w \in Seq(S \cup {x}) BY <1>2
<1> QED BY <1>2, <1>3 DEF Wire

(* One read takes at least one message and at most all.                    *)
LEMMA ChunkFacts ==
    ASSUME NEW w, Wire(w), w # <<>>, NEW layers, NEW k \in Chunks(w, layers)
    PROVE  k \in 1..Len(w)
<1>1. Len(w) \in Nat \ {0} BY WireFacts
<1> QED BY <1>1 DEF Chunks

-----------------------------------------------------------------------------
(* Steps of the client that write nothing.                                 *)
LEMMA ClientMoves ==
    ASSUME StreamInv, UNCHANGED <<setup, srv, up, wrote, fed>>,
           DOMAIN cli' = DOMAIN cli, cli'.pc \in ClientPlaces,
           down' = down \/ \E k \in 1..Len(down) : down' = Rest(down, k),
           \/ cli'.pc = cli.pc
           \/ cli.pc = "start" /\ cli'.pc = "shake"
           \/ cli.pc = "obfs" /\ cli'.pc = "shake" /\ down' # down
           \/ cli.pc = "shake" /\ cli'.pc = "request"
           \/ cli.pc = "hello" /\ cli'.pc = "request" /\ down' # down
           \/ cli.pc \notin {"tunnel", "closed"} /\ cli'.pc = "failed"
           \/ cli.pc = "reply" /\ cli'.pc = "tunnel" /\ srv.pc \in {"relay", "done"}
           \/ cli.pc = "tunnel" /\ cli'.pc = "closed",
           cli'.reply = "ok" => /\ cli'.pc \in {"tunnel", "closed"} /\ srv.dialled
                                /\ Framing(cli'.layers) = Framing(srv.layers)
    PROVE  StreamInv'
<1> USE DEF StreamInv
<1>1. Shape' BY DEF Shape
<1>2. /\ Wire(down') /\ Len(down') <= Len(down) /\ Len(down') \in Nat
      /\ down' = <<>> <=> Len(down') = 0
      /\ down' # down => down # <<>> /\ Len(down') < Len(down)
      /\ \A i \in 1..Len(down') : \E j \in 1..Len(down) : down'[i] = down[j]
  <2>1. Len(down) \in Nat /\ Wire(down) /\ (down = <<>> <=> Len(down) = 0) BY WireFacts DEF Wires
  <2>2. CASE down' = down BY <2>1, <2>2
  <2>3. ASSUME NEW k \in 1..Len(down), down' = Rest(down, k)
        PROVE  /\ Wire(down') /\ Len(down') = Len(down) - k
               /\ \A i \in 1..Len(down') : down'[i] = down[i + k]
    BY <2>1, <2>3, RestFacts
  <2>4. ASSUME NEW k \in 1..Len(down), down' = Rest(down, k)
        PROVE  /\ Wire(down') /\ Len(down') < Len(down) /\ Len(down') \in Nat
               /\ \A i \in 1..Len(down') : \E j \in 1..Len(down) : down'[i] = down[j]
    BY <2>1, <2>3, <2>4
  <2>5. Wire(down') => (down' = <<>> <=> Len(down') = 0) BY WireFacts
  <2> QED BY <2>1, <2>2, <2>4, <2>5
<1>3. Wires' BY <1>2 DEF Wires
<1>4. UpUnits' BY DEF UpUnits
<1>5. /\ Len(up) \in Nat /\ (up = <<>> <=> Len(up) = 0)
      /\ Len(down) \in Nat /\ (down = <<>> <=> Len(down) = 0)
  BY WireFacts DEF Wires
<1>6. Turns'
  <2>1. \A S : Has(up, S)' <=> Has(up, S) BY DEF Has
  <2>2. CASE cli'.pc = cli.pc
    <3>1. /\ cli.pc \in {"start", "shake", "request"} => down' = <<>>
          /\ cli.pc \in {"obfs", "hello"} => Len(up) + Len(down') <= 1
          /\ down = <<>> => down' = <<>>
      BY <1>2, <1>5 DEF Turns
    <3> QED BY <2>1, <2>2, <3>1 DEF Turns
  <2>3. CASE cli'.pc # cli.pc /\ cli'.pc \in {"shake", "request"}
    <3>1. CASE cli.pc \in {"start", "shake"}
      <4>1. up = <<>> /\ Len(down) = 0 BY <1>5, <3>1 DEF Turns
      <4> QED BY <1>2, <4>1, <2>3, <2>1, <3>1 DEF Turns, Later
    <3>2. CASE cli.pc \in {"obfs", "hello"}
      <4>1. Len(up) + Len(down) <= 1 /\ down' # down BY <2>3, <3>2 DEF Turns
      <4>2. Len(up) = 0 /\ Len(down') = 0 BY <1>2, <1>5, <4>1
      <4>3. \A S : ~Has(up, S) BY <4>2 DEF Has
      <4>4. up = <<>> /\ down' = <<>> BY <1>2, <1>5, <4>2
      <4>5. ~srv.first /\ srv.pc \notin {"dial", "relay"} /\ ~srv.dialled
        BY <3>2 DEF Turns, Later
      <4> QED BY <2>1, <2>3, <3>2, <4>3, <4>4, <4>5 DEF Turns
    <3> QED BY <2>3, <3>1, <3>2
  <2>4. CASE cli'.pc # cli.pc /\ cli'.pc \in {"failed", "tunnel", "closed"}
    BY <2>1, <2>4 DEF Turns, Later
  <2> QED BY <2>2, <2>3, <2>4
<1>7. Oks'
  BY <1>2 DEF Oks, Turns, OkMeansTunnel
<1>8. Feeding' BY DEF Feeding, FedInOrder, Foreign
<1> QED BY <1>1, <1>3, <1>4, <1>6, <1>7, <1>8

(* The client opens a turn: with the OBFS line, a hello or the request.    *)
LEMMA ClientAsks ==
    ASSUME StreamInv, UNCHANGED <<setup, srv, down, wrote, fed>>, NEW u, u.n = 0,
           up' = Append(up, u),
           DOMAIN cli' = DOMAIN cli, cli'.reply = cli.reply,
           \/ cli.pc = "start" /\ cli'.pc = "obfs" /\ u.what = "obfs"
           \/ cli.pc = "shake" /\ cli'.pc = "hello" /\ u.what \in Hellos
           \/ /\ cli.pc = "request" /\ u.what = "request"
              /\ cli'.pc = IF setup.kind = "UDP" THEN "tunnel" ELSE "reply"
    PROVE  StreamInv'
<1> USE DEF StreamInv
<1>1. up = <<>> /\ down = <<>> /\ wrote = 0 /\ cli.reply # "ok" /\ cli.pc \notin Later
  BY DEF Turns, Oks, Later
<1>2. Wire(up') /\ Len(up') = 1 /\ up'[1] = u
  <2>1. Wire(up) /\ Len(up) = 0 BY <1>1, WireFacts DEF Wires
  <2>2. /\ Wire(Append(up, u)) /\ Len(Append(up, u)) = Len(up) + 1
        /\ Append(up, u)[Len(up) + 1] = u
    BY <2>1, AppendFacts
  <2>3. Len(up) + 1 = 1 BY <2>1
  <2> QED BY <2>2, <2>3
<1>3. Len(down) = 0 BY <1>1, WireFacts DEF Wires
<1>4. ~srv.first /\ srv.pc \notin {"dial", "relay"} /\ ~srv.dialled
  BY <1>1 DEF Turns
<1>5. Shape' BY DEF Shape, ClientPlaces, Later
<1>6. Wires' BY <1>2 DEF Wires
<1>7. UpUnits' BY <1>1, <1>2, <1>5 DEF UpUnits, Hellos
<1>8. Turns'
  <2>1. \A S : Has(up, S)' <=> u.what \in S BY <1>2 DEF Has
  <2> QED BY <1>1, <1>2, <1>3, <1>4, <1>5, <2>1 DEF Turns, Later, Hellos, Shape
<1>9. Oks' BY <1>1, <1>3, <1>4 DEF Oks, OkMeansTunnel
<1>10. Feeding' BY <1>1, <1>4 DEF Feeding, FedInOrder
<1> QED BY <1>5, <1>6, <1>7, <1>8, <1>9, <1>10

(* The caller writes.                                                      *)
LEMMA CallerWriteKeeps ==
    ASSUME StreamInv, CallerWrite
    PROVE  StreamInv'
<1> USE DEF StreamInv
<1> DEFINE u == Unit("data", wrote + 1, cli.layers)
<1>1. /\ cli.pc = "tunnel" /\ wrote' = wrote + 1 /\ up' = Append(up, u)
      /\ UNCHANGED <<setup, cli, srv, down, fed>>
  BY DEF CallerWrite
<1>2. u.what = "data" /\ u.n = wrote + 1 BY DEF Unit
<1> HIDE DEF u
<1>3. Len(up) \in Nat /\ Wire(up) BY WireFacts DEF Wires
<1>4. /\ Wire(up') /\ Len(up') = Len(up) + 1 /\ up'[Len(up) + 1] = u
      /\ \A i \in 1..Len(up) : up'[i] = up[i]
  BY <1>1, <1>3, AppendFacts
<1>5. Shape' BY <1>1 DEF Shape
<1>6. Wires' BY <1>1, <1>4 DEF Wires
<1>w. wrote \in Nat BY DEF Shape
<1>7. UpUnits'
  <2>1. ASSUME NEW i \in 1..Len(up)
        PROVE  /\ i = 1 \/ up'[i].what = "data"
               /\ up'[i].what = "data" => up'[i].n = wrote' - (Len(up') - i) /\ up'[i].n > 0
               /\ up'[i].what # "data" => up'[i].n = 0
               /\ up'[i].what = "request" => wrote' = Len(up') - 1
    BY <1>1, <1>3, <1>4, <1>w DEF UpUnits
  <2>2. up'[Len(up')] = u /\ wrote' - (Len(up') - Len(up')) = wrote + 1 /\ wrote + 1 > 0
    BY <1>1, <1>3, <1>4, <1>w
  <2>3. \A i \in 1..Len(up') : i \in 1..Len(up) \/ i = Len(up') BY <1>3, <1>4
  <2> QED BY <1>2, <2>1, <2>2, <2>3 DEF UpUnits
<1>8. Turns'
  <2>1. \A S : "data" \notin S => (Has(up, S)' <=> Has(up, S))
    BY <1>2, <1>3, <1>4 DEF Has
  <2> QED BY <1>1, <2>1 DEF Turns, Later, Hellos
<1>9. Oks' BY <1>1 DEF Oks, OkMeansTunnel
<1>10. Feeding'
  <2>1. ASSUME srv.pc = "dial" \/ (srv.pc = "relay" /\ srv.copyUp)
        PROVE  /\ \A i \in 1..Len(up') :
                     \/ up'[i].what = "data"
                     \/ i = 1 /\ up'[i].what = "junk" /\ Hysteria(srv.layers) /\ fed = <<>>
               /\ wrote' - Len(up') = wrote - Len(up)
               /\ wrote' = Len(up') - (IF Foreign' THEN 1 ELSE 0)
                    <=> wrote = Len(up) - (IF Foreign THEN 1 ELSE 0)
    <3>1. ASSUME NEW i \in 1..Len(up')
          PROVE  \/ up'[i].what = "data"
                 \/ i = 1 /\ up'[i].what = "junk" /\ Hysteria(srv.layers) /\ fed = <<>>
      BY <1>2, <1>3, <1>4, <2>1 DEF Feeding
    <3>2. Foreign' <=> Foreign
      <4>1. up # <<>> <=> 1 \in 1..Len(up) BY <1>3, WireFacts
      <4>2. up' # <<>> BY <1>4, <1>3, WireFacts
      <4>3. up = <<>> => Len(up) = 0 BY <1>3, WireFacts
      <4> QED BY <1>2, <1>4, <4>1, <4>2, <4>3 DEF Foreign
    <3> QED BY <1>1, <1>3, <1>4, <1>w, <3>1, <3>2
  <2>2. ASSUME srv.first, srv.pc = "shake"
        PROVE  /\ \A i \in 1..Len(up') : up'[i].what = "data"
               /\ IF srv.lost THEN setup.kind = "UDP" ELSE wrote' = Len(up')
    BY <1>1, <1>2, <1>3, <1>4, <2>2 DEF Feeding
  <2> QED BY <1>1, <2>1, <2>2 DEF Feeding, FedInOrder
<1> QED BY <1>5, <1>6, <1>7, <1>8, <1>9, <1>10

(* Every step of the client's end.                                         *)
LEMMA ClientStepKeeps ==
    ASSUME StreamInv,
           ClientStep \/ ClientDeadline \/ CallerWrite \/ CallerRead \/ CallerClose
    PROVE  StreamInv'
<1>1. /\ DOMAIN cli = {"pc", "layers", "agreed", "deadline", "reply"}
      /\ cli.pc \in ClientPlaces /\ Wire(down)
  BY DEF StreamInv, Shape, Wires
<1>2. /\ cli.reply = "ok" => /\ cli.pc \in {"tunnel", "closed"} /\ srv.dialled
                             /\ Framing(cli.layers) = Framing(srv.layers)
      /\ cli.pc = "reply" /\ down # <<>> => srv.pc \in {"relay", "done"}
  BY DEF StreamInv, Oks, OkMeansTunnel, Turns
<1>3. ASSUME NEW layers, NEW k \in Chunks(down, layers), down' = Rest(down, k), down # <<>>
      PROVE  k \in 1..Len(down) /\ down' # down
  <2>1. k \in 1..Len(down) BY <1>1, <1>3, ChunkFacts
  <2>2. Len(Rest(down, k)) = Len(down) - k BY <1>1, <2>1, RestFacts
  <2>3. Len(down) \in Nat BY <1>1, WireFacts
  <2> QED BY <1>3, <2>1, <2>2, <2>3
<1>4. ASSUME down' = Tail(down), down # <<>>
      PROVE  \E k \in 1..Len(down) : down' = Rest(down, k)
  <2>1. 1 \in 1..Len(down) BY <1>1, <1>4, WireFacts
  <2>2. Tail(down) = Rest(down, 1)
    <3>1. PICK S : down \in Seq(S) BY <1>1 DEF Wire
    <3> QED BY <1>4, <3>1 DEF Rest
  <2> QED BY <1>4, <2>1, <2>2
<1>5. CASE OfferObfs
  <2>1. CASE setup.cobfs.pmax > 0 \/ setup.cobfs.dmax > 0
    <3> DEFINE u == Unit("obfs", 0, <<>>)
    <3>1. u.n = 0 /\ u.what = "obfs" BY DEF Unit
    <3>2. up' = Append(up, u) BY <1>5, <2>1 DEF OfferObfs
    <3> HIDE DEF u
    <3> QED BY <1>1, <1>5, <2>1, <3>1, <3>2, ClientAsks DEF OfferObfs, ends
  <2>2. CASE ~(setup.cobfs.pmax > 0 \/ setup.cobfs.dmax > 0)
    <3>1. /\ cli' = [cli EXCEPT !.pc = "shake"] /\ cli.pc = "start"
          /\ UNCHANGED <<setup, srv, up, down, wrote, fed>>
      BY <1>5, <2>2 DEF OfferObfs, ends
    <3> QED BY <1>1, <1>2, <3>1, ClientMoves DEF ClientPlaces
  <2> QED BY <2>1, <2>2
<1>6. CASE ReadObfsReply
  <2>1. PICK k \in Chunks(down, <<>>) : down' = Rest(down, k) BY <1>6 DEF ReadObfsReply
  <2>2. down # <<>> /\ cli.pc = "obfs" /\ UNCHANGED <<setup, srv, up, wrote, fed>>
    BY <1>6 DEF ReadObfsReply, ends
  <2>3. k \in 1..Len(down) /\ down' # down BY <1>3, <2>1, <2>2
  <2>4. /\ DOMAIN cli' = DOMAIN cli /\ cli'.pc = "shake" /\ cli'.reply = cli.reply
    BY <1>1, <1>6 DEF ReadObfsReply
  <2> QED BY <1>2, <2>1, <2>2, <2>3, <2>4, ClientMoves DEF ClientPlaces
<1>7. CASE ClientHello
  <2> DEFINE u == Unit(ClientProtocol, 0, cli.layers)
  <2>1. u.n = 0 /\ u.what = ClientProtocol /\ ClientProtocol \in Hellos
    BY <1>7 DEF ClientHello, SayHello, Unit, Hellos
  <2>2. up' = Append(up, u) /\ UNCHANGED <<setup, srv, down, wrote, fed>>
    BY <1>7 DEF ClientHello, SayHello, ends
  <2>3. /\ DOMAIN cli' = DOMAIN cli /\ cli'.pc = "hello" /\ cli'.reply = cli.reply
        /\ cli.pc = "shake"
    BY <1>1, <1>7 DEF ClientHello, SayHello
  <2> HIDE DEF u
  <2> QED BY <2>1, <2>2, <2>3, ClientAsks
<1>8. CASE ClientCipher \/ NoHandshake
  <2>1. /\ DOMAIN cli' = DOMAIN cli /\ cli'.pc = "request" /\ cli'.reply = cli.reply
        /\ cli.pc = "shake" /\ UNCHANGED <<setup, srv, up, down, wrote, fed>>
    BY <1>1, <1>8 DEF ClientCipher, NoHandshake, ends
  <2> QED BY <1>2, <2>1, ClientMoves DEF ClientPlaces
<1>9. ASSUME NEW proto, NEW answer, HelloAnswer(proto, answer)
      PROVE  StreamInv'
  <2>1. PICK k \in Chunks(down, cli.layers) : down' = Rest(down, k) BY <1>9 DEF HelloAnswer
  <2>2. down # <<>> /\ cli.pc = "hello" /\ UNCHANGED <<setup, srv, up, wrote, fed>>
    BY <1>9 DEF HelloAnswer, ends
  <2>3. k \in 1..Len(down) /\ down' # down BY <1>3, <2>1, <2>2
  <2>4. /\ DOMAIN cli' = DOMAIN cli /\ cli'.pc \in {"request", "failed", "hello"}
        /\ cli'.reply = cli.reply
    <3>1. \/ cli' = [cli EXCEPT !.pc = "request"]
          \/ cli' = [cli EXCEPT !.pc = "failed"]
          \/ cli' = cli
      BY <1>9 DEF HelloAnswer, ClientFail
    <3> QED BY <1>1, <2>2, <3>1
  <2> QED BY <1>2, <2>1, <2>2, <2>3, <2>4, ClientMoves DEF ClientPlaces, Later
<1>10. ASSUME NEW kind, NEW next, Request(kind, next),
              next = IF kind = "UDP" THEN "tunnel" ELSE "reply"
       PROVE  StreamInv'
  <2> DEFINE layers == cli.layers \o (IF cli.agreed THEN <<>> ELSE ObfsLayers(setup.cobfs))
             u == Unit("request", 0, layers)
  <2>1. u.n = 0 /\ u.what = "request" BY DEF Unit
  <2>2. /\ up' = Append(up, u) /\ UNCHANGED <<setup, srv, down, wrote, fed>>
        /\ cli.pc = "request" /\ setup.kind = kind
        /\ cli' = [cli EXCEPT !.layers = layers, !.pc = next]
    BY <1>10 DEF Request, ends
  <2> HIDE DEF u, layers
  <2>3. DOMAIN cli' = DOMAIN cli /\ cli'.pc = next /\ cli'.reply = cli.reply
    BY <1>1, <2>2
  <2> QED BY <1>10, <2>1, <2>2, <2>3, ClientAsks
<1>11. CASE ReplyOK
  <2>1. PICK k \in Chunks(down, cli.layers) : down' = Rest(down, k) BY <1>11 DEF ReplyOK
  <2>2. /\ down # <<>> /\ cli.pc = "reply" /\ UNCHANGED <<setup, srv, up, wrote, fed>>
        /\ Head(down).enc = Framing(cli.layers) /\ Head(down).what = "ok"
    BY <1>11 DEF ReplyOK, Readable
  <2>3. k \in 1..Len(down) BY <1>3, <2>1, <2>2
  <2>4. /\ DOMAIN cli' = DOMAIN cli /\ cli'.pc = "tunnel" /\ cli'.layers = cli.layers
    BY <1>1, <1>11 DEF ReplyOK
  <2>5. Head(down) = down[1] /\ 1 \in 1..Len(down) BY <1>1, <2>2, TailFacts
  <2>6. srv.dialled /\ Framing(cli.layers) = Framing(srv.layers)
    BY <2>2, <2>5 DEF StreamInv, Oks
  <2> QED BY <1>2, <2>1, <2>2, <2>3, <2>4, <2>6, ClientMoves DEF ClientPlaces, Later
<1>12. CASE ReplyERR \/ ReplyUnreadable
  <2>1. /\ DOMAIN cli' = DOMAIN cli /\ cli'.pc \in {"failed", "reply"} /\ cli'.reply = cli.reply
        /\ cli.pc = "reply" /\ UNCHANGED <<setup, srv, up, wrote, fed>>
        /\ down # <<>> /\ down' = Tail(down)
    BY <1>1, <1>12 DEF ReplyERR, ReplyUnreadable, ClientFail, ends
  <2>2. \E k \in 1..Len(down) : down' = Rest(down, k) BY <1>4, <2>1
  <2> QED BY <1>2, <2>1, <2>2, ClientMoves DEF ClientPlaces, Later
<1>13. CASE ReplyOther \/ ReplyEOF
  <2>1. /\ DOMAIN cli' = DOMAIN cli /\ cli'.pc = "tunnel" /\ cli'.reply # "ok"
        /\ cli.pc = "reply" /\ UNCHANGED <<setup, srv, up, down, wrote, fed>>
        /\ down # <<>> \/ srv.pc = "done"
    BY <1>1, <1>13 DEF ReplyOther, ReplyEOF, ends
  <2> QED BY <1>2, <2>1, ClientMoves DEF ClientPlaces, Later
<1>14. CASE HandshakeEOF \/ ClientDeadline \/ CallerClose
  <2>1. /\ DOMAIN cli' = DOMAIN cli /\ cli'.reply = cli.reply /\ cli'.layers = cli.layers
        /\ cli'.pc = IF cli.pc = "tunnel" THEN "closed" ELSE "failed"
        /\ cli.pc \in {"obfs", "hello", "request", "reply", "tunnel"}
        /\ UNCHANGED <<setup, srv, up, down, wrote, fed>>
    BY <1>1, <1>14 DEF HandshakeEOF, ClientDeadline, CallerClose, ClientFail, ends
  <2> QED BY <1>2, <2>1, ClientMoves DEF ClientPlaces, Later
<1>15. CASE CallerRead
  <2>1. /\ cli.pc = "tunnel" /\ down # <<>> /\ down' = Tail(down)
        /\ UNCHANGED <<setup, srv, up, wrote, fed>>
        /\ cli' = cli \/ cli' = [cli EXCEPT !.pc = "closed"]
    BY <1>15 DEF CallerRead
  <2>2. \E k \in 1..Len(down) : down' = Rest(down, k) BY <1>4, <2>1
  <2>3. /\ DOMAIN cli' = DOMAIN cli /\ cli'.reply = cli.reply /\ cli'.layers = cli.layers
        /\ cli'.pc \in {"tunnel", "closed"}
    BY <1>1, <2>1
  <2> QED BY <1>2, <2>1, <2>2, <2>3, ClientMoves DEF ClientPlaces, Later
<1>16. CASE CallerWrite BY <1>16, CallerWriteKeeps
<1> QED
  BY <1>5, <1>6, <1>7, <1>8, <1>9, <1>10, <1>11, <1>12, <1>13, <1>14, <1>15, <1>16
  DEF ClientStep, VlessAnswer, VmessAnswer, SendRequest, SendDirect, SendUDP

-----------------------------------------------------------------------------
(* Steps of the node that read nothing from the stream.                    *)
LEMMA NodeMoves ==
    ASSUME StreamInv, UNCHANGED <<setup, cli, up, wrote, fed>>, Shape',
           srv'.first = srv.first, srv'.lost = srv.lost,
           \/ /\ \/ srv.pc = "peek" /\ srv'.pc = "shake"
                 \/ srv.pc = "shake" /\ srv'.pc \in {"hello", "read"} /\ ~srv.first
                 \/ srv.pc = "shake" /\ srv'.pc = "dial" /\ srv.first
              /\ srv'.dialled = srv.dialled /\ down' = down
           \/ /\ srv'.pc = "done" /\ srv'.dialled = srv.dialled /\ srv'.layers = srv.layers
              /\ \/ down' = down
                 \/ srv.pc = "dial" /\ \E u : u.what # "ok" /\ down' = Append(down, u)
           \/ /\ srv.pc = "dial" /\ srv'.pc = "relay" /\ srv'.dialled
              /\ srv'.layers = srv.layers
              /\ \/ down' = down
                 \/ \E u : u.enc = Framing(srv.layers) /\ down' = Append(down, u)
           \/ /\ srv.pc = "relay" /\ srv'.pc = "relay" /\ srv'.dialled = srv.dialled
              /\ srv'.layers = srv.layers /\ (srv'.copyUp => srv.copyUp)
              /\ \/ down' = down
                 \/ \E u : u.what # "ok" /\ down' = Append(down, u)
    PROVE  StreamInv'
<1> USE DEF StreamInv
<1>1. Wire(down) /\ Len(down) \in Nat BY WireFacts DEF Wires
<1>2. ASSUME NEW u, down' = Append(down, u)
      PROVE  /\ Wire(down') /\ \A i \in 1..Len(down') : down'[i] = u \/
                                    (i \in 1..Len(down) /\ down'[i] = down[i])
             /\ cli.pc \in Later /\ srv'.pc \in {"relay", "done"}
  <2>1. /\ Wire(Append(down, u)) /\ Len(Append(down, u)) = Len(down) + 1
        /\ \A i \in 1..Len(down) : Append(down, u)[i] = down[i]
        /\ Append(down, u)[Len(down) + 1] = u
    BY <1>1, AppendFacts
  <2>2. down' # down BY <1>1, <1>2, <2>1
  <2>3. srv.pc \in {"dial", "relay"} /\ srv'.pc \in {"relay", "done"} BY <2>2
  <2>4. cli.pc \in Later BY <2>3 DEF Turns
  <2>5. \A i \in 1..Len(down') : i \in 1..Len(down) \/ i = Len(down) + 1
    BY <1>1, <1>2, <2>1
  <2> QED BY <1>2, <2>1, <2>3, <2>4, <2>5
<1>3. Wires' BY <1>1, <1>2 DEF Wires
<1>4. UpUnits' BY DEF UpUnits
<1>5. Turns'
  <2>1. \A S : Has(up, S)' <=> Has(up, S) BY DEF Has
  <2>2. srv'.first \/ srv'.pc \in {"dial", "relay"} \/ srv'.dialled => cli.pc \in Later
    BY DEF Turns, Oks
  <2>3. /\ srv'.pc \in {"peek", "hello", "read"} => ~srv'.first
        /\ cli.pc \in {"tunnel", "closed"} /\ setup.kind # "UDP" => srv'.pc \in {"relay", "done"}
    BY DEF Turns
  <2>4. CASE down' = down
    <3>1. srv'.pc \notin {"relay", "done"} => srv.pc \notin {"relay", "done"} OBVIOUS
    <3> QED BY <2>1, <2>2, <2>3, <2>4, <3>1 DEF Turns
  <2>5. CASE \E u : down' = Append(down, u)
    <3>1. cli.pc \in Later /\ srv'.pc \in {"relay", "done"} BY <1>2, <2>5
    <3> QED BY <2>1, <2>2, <2>3, <3>1 DEF Turns, Later
  <2> QED BY <2>4, <2>5
<1>6. Oks'
  <2>1. srv'.dialled => srv'.pc \in {"relay", "done"} BY DEF Oks
  <2>2. OkMeansTunnel'
    BY DEF Oks, OkMeansTunnel
  <2>3. ASSUME cli.pc \in {"reply", "tunnel", "closed"}, NEW i \in 1..Len(down'),
               down'[i].what = "ok"
        PROVE  srv'.dialled /\ down'[i].enc = Framing(srv'.layers)
    <3>1. CASE i \in 1..Len(down) /\ down'[i] = down[i]
      <4>1. srv.dialled /\ down[i].enc = Framing(srv.layers) BY <2>3, <3>1 DEF Oks
      <4>2. srv.pc \in {"relay", "done"} BY <4>1 DEF Oks
      <4> QED BY <3>1, <4>1, <4>2
    <3>2. CASE ~(i \in 1..Len(down) /\ down'[i] = down[i])
      <4>1. down' # down BY <3>2
      <4>2. PICK u : /\ down' = Append(down, u)
                     /\ u.what = "ok" => u.enc = Framing(srv.layers) /\ srv'.dialled
        BY <4>1
      <4>3. down'[i] = u BY <1>2, <3>2, <4>2
      <4>4. srv'.layers = srv.layers BY <4>1
      <4> QED BY <2>3, <4>2, <4>3, <4>4
    <3> QED BY <3>1, <3>2
  <2> QED BY <2>1, <2>2, <2>3 DEF Oks
<1>7. Feeding'
  <2>1. /\ srv'.pc \notin {"relay", "done"} => fed = <<>>
        /\ srv'.first /\ srv'.pc = "shake" => srv.first /\ srv.pc = "shake"
    BY DEF Feeding, Turns
  <2>2. FedInOrder'
    <3>1. srv'.layers = srv.layers \/ fed = <<>> BY DEF Feeding
    <3>2. Len(<<>>) = 0 OBVIOUS
    <3> QED BY <3>1, <3>2 DEF Feeding, FedInOrder, IsRun, StartsAt, HasForeign
  <2>3. ASSUME srv'.pc = "dial" \/ (srv'.pc = "relay" /\ srv'.copyUp)
        PROVE  /\ \A i \in 1..Len(up) :
                    \/ up[i].what = "data"
                    \/ i = 1 /\ up[i].what = "junk" /\ Hysteria(srv'.layers) /\ fed = <<>>
               /\ \/ setup.kind = "UDP" /\ srv'.first /\ srv'.lost
                  \/ \E i \in 1..Len(fed) : fed[i] # 0
                  \/ wrote = Len(up) - (IF Foreign THEN 1 ELSE 0)
               /\ \A i \in 1..Len(fed) :
                     fed[i] # 0 /\ (\A k \in (i + 1)..Len(fed) : fed[k] = 0)
                        => fed[i] = wrote - Len(up)
    <3>1. CASE srv.pc = "dial" \/ (srv.pc = "relay" /\ srv.copyUp)
      <4>1. srv'.layers = srv.layers BY <2>3, <3>1
      <4> QED BY <3>1, <4>1 DEF Feeding
    <3>2. CASE srv.pc = "shake" /\ srv.first /\ srv'.pc = "dial"
      <4>1. /\ \A i \in 1..Len(up) : up[i].what = "data"
            /\ IF srv.lost THEN setup.kind = "UDP" ELSE wrote = Len(up)
            /\ fed = <<>>
        BY <3>2 DEF Feeding
      <4>2. Len(fed) = 0 BY <4>1
      <4>3. up # <<>> => 1 \in 1..Len(up) BY WireFacts DEF Wires
      <4>4. ~Foreign BY <4>1, <4>3 DEF Foreign
      <4>5. Len(up) - 0 = Len(up) BY WireFacts DEF Wires
      <4> QED BY <3>2, <4>1, <4>2, <4>4, <4>5
    <3> QED BY <2>3, <3>1, <3>2
  <2>4. Foreign' <=> Foreign BY DEF Foreign
  <2> QED BY <2>1, <2>2, <2>3, <2>4 DEF Feeding
<1> QED BY <1>3, <1>4, <1>5, <1>6, <1>7

(* A read takes d messages off the client's wire and may leave, put back   *)
(* or invent one before what remains.                                      *)
Took(d) ==
    /\ d \in 0..Len(up) /\ Wire(up') /\ Len(up') = Len(up) - d
    /\ \A i \in 2..Len(up') : up'[i] = up[i + d]
    /\ Len(up') > 0 =>
          \/ d > 0 /\ up'[1] = up[d + 1]
          \/ up'[1] = up[1] /\ up[1].what \in Hellos
          \/ up'[1].what \in {"torn", "junk"} /\ up'[1].n = 0

(* Steps of the node that read from the stream before the relay.           *)
LEMMA NodeReads ==
    ASSUME StreamInv, UNCHANGED <<setup, cli, wrote, fed>>, Shape', up # <<>>,
           srv.pc \in {"peek", "hello", "read"}, srv'.dialled = srv.dialled,
           srv'.pc \in {"shake", "hello", "read", "dial", "done"},
           NEW d, Took(d),
           \/ down' = down
           \/ \E u : /\ down' = Append(down, u) /\ d > 0
                     /\ srv'.pc = "done" \/ up[1].what \in {"obfs", "vless", "vmess"}
                     /\ u.what = "ok" => up[1].what \in {"obfs", "vless", "vmess"},
           srv'.first => /\ srv'.pc = "shake" /\ up[1].what = "request" /\ d > 0
                         /\ srv'.lost = (d > 1)
                         /\ Len(up') > 0 => up'[1] = up[d + 1],
           srv'.pc = "dial" => /\ up[1].what = "request"
                               /\ \/ d = 1 /\ (Len(up') > 0 => up'[1] = up[d + 1])
                                  \/ d = 0 /\ up'[1].what = "junk" /\ Hysteria(srv'.layers)
    PROVE  StreamInv'
<1> USE DEF StreamInv
<1>1. /\ Wire(down) /\ Len(down) \in Nat /\ Len(up) \in Nat \ {0} /\ d \in 0..Len(up)
      /\ Wire(up') /\ Len(up') = Len(up) - d /\ Len(up') \in Nat
  BY WireFacts DEF Wires, Took
<1>2. ~srv.dialled /\ ~srv.first /\ fed = <<>> /\ cli.reply # "ok" /\ wrote \in Nat
  BY DEF Oks, OkMeansTunnel, Turns, Feeding, Shape
<1>3. cli.pc \notin {"start", "shake", "request"} BY DEF Turns
<1>4. ASSUME NEW u, down' = Append(down, u)
      PROVE  /\ Wire(down') /\ Len(down') = Len(down) + 1
             /\ \A i \in 1..Len(down') : down'[i] = u \/
                   (i \in 1..Len(down) /\ down'[i] = down[i])
  <2>1. /\ Wire(Append(down, u)) /\ Len(Append(down, u)) = Len(down) + 1
        /\ \A i \in 1..Len(down) : Append(down, u)[i] = down[i]
        /\ Append(down, u)[Len(down) + 1] = u
    BY <1>1, AppendFacts
  <2>2. \A i \in 1..Len(down') : i \in 1..Len(down) \/ i = Len(down) + 1
    BY <1>1, <1>4, <2>1
  <2> QED BY <1>4, <2>1, <2>2
<1>5. Wires' BY <1>1, <1>4 DEF Wires
<1>6. /\ up[1].what \in {"obfs", "vless", "vmess"} => cli.pc \in {"obfs", "hello", "failed"}
      /\ up[1].what = "request" => cli.pc \in Later /\ wrote = Len(up) - 1
      /\ \A i \in 2..Len(up) : up[i].what = "data" /\ up[i].n = wrote - (Len(up) - i) /\ up[i].n > 0
  <2>1. 1 \in 1..Len(up) BY <1>1
  <2>2. /\ up[1].what = "obfs" => Has(up, {"obfs"})
        /\ up[1].what \in Hellos => Has(up, Hellos)
        /\ up[1].what = "request" => Has(up, {"request"})
    BY <2>1 DEF Has
  <2>3. \A i \in 2..Len(up) : i \in 1..Len(up) /\ i # 1 BY <1>1
  <2> QED BY <2>1, <2>2, <2>3 DEF Turns, UpUnits, Hellos
<1>7. UpUnits'
  <2>1. ASSUME NEW i \in 1..Len(up'), d > 0 \/ i > 1, up'[i] = up[i + d]
        PROVE  /\ up'[i].what = "data" /\ up'[i].n = wrote - (Len(up') - i) /\ up'[i].n > 0
    <3> DEFINE m == Len(up)
    <3>a. m \in Nat /\ d \in 0..m /\ wrote \in Nat /\ Len(up') = m - d /\ i \in 1..(m - d)
      BY <1>1, <1>2
    <3>b. d > 0 \/ i > 1 BY <2>1
    <3>c. i + d \in 2..m /\ wrote - (m - (i + d)) = wrote - ((m - d) - i)
      <4> HIDE DEF m
      <4> QED BY <3>a, <3>b
    <3>1. i + d \in 2..Len(up) /\ wrote - (Len(up) - (i + d)) = wrote - (Len(up') - i)
      BY <3>a, <3>c
    <3> QED BY <1>6, <2>1, <3>1
  <2>2. \A i \in 1..Len(up') : i > 1 => up'[i] = up[i + d] BY <1>1 DEF Took
  <2>3. \A i \in 1..Len(up') : i = 1 \/ i > 1 BY <1>1
  <2>4. ASSUME Len(up') > 0, ~(d > 0 /\ up'[1] = up[1 + d])
        PROVE  up'[1].what \notin {"data", "request"} /\ up'[1].n = 0
    <3>1. d + 1 = 1 + d BY <1>1
    <3>2. 1 \in 1..Len(up) BY <1>1
    <3> QED BY <2>4, <3>1, <3>2 DEF Took, UpUnits, Hellos
  <2>5. ASSUME NEW i \in 1..Len(up')
        PROVE  /\ i = 1 \/ up'[i].what = "data"
               /\ up'[i].what = "data" => up'[i].n = wrote - (Len(up') - i) /\ up'[i].n > 0
               /\ up'[i].what # "data" => up'[i].n = 0
               /\ up'[i].what # "request"
    <3>1. CASE i > 1 BY <2>1, <2>2, <3>1
    <3>2. CASE i = 1
      <4>1. CASE d > 0 /\ up'[1] = up[1 + d] BY <2>1, <3>2, <4>1
      <4>2. CASE ~(d > 0 /\ up'[1] = up[1 + d])
        <5>1. Len(up') > 0 BY <1>1, <3>2
        <5> QED BY <2>4, <3>2, <4>2, <5>1
      <4> QED BY <4>1, <4>2
    <3> QED BY <2>3, <3>1, <3>2
  <2> QED BY <2>5 DEF UpUnits
<1>8. ASSUME NEW S, Has(up, S)', "data" \notin S, "torn" \notin S, "junk" \notin S
      PROVE  Has(up, S) /\ S # {"request"} /\ S # {"obfs"}
  <2>1. PICK i \in 1..Len(up') : up'[i].what \in S BY <1>8 DEF Has
  <2>2. i = 1 BY <1>7, <1>8, <2>1 DEF UpUnits
  <2>3. Len(up') > 0 BY <1>1, <2>1
  <2>4. ~(d > 0 /\ up'[1] = up[d + 1])
    <3>1. d > 0 => d + 1 \in 2..Len(up) BY <1>1, <2>3
    <3> QED BY <1>6, <1>8, <2>1, <2>2, <3>1
  <2>5. up'[1] = up[1] /\ up[1].what \in Hellos BY <1>8, <2>1, <2>2, <2>3, <2>4 DEF Took
  <2>6. 1 \in 1..Len(up) BY <1>1
  <2> QED BY <2>1, <2>2, <2>5, <2>6 DEF Has, Hellos
<1>9. Turns'
  <2>1. /\ ~Has(up, {"obfs"})' /\ ~Has(up, {"request"})'
        /\ Has(up, Hellos)' => cli.pc \in {"hello", "failed"}
    <3>1. ~Has(up, {"obfs"})' BY <1>8
    <3>2. ~Has(up, {"request"})' BY <1>8
    <3>3. Has(up, Hellos)' => Has(up, Hellos) BY <1>8 DEF Hellos
    <3> QED BY <3>1, <3>2, <3>3 DEF Turns
  <2>2. srv'.first \/ srv'.pc \in {"dial", "relay"} \/ srv'.dialled => cli.pc \in Later
    BY <1>2, <1>6
  <2>3. srv'.pc \in {"peek", "hello", "read"} => ~srv'.first OBVIOUS
  <2>4. /\ cli.pc \in {"tunnel", "closed"} => setup.kind = "UDP"
        /\ cli.pc \notin {"tunnel", "closed"} => wrote = 0
        /\ cli.pc = "reply" => setup.kind # "UDP"
    BY DEF Turns
  <2>5. cli.pc \in {"obfs", "hello"} => Len(up') + Len(down') <= 1
    <3>1. cli.pc \in {"obfs", "hello"} => Len(up) + Len(down) <= 1 BY DEF Turns
    <3>2. CASE down' = down BY <1>1, <3>1, <3>2
    <3>3. CASE d > 0 /\ \E u : down' = Append(down, u) BY <1>1, <1>4, <3>1, <3>3
    <3> QED BY <3>2, <3>3
  <2>6. cli.pc = "reply" /\ srv'.pc \notin {"relay", "done"} => down' = <<>>
    <3>1. cli.pc = "reply" => down = <<>> BY DEF Turns
    <3> QED BY <1>6, <3>1
  <2> QED BY <1>3, <2>1, <2>2, <2>3, <2>4, <2>5, <2>6 DEF Turns
<1>10. Oks'
  <2>1. ASSUME cli.pc \in {"reply", "tunnel", "closed"}, NEW i \in 1..Len(down')
        PROVE  down'[i].what # "ok"
    <3>1. \A j \in 1..Len(down) : down[j].what # "ok" BY <1>2, <2>1 DEF Oks
    <3>2. CASE down' = down BY <3>1, <3>2
    <3>3. ASSUME NEW u, down' = Append(down, u), u.what # "ok" PROVE down'[i].what # "ok"
      BY <1>4, <3>1, <3>3
    <3> QED BY <1>6, <2>1, <3>2, <3>3
  <2> QED BY <1>2, <2>1 DEF Oks, OkMeansTunnel
<1>11. Feeding'
  <2>1. Len(fed) = 0 BY <1>2
  <2>2. FedInOrder' BY <1>2, <2>1 DEF FedInOrder, IsRun, StartsAt, HasForeign
  <2>3. ASSUME NEW i \in 1..Len(up'), d > 0 /\ up'[1] = up[d + 1]
        PROVE  up'[i].what = "data"
    <3>1. up'[i] = up[i + d]
      <4>1. d + 1 = 1 + d /\ (i = 1 \/ i \in 2..Len(up')) BY <1>1
      <4> QED BY <2>3, <4>1 DEF Took
    <3>2. i + d \in 2..Len(up) BY <1>1, <2>3
    <3> QED BY <1>6, <3>1, <3>2
  <2>4. Len(up') > 0 <=> up' # <<>> BY <1>1, WireFacts
  <2>5. ASSUME srv'.first, srv'.pc = "shake"
        PROVE  /\ \A i \in 1..Len(up') : up'[i].what = "data"
               /\ IF srv'.lost THEN setup.kind = "UDP" ELSE wrote = Len(up')
    <3>1. \A i \in 1..Len(up') : Len(up') > 0 BY <1>1
    <3>2. \A i \in 1..Len(up') : up'[i].what = "data" BY <2>3, <2>5, <3>1
    <3>3. wrote = Len(up) - 1 BY <1>6, <2>5
    <3>4. CASE d > 1
      <4>1. wrote # 0 BY <1>1, <3>3, <3>4
      <4>2. setup.kind = "UDP" BY <4>1 DEF Turns
      <4> QED BY <2>5, <3>2, <3>4, <4>2
    <3>5. CASE ~(d > 1)
      <4>1. wrote = Len(up') BY <1>1, <2>5, <3>3, <3>5
      <4> QED BY <2>5, <3>2, <3>5, <4>1
    <3> QED BY <3>4, <3>5
  <2>6. ASSUME srv'.pc = "dial"
        PROVE  /\ \A i \in 1..Len(up') :
                    \/ up'[i].what = "data"
                    \/ i = 1 /\ up'[i].what = "junk" /\ Hysteria(srv'.layers)
               /\ wrote = Len(up') - (IF Foreign' THEN 1 ELSE 0)
    <3>1. wrote = Len(up) - 1 BY <1>6, <2>6
    <3>2. CASE d = 1 /\ (Len(up') > 0 => up'[1] = up[d + 1])
      <4>1. \A i \in 1..Len(up') : Len(up') > 0 BY <1>1
      <4>2. \A i \in 1..Len(up') : up'[i].what = "data" BY <2>3, <3>2, <4>1
      <4>3. Len(up') > 0 => 1 \in 1..Len(up') BY <1>1
      <4>4. ~Foreign' BY <2>4, <4>2, <4>3 DEF Foreign
      <4>5. wrote = Len(up') - 0 BY <1>1, <3>1, <3>2
      <4> QED BY <4>2, <4>4, <4>5
    <3>3. CASE d = 0 /\ up'[1].what = "junk" /\ Hysteria(srv'.layers)
      <4>1. \A i \in 1..Len(up') : i = 1 \/ up'[i].what = "data" BY <1>7 DEF UpUnits
      <4>2. Foreign' BY <1>1, <2>4, <3>3 DEF Foreign
      <4>3. wrote = Len(up') - 1 BY <1>1, <3>1, <3>3
      <4> QED BY <3>3, <4>1, <4>2, <4>3
    <3> QED BY <2>6, <3>2, <3>3
  <2> QED BY <1>2, <2>1, <2>2, <2>5, <2>6 DEF Feeding
<1> QED BY <1>5, <1>7, <1>9, <1>10, <1>11

LEMMA TookRest ==
    ASSUME Wire(up), NEW k \in 1..Len(up), up' = Rest(up, k)
    PROVE  Took(k) /\ (Len(up') > 0 => up'[1] = up[k + 1])
<1>1. /\ Wire(up') /\ Len(up') = Len(up) - k /\ Len(up) \in Nat
      /\ \A i \in 1..(Len(up) - k) : up'[i] = up[i + k]
  BY RestFacts, WireFacts
<1>2. \A i \in 2..Len(up') : i \in 1..(Len(up) - k) BY <1>1
<1>3. Len(up') > 0 => 1 \in 1..(Len(up) - k) /\ 1 + k = k + 1 BY <1>1
<1>4. Len(up') > 0 => up'[1] = up[k + 1] BY <1>1, <1>3
<1>5. \A i \in 2..Len(up') : up'[i] = up[i + k] BY <1>1, <1>2
<1> QED BY <1>1, <1>4, <1>5 DEF Took

LEMMA TookPut ==
    ASSUME Wire(up), NEW k \in 1..Len(up), NEW x, up' = <<x>> \o Rest(up, k),
           \/ x = up[1] /\ x.what \in Hellos
           \/ x.what \in {"torn", "junk"} /\ x.n = 0
    PROVE  Took(k - 1) /\ up'[1] = x /\ Len(up') > 0
<1>1. /\ Wire(Rest(up, k)) /\ Len(Rest(up, k)) = Len(up) - k /\ Len(up) \in Nat
      /\ \A i \in 1..(Len(up) - k) : Rest(up, k)[i] = up[i + k]
  BY RestFacts, WireFacts
<1>2. /\ Wire(up') /\ Len(up') = Len(up) - k + 1 /\ up'[1] = x
      /\ \A i \in 2..(Len(up) - k + 1) : up'[i] = Rest(up, k)[i - 1]
  <2> DEFINE w == Rest(up, k)
  <2>1. Wire(w) BY <1>1
  <2> HIDE DEF w
  <2>2. /\ Wire(<<x>> \o w) /\ Len(<<x>> \o w) = Len(w) + 1 /\ (<<x>> \o w)[1] = x
        /\ \A i \in 2..(Len(w) + 1) : (<<x>> \o w)[i] = w[i - 1]
    BY <2>1, ConsFacts
  <2>3. up' = <<x>> \o w /\ Len(w) = Len(up) - k BY <1>1 DEF w
  <2>4. /\ Wire(up') /\ Len(up') = Len(up) - k + 1 /\ up'[1] = x
        /\ \A i \in 2..(Len(up) - k + 1) : up'[i] = w[i - 1]
    BY <2>2, <2>3
  <2> QED BY <2>4 DEF w
<1>3. ASSUME NEW i \in 2..Len(up') PROVE up'[i] = up[i + (k - 1)]
  <2>1. i \in 2..(Len(up) - k + 1) /\ i - 1 \in 1..(Len(up) - k) /\ i - 1 + k = i + (k - 1)
    BY <1>1, <1>2
  <2> QED BY <1>1, <1>2, <2>1
<1>4. k - 1 \in 0..Len(up) /\ Len(up') = Len(up) - (k - 1) /\ Len(up') > 0 BY <1>1, <1>2
<1> QED BY <1>2, <1>3, <1>4 DEF Took

(* The deadline ends a copy of the relay the way any error of it does.     *)
LEMMA DeadlineInRelay == ServerDeadline => TargetError \/ srv.pc # "relay"
BY DEF ServerDeadline, TargetError

(* Every step of the node that is not a copy of the client's bytes.        *)
LEMMA NodeStepKeeps ==
    ASSUME StreamInv,
           \/ ServerStep \/ ServerDeadline \/ DialTarget \/ DialFails
           \/ CopyUpEOF \/ CopyDown \/ TargetEOF \/ TargetError
    PROVE  StreamInv'
<1>1. Shape /\ Wire(up) /\ Wire(down) BY DEF StreamInv, Wires
<1>2. up # <<>> => Head(up) = up[1] /\ 1 \in 1..Len(up) /\ Tail(up) = Rest(up, 1)
  <2>1. up # <<>> => Head(up) = up[1] /\ 1 \in 1..Len(up) BY <1>1, TailFacts
  <2>2. PICK S : up \in Seq(S) BY <1>1 DEF Wire
  <2>3. up # <<>> => Tail(up) = Rest(up, 1) BY <2>2 DEF Rest
  <2> QED BY <2>1, <2>3
<1>3. ASSUME NEW layers, NEW k \in Chunks(up, layers), up # <<>> PROVE k \in 1..Len(up)
  BY <1>1, <1>3, ChunkFacts
<1>4. \A what, n, layers : /\ Unit(what, n, layers).what = what /\ Unit(what, n, layers).n = n
                           /\ Unit(what, n, layers).enc = Framing(layers)
  BY DEF Unit
<1>5. /\ DOMAIN Wrapped(srv) = DOMAIN srv
      /\ Wrapped(srv).pc = (IF srv.first THEN "dial" ELSE "read")
      /\ \A f \in DOMAIN srv \ {"pc", "layers"} : Wrapped(srv)[f] = srv[f]
  BY <1>1 DEF Wrapped, Shape
<1>6. ASSUME ServerDone
      PROVE  /\ DOMAIN srv' = DOMAIN srv /\ srv'.pc = "done" /\ ~srv'.copyUp /\ ~srv'.copyDown
             /\ srv'.copyUp \in BOOLEAN /\ srv'.copyDown \in BOOLEAN
             /\ srv'.dialled = srv.dialled /\ srv'.layers = srv.layers
             /\ srv'.first = srv.first /\ srv'.lost = srv.lost
  BY <1>1, <1>6 DEF ServerDone, Shape
<1>7. srv.pc \in {"peek", "hello", "read"} => ~srv.first BY DEF StreamInv, Turns
<1>8. CASE PeekObfs
  <2>1. PICK k \in Chunks(up, <<>>) :
          /\ up' = Rest(up, k)
          /\ LET s == [srv EXCEPT !.pc = "shake", !.lost = k > 1]
             IN  IF ParseObfsLine(setup.cobfs)
                 THEN Answer("obfs", [s EXCEPT !.agreed = TRUE, !.layers = ObfsLayers(Agreed)])
                 ELSE srv' = s /\ UNCHANGED down
    BY <1>8 DEF PeekObfs
  <2>2. /\ UNCHANGED <<setup, cli, wrote, fed>> /\ srv.pc = "peek" /\ up # <<>>
        /\ up[1].what = "obfs"
    BY <1>2, <1>8 DEF PeekObfs, ends
  <2>3. k \in 1..Len(up) BY <1>3, <2>1, <2>2
  <2>4. Took(k) /\ k > 0 BY <1>1, <2>1, <2>3, TookRest
  <2>5. /\ DOMAIN srv' = DOMAIN srv /\ srv'.pc \in {"shake", "done"}
        /\ srv'.lost \in BOOLEAN /\ srv'.dialled = srv.dialled /\ srv'.first = srv.first
        /\ srv'.copyUp \in BOOLEAN /\ srv'.copyDown \in BOOLEAN
        /\ down' = down \/ down' = Append(down, Unit("obfs", 0, srv.layers))
    <3>1. CASE ServerDone /\ down' = down BY <1>1, <1>6, <3>1 DEF Shape
    <3> DEFINE s == [srv EXCEPT !.pc = "shake", !.lost = k > 1]
               t == [s EXCEPT !.agreed = TRUE, !.layers = ObfsLayers(Agreed)]
    <3>2. \/ ServerDone /\ down' = down
          \/ srv' = s /\ down' = down
          \/ srv' = t /\ down' = Append(down, Unit("obfs", 0, srv.layers))
      BY <2>1 DEF Answer
    <3>3. /\ DOMAIN s = DOMAIN srv /\ s.pc = "shake" /\ s.lost \in BOOLEAN
          /\ \A f \in {"dialled", "first", "copyUp", "copyDown"} : s[f] = srv[f]
      BY <1>1 DEF Shape
    <3> HIDE DEF s
    <3>4. /\ DOMAIN t = DOMAIN srv /\ t.pc = "shake" /\ t.lost = s.lost
          /\ \A f \in {"dialled", "first", "copyUp", "copyDown"} : t[f] = srv[f]
      BY <1>1, <3>3 DEF Shape
    <3> HIDE DEF t
    <3>5. srv.copyUp \in BOOLEAN /\ srv.copyDown \in BOOLEAN BY <1>1 DEF Shape
    <3> QED BY <3>1, <3>2, <3>3, <3>4, <3>5
  <2>6. Shape' BY <1>1, <2>2, <2>5 DEF Shape, ServerPlaces
  <2> QED BY <1>4, <1>7, <2>2, <2>4, <2>5, <2>6, NodeReads
<1>9. CASE PeekRequest
  <2>1. PICK k \in Chunks(up, <<>>) :
          /\ up' = Rest(up, k)
          /\ srv' = [srv EXCEPT !.pc = "shake", !.first = TRUE, !.lost = k > 1]
    BY <1>9 DEF PeekRequest
  <2>2. /\ UNCHANGED <<setup, cli, down, wrote, fed>> /\ srv.pc = "peek" /\ up # <<>>
        /\ up[1].what = "request"
    BY <1>2, <1>9 DEF PeekRequest, ends
  <2>3. k \in 1..Len(up) BY <1>3, <2>1, <2>2
  <2>4. Took(k) /\ k > 0 /\ (Len(up') > 0 => up'[1] = up[k + 1])
    BY <1>1, <2>1, <2>3, TookRest
  <2>5. /\ srv'.pc = "shake" /\ srv'.dialled = srv.dialled /\ srv'.lost = (k > 1)
        /\ srv'.lost \in BOOLEAN
    BY <1>1, <2>1 DEF Shape
  <2>6. Shape' BY <1>1, <2>1, <2>2, <2>5 DEF Shape, ServerPlaces
  <2> QED BY <2>2, <2>4, <2>5, <2>6, NodeReads
<1>10. CASE PeekLine
  <2>1. PICK k \in Chunks(up, <<>>) :
          /\ up' = <<Head(up)>> \o Rest(up, k)
          /\ srv' = [srv EXCEPT !.pc = "shake", !.prefixed = TRUE, !.lost = k > 1]
    BY <1>10 DEF PeekLine
  <2>2. /\ UNCHANGED <<setup, cli, down, wrote, fed>> /\ srv.pc = "peek" /\ up # <<>>
        /\ Head(up) = up[1] /\ up[1].what \in Hellos
    BY <1>2, <1>10 DEF PeekLine, ends, IsText, Hellos
  <2>3. k \in 1..Len(up) BY <1>3, <2>1, <2>2
  <2>4. Took(k - 1) BY <1>1, <2>1, <2>2, <2>3, TookPut
  <2>5. /\ srv'.pc = "shake" /\ srv'.dialled = srv.dialled /\ srv'.lost \in BOOLEAN
        /\ srv'.first = srv.first
    BY <1>1, <2>1 DEF Shape
  <2>6. Shape' BY <1>1, <2>1, <2>2, <2>5 DEF Shape, ServerPlaces
  <2> QED BY <1>7, <2>2, <2>4, <2>5, <2>6, NodeReads
<1>11. CASE PeekBinary
  <2>1. /\ UNCHANGED <<setup, cli, down, wrote, fed>> /\ srv.pc = "peek" /\ up # <<>>
    BY <1>11 DEF PeekBinary, ends
  <2>2. CASE up' = up /\ srv' = [srv EXCEPT !.pc = "shake", !.prefixed = TRUE]
    <3>1. /\ srv'.pc = "shake" /\ srv'.dialled = srv.dialled /\ srv'.lost = srv.lost
          /\ srv'.first = srv.first
      BY <1>1, <2>2 DEF Shape
    <3>2. Shape' BY <1>1, <2>1, <2>2, <3>1 DEF Shape, ServerPlaces
    <3> QED BY <2>1, <2>2, <3>1, <3>2, NodeMoves
  <2>3. ASSUME NEW k \in 1..Len(up), up' = <<Torn>> \o Rest(up, k),
               srv' = [srv EXCEPT !.pc = "shake", !.prefixed = TRUE, !.lost = TRUE]
        PROVE  StreamInv'
    <3>1. Torn.what = "torn" /\ Torn.n = 0 BY DEF Torn
    <3>2. Took(k - 1) BY <1>1, <2>3, <3>1, TookPut
    <3>3. /\ srv'.pc = "shake" /\ srv'.dialled = srv.dialled /\ srv'.first = srv.first
      BY <1>1, <2>3 DEF Shape
    <3>4. Shape' BY <1>1, <2>1, <2>3, <3>3 DEF Shape, ServerPlaces
    <3> QED BY <1>7, <2>1, <2>3, <3>2, <3>3, <3>4, NodeReads
  <2> QED BY <1>11, <2>2, <2>3 DEF PeekBinary
<1>12. CASE ServerHello
  <2>1. /\ UNCHANGED <<setup, cli, up, down, wrote, fed>> /\ srv.pc = "shake" /\ ~srv.first
        /\ srv' = [srv EXCEPT !.pc = "hello", !.deadline = (srv.layers = <<>> /\ ~srv.prefixed)]
    BY <1>12 DEF ServerHello, AwaitHello, ServerProtocol, ends
  <2>2. /\ srv'.pc = "hello" /\ srv'.dialled = srv.dialled /\ srv'.lost = srv.lost
        /\ srv'.first = srv.first
    BY <1>1, <2>1 DEF Shape
  <2>3. Shape' BY <1>1, <2>1, <2>2 DEF Shape, ServerPlaces
  <2> QED BY <2>1, <2>2, <2>3, NodeMoves
<1>13. CASE ServerCipher \/ ServerPlain
  <2>1. UNCHANGED <<setup, cli, up, down, wrote, fed>> /\ srv.pc = "shake"
    BY <1>13 DEF ServerCipher, ServerPlain, ends
  <2>2. /\ DOMAIN srv' = DOMAIN srv /\ srv'.pc = (IF srv.first THEN "dial" ELSE "read")
        /\ \A f \in DOMAIN srv \ {"pc", "layers"} : srv'[f] = srv[f]
    <3>1. CASE ServerPlain BY <1>5, <3>1 DEF ServerPlain
    <3>2. CASE ServerCipher BY <1>1, <3>2 DEF ServerCipher, Wrapped, Shape
    <3> QED BY <1>13, <3>1, <3>2
  <2>3. /\ srv'.dialled = srv.dialled /\ srv'.lost = srv.lost /\ srv'.first = srv.first
        /\ srv'.copyUp = srv.copyUp /\ srv'.copyDown = srv.copyDown
    BY <1>1, <2>2 DEF Shape
  <2>4. Shape' BY <1>1, <2>1, <2>2, <2>3 DEF Shape, ServerPlaces
  <2> QED BY <2>1, <2>2, <2>3, <2>4, NodeMoves
<1>14. CASE VlessHello \/ VmessHello
  <2>1. PICK k \in Chunks(up, srv.layers) : up' = Rest(up, k)
    BY <1>14 DEF VlessHello, VmessHello
  <2>2. UNCHANGED <<setup, cli, wrote, fed>> /\ srv.pc = "hello" /\ up # <<>> /\ ~srv.first
    BY <1>7, <1>14 DEF VlessHello, VmessHello, ends
  <2>3. k \in 1..Len(up) BY <1>3, <2>1, <2>2
  <2>4. Took(k) /\ k > 0 BY <1>1, <2>1, <2>3, TookRest
  <2>5. \/ ServerDone /\ down' = down
        \/ srv' = srv /\ down' = down
        \/ srv' = [srv EXCEPT !.pc = "done"] /\ down' = Append(down, Unit("ERR", 0, srv.layers))
        \/ /\ srv' = Wrapped(srv) /\ up[1].what \in {"vless", "vmess"}
           /\ \E what \in {"ok", "granted"} : down' = Append(down, Unit(what, 0, srv.layers))
    BY <1>2, <1>14, <2>2 DEF VlessHello, VmessHello, Answer, ValidHello
  <2>6. /\ DOMAIN srv' = DOMAIN srv /\ srv'.pc \in {"done", "hello", "read"}
        /\ srv'.dialled = srv.dialled /\ srv'.first = srv.first /\ srv'.lost = srv.lost
        /\ srv'.copyUp \in BOOLEAN /\ srv'.copyDown \in BOOLEAN
    <3>1. CASE ServerDone BY <1>6, <3>1
    <3>2. CASE srv' = srv BY <1>1, <2>2, <3>2 DEF Shape
    <3>3. CASE srv' = [srv EXCEPT !.pc = "done"] BY <1>1, <3>3 DEF Shape
    <3>4. CASE srv' = Wrapped(srv) BY <1>1, <1>5, <2>2, <3>4 DEF Shape
    <3> QED BY <2>5, <3>1, <3>2, <3>3, <3>4
  <2>7. \/ down' = down
        \/ \E u : /\ down' = Append(down, u)
                  /\ srv'.pc = "done" \/ up[1].what \in {"obfs", "vless", "vmess"}
                  /\ u.what = "ok" => up[1].what \in {"obfs", "vless", "vmess"}
    <3>1. CASE /\ srv' = [srv EXCEPT !.pc = "done"]
               /\ down' = Append(down, Unit("ERR", 0, srv.layers))
      <4>1. srv'.pc = "done" BY <1>1, <3>1 DEF Shape
      <4> QED BY <1>4, <3>1, <4>1
    <3> QED BY <1>4, <2>5, <3>1
  <2>8. Shape' BY <1>1, <2>2, <2>6 DEF Shape, ServerPlaces
  <2> QED BY <2>2, <2>4, <2>6, <2>7, <2>8, NodeReads
<1>15. CASE ReadRequest
  <2>1. UNCHANGED <<setup, cli, wrote, fed>> /\ srv.pc = "read" /\ up # <<>> /\ ~srv.first
    BY <1>7, <1>15 DEF ReadRequest, ends
  <2>2. CASE ParseRequest(Head(up))
    <3>1. /\ up[1].what = "request" /\ srv' = [srv EXCEPT !.pc = "dial"] /\ down' = down
      BY <1>2, <1>15, <2>1, <2>2 DEF ReadRequest, ParseRequest
    <3>2. /\ srv'.pc = "dial" /\ srv'.dialled = srv.dialled /\ srv'.first = srv.first
          /\ srv'.layers = srv.layers
      BY <1>1, <3>1 DEF Shape
    <3>3. Shape' BY <1>1, <2>1, <3>1, <3>2 DEF Shape, ServerPlaces
    <3>4. PICK p \in Padding(srv.layers) :
            up' = (IF p = <<>> THEN <<>> ELSE <<Unit("junk", 0, srv.layers)>>) \o Tail(up)
      BY <1>15, <2>2 DEF ReadRequest
    <3>5. CASE p = <<>>
      <4>1. up' = Rest(up, 1)
        <5>1. PICK S : Tail(up) \in Seq(S) BY <1>1, <2>1, TailFacts DEF Wire
        <5>2. <<>> \o Tail(up) = Tail(up) BY <5>1
        <5> QED BY <1>2, <2>1, <3>4, <3>5, <5>2
      <4>2. Took(1) /\ (Len(up') > 0 => up'[1] = up[1 + 1]) BY <1>1, <1>2, <2>1, <4>1, TookRest
      <4> QED BY <2>1, <3>1, <3>2, <3>3, <4>2, NodeReads
    <3>6. CASE p # <<>>
      <4> DEFINE x == Unit("junk", 0, srv.layers)
      <4>1. x.what = "junk" /\ x.n = 0 BY <1>4
      <4>2. up' = <<x>> \o Rest(up, 1) BY <1>2, <2>1, <3>4, <3>6
      <4> HIDE DEF x
      <4>3. Took(1 - 1) /\ up'[1] = x BY <1>1, <1>2, <2>1, <4>1, <4>2, TookPut
      <4>4. 1 - 1 = 0 OBVIOUS
      <4>5. Took(0) /\ up'[1].what = "junk" BY <4>1, <4>3, <4>4
      <4>6. Hysteria(srv.layers) BY <3>6 DEF Hysteria
      <4> QED BY <2>1, <3>1, <3>2, <3>3, <4>5, <4>6, NodeReads
    <3> QED BY <3>5, <3>6
  <2>3. CASE ~ParseRequest(Head(up))
    <3>1. /\ up' = Rest(up, 1)
          /\ \/ ServerDone /\ down' = down
             \/ srv' = srv /\ down' = down
             \/ /\ srv' = [srv EXCEPT !.pc = "done"]
                /\ down' = Append(down, Unit("ERR ", 0, srv.layers))
      BY <1>2, <1>15, <2>1, <2>3 DEF ReadRequest, Answer
    <3>2. Took(1) BY <1>1, <1>2, <2>1, <3>1, TookRest
    <3>3. /\ DOMAIN srv' = DOMAIN srv /\ srv'.pc \in {"done", "read"}
          /\ srv'.dialled = srv.dialled /\ srv'.first = srv.first /\ srv'.lost = srv.lost
          /\ srv'.copyUp \in BOOLEAN /\ srv'.copyDown \in BOOLEAN
      <4>1. CASE ServerDone BY <1>6, <4>1
      <4>2. CASE srv' = srv BY <1>1, <2>1, <4>2 DEF Shape
      <4>3. CASE srv' = [srv EXCEPT !.pc = "done"] BY <1>1, <4>3 DEF Shape
      <4> QED BY <3>1, <4>1, <4>2, <4>3
    <3>4. \/ down' = down
          \/ \E u : down' = Append(down, u) /\ srv'.pc = "done" /\ u.what # "ok"
      <4>1. CASE /\ srv' = [srv EXCEPT !.pc = "done"]
                 /\ down' = Append(down, Unit("ERR ", 0, srv.layers))
        <5>1. srv'.pc = "done" BY <1>1, <4>1 DEF Shape
        <5> QED BY <1>4, <4>1, <5>1
      <4> QED BY <3>1, <4>1
    <3>5. Shape' BY <1>1, <2>1, <3>3 DEF Shape, ServerPlaces
    <3> QED BY <2>1, <3>2, <3>3, <3>4, <3>5, NodeReads
  <2> QED BY <2>2, <2>3
<1>16. ASSUME ServerDone, UNCHANGED <<setup, cli, up, down, wrote, fed>>
       PROVE  StreamInv'
  <2>1. Shape' BY <1>1, <1>6, <1>16 DEF Shape, ServerPlaces
  <2> QED BY <1>6, <1>16, <2>1, NodeMoves
<1>17. CASE ServerEOF \/ (ServerDeadline /\ srv.pc # "relay") \/ RelayReturns
  BY <1>16, <1>17 DEF ServerEOF, ServerDeadline, RelayReturns, ends
<1>18. CASE DialTarget
  <2>1. UNCHANGED <<setup, cli, up, wrote, fed>> /\ srv.pc = "dial" BY <1>18 DEF DialTarget, ends
  <2>2. \/ ServerDone /\ down' = down
        \/ /\ srv' = Relaying(srv)
           /\ down' = down \/ down' = Append(down, Unit("ok", 0, srv.layers))
    BY <1>18 DEF DialTarget, Answer
  <2>3. CASE srv' = Relaying(srv) /\ (down' = down \/ down' = Append(down, Unit("ok", 0, srv.layers)))
    <3>1. /\ srv'.pc = "relay" /\ srv'.dialled /\ srv'.layers = srv.layers
          /\ srv'.first = srv.first /\ srv'.lost = srv.lost
      BY <1>1, <2>3 DEF Relaying, Shape
    <3>2. Shape' BY <1>1, <2>1, <2>3, <3>1 DEF Shape, ServerPlaces, Relaying
    <3> QED BY <1>4, <2>1, <2>3, <3>1, <3>2, NodeMoves
  <2> QED BY <1>16, <2>1, <2>2, <2>3
<1>19. CASE DialFails
  <2>1. UNCHANGED <<setup, cli, up, wrote, fed>> /\ srv.pc = "dial" BY <1>19 DEF DialFails, ends
  <2>2. \/ ServerDone /\ down' = down
        \/ /\ srv' = [srv EXCEPT !.pc = "done"]
           /\ down' = Append(down, Unit("ERR ", 0, srv.layers))
    BY <1>19 DEF DialFails, Answer
  <2>3. CASE /\ srv' = [srv EXCEPT !.pc = "done"]
             /\ down' = Append(down, Unit("ERR ", 0, srv.layers))
    <3>1. /\ srv'.pc = "done" /\ srv'.layers = srv.layers /\ srv'.dialled = srv.dialled
          /\ srv'.first = srv.first /\ srv'.lost = srv.lost
      BY <1>1, <2>3 DEF Shape
    <3>2. Shape' BY <1>1, <2>1, <2>3, <3>1 DEF Shape, ServerPlaces
    <3>3. \E u : u.what # "ok" /\ down' = Append(down, u)
      <4> DEFINE e == Unit("ERR ", 0, srv.layers)
      <4>1. e.what # "ok" BY DEF Unit
      <4>2. down' = Append(down, e) BY <2>3
      <4> HIDE DEF e
      <4> QED BY <4>1, <4>2
    <3> QED BY <2>1, <3>1, <3>2, <3>3, NodeMoves
  <2> QED BY <1>16, <2>1, <2>2, <2>3
<1>20. ASSUME srv.pc = "relay", UNCHANGED <<setup, cli, up, wrote, fed>>,
              \/ srv' = [srv EXCEPT !.copyUp = FALSE]
              \/ srv' = [srv EXCEPT !.copyDown = FALSE]
              \/ srv' = [srv EXCEPT !.copyUp = FALSE, !.copyDown = FALSE]
              \/ srv' = srv,
              down' = down \/ \E u : u.what # "ok" /\ down' = Append(down, u)
       PROVE  StreamInv'
  <2>1. /\ srv'.pc = "relay" /\ srv'.layers = srv.layers /\ srv'.dialled = srv.dialled
        /\ srv'.first = srv.first /\ srv'.lost = srv.lost /\ (srv'.copyUp => srv.copyUp)
    BY <1>1, <1>20 DEF Shape
  <2>2. Shape' BY <1>1, <1>20, <2>1 DEF Shape, ServerPlaces
  <2> QED BY <1>20, <2>1, <2>2, NodeMoves
<1>21. CASE CopyUpEOF \/ TargetEOF \/ TargetError
  BY <1>20, <1>21 DEF CopyUpEOF, TargetEOF, TargetError, CopyError, ends
<1>22. CASE CopyDown
  <2>1. UNCHANGED <<setup, cli, up, wrote, fed>> /\ srv.pc = "relay" BY <1>22 DEF CopyDown
  <2>2. \/ down' = Append(down, Unit("data", sent', srv.layers)) /\ srv' = srv
        \/ down' = down /\ CopyError("copyDown")
    BY <1>22 DEF CopyDown
  <2> QED BY <1>4, <1>20, <2>1, <2>2 DEF CopyError
<1> QED
  BY <1>8, <1>9, <1>10, <1>11, <1>12, <1>13, <1>14, <1>15, <1>17, <1>18, <1>19, <1>21, <1>22,
     DeadlineInRelay
  DEF ServerStep

-----------------------------------------------------------------------------
(* What one more message, with or without padding, adds to a tape.         *)
Longer(t, s, n, p) == p \in {<<>>, <<0>>} /\ t = s \o <<n>> \o p

LEMMA TapeFacts ==
    ASSUME NEW s, Wire(s), NEW n, NEW p, NEW t, Longer(t, s, n, p)
    PROVE  /\ Wire(t) /\ Len(s) \in Nat
           /\ Len(t) = Len(s) + 1 + Len(p) /\ Len(p) \in {0, 1} /\ (p = <<>> <=> Len(p) = 0)
           /\ \A i \in 1..Len(s) : t[i] = s[i]
           /\ t[Len(s) + 1] = n
           /\ \A i \in (Len(s) + 2)..Len(t) : t[i] = 0
<1>1. PICK S : s \in Seq(S) BY DEF Wire
<1> DEFINE T == S \cup {n, 0}
<1>2. s \in Seq(T)
  <2>1. s \in [1..Len(s) -> S] /\ Len(s) \in Nat BY <1>1
  <2>2. s \in [1..Len(s) -> T] BY <2>1
  <2> QED BY <2>1, <2>2
<1>3. n \in T /\ 0 \in T OBVIOUS
<1> HIDE DEF T
<1>4. <<n>> \in Seq(T) /\ Len(<<n>>) = 1 /\ <<n>>[1] = n BY <1>3
<1> DEFINE g == s \o <<n>>
<1>5. /\ g \in Seq(T) /\ Len(g) = Len(s) + 1 /\ g[Len(s) + 1] = n
      /\ \A i \in 1..Len(s) : g[i] = s[i]
  BY <1>2, <1>4
<1>6. t = g \o p BY DEF Longer
<1> HIDE DEF g
<1>7. Len(s) \in Nat BY <1>2
<1>8. CASE p = <<>>
  <2>1. t = g /\ Len(p) = 0 BY <1>5, <1>6, <1>8
  <2>2. \A i \in (Len(s) + 2)..Len(t) : FALSE BY <1>5, <1>7, <2>1
  <2> QED BY <1>5, <1>7, <1>8, <2>1, <2>2 DEF Wire
<1>9. CASE p = <<0>>
  <2>1. p \in Seq(T) /\ Len(p) = 1 /\ p[1] = 0 BY <1>3, <1>9
  <2>2. /\ t \in Seq(T) /\ Len(t) = Len(g) + 1
        /\ \A i \in 1..Len(g) : t[i] = g[i]
        /\ t[Len(g) + 1] = 0
    <3>1. <<0>> \in Seq(T) /\ Len(<<0>>) = 1 /\ <<0>>[1] = 0 BY <1>3
    <3>2. /\ \A i \in 1..Len(g) : (g \o <<0>>)[i] = g[i]
          /\ Len(g \o <<0>>) = Len(g) + 1 /\ g \o <<0>> \in Seq(T)
          /\ (g \o <<0>>)[Len(g) + 1] = 0
      BY <1>5, <3>1
    <3> QED BY <1>6, <1>9, <3>2
  <2>3. /\ \A i \in 1..Len(s) : i \in 1..Len(g)
        /\ Len(s) + 1 \in 1..Len(g)
        /\ \A i \in (Len(s) + 2)..Len(t) : i = Len(g) + 1
    BY <1>5, <1>7, <2>2
  <2>4. p # <<>> BY <1>9
  <2>5. Len(t) = Len(s) + 1 + Len(p) BY <1>5, <1>7, <2>1, <2>2
  <2>6. \A i \in 1..Len(s) : t[i] = s[i] BY <1>5, <2>2, <2>3
  <2>7. t[Len(s) + 1] = n BY <1>5, <2>2, <2>3
  <2>8. \A i \in (Len(s) + 2)..Len(t) : t[i] = 0 BY <2>2, <2>3
  <2> QED BY <1>7, <2>1, <2>2, <2>4, <2>5, <2>6, <2>7, <2>8 DEF Wire
<1> QED BY <1>8, <1>9 DEF Longer

(* It continues the run when the last message before it was n - 1.         *)
LEMMA RunGrows ==
    ASSUME NEW s, Wire(s), NEW n \in Nat \ {0}, NEW p, NEW t,
           Longer(t, s, n, p), IsRun(s),
           \A i \in 1..Len(s) :
               s[i] # 0 /\ (\A k \in (i + 1)..Len(s) : s[k] = 0) => s[i] = n - 1
    PROVE  /\ Wire(t) /\ IsRun(t)
           /\ \A a : StartsAt(s, a) /\ ((\A i \in 1..Len(s) : s[i] = 0) => n = a) => StartsAt(t, a)
           /\ \A i \in 1..Len(t) : t[i] # 0 /\ (\A k \in (i + 1)..Len(t) : t[k] = 0) => t[i] = n
           /\ \E i \in 1..Len(t) : t[i] # 0
           /\ HasForeign(t) => HasForeign(s) \/ p # <<>>
<1> DEFINE m == Len(s) + 1
<1>1. /\ Wire(t) /\ Len(s) \in Nat
      /\ Len(t) = Len(s) + 1 + Len(p) /\ Len(p) \in {0, 1} /\ (p = <<>> <=> Len(p) = 0)
      /\ \A i \in 1..Len(s) : t[i] = s[i]
      /\ t[m] = n
      /\ \A i \in (Len(s) + 2)..Len(t) : t[i] = 0
  BY TapeFacts
<1> HIDE DEF m
<1>2. m \in Nat \ {0} /\ m = Len(s) + 1 BY <1>1 DEF m
<1>3. \A i \in 1..Len(t) : \/ i \in 1..Len(s) /\ i < m /\ t[i] = s[i]
                           \/ i = m
                           \/ i > m /\ t[i] = 0 /\ p # <<>>
  BY <1>1, <1>2
<1>4. m \in 1..Len(t) BY <1>1, <1>2
<1>5. IsRun(t)
  <2>1. SUFFICES ASSUME NEW i \in 1..Len(t), NEW j \in 1..Len(t), i < j, t[i] # 0, t[j] # 0,
                        \A k \in (i + 1)..(j - 1) : t[k] = 0
                 PROVE  t[j] = t[i] + 1
    BY DEF IsRun
  <2>2. i \in 1..Len(s) /\ t[i] = s[i] /\ j <= m
    <3>1. j \in 1..Len(s) \/ j = m BY <1>3, <2>1
    <3> QED BY <1>1, <1>2, <2>1, <3>1
  <2>3. CASE j = m
    <3>1. \A k \in (i + 1)..Len(s) : k \in (i + 1)..(j - 1) /\ k \in 1..Len(s) BY <1>1, <1>2, <2>3
    <3>2. \A k \in (i + 1)..Len(s) : s[k] = 0 BY <1>1, <2>1, <3>1
    <3>3. s[i] = n - 1 BY <2>1, <2>2, <3>2
    <3> QED BY <1>1, <2>2, <2>3, <3>3
  <2>4. CASE j # m
    <3>1. j \in 1..Len(s) /\ t[j] = s[j] BY <1>3, <2>1, <2>4
    <3>2. \A k \in (i + 1)..(j - 1) : k \in 1..Len(s) BY <1>1, <3>1
    <3>3. \A k \in (i + 1)..(j - 1) : s[k] = 0 BY <1>1, <2>1, <3>2
    <3> QED BY <2>1, <2>2, <3>1, <3>3 DEF IsRun
  <2> QED BY <2>3, <2>4
<1>6. ASSUME NEW a, StartsAt(s, a), (\A i \in 1..Len(s) : s[i] = 0) => n = a
      PROVE  StartsAt(t, a)
  <2>1. SUFFICES ASSUME NEW i \in 1..Len(t), t[i] # 0, \A k \in 1..(i - 1) : t[k] = 0
                 PROVE  t[i] = a
    BY DEF StartsAt
  <2>2. CASE i \in 1..Len(s) /\ t[i] = s[i]
    <3>1. \A k \in 1..(i - 1) : k \in 1..Len(s) BY <1>1, <2>2
    <3>2. \A k \in 1..(i - 1) : s[k] = 0 BY <1>1, <2>1, <3>1
    <3> QED BY <1>6, <2>1, <2>2, <3>2 DEF StartsAt
  <2>3. CASE i = m
    <3>1. \A k \in 1..Len(s) : k \in 1..(i - 1) BY <1>1, <1>2, <2>3
    <3>2. \A k \in 1..Len(s) : s[k] = 0 BY <1>1, <2>1, <3>1
    <3> QED BY <1>1, <1>6, <2>3, <3>2
  <2> QED BY <1>3, <2>1, <2>2, <2>3
<1>7. ASSUME NEW i \in 1..Len(t), t[i] # 0, \A k \in (i + 1)..Len(t) : t[k] = 0
      PROVE  t[i] = n
  <2>1. i < m => m \in (i + 1)..Len(t) BY <1>2, <1>4
  <2>2. ~(i < m) BY <1>1, <1>7, <2>1
  <2> QED BY <1>1, <1>3, <1>7, <2>2
<1>8. \E i \in 1..Len(t) : t[i] # 0 BY <1>1, <1>4
<1>9. HasForeign(t) => HasForeign(s) \/ p # <<>> BY <1>1, <1>3 DEF HasForeign
<1> QED BY <1>1, <1>5, <1>6, <1>7, <1>8, <1>9

(* The relay copies what the client sent.                                  *)
LEMMA CopyUpKeeps ==
    ASSUME StreamInv, CopyUp
    PROVE  StreamInv'
<1> USE DEF StreamInv
<1>1. /\ srv.pc = "relay" /\ srv.copyUp /\ up # <<>> /\ up' = Tail(up)
      /\ UNCHANGED <<setup, cli, down, wrote>>
  BY DEF CopyUp
<1>2. /\ Wire(up') /\ Len(up') = Len(up) - 1 /\ Head(up) = up[1] /\ Len(up) \in Nat \ {0}
      /\ \A i \in 1..(Len(up) - 1) : up'[i] = up[i + 1]
  BY <1>1, TailFacts DEF Wires
<1>3. \A i \in 1..Len(up') : /\ i + 1 \in 1..Len(up) /\ i + 1 # 1 /\ up'[i] = up[i + 1]
                             /\ wrote - (Len(up) - (i + 1)) = wrote - (Len(up') - i)
  <2>1. wrote \in Nat BY DEF Shape
  <2> QED BY <1>2, <2>1
<1>4. \A i \in 1..Len(up') :
        up'[i].what = "data" /\ up'[i].n = wrote - (Len(up') - i) /\ up'[i].n > 0
  BY <1>3 DEF UpUnits
<1>5. UpUnits' BY <1>1, <1>4 DEF UpUnits
<1>6. cli.pc \in Later BY <1>1 DEF Turns
<1>7. \/ /\ Readable(Head(up), srv.layers) /\ srv' = srv
         /\ \E p \in Padding(srv.layers) : fed' = fed \o <<Head(up).n>> \o p
      \/ CopyError("copyUp") /\ fed' = fed
  BY DEF CopyUp
<1>8. /\ DOMAIN srv' = DOMAIN srv /\ srv'.pc = "relay" /\ srv'.layers = srv.layers
      /\ srv'.first = srv.first /\ srv'.lost = srv.lost /\ srv'.dialled = srv.dialled
      /\ srv'.copyUp \in BOOLEAN /\ srv'.copyDown \in BOOLEAN
      /\ CopyError("copyUp") => ~srv'.copyUp
  <2>1. CASE srv' = srv /\ ~CopyError("copyUp") BY <1>1, <2>1 DEF Shape
  <2>2. CASE CopyError("copyUp")
    <3>1. \/ srv' = [srv EXCEPT !.copyUp = FALSE]
          \/ srv' = [srv EXCEPT !.copyUp = FALSE, !.copyDown = FALSE]
      BY <2>2 DEF CopyError
    <3> QED BY <1>1, <2>2, <3>1 DEF Shape
  <2> QED BY <1>7, <2>1, <2>2
<1>9. Shape' BY <1>1, <1>8 DEF Shape
<1>10. Turns'
  <2>1. \A S : "data" \notin S => ~Has(up, S)' BY <1>4 DEF Has
  <2> QED BY <1>1, <1>6, <1>8, <2>1 DEF Turns, Later, Hellos
<1>11. Oks' BY <1>1, <1>8 DEF Oks, OkMeansTunnel
<1>12. CASE fed' = fed /\ ~srv'.copyUp
  <2>1. Wires' BY <1>1, <1>2, <1>12 DEF Wires
  <2>2. Feeding' BY <1>1, <1>8, <1>12 DEF Feeding, FedInOrder
  <2> QED BY <1>5, <1>9, <1>10, <1>11, <2>1, <2>2
<1>13. CASE srv' = srv /\ \E p \in Padding(srv.layers) : fed' = fed \o <<Head(up).n>> \o p
  <2> DEFINE n == up[1].n
  <2>1. PICK p \in Padding(srv.layers) : fed' = fed \o <<n>> \o p BY <1>2, <1>13
  <2>2. p \in {<<>>, <<0>>} /\ (p # <<>> => Hysteria(srv.layers))
    BY <2>1 DEF Hysteria, Padding
  <2>3. Longer(fed', fed, n, p) /\ Wire(fed) BY <2>1, <2>2 DEF Longer, Wires
  <2> HIDE DEF n
  <2>4. Wire(fed') BY <2>3, TapeFacts
  <2>5. Wires' BY <1>1, <1>2, <2>4 DEF Wires
  <2>6. /\ \A i \in 1..Len(up) :
              \/ up[i].what = "data"
              \/ i = 1 /\ up[i].what = "junk" /\ Hysteria(srv.layers) /\ fed = <<>>
        /\ \/ setup.kind = "UDP" /\ srv.first /\ srv.lost
           \/ \E i \in 1..Len(fed) : fed[i] # 0
           \/ wrote = Len(up) - (IF Foreign THEN 1 ELSE 0)
        /\ \A i \in 1..Len(fed) :
              fed[i] # 0 /\ (\A k \in (i + 1)..Len(fed) : fed[k] = 0) => fed[i] = wrote - Len(up)
        /\ FedInOrder
    BY <1>1 DEF Feeding
  <2>7. 1 \in 1..Len(up) /\ wrote \in Nat BY <1>2 DEF Shape
  <2>8. ~Foreign'
    <3>1. up' # <<>> => 1 \in 1..Len(up') BY <1>2, WireFacts
    <3> QED BY <1>4, <3>1 DEF Foreign
  <2>9. CASE up[1].what = "data"
    <3>1. n = wrote - (Len(up) - 1) /\ n > 0 BY <2>7, <2>9 DEF UpUnits, n
    <3>2. n \in Nat \ {0} /\ n - 1 = wrote - Len(up) /\ n = wrote - Len(up')
      BY <1>2, <2>7, <3>1
    <3>3. ~Foreign BY <2>9 DEF Foreign
    <3>4. \A i \in 1..Len(fed) :
            fed[i] # 0 /\ (\A k \in (i + 1)..Len(fed) : fed[k] = 0) => fed[i] = n - 1
      BY <2>6, <3>2
    <3>5. /\ IsRun(fed')
          /\ \A a : StartsAt(fed, a) /\ ((\A i \in 1..Len(fed) : fed[i] = 0) => n = a)
                      => StartsAt(fed', a)
          /\ \A i \in 1..Len(fed') :
               fed'[i] # 0 /\ (\A k \in (i + 1)..Len(fed') : fed'[k] = 0) => fed'[i] = n
          /\ \E i \in 1..Len(fed') : fed'[i] # 0
          /\ HasForeign(fed') => HasForeign(fed) \/ p # <<>>
      BY <2>3, <2>6, <3>2, <3>4, RunGrows DEF FedInOrder
    <3>6. StartsAt(fed', 1) \/ (setup.kind = "UDP" /\ srv.first /\ srv.lost)
      <4>1. SUFFICES ASSUME ~(setup.kind = "UDP" /\ srv.first /\ srv.lost) PROVE StartsAt(fed', 1)
        OBVIOUS
      <4>2. StartsAt(fed, 1) BY <2>6, <4>1 DEF FedInOrder
      <4>3. (\A i \in 1..Len(fed) : fed[i] = 0) => wrote = Len(up) - 0 BY <2>6, <3>3, <4>1
      <4>4. (\A i \in 1..Len(fed) : fed[i] = 0) => n = 1 BY <1>2, <2>7, <3>1, <4>3
      <4> QED BY <3>5, <4>2, <4>4
    <3>7. HasForeign(fed') => Hysteria(srv.layers) BY <2>2, <2>6, <3>5 DEF FedInOrder
    <3>8. Feeding'
      BY <1>1, <1>4, <1>13, <3>2, <3>5, <3>6, <3>7 DEF Feeding, FedInOrder
    <3> QED BY <1>5, <1>9, <1>10, <1>11, <2>5, <3>8
  <2>10. CASE up[1].what = "junk" /\ Hysteria(srv.layers) /\ fed = <<>>
    <3>1. n = 0 BY <2>7, <2>10 DEF UpUnits, n
    <3>2. Len(fed) = 0 BY <2>10
    <3>3. \A i \in 1..Len(fed') : fed'[i] = 0
      <4>1. /\ fed'[Len(fed) + 1] = n /\ Len(fed') = Len(fed) + 1 + Len(p) /\ Len(p) \in {0, 1}
            /\ \A i \in (Len(fed) + 2)..Len(fed') : fed'[i] = 0
        BY <2>3, TapeFacts
      <4>2. \A i \in 1..Len(fed') : i = Len(fed) + 1 \/ i \in (Len(fed) + 2)..Len(fed')
        BY <3>2, <4>1
      <4> QED BY <3>1, <4>1, <4>2
    <3>4. FedInOrder' BY <1>13, <2>10, <3>3 DEF FedInOrder, IsRun, StartsAt, HasForeign
    <3>5. \/ setup.kind = "UDP" /\ srv.first /\ srv.lost
          \/ wrote = Len(up') - 0
      <4>1. Foreign BY <1>1, <2>10 DEF Foreign
      <4>2. \A i \in 1..Len(fed) : FALSE BY <3>2
      <4> QED BY <1>2, <2>6, <2>7, <4>1, <4>2
    <3>6. Feeding' BY <1>1, <1>4, <1>13, <2>8, <3>3, <3>4, <3>5 DEF Feeding
    <3> QED BY <1>5, <1>9, <1>10, <1>11, <2>5, <3>6
  <2> QED BY <2>6, <2>7, <2>9, <2>10
<1> QED BY <1>7, <1>8, <1>12, <1>13

(* The connection is lost.                                                 *)
LEMMA BreakKeeps ==
    ASSUME StreamInv, Break
    PROVE  StreamInv'
<1> USE DEF StreamInv
<1>1. /\ up' = <<>> /\ down' = <<>> /\ UNCHANGED <<setup, wrote, fed>> /\ ServerDone
      /\ cli' = [cli EXCEPT !.pc = CASE @ = "tunnel" -> "closed"
                                     [] ClientGone -> @
                                     [] OTHER -> "failed"]
  BY DEF Break, ends
<1>2. /\ DOMAIN srv' = DOMAIN srv /\ srv'.pc = "done" /\ srv'.layers = srv.layers
      /\ srv'.first = srv.first /\ srv'.lost = srv.lost /\ srv'.dialled = srv.dialled
      /\ srv'.copyUp \in BOOLEAN /\ srv'.copyDown \in BOOLEAN
  BY <1>1 DEF ServerDone, Shape
<1>3. /\ DOMAIN cli' = DOMAIN cli /\ cli'.reply = cli.reply /\ cli'.layers = cli.layers
      /\ cli'.pc = IF cli.pc \in {"tunnel", "closed"} THEN "closed" ELSE "failed"
  BY <1>1 DEF ClientGone, Shape
<1>4. Shape' BY <1>1, <1>2, <1>3 DEF Shape, ClientPlaces, ServerPlaces, Later
<1>5. Len(<<>>) = 0 /\ <<>> \in Seq({}) OBVIOUS
<1>6. Wires' BY <1>1, <1>5 DEF Wires, Wire
<1>7. UpUnits' BY <1>1, <1>5 DEF UpUnits
<1>8. Turns' BY <1>1, <1>2, <1>3, <1>5 DEF Turns, Has, Later
<1>9. Oks' BY <1>1, <1>2, <1>3, <1>5 DEF Oks, OkMeansTunnel
<1>10. Feeding' BY <1>1, <1>2 DEF Feeding, FedInOrder
<1> QED BY <1>4, <1>6, <1>7, <1>8, <1>9, <1>10

-----------------------------------------------------------------------------
LEMMA StreamInit ==
    ASSUME Init
    PROVE  StreamInv
<1>1. Len(<<>>) = 0 /\ <<>> \in Seq({}) OBVIOUS
<1>2. Shape BY DEF Init, Shape, ClientPlaces, ServerPlaces
<1>3. Wires BY <1>1 DEF Init, Wires, Wire
<1>4. UpUnits BY <1>1 DEF Init, UpUnits
<1>5. Turns BY <1>1 DEF Init, Turns, Has
<1>6. Oks BY <1>1 DEF Init, Oks, OkMeansTunnel
<1>7. Feeding BY <1>1 DEF Init, Feeding, FedInOrder, IsRun, StartsAt, HasForeign
<1> QED BY <1>2, <1>3, <1>4, <1>5, <1>6, <1>7 DEF StreamInv

LEMMA StreamStep ==
    ASSUME StreamInv, [Next]_vars
    PROVE  StreamInv'
<1>1. CASE UNCHANGED vars
  BY <1>1 DEF vars, StreamInv, Shape, Wires, UpUnits, Turns, Has, Oks, OkMeansTunnel, Feeding,
              FedInOrder, Foreign
<1> QED
  BY <1>1, ClientStepKeeps, NodeStepKeeps, CopyUpKeeps, BreakKeeps DEF Next

LEMMA StreamInvHolds == Spec => []StreamInv
BY StreamInit, StreamStep, PTL DEF Spec

(* A client that reads "OK" has a node behind it that has reached the      *)
(* target, and both wrap the stream the same way, whatever the two ends    *)
(* are configured with (DialTCP, handleProxyStream, handleTCPProxy).       *)
THEOREM OkAlwaysMeansTunnel == Spec => []OkMeansTunnel
<1>1. StreamInv => OkMeansTunnel BY DEF StreamInv, Oks
<1> QED BY <1>1, StreamInvHolds, PTL

(* The target is given what the caller wrote, in order and from the first  *)
(* message on, for any number of messages and any configuration: what the  *)
(* node's readers hold is never lost but on an unwrapped UDP tunnel.       *)
THEOREM TargetFedInOrder == Spec => []FedInOrder
<1>1. StreamInv => FedInOrder BY DEF StreamInv, Feeding
<1> QED BY <1>1, StreamInvHolds, PTL

-----------------------------------------------------------------------------
(* Fitting ends.  Both have wrapped the stream in the layers of Base, then *)
(* of Full; the node may add a delay of its own.                           *)
Ciphers == {"shadowsocks", "hysteria2"}
Asked == {"request", "reply", "tunnel", "closed"}

Base == IF ObfsOff THEN <<>> ELSE ObfsLayers(Agreed)

Full == IF ClientProtocol \in Ciphers
        THEN Append(Base, Layer(ClientProtocol, setup.ctok)) ELSE Base

Extra == IF ObfsOff THEN ObfsLayers(setup.sobfs) ELSE <<>>

PlainFirst == ObfsOff /\ ClientProtocol = "plain"

ClientSide ==
    /\ cli.pc \in {"start", "obfs"} => cli.layers = <<>>
    /\ cli.pc \notin {"start", "obfs"} => (cli.agreed <=> ~ObfsOff)
    /\ cli.pc \in {"shake", "hello"} => cli.layers = Base
    /\ cli.pc \in Asked => cli.layers = Full
    /\ cli.pc = "start" => ~cli.agreed /\ srv.pc = "peek"
    /\ cli.pc = "obfs" => ~cli.agreed /\ ~ObfsOff
    /\ cli.pc = "hello" => ClientProtocol \in Hellos

ServerSide ==
    /\ srv.pc = "peek" => srv.layers = <<>> /\ ~srv.agreed /\ ~srv.lost
    /\ srv.pc \in {"shake", "hello"} =>
          srv.layers = Base /\ (srv.agreed <=> ~ObfsOff) /\ (srv.first <=> PlainFirst)
    /\ srv.pc = "hello" => ClientProtocol \in Hellos
    /\ srv.pc \in {"read", "dial", "relay"} \/ srv.dialled => srv.layers = Full \o Extra

(* How far one end may be ahead of the other.                              *)
Pace ==
    /\ srv.pc = "peek" => /\ down = <<>>
                          /\ cli.pc \in {"start", "obfs"} \/ ObfsOff
                          /\ up = <<>> => cli.pc \in {"start", "shake", "request"}
                          /\ up # <<>> => up[1].what \in {"obfs", "request"} \cup Hellos
    /\ ClientProtocol \in Hellos =>
          /\ cli.pc \in Asked => srv.pc \notin {"peek", "shake", "hello"}
          /\ cli.pc \in {"start", "obfs", "shake"} => srv.pc \notin {"read", "dial", "relay"}
    /\ cli.pc \in {"reply", "tunnel", "closed"} /\ srv.pc \notin {"relay", "done"} => down = <<>>

(* Whoever waits is owed a message that is on its way and can be read,     *)
(* unless the node's peek has torn what it was given.                      *)
ObfsTurn ==
    cli.pc = "obfs" =>
        /\ srv.pc = "peek" <=> up # <<>>
        /\ \A i \in 1..Len(down) : down[i].what = "obfs"
        /\ srv.pc \in {"shake", "hello", "read"} => down # <<>>

HelloTurn ==
    cli.pc = "hello" =>
        /\ srv.pc \in {"peek", "shake", "hello"} =>
              srv.lost \/ (up # <<>> /\ up[1] = Unit(ClientProtocol, 0, Base))
        /\ down # <<>> => srv.pc \in {"read", "done"}
        /\ srv.pc = "read" => down # <<>> /\ Readable(down[1], Base)

RequestTurn ==
    /\ \A i \in 1..Len(up) : up[i].what = "request" => up[i].enc = Framing(Full)
    /\ cli.pc = "reply" /\ srv.pc \in {"peek", "shake", "read"} =>
          srv.first \/ srv.lost \/ Has(up, {"request"})

Pair == ClientSide /\ ServerSide /\ Pace /\ ObfsTurn /\ HelloTurn /\ RequestTurn

Fits == Compatible /\ cli.pc # "failed"

(* The reply line, then the target's messages; what is still to be given   *)
(* follows what was given.                                                 *)
Giving ==
    /\ Wire(got) /\ sent \in Nat
    /\ srv.pc = "relay" => srv.dialled
    /\ ~srv.dialled => sent = 0
    /\ cli.pc \notin {"tunnel", "closed"} => got = <<>> /\ gap = 0
    /\ Compatible /\ srv.pc \notin {"relay", "done"} => got = <<>> /\ gap = 0
    /\ GotInOrder

Tape ==
    /\ \A i \in 1..Len(down) :
          /\ down[i].enc = Framing(Full)
          /\ down[i].what = IF cli.pc = "reply" /\ i = 1 THEN "ok" ELSE "data"
          /\ down[i].what = "data" => down[i].n = sent - (Len(down) - i) /\ down[i].n > 0
    /\ cli.pc = "reply" => Len(down) = sent + 1
    /\ cli.pc = "tunnel" =>
          /\ \A i \in 1..Len(got) :
                got[i] # 0 /\ (\A k \in (i + 1)..Len(got) : got[k] = 0) => got[i] = sent - Len(down)
          /\ (\A i \in 1..Len(got) : got[i] = 0) => gap = sent - Len(down)

PairInv ==
    /\ Fits => Pair
    /\ Giving
    /\ Compatible /\ srv.dialled /\ cli.pc \in {"reply", "tunnel"} => Tape

-----------------------------------------------------------------------------
(* The configuration is fixed, and with it what fitting ends agree on.     *)
LEMMA SetupFixed ==
    ASSUME UNCHANGED setup
    PROVE  /\ Compatible' <=> Compatible
           /\ ObfsOff' <=> ObfsOff
           /\ PlainFirst' <=> PlainFirst
           /\ ClientProtocol' = ClientProtocol /\ Base' = Base /\ Full' = Full /\ Extra' = Extra
<1>1. ClientProtocol' = ClientProtocol BY DEF ClientProtocol
<1>2. (ObfsOff' <=> ObfsOff) /\ Agreed' = Agreed BY DEF ObfsOff, Agreed
<1>3. ExpectedProtocol' = ExpectedProtocol BY <1>1, <1>2 DEF ExpectedProtocol
<1>4. Compatible' <=> Compatible BY <1>1, <1>2, <1>3 DEF Compatible
<1>5. Base' = Base BY <1>2 DEF Base
<1> QED BY <1>1, <1>2, <1>4, <1>5 DEF Full, Extra, PlainFirst

LEMMA UnitFacts ==
    ASSUME NEW what, NEW n, NEW layers
    PROVE  /\ Unit(what, n, layers).what = what /\ Unit(what, n, layers).n = n
           /\ Unit(what, n, layers).enc = Framing(layers)
BY DEF Unit

(* A delay adds nothing to what a reader has to undo.                      *)
LEMMA DelayFrames ==
    ASSUME NEW s, Wire(s)
    PROVE  /\ Framing(s \o <<Layer("delay", NoToken)>>) = Framing(s)
           /\ Framing(s \o <<>>) = Framing(s)
<1> DEFINE d == Layer("delay", NoToken)
           t == s \o <<d>>
<1>1. d.name = "delay" BY DEF Layer
<1> HIDE DEF d
<1>2. /\ Len(t) = Len(s) + 1 /\ Len(s) \in Nat
      /\ \A i \in 1..Len(s) : t[i] = s[i]
      /\ t[Len(s) + 1] = d
  <2>1. PICK S : s \in Seq(S) BY DEF Wire
  <2>2. s \in Seq(S \cup {d}) /\ <<d>> \in Seq(S \cup {d})
    <3>1. s \in [1..Len(s) -> S] /\ Len(s) \in Nat BY <2>1
    <3>2. s \in [1..Len(s) -> S \cup {d}] BY <3>1
    <3> QED BY <3>1, <3>2
  <2> QED BY <2>2
<1> HIDE DEF t
<1>3. \A n \in 0..Len(s) : {i \in 1..n : t[i].name # "delay"} = {i \in 1..n : s[i].name # "delay"}
  <2>1. \A n \in 0..Len(s) : \A i \in 1..n : i \in 1..Len(s) BY <1>2
  <2> QED BY <1>2, <2>1
<1>4. {i \in 1..Len(t) : t[i].name # "delay"} = {i \in 1..Len(s) : s[i].name # "delay"}
  <2>1. \A i \in 1..Len(t) : i \in 1..Len(s) \/ i = Len(s) + 1 BY <1>2
  <2>2. \A i \in 1..Len(s) : i \in 1..Len(t) BY <1>2
  <2> QED BY <1>1, <1>2, <2>1, <2>2
<1>5. Framing(t) = Framing(s)
  <2> DEFINE F == {i \in 1..Len(s) : s[i].name # "delay"}
             f(i) == {j \in 1..i : t[j].name # "delay"}
             g(i) == {j \in 1..i : s[j].name # "delay"}
  <2>1. Framing(t) = {<<Cardinality(f(i)), t[i]>> : i \in F} BY <1>4 DEF Framing
  <2>2. Framing(s) = {<<Cardinality(g(i)), s[i]>> : i \in F} BY DEF Framing
  <2>3. \A i \in F : f(i) = g(i) /\ t[i] = s[i] BY <1>2, <1>3
  <2> HIDE DEF f, g, F
  <2> QED BY <2>1, <2>2, <2>3
<1>6. s \o <<>> = s
  <2>1. PICK S : s \in Seq(S) BY DEF Wire
  <2> QED BY <2>1
<1> QED BY <1>5, <1>6 DEF t, d

LEMMA FramingFacts ==
    /\ Framing(<<>>) = {}
    /\ \A s, l : Wire(s) /\ l.name # "delay" => Framing(Append(s, l)) # {}
<1>1. Framing(<<>>) = {}
  <2>1. \A i \in 1..Len(<<>>) : FALSE OBVIOUS
  <2> QED BY <2>1 DEF Framing
<1>2. ASSUME NEW s, NEW l, Wire(s), l.name # "delay"
      PROVE  Framing(Append(s, l)) # {}
  <2> DEFINE t == Append(s, l)
             m == Len(s) + 1
  <2>1. t[m] = l /\ Len(t) = m /\ Len(s) \in Nat BY <1>2, AppendFacts, WireFacts
  <2> HIDE DEF t
  <2>2. m \in {i \in 1..Len(t) : t[i].name # "delay"} BY <1>2, <2>1
  <2> DEFINE c == Cardinality({j \in 1..m : t[j].name # "delay"})
  <2>3. <<c, t[m]>> \in Framing(t) BY <2>2 DEF Framing
  <2> QED BY <2>3 DEF t
<1> QED BY <1>1, <1>2

(* What it means for the two configurations to fit.                        *)
LEMMA FitFacts ==
    ASSUME setup \in Setups, Compatible
    PROVE  /\ ClientProtocol \in {"plain"} \cup Hellos \cup Ciphers
           /\ ClientProtocol \in Hellos => setup.snap = ClientProtocol /\ setup.ctok = setup.stok
           /\ ObfsOff => Base = <<>> /\ ObfsLayers(setup.cobfs) = <<>>
           /\ ~ObfsOff => /\ ParseObfsLine(setup.cobfs) /\ ParseObfsLine(Agreed)
                          /\ Base = ObfsLayers(Agreed)
                          /\ setup.cobfs.pmax > 0 \/ setup.cobfs.dmax > 0
           /\ Extra = IF ObfsOff THEN ObfsLayers(setup.sobfs) ELSE <<>>
           /\ Wire(Base) /\ Wire(Full) /\ Framing(Full \o Extra) = Framing(Full)
           /\ ClientProtocol \in Ciphers => Framing(Full) # {}
           /\ ClientProtocol \notin Ciphers => Full = Base
<1>1. setup \in Setup BY SetupsAssumption
<1>2. ClientProtocol \in {"plain"} \cup Hellos \cup Ciphers
  BY <1>1 DEF ClientProtocol, Setup, Protocols, Hellos, Ciphers
<1>3. ClientProtocol = ExpectedProtocol BY DEF Compatible
<1>4. ClientProtocol \in Hellos => setup.snap = ClientProtocol /\ setup.ctok = setup.stok
  <2>1. ClientProtocol \in Hellos => setup.snap = ClientProtocol BY <1>3 DEF ExpectedProtocol, Hellos
  <2>2. ClientProtocol \in Hellos => setup.ctok = setup.stok BY DEF Compatible, Hellos
  <2> QED BY <2>1, <2>2
<1>5. ObfsOff => /\ Base = <<>> /\ ObfsLayers(setup.cobfs) = <<>> /\ setup.sobfs.pmax = 0
  <2>1. <<>> \o <<>> = <<>> OBVIOUS
  <2> QED BY <2>1 DEF Base, ObfsOff, ObfsLayers, Compatible
<1>6. ~ObfsOff => /\ ParseObfsLine(setup.cobfs) /\ ParseObfsLine(Agreed) /\ Base = ObfsLayers(Agreed)
                  /\ setup.cobfs.pmax > 0 \/ setup.cobfs.dmax > 0
  BY <1>1 DEF Base, ObfsOff, Compatible, Setup, Obfs
<1>7. Wire(Base)
  <2> DEFINE x == Layer("pad", NoToken)
             y == Layer("delay", NoToken)
             a == IF Agreed.pmax > 0 THEN <<x>> ELSE <<>>
             b == IF Agreed.dmax > 0 THEN <<y>> ELSE <<>>
  <2>1. ObfsLayers(Agreed) = a \o b BY DEF ObfsLayers
  <2> HIDE DEF x, y
  <2>2. <<>> \in Seq({x, y}) /\ <<x>> \in Seq({x, y}) /\ <<y>> \in Seq({x, y}) OBVIOUS
  <2>3. a \in Seq({x, y}) /\ b \in Seq({x, y}) BY <2>2
  <2> HIDE DEF a, b
  <2>4. a \o b \in Seq({x, y}) BY <2>3
  <2> QED BY <2>1, <2>2, <2>4 DEF Base, Wire
<1>8. Wire(Full) BY <1>7, AppendFacts DEF Full
<1>9. Framing(Full \o Extra) = Framing(Full)
  <2>1. CASE ObfsOff
    <3> DEFINE y == Layer("delay", NoToken)
    <3>1. Extra = <<>> \o (IF setup.sobfs.dmax > 0 THEN <<y>> ELSE <<>>)
      <4>1. ~(setup.sobfs.pmax > 0) BY <1>5, <2>1
      <4> QED BY <2>1, <4>1 DEF Extra, ObfsLayers
    <3> HIDE DEF y
    <3>2. <<>> \o <<y>> = <<y>> /\ <<>> \o <<>> = <<>> OBVIOUS
    <3>3. Extra = <<>> \/ Extra = <<y>> BY <3>1, <3>2
    <3> QED BY <1>8, <3>3, DelayFrames DEF y
  <2>2. CASE ~ObfsOff BY <1>8, <2>2, DelayFrames DEF Extra
  <2> QED BY <2>1, <2>2
<1>10. ClientProtocol \in Ciphers => Framing(Full) # {}
  <2> DEFINE l == Layer(ClientProtocol, setup.ctok)
  <2>1. ClientProtocol \in Ciphers => l.name # "delay" BY DEF Layer, Ciphers
  <2> HIDE DEF l
  <2>2. ClientProtocol \in Ciphers => Full = Append(Base, l) BY DEF Full, l
  <2> QED BY <1>7, <2>1, <2>2, FramingFacts
<1>11. ClientProtocol \notin Ciphers => Full = Base BY DEF Full
<1> QED BY <1>2, <1>4, <1>5, <1>6, <1>7, <1>8, <1>9, <1>10, <1>11 DEF Extra

(* The node asks for the handshake that the client offers, with its key.   *)
LEMMA SameProtocol ==
    ASSUME setup \in Setups, Compatible, srv.first \in BOOLEAN, srv.first <=> PlainFirst
    PROVE  /\ ServerProtocol = ClientProtocol
           /\ ClientProtocol \in Ciphers =>
                Layer(ClientProtocol, setup.ctok)
                  = Layer(ServerProtocol, IF ServerProtocol = "hysteria2" THEN NoToken ELSE setup.stok)
<1>1. ClientProtocol = ExpectedProtocol BY DEF Compatible
<1>2. ServerProtocol = ExpectedProtocol
  BY DEF ServerProtocol, ExpectedProtocol, PlainFirst
<1>3. ClientProtocol = "hysteria2" => setup.ctok = NoToken BY DEF Compatible
<1>4. ClientProtocol = "shadowsocks" => setup.ctok = setup.stok BY DEF Compatible
<1> QED BY <1>1, <1>2, <1>3, <1>4 DEF Ciphers

-----------------------------------------------------------------------------
(* Fitting ends: the steps of the client.                                  *)

(* From the request on, what was agreed stays.                             *)
LEMMA LateMoves ==
    ASSUME StreamInv, Fits, Pair, UNCHANGED <<setup, srv>>,
           cli'.layers = cli.layers, cli'.agreed = cli.agreed,
           cli.pc \in {"reply", "tunnel", "closed"}, cli'.pc \in {"reply", "tunnel", "closed"},
           cli'.pc = "reply" => cli.pc = "reply",
           up' = up \/ \E u : u.what = "data" /\ up' = Append(up, u),
           down = <<>> => down' = <<>>
    PROVE  Pair'
<1> USE DEF Pair
<1>1. /\ (ObfsOff' <=> ObfsOff) /\ (PlainFirst' <=> PlainFirst)
      /\ ClientProtocol' = ClientProtocol /\ Base' = Base /\ Full' = Full /\ Extra' = Extra
  BY SetupFixed
<1>2. Wire(up) /\ Len(up) \in Nat /\ (up = <<>> <=> Len(up) = 0) BY WireFacts DEF StreamInv, Wires
<1>3. /\ up # <<>> => up' # <<>> /\ up'[1] = up[1]
      /\ Has(up, {"request"}) => Has(up, {"request"})'
      /\ \A i \in 1..Len(up') : up'[i].what = "request" => \E j \in 1..Len(up) : up'[i] = up[j]
      /\ up' = <<>> => up = <<>>
  <2>1. CASE up' = up BY <2>1 DEF Has
  <2>2. ASSUME NEW u, u.what = "data", up' = Append(up, u)
        PROVE  /\ Wire(up') /\ Len(up') = Len(up) + 1 /\ up'[Len(up) + 1] = u
               /\ \A i \in 1..Len(up) : up'[i] = up[i]
    BY <1>2, <2>2, AppendFacts
  <2>3. ASSUME NEW u, u.what = "data", up' = Append(up, u)
        PROVE  /\ up # <<>> => up' # <<>> /\ up'[1] = up[1]
               /\ Has(up, {"request"}) => Has(up, {"request"})'
               /\ \A i \in 1..Len(up') : up'[i].what = "request" => \E j \in 1..Len(up) : up'[i] = up[j]
               /\ up' # <<>>
    <3>1. Wire(up') => (up' = <<>> <=> Len(up') = 0) BY WireFacts
    <3>2. \A i \in 1..Len(up') : i \in 1..Len(up) \/ i = Len(up) + 1 BY <1>2, <2>2, <2>3
    <3>3. \A i \in 1..Len(up) : i \in 1..Len(up') BY <1>2, <2>2, <2>3
    <3>4. up # <<>> => 1 \in 1..Len(up) BY <1>2
    <3>5. up' # <<>> BY <1>2, <2>2, <2>3, <3>1
    <3> QED BY <2>2, <2>3, <3>2, <3>3, <3>4, <3>5 DEF Has
  <2> QED BY <2>1, <2>3
<1>4. ClientSide' BY <1>1 DEF ClientSide, Asked
<1>5. ServerSide' BY <1>1 DEF ServerSide
<1>6. Pace' BY <1>1, <1>3 DEF Pace, Asked
<1>7. ObfsTurn' /\ HelloTurn' BY DEF ObfsTurn, HelloTurn
<1>8. RequestTurn' BY <1>1, <1>3 DEF RequestTurn
<1> QED BY <1>4, <1>5, <1>6, <1>7, <1>8

(* Before it, the client has the stream to itself.                         *)
LEMMA EarlyFacts ==
    ASSUME StreamInv, cli.pc \in {"start", "shake", "request"}
    PROVE  /\ up = <<>> /\ down = <<>> /\ Wire(up) /\ Len(up) = 0 /\ Len(down) = 0
           /\ srv.pc \notin {"dial", "relay"} /\ ~srv.first /\ ~srv.dialled
           /\ \A u : /\ Append(up, u) # <<>> /\ Append(up, u)[1] = u
                     /\ Len(Append(up, u)) = 1 /\ 1 \in 1..Len(Append(up, u))
<1>1. up = <<>> /\ down = <<>> BY DEF StreamInv, Turns
<1>2. Wire(up) /\ Len(up) = 0 /\ Len(down) = 0 BY <1>1, WireFacts DEF StreamInv, Wires
<1>3. ASSUME NEW u
      PROVE  Append(up, u) # <<>> /\ Append(up, u)[1] = u /\ Len(Append(up, u)) = 1
  <2>1. Wire(Append(up, u)) /\ Len(Append(up, u)) = Len(up) + 1 /\ Append(up, u)[Len(up) + 1] = u
    BY <1>2, AppendFacts
  <2>2. Len(up) + 1 = 1 BY <1>2
  <2>3. Append(up, u) = <<>> <=> Len(Append(up, u)) = 0 BY <2>1, WireFacts
  <2> QED BY <2>1, <2>2, <2>3
<1>4. srv.pc \notin {"dial", "relay"} /\ ~srv.first /\ ~srv.dialled
  BY DEF StreamInv, Turns, Later
<1>5. \A u : 1 \in 1..Len(Append(up, u)) BY <1>3
<1> QED BY <1>1, <1>2, <1>3, <1>4, <1>5

LEMMA PairClient ==
    ASSUME StreamInv, Fits, Pair, cli'.pc # "failed",
           ClientStep \/ ClientDeadline \/ CallerWrite \/ CallerRead \/ CallerClose
    PROVE  Pair'
<1> USE DEF Pair
<1>s. UNCHANGED <<setup, srv>>
  BY DEF ClientStep, OfferObfs, ReadObfsReply, ClientHello, SayHello, ClientCipher, NoHandshake,
         VlessAnswer, VmessAnswer, HelloAnswer, SendRequest, SendDirect, SendUDP, Request,
         ReplyOK, ReplyERR, ReplyOther, ReplyUnreadable, ReplyEOF, HandshakeEOF,
         ClientDeadline, CallerWrite, CallerRead, CallerClose
<1>1. /\ (ObfsOff' <=> ObfsOff) /\ (PlainFirst' <=> PlainFirst)
      /\ ClientProtocol' = ClientProtocol /\ Base' = Base /\ Full' = Full /\ Extra' = Extra
  BY <1>s, SetupFixed
<1>2. /\ DOMAIN cli = {"pc", "layers", "agreed", "deadline", "reply"}
      /\ Wire(up) /\ Wire(down) /\ setup \in Setups /\ Compatible
      /\ Len(up) \in Nat /\ (up = <<>> <=> Len(up) = 0)
      /\ Len(down) \in Nat /\ (down = <<>> <=> Len(down) = 0)
  BY WireFacts DEF StreamInv, Shape, Wires, Fits
<1>3. /\ ClientProtocol \in {"plain"} \cup Hellos \cup Ciphers
      /\ ObfsOff => Base = <<>> /\ ObfsLayers(setup.cobfs) = <<>>
      /\ ~ObfsOff => /\ ParseObfsLine(setup.cobfs) /\ ParseObfsLine(Agreed)
                     /\ Base = ObfsLayers(Agreed)
                     /\ setup.cobfs.pmax > 0 \/ setup.cobfs.dmax > 0
      /\ Wire(Base) /\ Wire(Full)
      /\ ClientProtocol \notin Ciphers => Full = Base
  BY <1>2, FitFacts
<1>4. ServerSide' BY <1>s, <1>1 DEF ServerSide
<1>5. ObfsOff <=> ~(setup.cobfs.pmax > 0 \/ setup.cobfs.dmax > 0)
  BY <1>2, SetupsAssumption DEF ObfsOff, Setup, Obfs
<1>6. CASE OfferObfs
  <2>1. /\ cli.pc = "start" /\ UNCHANGED down
        /\ IF ObfsOff THEN cli' = [cli EXCEPT !.pc = "shake"] /\ up' = up
           ELSE cli' = [cli EXCEPT !.pc = "obfs"] /\ up' = Append(up, Unit("obfs", 0, <<>>))
    BY <1>5, <1>6 DEF OfferObfs
  <2>2. /\ cli'.pc = (IF ObfsOff THEN "shake" ELSE "obfs")
        /\ cli'.layers = cli.layers /\ cli'.agreed = cli.agreed
    BY <1>2, <2>1
  <2>3. Unit("obfs", 0, <<>>).what = "obfs" BY UnitFacts
  <2>4. /\ up = <<>> /\ down = <<>> /\ Len(down) = 0 /\ Len(up) = 0 /\ srv.pc = "peek"
        /\ ~ObfsOff => up' # <<>> /\ Len(up') = 1 /\ up'[1].what = "obfs"
    BY <2>1, <2>3, EarlyFacts DEF ClientSide
  <2>5. ClientSide' BY <1>1, <1>3, <2>1, <2>2 DEF ClientSide, Asked
  <2>6. Pace' BY <1>s, <1>1, <2>1, <2>2, <2>4 DEF Pace, Asked
  <2>7. ObfsTurn' BY <1>s, <1>1, <2>1, <2>2, <2>4 DEF ObfsTurn
  <2>8. HelloTurn' BY <2>2 DEF HelloTurn
  <2>9. RequestTurn' BY <2>1, <2>2, <2>4 DEF RequestTurn
  <2> QED BY <1>4, <2>5, <2>6, <2>7, <2>8, <2>9
<1>7. CASE ReadObfsReply
  <2>1. PICK k \in Chunks(down, <<>>) : down' = Rest(down, k) BY <1>7 DEF ReadObfsReply
  <2>2. cli.pc = "obfs" /\ down # <<>> /\ UNCHANGED up BY <1>7 DEF ReadObfsReply
  <2>3. Head(down) = down[1] /\ 1 \in 1..Len(down) BY <1>2, <2>2, TailFacts
  <2>4. ~ObfsOff /\ Head(down).what = "obfs" BY <2>2, <2>3 DEF ClientSide, ObfsTurn
  <2>5. cli' = [cli EXCEPT !.pc = "shake", !.agreed = TRUE, !.layers = ObfsLayers(Agreed)]
    BY <1>3, <1>7, <2>4 DEF ReadObfsReply
  <2>6. cli'.pc = "shake" /\ cli'.agreed /\ cli'.layers = Base BY <1>2, <1>3, <2>4, <2>5
  <2>7. srv.pc # "peek" BY <2>2 DEF Pace
  <2>8. ClientSide' BY <1>s, <1>1, <2>4, <2>6 DEF ClientSide, Asked
  <2>9. Pace' BY <1>s, <1>1, <2>2, <2>6, <2>7 DEF Pace, Asked
  <2>10. ObfsTurn' /\ HelloTurn' BY <2>6 DEF ObfsTurn, HelloTurn
  <2>11. RequestTurn' BY <1>1, <2>2, <2>6 DEF RequestTurn
  <2> QED BY <1>4, <2>8, <2>9, <2>10, <2>11
<1>8. CASE ClientHello
  <2> DEFINE u == Unit(ClientProtocol, 0, cli.layers)
  <2>1. /\ cli.pc = "shake" /\ ClientProtocol \in Hellos /\ UNCHANGED down
        /\ up' = Append(up, u)
        /\ cli'.pc = "hello" /\ cli'.layers = cli.layers /\ cli'.agreed = cli.agreed
    BY <1>2, <1>8 DEF ClientHello, SayHello, Hellos
  <2>2. u.what = ClientProtocol /\ cli.layers = Base /\ u = Unit(ClientProtocol, 0, Base)
    BY <2>1, UnitFacts DEF ClientSide
  <2> HIDE DEF u
  <2>3. up' # <<>> /\ up'[1] = u /\ down = <<>> /\ Len(up') = 1 /\ up = <<>>
    BY <2>1, EarlyFacts
  <2>4. \A b : Unit(ClientProtocol, 0, b)' = Unit(ClientProtocol, 0, b) BY <1>1 DEF Unit
  <2>5. srv.pc # "read" BY <2>1 DEF Pace
  <2>6. ClientSide' BY <1>s, <1>1, <2>1, <2>2 DEF ClientSide, Asked
  <2>7. Pace' BY <1>s, <1>1, <2>1, <2>2, <2>3 DEF Pace, Asked
  <2>8. ObfsTurn' BY <2>1 DEF ObfsTurn
  <2>9. HelloTurn'
    <3>1. up'[1] = Unit(ClientProtocol', 0, Base') BY <1>1, <2>2, <2>3
    <3> QED BY <1>s, <2>1, <2>3, <2>5, <3>1 DEF HelloTurn
  <2>10. RequestTurn'
    <3>1. \A i \in 1..Len(up') : up'[i] = u BY <2>3
    <3> QED BY <2>1, <2>2, <3>1 DEF RequestTurn, Hellos
  <2> QED BY <1>4, <2>6, <2>7, <2>8, <2>9, <2>10
<1>9. CASE ClientCipher \/ NoHandshake
  <2>1. /\ cli.pc = "shake" /\ UNCHANGED <<up, down>> /\ ClientProtocol \notin Hellos
        /\ cli'.pc = "request" /\ cli'.agreed = cli.agreed
        /\ cli'.layers = IF ClientProtocol \in Ciphers
                         THEN Append(cli.layers, Layer(ClientProtocol, setup.ctok)) ELSE cli.layers
    <3>1. CASE ClientCipher
      <4>1. cli' = [cli EXCEPT !.pc = "request",
                               !.layers = Append(cli.layers, Layer(ClientProtocol, setup.ctok))]
        BY <3>1 DEF ClientCipher
      <4> QED BY <1>2, <3>1, <4>1 DEF ClientCipher, Ciphers, Hellos
    <3>2. CASE NoHandshake BY <1>2, <3>2 DEF NoHandshake, Ciphers, Hellos
    <3> QED BY <1>9, <3>1, <3>2
  <2>2. cli.layers = Base /\ cli'.layers = Full BY <2>1 DEF ClientSide, Full
  <2>3. up = <<>> /\ down = <<>> BY <2>1, EarlyFacts
  <2>4. ClientSide' BY <1>s, <1>1, <2>1, <2>2 DEF ClientSide, Asked
  <2>5. Pace' BY <1>s, <1>1, <2>1, <2>3 DEF Pace, Asked
  <2>6. ObfsTurn' /\ HelloTurn' BY <2>1 DEF ObfsTurn, HelloTurn
  <2>7. RequestTurn' BY <1>1, <2>1 DEF RequestTurn
  <2> QED BY <1>4, <2>4, <2>5, <2>6, <2>7
<1>10. ASSUME NEW proto, NEW answer, HelloAnswer(proto, answer)
       PROVE  Pair'
  <2>1. PICK k \in Chunks(down, cli.layers) : down' = Rest(down, k) BY <1>10 DEF HelloAnswer
  <2>2. cli.pc = "hello" /\ down # <<>> /\ UNCHANGED up BY <1>10 DEF HelloAnswer
  <2>3. Head(down) = down[1] /\ k \in 1..Len(down) BY <1>2, <2>1, <2>2, TailFacts, ChunkFacts
  <2>4. srv.pc \in {"read", "done"} BY <2>2 DEF HelloTurn
  <2>5. cli.layers = Base BY <2>2 DEF ClientSide
  <2>6. \/ cli' = [cli EXCEPT !.pc = "request"]
        \/ cli' = cli /\ ~Readable(down[1], Base)
    <3>1. \/ cli' = [cli EXCEPT !.pc = "request"]
          \/ ClientFail
          \/ ~Readable(Head(down), cli.layers) /\ cli' = cli
      BY <1>10 DEF HelloAnswer
    <3>2. ~ClientFail BY <1>2 DEF ClientFail
    <3> QED BY <2>3, <2>5, <3>1, <3>2
  <2>7. CASE cli' = [cli EXCEPT !.pc = "request"]
    <3>1. cli'.pc = "request" /\ cli'.layers = cli.layers /\ cli'.agreed = cli.agreed
      BY <1>2, <2>7
    <3>2. ClientProtocol \in Hellos /\ ClientProtocol \notin Ciphers BY <2>2 DEF ClientSide, Hellos, Ciphers
    <3>3. ClientSide' BY <1>s, <1>1, <1>3, <2>2, <2>5, <3>1, <3>2 DEF ClientSide, Asked
    <3>4. Pace' BY <1>s, <1>1, <2>4, <3>1 DEF Pace, Asked
    <3>5. ObfsTurn' /\ HelloTurn' BY <3>1 DEF ObfsTurn, HelloTurn
    <3>6. RequestTurn' BY <1>1, <2>2, <3>1 DEF RequestTurn
    <3> QED BY <1>4, <3>3, <3>4, <3>5, <3>6
  <2>8. CASE cli' = cli /\ ~Readable(down[1], Base)
    <3>1. ClientSide' BY <1>s, <1>1, <2>8 DEF ClientSide, Asked
    <3>2. Pace' BY <1>s, <1>1, <2>2, <2>4, <2>8 DEF Pace, Asked
    <3>3. ObfsTurn' BY <2>2, <2>8 DEF ObfsTurn
    <3>4. HelloTurn' BY <1>s, <2>2, <2>4, <2>8 DEF HelloTurn
    <3>5. RequestTurn' BY <1>1, <2>2, <2>8 DEF RequestTurn
    <3> QED BY <1>4, <3>1, <3>2, <3>3, <3>4, <3>5
  <2> QED BY <2>6, <2>7, <2>8
<1>11. ASSUME NEW kind, NEW next, Request(kind, next), next \in {"reply", "tunnel"}
       PROVE  Pair'
  <2> DEFINE layers == cli.layers \o (IF cli.agreed THEN <<>> ELSE ObfsLayers(setup.cobfs))
             u == Unit("request", 0, layers)
  <2>1. /\ cli.pc = "request" /\ UNCHANGED down /\ up' = Append(up, u)
        /\ cli' = [cli EXCEPT !.layers = layers, !.pc = next]
    BY <1>11 DEF Request
  <2>2. layers = Full
    <3>1. cli.layers = Full /\ (cli.agreed <=> ~ObfsOff) BY <2>1 DEF ClientSide, Asked
    <3>2. layers = Full \o <<>> BY <1>3, <3>1
    <3> HIDE DEF layers
    <3>3. PICK S : Full \in Seq(S) BY <1>3 DEF Wire
    <3>4. Full \o <<>> = Full BY <3>3
    <3> QED BY <3>2, <3>4
  <2> HIDE DEF layers
  <2>3. u.what = "request" /\ u.enc = Framing(Full) BY <2>2, UnitFacts
  <2> HIDE DEF u
  <2>4. cli'.pc = next /\ cli'.layers = Full /\ cli'.agreed = cli.agreed BY <1>2, <2>1, <2>2
  <2>5. /\ up = <<>> /\ down = <<>> /\ up' # <<>> /\ up'[1] = u /\ Len(up') = 1
        /\ 1 \in 1..Len(up')
    BY <2>1, EarlyFacts
  <2>6. ClientSide' BY <1>s, <1>1, <1>11, <2>1, <2>4 DEF ClientSide, Asked
  <2>7. Pace' BY <1>s, <1>1, <1>11, <2>1, <2>3, <2>4, <2>5 DEF Pace, Asked
  <2>8. ObfsTurn' /\ HelloTurn' BY <1>11, <2>4 DEF ObfsTurn, HelloTurn
  <2>9. RequestTurn'
    <3>1. \A i \in 1..Len(up') : up'[i] = u BY <2>5
    <3>2. Has(up, {"request"})' BY <2>3, <2>5 DEF Has
    <3> QED BY <1>1, <2>3, <3>1, <3>2 DEF RequestTurn
  <2> QED BY <1>4, <2>6, <2>7, <2>8, <2>9
<1>12. CASE ReplyOK \/ ReplyOther \/ ReplyUnreadable \/ ReplyEOF
  <2>1. /\ cli.pc = "reply" /\ cli'.pc \in {"reply", "tunnel"} /\ up' = up
        /\ cli'.layers = cli.layers /\ cli'.agreed = cli.agreed
        /\ down = <<>> => down' = <<>>
    <3>1. CASE ReplyOK BY <1>2, <3>1 DEF ReplyOK
    <3>2. CASE ReplyOther \/ ReplyEOF BY <1>2, <3>2 DEF ReplyOther, ReplyEOF
    <3>3. CASE ReplyUnreadable
      <4>1. cli' = cli \/ cli' = [cli EXCEPT !.pc = "failed"] BY <3>3 DEF ReplyUnreadable, ClientFail
      <4>2. cli' = cli BY <1>2, <4>1
      <4> QED BY <3>3, <4>2 DEF ReplyUnreadable
    <3> QED BY <1>12, <3>1, <3>2, <3>3
  <2> QED BY <1>s, <2>1, LateMoves
<1>13. CASE ReplyERR \/ HandshakeEOF
  <2>1. ClientFail BY <1>13 DEF ReplyERR, HandshakeEOF
  <2> QED BY <1>2, <2>1 DEF ClientFail
<1>14. CASE ClientDeadline \/ CallerClose
  <2>1. /\ cli.pc = "tunnel" /\ cli'.pc = "closed" /\ cli'.layers = cli.layers
        /\ cli'.agreed = cli.agreed /\ UNCHANGED <<up, down>>
    BY <1>2, <1>14 DEF ClientDeadline, CallerClose
  <2> QED BY <1>s, <2>1, LateMoves
<1>15. CASE CallerWrite
  <2> DEFINE u == Unit("data", wrote', cli.layers)
  <2>1. cli.pc = "tunnel" /\ cli' = cli /\ down' = down /\ up' = Append(up, u)
    BY <1>15 DEF CallerWrite
  <2>2. u.what = "data" BY DEF Unit
  <2> HIDE DEF u
  <2> QED BY <1>s, <2>1, <2>2, LateMoves
<1>16. CASE CallerRead
  <2>1. cli.pc = "tunnel" /\ up' = up /\ down # <<>> BY <1>16 DEF CallerRead
  <2>2. cli' = cli \/ cli' = [cli EXCEPT !.pc = "closed"] BY <1>16 DEF CallerRead
  <2>3. /\ cli'.pc \in {"tunnel", "closed"} /\ cli'.layers = cli.layers /\ cli'.agreed = cli.agreed
    BY <1>2, <2>1, <2>2
  <2> QED BY <1>s, <2>1, <2>3, LateMoves
<1> QED
  BY <1>6, <1>7, <1>8, <1>9, <1>10, <1>11, <1>12, <1>13, <1>14, <1>15, <1>16
  DEF ClientStep, VlessAnswer, VmessAnswer, SendRequest, SendDirect, SendUDP

-----------------------------------------------------------------------------
(* Fitting ends: the steps of the node.                                    *)
Requests == \A i \in 1..Len(up') : up'[i].what = "request" => \E j \in 1..Len(up) : up'[i] = up[j]

(* The handler ends.                                                       *)
LEMMA NodeEnds ==
    ASSUME StreamInv, Fits, Pair, UNCHANGED <<setup, cli>>, Requests,
           srv'.pc = "done", srv'.layers = srv.layers, srv'.dialled = srv.dialled,
           srv.pc = "peek" => cli.pc = "closed",
           cli.pc = "obfs" => up' = up /\ down' = down
    PROVE  Pair'
<1> USE DEF Pair
<1>1. /\ (ObfsOff' <=> ObfsOff) /\ (PlainFirst' <=> PlainFirst)
      /\ ClientProtocol' = ClientProtocol /\ Base' = Base /\ Full' = Full /\ Extra' = Extra
  BY SetupFixed
<1>2. ClientSide' BY <1>1 DEF ClientSide
<1>3. ServerSide' BY <1>1 DEF ServerSide
<1>4. Pace' BY <1>1 DEF Pace
<1>5. ObfsTurn' BY DEF ObfsTurn
<1>6. HelloTurn' BY DEF HelloTurn
<1>7. RequestTurn' BY <1>1 DEF RequestTurn, Requests
<1> QED BY <1>2, <1>3, <1>4, <1>5, <1>6, <1>7

(* The request has been read.                                              *)
LEMMA NodeServes ==
    ASSUME StreamInv, Fits, Pair, UNCHANGED <<setup, cli>>, Requests,
           cli.pc \in {"reply", "tunnel", "closed"}, srv'.layers = srv.layers,
           \/ srv.pc = "read" /\ srv'.pc = "dial" /\ down' = down
           \/ srv.pc \in {"dial", "relay"} /\ srv'.pc = "relay"
    PROVE  Pair'
<1> USE DEF Pair
<1>1. /\ (ObfsOff' <=> ObfsOff) /\ (PlainFirst' <=> PlainFirst)
      /\ ClientProtocol' = ClientProtocol /\ Base' = Base /\ Full' = Full /\ Extra' = Extra
  BY SetupFixed
<1>2. ClientSide' BY <1>1 DEF ClientSide
<1>3. ServerSide' BY <1>1 DEF ServerSide
<1>4. Pace' BY <1>1 DEF Pace, Asked
<1>5. ObfsTurn' BY DEF ObfsTurn
<1>6. HelloTurn' BY DEF HelloTurn
<1>7. RequestTurn' BY <1>1 DEF RequestTurn, Requests
<1> QED BY <1>2, <1>3, <1>4, <1>5, <1>6, <1>7

(* The node has peeked at the first bytes.                                 *)
LEMMA NodePeeks ==
    ASSUME StreamInv, Fits, Pair, UNCHANGED <<setup, cli, down>>, Requests,
           srv.pc = "peek", srv'.pc = "shake", up # <<>>, up[1].what # "obfs",
           srv'.layers = srv.layers, srv'.agreed = srv.agreed, srv'.dialled = srv.dialled,
           srv'.first <=> PlainFirst,
           \/ srv'.lost
           \/ srv'.first
           \/ up' # <<>> /\ up'[1] = up[1] /\ (Has(up, {"request"}) => Has(up, {"request"})')
    PROVE  Pair'
<1> USE DEF Pair
<1>1. /\ (ObfsOff' <=> ObfsOff) /\ (PlainFirst' <=> PlainFirst)
      /\ ClientProtocol' = ClientProtocol /\ Base' = Base /\ Full' = Full /\ Extra' = Extra
  BY SetupFixed
<1>2. /\ Len(up) \in Nat /\ (up = <<>> <=> Len(up) = 0) /\ setup \in Setups /\ Compatible
      /\ cli.pc \in ClientPlaces
  BY WireFacts DEF StreamInv, Wires, Shape, Fits
<1>3. 1 \in 1..Len(up) BY <1>2
<1>4. cli.pc \in {"hello", "reply", "tunnel", "closed"}
  <2>1. up[1].what \in {"request"} \cup Hellos BY DEF Pace
  <2>2. Has(up, {"request"}) \/ Has(up, Hellos) BY <1>3, <2>1 DEF Has
  <2> QED BY <2>2 DEF StreamInv, Turns, Later, Fits
<1>5. ObfsOff /\ Base = <<>> BY <1>2, <1>4, FitFacts DEF Pace
<1>6. ~srv.dialled /\ ~srv.first
  BY DEF StreamInv, Oks, Turns
<1>7. ClientSide' BY <1>1, <1>4 DEF ClientSide
<1>8. ServerSide' BY <1>1, <1>5, <1>6 DEF ServerSide
<1>9. Pace' BY <1>1, <1>4 DEF Pace, Asked
<1>10. ObfsTurn' BY <1>4 DEF ObfsTurn
<1>11. HelloTurn'
  <2>1. SUFFICES ASSUME cli.pc = "hello" PROVE HelloTurn' BY DEF HelloTurn
  <2>2. ClientProtocol \in Hellos BY <2>1 DEF ClientSide
  <2>3. ~srv'.first BY <2>2 DEF PlainFirst, Hellos
  <2>4. up[1] = Unit(ClientProtocol, 0, Base) BY <2>1 DEF HelloTurn, ServerSide
  <2>5. Unit(ClientProtocol', 0, Base') = Unit(ClientProtocol, 0, Base) BY <1>1
  <2>6. down' = <<>> BY DEF Pace
  <2>7. srv'.lost \/ (up' # <<>> /\ up'[1] = Unit(ClientProtocol', 0, Base'))
    BY <2>3, <2>4, <2>5
  <2> QED BY <2>6, <2>7 DEF HelloTurn
<1>12. RequestTurn' BY <1>1, <1>6 DEF RequestTurn, Requests, ServerSide
<1> QED BY <1>7, <1>8, <1>9, <1>10, <1>11, <1>12

LEMMA PairNode ==
    ASSUME StreamInv, Fits, Pair,
           \/ ServerStep \/ ServerDeadline \/ DialTarget \/ DialFails
           \/ CopyUp \/ CopyUpEOF \/ CopyDown \/ TargetEOF \/ TargetError
    PROVE  Pair'
<1> USE DEF Pair
<1>s. UNCHANGED <<setup, cli>>
  BY DEF ServerStep, PeekObfs, PeekRequest, PeekLine, PeekBinary, ServerHello, AwaitHello,
         ServerCipher, ServerPlain, VlessHello, VmessHello, ReadRequest, ServerEOF, RelayReturns,
         ServerDeadline, DialTarget, DialFails, CopyUp, CopyUpEOF, CopyDown, TargetEOF, TargetError
<1>1. /\ (ObfsOff' <=> ObfsOff) /\ (PlainFirst' <=> PlainFirst)
      /\ ClientProtocol' = ClientProtocol /\ Base' = Base /\ Full' = Full /\ Extra' = Extra
  BY <1>s, SetupFixed
<1>2. /\ DOMAIN srv = {"pc", "layers", "agreed", "first", "prefixed", "deadline", "dialled",
                       "copyUp", "copyDown", "lost"}
      /\ srv.first \in BOOLEAN /\ cli.pc \in ClientPlaces
      /\ Wire(up) /\ Wire(down) /\ setup \in Setups /\ Compatible
      /\ Len(up) \in Nat /\ (up = <<>> <=> Len(up) = 0)
      /\ Len(down) \in Nat /\ (down = <<>> <=> Len(down) = 0)
  BY WireFacts DEF StreamInv, Shape, Wires, Fits
<1>3. /\ ClientProtocol \in {"plain"} \cup Hellos \cup Ciphers
      /\ ClientProtocol \in Hellos => setup.snap = ClientProtocol /\ setup.ctok = setup.stok
      /\ ObfsOff => Base = <<>>
      /\ ~ObfsOff => /\ ParseObfsLine(setup.cobfs) /\ Base = ObfsLayers(Agreed)
      /\ Extra = IF ObfsOff THEN ObfsLayers(setup.sobfs) ELSE <<>>
      /\ Wire(Base) /\ Wire(Full) /\ Framing(Full \o Extra) = Framing(Full)
      /\ ClientProtocol \in Ciphers => Framing(Full) # {}
      /\ ClientProtocol \notin Ciphers => Full = Base
  BY <1>2, FitFacts
<1>4. up # <<>> => Head(up) = up[1] /\ 1 \in 1..Len(up) BY <1>2, TailFacts
<1>5. ASSUME NEW layers, NEW k \in Chunks(up, layers), up # <<>> PROVE k \in 1..Len(up)
  BY <1>2, <1>5, ChunkFacts
<1>6. ASSUME NEW k \in 1..Len(up), up' = Rest(up, k) PROVE Requests
  <2>1. Len(up') = Len(up) - k /\ \A i \in 1..(Len(up) - k) : up'[i] = up[i + k]
    BY <1>2, <1>6, RestFacts
  <2>2. \A i \in 1..Len(up') : i \in 1..(Len(up) - k) /\ i + k \in 1..Len(up) BY <1>2, <2>1
  <2> QED BY <2>1, <2>2 DEF Requests
<1>7. ASSUME NEW k \in 1..Len(up), NEW x, up' = <<x>> \o Rest(up, k), x = up[1] \/ x.what # "request"
      PROVE  Requests /\ up' # <<>> /\ up'[1] = x /\ Wire(up') /\ Len(up') = Len(up) - k + 1
  <2> DEFINE w == Rest(up, k)
  <2>1. /\ Wire(w) /\ Len(w) = Len(up) - k
        /\ \A i \in 1..(Len(up) - k) : w[i] = up[i + k]
    BY <1>2, <1>7, RestFacts
  <2> HIDE DEF w
  <2>2. /\ Wire(<<x>> \o w) /\ Len(<<x>> \o w) = Len(w) + 1 /\ (<<x>> \o w)[1] = x
        /\ \A i \in 2..(Len(w) + 1) : (<<x>> \o w)[i] = w[i - 1]
    BY <2>1, ConsFacts
  <2>3. up' = <<x>> \o w BY <1>7 DEF w
  <2>4. /\ Wire(up') /\ Len(up') = Len(w) + 1 /\ up'[1] = x
        /\ \A i \in 2..(Len(w) + 1) : up'[i] = w[i - 1]
    BY <2>2, <2>3
  <2>5. \A i \in 1..Len(up') : \/ i = 1
                               \/ /\ i \in 2..(Len(w) + 1) /\ i - 1 \in 1..(Len(up) - k)
                                  /\ i - 1 + k \in 1..Len(up)
    BY <1>2, <2>1, <2>4
  <2>6. up' = <<>> <=> Len(up') = 0 BY <2>4, WireFacts
  <2>7. Len(up') # 0 /\ Len(up') = Len(up) - k + 1 /\ 1 \in 1..Len(up) BY <1>2, <2>1, <2>4
  <2> QED BY <1>7, <2>1, <2>4, <2>5, <2>6, <2>7 DEF Requests
<1>8. ASSUME UNCHANGED up PROVE Requests BY <1>8 DEF Requests
<1>9. ASSUME up # <<>>, up' = Tail(up) PROVE Requests
  <2>1. Len(up') = Len(up) - 1 /\ \A i \in 1..(Len(up) - 1) : up'[i] = up[i + 1]
    BY <1>2, <1>9, TailFacts
  <2>2. \A i \in 1..Len(up') : i \in 1..(Len(up) - 1) /\ i + 1 \in 1..Len(up) BY <1>2, <2>1
  <2> QED BY <2>1, <2>2 DEF Requests
<1>10. ASSUME ServerDone
       PROVE  srv'.pc = "done" /\ srv'.dialled = srv.dialled /\ srv'.layers = srv.layers
  BY <1>2, <1>10 DEF ServerDone
<1>11. CASE PeekObfs
  <2>1. PICK k \in Chunks(up, <<>>) :
          /\ up' = Rest(up, k)
          /\ LET s == [srv EXCEPT !.pc = "shake", !.lost = k > 1]
             IN  IF ParseObfsLine(setup.cobfs)
                 THEN Answer("obfs", [s EXCEPT !.agreed = TRUE, !.layers = ObfsLayers(Agreed)])
                 ELSE srv' = s /\ UNCHANGED down
    BY <1>11 DEF PeekObfs
  <2>2. srv.pc = "peek" /\ up # <<>> /\ up[1].what = "obfs" BY <1>4, <1>11 DEF PeekObfs
  <2>3. cli.pc = "obfs" /\ ~ObfsOff
    <3>1. Has(up, {"obfs"}) BY <1>4, <2>2 DEF Has
    <3> QED BY <3>1 DEF StreamInv, Turns, Fits, ClientSide
  <2>4. Len(up) = 1 /\ Len(down) = 0 /\ k = 1
    <3>1. Len(up) + Len(down) <= 1 BY <2>3 DEF StreamInv, Turns
    <3>2. k \in 1..Len(up) BY <1>5, <2>1, <2>2
    <3>3. Len(up) \in Nat /\ Len(down) \in Nat BY <1>2
    <3> HIDE DEF Pair
    <3> QED BY <3>1, <3>2, <3>3
  <2>5. up' = <<>> /\ Len(up') = 0
    <3>1. Wire(up') /\ Len(up') = Len(up) - k BY <1>2, <1>5, <2>1, <2>2, RestFacts
    <3> QED BY <2>4, <3>1, WireFacts
  <2> DEFINE u == Unit("obfs", 0, srv.layers)
             s == [srv EXCEPT !.pc = "shake", !.lost = k > 1]
  <2>6. down' = Append(down, u) /\ srv' = [s EXCEPT !.agreed = TRUE, !.layers = ObfsLayers(Agreed)]
    BY <1>3, <2>1, <2>3 DEF Answer, ClientGone
  <2>7. /\ srv'.pc = "shake" /\ srv'.agreed /\ srv'.layers = Base /\ srv'.dialled = srv.dialled
        /\ srv'.first = srv.first
    BY <1>2, <1>3, <2>3, <2>6
  <2>8. u.what = "obfs" BY DEF Unit
  <2> HIDE DEF u, s
  <2>9. down' # <<>> /\ Len(down') = 1 /\ down'[1] = u
    <3>1. Wire(down') /\ Len(down') = Len(down) + 1 /\ down'[Len(down) + 1] = u
      BY <1>2, <2>6, AppendFacts
    <3>2. Len(down) + 1 = 1 BY <2>4
    <3> QED BY <3>1, <3>2, WireFacts
  <2>10. ~srv.first /\ ~srv.dialled /\ ~PlainFirst
    BY <2>2, <2>3 DEF StreamInv, Turns, Oks, PlainFirst
  <2>11. ClientSide' BY <1>s, <1>1, <2>3 DEF ClientSide
  <2>12. ServerSide' BY <1>1, <2>3, <2>7, <2>10 DEF ServerSide
  <2>13. Pace' BY <1>s, <1>1, <2>3, <2>7 DEF Pace, Asked
  <2>14. ObfsTurn'
    <3>1. \A i \in 1..Len(down') : down'[i].what = "obfs" BY <2>8, <2>9
    <3> QED BY <2>5, <2>7, <2>9, <3>1 DEF ObfsTurn
  <2>15. HelloTurn' BY <1>s, <2>3 DEF HelloTurn
  <2>16. RequestTurn' BY <1>s, <2>3, <2>5 DEF RequestTurn
  <2> QED BY <2>11, <2>12, <2>13, <2>14, <2>15, <2>16
<1>12. CASE PeekRequest
  <2>1. PICK k \in Chunks(up, <<>>) :
          /\ up' = Rest(up, k)
          /\ srv' = [srv EXCEPT !.pc = "shake", !.first = TRUE, !.lost = k > 1]
    BY <1>12 DEF PeekRequest
  <2>2. /\ srv.pc = "peek" /\ up # <<>> /\ up[1].what = "request" /\ up[1].enc = {} /\ down' = down
    BY <1>4, <1>12 DEF PeekRequest, IsText
  <2>3. PlainFirst
    <3>1. Has(up, {"request"}) BY <1>4, <2>2 DEF Has
    <3>2. cli.pc \in {"reply", "tunnel", "closed"} BY <3>1 DEF StreamInv, Turns, Later, Fits
    <3>3. ObfsOff /\ ClientProtocol \notin Hellos BY <2>2, <3>2 DEF Pace, Asked
    <3>4. Framing(Full) = {} BY <1>4, <2>2 DEF RequestTurn
    <3> QED BY <1>3, <3>3, <3>4 DEF PlainFirst
  <2>4. Requests BY <1>5, <1>6, <2>1, <2>2
  <2>5. /\ srv'.pc = "shake" /\ srv'.first /\ srv'.layers = srv.layers
        /\ srv'.agreed = srv.agreed /\ srv'.dialled = srv.dialled
    BY <1>2, <2>1
  <2> QED BY <1>s, <2>2, <2>3, <2>4, <2>5, NodePeeks
<1>13. CASE PeekLine
  <2>1. PICK k \in Chunks(up, <<>>) :
          /\ up' = <<Head(up)>> \o Rest(up, k)
          /\ srv' = [srv EXCEPT !.pc = "shake", !.prefixed = TRUE, !.lost = k > 1]
    BY <1>13 DEF PeekLine
  <2>2. /\ srv.pc = "peek" /\ up # <<>> /\ up[1].what \in Hellos /\ down' = down
    BY <1>4, <1>13 DEF PeekLine, IsText, Hellos
  <2>3. cli.pc = "hello" /\ ~PlainFirst
    <3>1. Has(up, Hellos) BY <1>4, <2>2 DEF Has
    <3>2. cli.pc = "hello" BY <3>1 DEF StreamInv, Turns, Fits
    <3>3. ClientProtocol \in Hellos BY <3>2 DEF ClientSide
    <3> QED BY <3>2, <3>3 DEF PlainFirst, Hellos
  <2>4. Requests /\ up' # <<>> /\ up'[1] = up[1] BY <1>4, <1>5, <1>7, <2>1, <2>2
  <2>5. /\ srv'.pc = "shake" /\ srv'.first = srv.first /\ srv'.layers = srv.layers
        /\ srv'.agreed = srv.agreed /\ srv'.dialled = srv.dialled
    BY <1>2, <2>1
  <2>6. ~srv.first BY <2>2 DEF StreamInv, Turns
  <2>7. ~Has(up, {"request"}) BY <2>3 DEF StreamInv, Turns, Later
  <2> QED BY <1>s, <2>2, <2>3, <2>4, <2>5, <2>6, <2>7, NodePeeks DEF Hellos
<1>14. CASE PeekBinary
  <2>1. /\ srv.pc = "peek" /\ up # <<>> /\ up[1].what # "obfs" /\ down' = down
        /\ ~IsText(up[1])
    BY <1>4, <1>14 DEF PeekBinary
  <2>2. ~PlainFirst
    <3>1. up[1].what \in {"request"} \cup Hellos BY <2>1 DEF Pace
    <3>2. CASE up[1].what \in Hellos
      <4>1. Has(up, Hellos) BY <1>4, <2>1, <3>2 DEF Has
      <4>2. cli.pc = "hello" BY <4>1 DEF StreamInv, Turns, Fits
      <4> QED BY <4>2 DEF ClientSide, PlainFirst, Hellos
    <3>3. CASE up[1].what = "request"
      <4>1. up[1].enc # {} BY <2>1, <3>3 DEF IsText
      <4>2. Framing(Full) # {} BY <1>4, <2>1, <3>3, <4>1 DEF RequestTurn
      <4>3. PlainFirst => Full = <<>> BY <1>3 DEF PlainFirst, Ciphers
      <4> QED BY <4>2, <4>3, FramingFacts
    <3> QED BY <3>1, <3>2, <3>3
  <2>3. ~srv.first BY <2>1 DEF StreamInv, Turns
  <2>4. CASE up' = up /\ srv' = [srv EXCEPT !.pc = "shake", !.prefixed = TRUE]
    <3>1. /\ srv'.pc = "shake" /\ srv'.first = srv.first /\ srv'.layers = srv.layers
          /\ srv'.agreed = srv.agreed /\ srv'.dialled = srv.dialled
      BY <1>2, <2>4
    <3>2. Has(up, {"request"}) => Has(up, {"request"})' BY <2>4 DEF Has
    <3> QED BY <1>s, <1>8, <2>1, <2>2, <2>3, <2>4, <3>1, <3>2, NodePeeks
  <2>5. ASSUME NEW k \in 1..Len(up), up' = <<Torn>> \o Rest(up, k),
               srv' = [srv EXCEPT !.pc = "shake", !.prefixed = TRUE, !.lost = TRUE]
        PROVE  Pair'
    <3>1. Torn.what # "request" BY DEF Torn
    <3>2. Requests BY <1>7, <2>5, <3>1
    <3>3. /\ srv'.pc = "shake" /\ srv'.first = srv.first /\ srv'.layers = srv.layers /\ srv'.lost
          /\ srv'.agreed = srv.agreed /\ srv'.dialled = srv.dialled
      BY <1>2, <2>5
    <3> QED BY <1>s, <2>1, <2>2, <2>3, <3>2, <3>3, NodePeeks
  <2> QED BY <1>14, <2>4, <2>5 DEF PeekBinary
<1>15. CASE ServerHello
  <2>1. /\ srv.pc = "shake" /\ UNCHANGED <<up, down>> /\ ServerProtocol \in Hellos
        /\ srv'.pc = "hello" /\ srv'.first = srv.first /\ srv'.layers = srv.layers
        /\ srv'.agreed = srv.agreed /\ srv'.dialled = srv.dialled /\ srv'.lost = srv.lost
    BY <1>2, <1>15 DEF ServerHello, AwaitHello, Hellos
  <2>2. ServerProtocol = ClientProtocol BY <1>2, <2>1, SameProtocol DEF ServerSide
  <2>3. ClientProtocol \in Hellos BY <2>1, <2>2
  <2>4. ClientSide' BY <1>s, <1>1, <2>1 DEF ClientSide
  <2>5. ServerSide' BY <1>1, <2>1, <2>3 DEF ServerSide
  <2>6. Pace' BY <1>s, <1>1, <2>1, <2>3 DEF Pace, Asked
  <2>7. ObfsTurn' BY <1>s, <2>1 DEF ObfsTurn
  <2>8. HelloTurn'
    <3>1. Unit(ClientProtocol', 0, Base') = Unit(ClientProtocol, 0, Base) BY <1>1
    <3> QED BY <1>s, <2>1, <3>1 DEF HelloTurn
  <2>9. RequestTurn' BY <1>s, <1>1, <2>1 DEF RequestTurn
  <2> QED BY <2>4, <2>5, <2>6, <2>7, <2>8, <2>9
<1>16. CASE ServerCipher \/ ServerPlain
  <2>1. srv.pc = "shake" /\ UNCHANGED <<up, down>> BY <1>16 DEF ServerCipher, ServerPlain
  <2>2. /\ ServerProtocol = ClientProtocol
        /\ ClientProtocol \in Ciphers =>
             Layer(ClientProtocol, setup.ctok)
               = Layer(ServerProtocol, IF ServerProtocol = "hysteria2" THEN NoToken ELSE setup.stok)
        /\ srv.layers = Base /\ (srv.agreed <=> ~ObfsOff) /\ (srv.first <=> PlainFirst)
    BY <1>2, <2>1, SameProtocol DEF ServerSide
  <2>3. /\ srv'.pc = (IF srv.first THEN "dial" ELSE "read") /\ srv'.first = srv.first
        /\ srv'.layers = Full \o Extra /\ srv'.lost = srv.lost /\ srv'.dialled = srv.dialled
        /\ ClientProtocol \notin Hellos
    <3>1. CASE ServerCipher
      <4> DEFINE l == Layer(ClientProtocol, setup.ctok)
                 s == [srv EXCEPT !.layers = Append(srv.layers, l)]
      <4>1. ClientProtocol \in Ciphers BY <2>2, <3>1 DEF ServerCipher, Ciphers
      <4>2. srv' = Wrapped(s) BY <2>2, <3>1, <4>1 DEF ServerCipher
      <4>3. Full = Append(Base, l) BY <4>1 DEF Full
      <4> HIDE DEF l
      <4>4. /\ s.layers = Full /\ s.agreed = srv.agreed /\ s.first = srv.first
            /\ s.lost = srv.lost /\ s.dialled = srv.dialled /\ DOMAIN s = DOMAIN srv
        BY <1>2, <2>2, <4>3
      <4> HIDE DEF s
      <4>5. /\ srv'.pc = (IF s.first THEN "dial" ELSE "read") /\ srv'.first = s.first
            /\ srv'.layers = s.layers \o (IF s.agreed THEN <<>> ELSE ObfsLayers(setup.sobfs))
            /\ srv'.lost = s.lost /\ srv'.dialled = s.dialled
        BY <1>2, <4>2, <4>4 DEF Wrapped
      <4> QED BY <1>3, <2>2, <4>1, <4>4, <4>5 DEF Ciphers, Hellos
    <3>2. CASE ServerPlain
      <4>1. ClientProtocol = "plain" /\ Full = Base /\ srv' = Wrapped(srv)
        BY <1>3, <2>2, <3>2 DEF ServerPlain, Ciphers
      <4>2. /\ srv'.pc = (IF srv.first THEN "dial" ELSE "read") /\ srv'.first = srv.first
            /\ srv'.layers = srv.layers \o (IF srv.agreed THEN <<>> ELSE ObfsLayers(setup.sobfs))
            /\ srv'.lost = srv.lost /\ srv'.dialled = srv.dialled
        BY <1>2, <4>1 DEF Wrapped
      <4> QED BY <1>3, <2>2, <4>1, <4>2 DEF Hellos
    <3> QED BY <1>16, <3>1, <3>2
  <2>4. srv.first => ObfsOff BY <2>2 DEF PlainFirst
  <2>5. ClientSide' BY <1>s, <1>1, <2>1, <2>3 DEF ClientSide
  <2>6. ServerSide' BY <1>1, <2>3 DEF ServerSide
  <2>7. Pace' BY <1>s, <1>1, <2>1, <2>3 DEF Pace, Asked
  <2>8. ObfsTurn' BY <1>s, <2>1, <2>3, <2>4 DEF ObfsTurn, ClientSide
  <2>9. HelloTurn' BY <1>s, <2>3 DEF HelloTurn, ClientSide
  <2>10. RequestTurn' BY <1>s, <1>1, <2>1, <2>3 DEF RequestTurn
  <2> QED BY <2>5, <2>6, <2>7, <2>8, <2>9, <2>10
<1>17. CASE VlessHello \/ VmessHello
  <2>1. PICK k \in Chunks(up, srv.layers) : up' = Rest(up, k)
    BY <1>17 DEF VlessHello, VmessHello
  <2>2. srv.pc = "hello" /\ up # <<>> BY <1>17 DEF VlessHello, VmessHello
  <2>3. /\ ClientProtocol \in Hellos /\ ClientProtocol \notin Ciphers /\ srv.layers = Base
        /\ (srv.agreed <=> ~ObfsOff) /\ ~srv.first
    BY <2>2 DEF ServerSide, Hellos, Ciphers, PlainFirst
  <2>4. cli.pc = "hello"
    <3>1. cli.pc \notin Asked BY <2>2, <2>3 DEF Pace
    <3>2. cli.pc # "obfs" BY <2>2 DEF ObfsTurn
    <3>3. cli.pc \notin {"start", "shake"} BY <2>2 DEF StreamInv, Turns
    <3> QED BY <1>2, <3>1, <3>2, <3>3 DEF ClientPlaces, Later, Asked, Fits
  <2>5. Requests BY <1>5, <1>6, <2>1, <2>2
  <2>6. \/ ServerDone
        \/ srv' = [srv EXCEPT !.pc = "done"]
        \/ srv' = srv /\ down' = down /\ ~ValidHello
        \/ /\ srv' = Wrapped(srv)
           /\ \E what \in {"ok", "granted"} : down' = Append(down, Unit(what, 0, srv.layers))
    <3>1. CASE VlessHello
      <4>1. ~(Readable(Head(up), srv.layers) /\ Head(up).what \in {"vless", "request"}) => ~ValidHello
        BY <3>1 DEF ValidHello, VlessHello
      <4> QED BY <3>1, <4>1 DEF VlessHello, Answer
    <3>2. CASE VmessHello BY <3>2 DEF VmessHello, Answer
    <3> QED BY <1>17, <3>1, <3>2
  <2>7. CASE ServerDone \/ srv' = [srv EXCEPT !.pc = "done"]
    <3>1. srv'.pc = "done" /\ srv'.layers = srv.layers /\ srv'.dialled = srv.dialled
      BY <1>2, <1>10, <2>7
    <3> QED BY <1>s, <2>2, <2>4, <2>5, <3>1, NodeEnds
  <2>8. CASE srv' = srv /\ down' = down /\ ~ValidHello
    <3>1. srv.lost
      <4>1. SUFFICES ASSUME ~srv.lost PROVE FALSE OBVIOUS
      <4>2. up[1] = Unit(ClientProtocol, 0, Base) BY <2>2, <2>4, <4>1 DEF HelloTurn
      <4>3. up[1].what = ClientProtocol /\ up[1].enc = Framing(Base) BY <4>2, UnitFacts
      <4>4. Readable(up[1], srv.layers) BY <2>3, <4>3 DEF Readable, Hellos
      <4> QED BY <1>3, <1>4, <2>2, <2>3, <2>8, <4>3, <4>4 DEF ValidHello
    <3>2. ClientSide' BY <1>s, <1>1, <2>4 DEF ClientSide
    <3>3. ServerSide' BY <1>1, <2>8 DEF ServerSide
    <3>4. Pace' BY <1>s, <1>1, <2>2, <2>4, <2>8 DEF Pace, Asked
    <3>5. ObfsTurn' BY <1>s, <2>4 DEF ObfsTurn
    <3>6. HelloTurn' BY <1>s, <2>2, <2>4, <2>8, <3>1 DEF HelloTurn
    <3>7. RequestTurn' BY <1>s, <1>1, <2>4, <2>5 DEF RequestTurn, Requests
    <3> QED BY <3>2, <3>3, <3>4, <3>5, <3>6, <3>7
  <2>9. ASSUME NEW what \in {"ok", "granted"}, srv' = Wrapped(srv),
               down' = Append(down, Unit(what, 0, srv.layers))
        PROVE  Pair'
    <3> DEFINE u == Unit(what, 0, srv.layers)
    <3>1. Readable(u, Base) BY <2>3, UnitFacts DEF Readable
    <3>2. down' = Append(down, u) BY <2>9
    <3> HIDE DEF u
    <3>3. /\ srv'.pc = "read" /\ srv'.first = srv.first /\ srv'.lost = srv.lost
          /\ srv'.layers = srv.layers \o (IF srv.agreed THEN <<>> ELSE ObfsLayers(setup.sobfs))
          /\ srv'.dialled = srv.dialled
      BY <1>2, <2>3, <2>9 DEF Wrapped
    <3>4. srv'.layers = Full \o Extra BY <1>3, <2>3, <3>3
    <3>5. Len(down) = 0
      <4>1. Len(up) + Len(down) <= 1 BY <2>4 DEF StreamInv, Turns
      <4> QED BY <1>2, <2>2, <4>1
    <3>6. down' # <<>> /\ down'[1] = u
      <4>1. Wire(down') /\ Len(down') = Len(down) + 1 /\ down'[Len(down) + 1] = u
        BY <1>2, <3>2, AppendFacts
      <4>2. Len(down) + 1 = 1 BY <3>5
      <4> QED BY <4>1, <4>2, WireFacts
    <3>7. ClientSide' BY <1>s, <1>1, <2>4 DEF ClientSide
    <3>8. ServerSide' BY <1>1, <3>3, <3>4 DEF ServerSide
    <3>9. Pace' BY <1>s, <1>1, <2>4, <3>3 DEF Pace, Asked
    <3>10. ObfsTurn' BY <1>s, <2>4 DEF ObfsTurn
    <3>11. HelloTurn'
      <4>1. Readable(down'[1], Base') BY <1>1, <3>1, <3>6
      <4> QED BY <3>3, <3>6, <4>1 DEF HelloTurn, Readable
    <3>12. RequestTurn' BY <1>s, <1>1, <2>4, <2>5 DEF RequestTurn, Requests
    <3> QED BY <3>7, <3>8, <3>9, <3>10, <3>11, <3>12
  <2> QED BY <2>6, <2>7, <2>8, <2>9
<1>18. CASE ReadRequest
  <2>1. srv.pc = "read" /\ up # <<>> BY <1>18 DEF ReadRequest
  <2>2. cli.pc \in {"reply", "tunnel", "closed"}
    <3>1. cli.pc \notin {"start", "shake", "request"} BY <2>1 DEF StreamInv, Turns
    <3>2. cli.pc # "obfs" BY <2>1 DEF ObfsTurn
    <3>3. cli.pc # "hello"
      <4>1. cli.pc = "hello" => Len(up) + Len(down) <= 1 /\ down # <<>>
        BY <2>1 DEF StreamInv, Turns, HelloTurn
      <4> QED BY <1>2, <2>1, <4>1
    <3> QED BY <1>2, <3>1, <3>2, <3>3 DEF ClientPlaces, Later, Fits
  <2>3. srv.layers = Full \o Extra /\ Framing(srv.layers) = Framing(Full)
    BY <1>3, <2>1 DEF ServerSide
  <2>4. CASE ParseRequest(Head(up))
    <3>1. srv' = [srv EXCEPT !.pc = "dial"] /\ down' = down
      BY <1>18, <2>4 DEF ReadRequest
    <3>2. srv'.pc = "dial" /\ srv'.layers = srv.layers BY <1>2, <3>1
    <3>3. Requests
      <4>1. PICK p \in Padding(srv.layers) :
              up' = (IF p = <<>> THEN <<>> ELSE <<Unit("junk", 0, srv.layers)>>) \o Tail(up)
        BY <1>18, <2>4 DEF ReadRequest
      <4>2. PICK S : Tail(up) \in Seq(S) BY <1>2, <2>1, TailFacts DEF Wire
      <4>3. CASE p = <<>>
        <5>1. <<>> \o Tail(up) = Tail(up) BY <4>2
        <5> QED BY <1>9, <2>1, <4>1, <4>3, <5>1
      <4>4. CASE p # <<>>
        <5> DEFINE x == Unit("junk", 0, srv.layers)
        <5>1. x.what # "request" BY DEF Unit
        <5>2. Tail(up) = Rest(up, 1)
          <6>1. PICK T : up \in Seq(T) BY <1>2 DEF Wire
          <6> QED BY <2>1, <6>1 DEF Rest
        <5>3. up' = <<x>> \o Rest(up, 1) BY <4>1, <4>4, <5>2
        <5> HIDE DEF x
        <5> QED BY <1>4, <1>7, <2>1, <5>1, <5>3
      <4> QED BY <4>3, <4>4
    <3> QED BY <1>s, <2>1, <2>2, <3>1, <3>2, <3>3, NodeServes
  <2>5. CASE ~ParseRequest(Head(up))
    <3>1. up' = Tail(up) BY <1>18, <2>5 DEF ReadRequest
    <3>2. Requests BY <1>9, <2>1, <3>1
    <3>3. \/ ServerDone \/ srv' = [srv EXCEPT !.pc = "done"]
          \/ srv' = srv /\ down' = down
      BY <1>18, <2>5 DEF ReadRequest, Answer
    <3>4. CASE ServerDone \/ srv' = [srv EXCEPT !.pc = "done"]
      <4>1. srv'.pc = "done" /\ srv'.layers = srv.layers /\ srv'.dialled = srv.dialled
        BY <1>2, <1>10, <3>4
      <4> QED BY <1>s, <2>1, <2>2, <3>2, <4>1, NodeEnds
    <3>5. CASE srv' = srv /\ down' = down
      <4>1. ~Has(up, {"request"})
        <5>1. SUFFICES ASSUME NEW i \in 1..Len(up), up[i].what = "request" PROVE FALSE BY DEF Has
        <5>2. i = 1 BY <5>1 DEF StreamInv, UpUnits
        <5>3. up[1].what = "request" /\ up[1].enc = Framing(srv.layers)
          BY <2>3, <5>1, <5>2 DEF RequestTurn
        <5> QED BY <1>4, <2>1, <2>5, <5>3 DEF ParseRequest, Readable
      <4>2. cli.pc = "reply" => srv.first \/ srv.lost BY <2>1, <4>1 DEF RequestTurn
      <4>3. ClientSide' BY <1>s, <1>1, <2>2 DEF ClientSide
      <4>4. ServerSide' BY <1>1, <3>5 DEF ServerSide
      <4>5. Pace' BY <1>s, <1>1, <2>1, <2>2, <3>5 DEF Pace, Asked
      <4>6. ObfsTurn' /\ HelloTurn' BY <1>s, <2>2 DEF ObfsTurn, HelloTurn
      <4>7. RequestTurn' BY <1>s, <1>1, <3>2, <3>5, <4>2 DEF RequestTurn, Requests
      <4> QED BY <4>3, <4>4, <4>5, <4>6, <4>7
    <3> QED BY <3>3, <3>4, <3>5
  <2> QED BY <2>4, <2>5
<1>19. CASE ServerEOF \/ (ServerDeadline /\ srv.pc # "relay") \/ RelayReturns
  <2>1. ServerDone /\ UNCHANGED <<up, down>> BY <1>19 DEF ServerEOF, ServerDeadline, RelayReturns
  <2>2. srv.pc = "peek" => cli.pc = "closed"
    BY <1>19 DEF ServerEOF, ServerDeadline, RelayReturns, ClientGone, Fits
  <2> QED BY <1>s, <1>8, <1>10, <2>1, <2>2, NodeEnds
<1>20. srv.pc \in {"dial", "relay"} => cli.pc \in {"reply", "tunnel", "closed"}
  BY DEF StreamInv, Turns, Later, Fits
<1>21. CASE DialTarget \/ DialFails
  <2>1. srv.pc = "dial" /\ UNCHANGED up BY <1>21 DEF DialTarget, DialFails
  <2>2. ServerDone \/ srv' = [srv EXCEPT !.pc = "done"] \/ srv' = Relaying(srv)
    BY <1>21 DEF DialTarget, DialFails, Answer
  <2>3. CASE ServerDone \/ srv' = [srv EXCEPT !.pc = "done"]
    <3>1. srv'.pc = "done" /\ srv'.layers = srv.layers /\ srv'.dialled = srv.dialled
      BY <1>2, <1>10, <2>3
    <3> QED BY <1>s, <1>8, <1>20, <2>1, <3>1, NodeEnds
  <2>4. CASE srv' = Relaying(srv)
    <3>1. srv'.pc = "relay" /\ srv'.layers = srv.layers BY <1>2, <2>4 DEF Relaying
    <3> QED BY <1>s, <1>8, <1>20, <2>1, <3>1, NodeServes
  <2> QED BY <2>2, <2>3, <2>4
<1>22. CASE CopyUp \/ CopyUpEOF \/ CopyDown \/ TargetEOF \/ TargetError
  <2>1. srv.pc = "relay" BY <1>22 DEF CopyUp, CopyUpEOF, CopyDown, TargetEOF, TargetError
  <2>2. \/ srv' = srv
        \/ srv' = [srv EXCEPT !.copyUp = FALSE]
        \/ srv' = [srv EXCEPT !.copyDown = FALSE]
        \/ srv' = [srv EXCEPT !.copyUp = FALSE, !.copyDown = FALSE]
    BY <1>22 DEF CopyUp, CopyUpEOF, CopyDown, TargetEOF, TargetError, CopyError
  <2>3. srv'.pc = "relay" /\ srv'.layers = srv.layers BY <1>2, <2>1, <2>2
  <2>4. Requests
    <3>1. up' = up \/ (up # <<>> /\ up' = Tail(up))
      BY <1>22 DEF CopyUp, CopyUpEOF, CopyDown, TargetEOF, TargetError
    <3> QED BY <1>8, <1>9, <3>1
  <2> QED BY <1>s, <1>20, <2>1, <2>3, <2>4, NodeServes
<1> QED
  BY <1>11, <1>12, <1>13, <1>14, <1>15, <1>16, <1>17, <1>18, <1>19, <1>21, <1>22,
     DeadlineInRelay
  DEF ServerStep

-----------------------------------------------------------------------------
(* What the caller is given.                                               *)
Given == Giving /\ (Compatible /\ srv.dialled /\ cli.pc \in {"reply", "tunnel"} => Tape)

(* Nothing arrives, nothing is given.                                      *)
LEMMA GivenQuiet ==
    ASSUME StreamInv, Given, UNCHANGED <<setup, sent, got, gap>>, srv'.dialled = srv.dialled,
           srv'.pc = "relay" => srv.dialled,
           cli.pc \in {"tunnel", "closed"} => /\ cli'.pc \in {"tunnel", "closed"}
                                              /\ cli'.layers = cli.layers,
           srv.pc \in {"relay", "done"} => srv'.pc \in {"relay", "done"},
           Compatible /\ srv.dialled /\ cli'.pc \in {"reply", "tunnel"} =>
               cli'.pc = cli.pc /\ down' = down
    PROVE  Given'
<1> USE DEF Given
<1>1. (Compatible' <=> Compatible) /\ Full' = Full BY SetupFixed
<1>2. GotInOrder'
  <2>1. CASE cli.pc \in {"tunnel", "closed"}
    BY <1>1, <2>1 DEF Giving, GotInOrder
  <2>2. CASE cli.pc \notin {"tunnel", "closed"}
    <3>1. got' = <<>> /\ gap' = 0 BY <2>2 DEF Giving
    <3>2. \A i \in 1..Len(<<>>) : FALSE OBVIOUS
    <3> QED BY <3>1, <3>2 DEF GotInOrder, IsRun, StartsAt, HasForeign
  <2> QED BY <2>1, <2>2
<1>3. Giving' BY <1>1, <1>2 DEF Giving
<1>4. ASSUME Compatible', srv'.dialled, cli'.pc \in {"reply", "tunnel"}
      PROVE  Tape'
  <2>1. cli'.pc = cli.pc /\ down' = down /\ Tape BY <1>1, <1>4
  <2> QED BY <1>1, <2>1 DEF Tape
<1> QED BY <1>3, <1>4

(* The wrappers of the two ends match.                                     *)
LEMMA SameFraming ==
    ASSUME StreamInv, Fits => Pair, Compatible, srv.dialled, cli.pc \in {"reply", "tunnel", "closed"}
    PROVE  /\ cli.layers = Full /\ Framing(cli.layers) = Framing(Full)
           /\ Framing(srv.layers) = Framing(Full)
<1>1. setup \in Setups BY DEF StreamInv, Shape
<1>2. ClientSide /\ ServerSide BY DEF Fits, Pair
<1>3. cli.layers = Full /\ srv.layers = Full \o Extra BY <1>2 DEF ClientSide, ServerSide, Asked
<1> QED BY <1>1, <1>3, FitFacts

(* The reply line is read, with what has arrived behind it.                *)
LEMMA GivenOK ==
    ASSUME StreamInv, Fits => Pair, Given, ReplyOK
    PROVE  Given'
<1> USE DEF Given
<1>1. /\ cli.pc = "reply" /\ down # <<>> /\ Head(down).what = "ok"
      /\ UNCHANGED <<setup, srv, sent, got>>
  BY DEF ReplyOK
<1>2. PICK k \in Chunks(down, cli.layers) :
        down' = Rest(down, k) /\ gap' = DataIn(SubSeq(down, 1, k))
  BY DEF ReplyOK
<1>3. /\ Wire(down) /\ Len(down) \in Nat /\ k \in 1..Len(down)
      /\ DOMAIN cli = {"pc", "layers", "agreed", "deadline", "reply"}
  BY <1>1, <1>2, WireFacts, ChunkFacts DEF StreamInv, Wires, Shape
<1>4. cli'.pc = "tunnel" /\ cli'.layers = cli.layers BY <1>3 DEF ReplyOK
<1>5. (Compatible' <=> Compatible) /\ Full' = Full BY <1>1, SetupFixed
<1>6. srv.dialled /\ got = <<>> /\ srv.pc \in {"relay", "done"}
  <2>1. Head(down) = down[1] /\ 1 \in 1..Len(down) BY <1>1, <1>3, TailFacts
  <2> QED BY <1>1, <2>1 DEF Giving, StreamInv, Oks
<1>7. ASSUME Compatible
      PROVE  /\ gap' = k - 1 /\ k \in Nat /\ (gap' > 0 => Framing(cli.layers) = {})
             /\ Tape'
  <2>1. Tape BY <1>1, <1>6, <1>7
  <2>2. gap' = k - 1
    <3> DEFINE w == SubSeq(down, 1, k)
    <3>1. Len(w) = k /\ \A i \in 1..k : w[i] = down[i]
      <4>1. PICK S : down \in Seq(S) BY <1>3 DEF Wire
      <4> QED BY <1>3, <4>1
    <3> HIDE DEF w
    <3>2. \A i \in 1..k : w[i].what = "data" <=> i \in 2..k
      <4>1. \A i \in 1..k : i \in 1..Len(down) /\ (i = 1 \/ i \in 2..k) BY <1>3
      <4> QED BY <1>1, <2>1, <3>1, <4>1 DEF Tape
    <3>3. {i \in 1..Len(w) : w[i].what = "data"} = 2..k
      <4>1. \A i \in 2..k : i \in 1..k OBVIOUS
      <4> QED BY <3>1, <3>2, <4>1
    <3>4. Cardinality(2..k) = k - 1
      <4>1. 2 \in Int /\ k \in Int BY <1>3
      <4>2. Cardinality(2..k) = IF 2 > k THEN 0 ELSE k - 2 + 1 BY <4>1, FS_Interval
      <4> QED BY <1>3, <4>2
    <3> QED BY <1>2, <3>3, <3>4 DEF DataIn, w
  <2>3. k > 1 => Framing(cli.layers) = {}
    <3>1. Framing(cli.layers) # {} => k \in 1..1 BY <1>2 DEF Chunks
    <3> QED BY <3>1
  <2>4. /\ Wire(down') /\ Len(down') = Len(down) - k
        /\ \A i \in 1..(Len(down) - k) : down'[i] = down[i + k]
    BY <1>2, <1>3, RestFacts
  <2>5. sent \in Nat /\ Len(down) = sent + 1 BY <1>1, <2>1 DEF Tape, Giving
  <2>6. ASSUME NEW i \in 1..Len(down')
        PROVE  /\ down'[i].enc = Framing(Full) /\ down'[i].what = "data"
               /\ down'[i].n = sent - (Len(down') - i) /\ down'[i].n > 0
    <3>1. /\ i + k \in 1..Len(down) /\ i + k # 1 /\ down'[i] = down[i + k]
          /\ Len(down) - (i + k) = Len(down') - i
      BY <1>3, <2>4
    <3>2. down[i + k].what = "data" /\ down[i + k].enc = Framing(Full) BY <2>1, <3>1 DEF Tape
    <3>3. down[i + k].n = sent - (Len(down) - (i + k)) /\ down[i + k].n > 0
      BY <2>1, <3>1, <3>2 DEF Tape
    <3> QED BY <3>1, <3>2, <3>3
  <2>7. gap' = sent - Len(down') BY <1>3, <2>2, <2>4, <2>5
  <2>8. \A i \in 1..Len(got') : FALSE BY <1>1, <1>6
  <2>9. Tape' BY <1>1, <1>4, <1>5, <2>6, <2>7, <2>8 DEF Tape
  <2> QED BY <1>3, <2>2, <2>3, <2>9
<1>8. GotInOrder'
  <2>1. \A i \in 1..Len(got') : FALSE BY <1>1, <1>6
  <2> QED BY <1>4, <1>5, <1>7, <2>1 DEF GotInOrder, IsRun, StartsAt, HasForeign
<1>9. Giving' BY <1>1, <1>4, <1>6, <1>8 DEF Giving
<1> QED BY <1>5, <1>7, <1>9

(* A message is given to the caller.                                       *)
LEMMA GivenRead ==
    ASSUME StreamInv, Fits => Pair, Given, CallerRead
    PROVE  Given'
<1> USE DEF Given
<1>1. /\ cli.pc = "tunnel" /\ down # <<>> /\ down' = Tail(down)
      /\ UNCHANGED <<setup, srv, sent, gap>>
  BY DEF CallerRead
<1>2. /\ Wire(down') /\ Len(down') = Len(down) - 1 /\ Head(down) = down[1] /\ Len(down) \in Nat \ {0}
      /\ \A i \in 1..(Len(down) - 1) : down'[i] = down[i + 1]
      /\ DOMAIN cli = {"pc", "layers", "agreed", "deadline", "reply"}
  BY <1>1, TailFacts DEF StreamInv, Wires, Shape
<1>3. (Compatible' <=> Compatible) /\ Full' = Full BY <1>1, SetupFixed
<1>4. cli'.pc \in {"tunnel", "closed"} /\ cli'.layers = cli.layers
  <2>1. cli' = cli \/ cli' = [cli EXCEPT !.pc = "closed"] BY DEF CallerRead
  <2> QED BY <1>1, <1>2, <2>1
<1>5. \/ got' = got \/ got' = Append(got, 0)
      \/ \E p \in Padding(cli.layers) : got' = got \o <<Head(down).n>> \o p
  BY DEF CallerRead
<1>6. Wire(got')
  <2>1. Wire(got) BY DEF Giving
  <2>2. Wire(Append(got, 0)) BY <2>1, AppendFacts
  <2>3. ASSUME NEW p \in Padding(cli.layers), got' = got \o <<Head(down).n>> \o p
        PROVE  Wire(got')
    <3>1. p \in {<<>>, <<0>>} BY DEF Padding
    <3>2. Longer(got', got, Head(down).n, p) BY <2>3, <3>1 DEF Longer
    <3> QED BY <2>1, <3>2, TapeFacts
  <2> QED BY <1>5, <2>1, <2>2, <2>3
<1>7. Compatible => srv.pc \in {"relay", "done"} BY <1>1 DEF Fits, Pair, Pace
<1>8. CASE ~(Compatible /\ srv.dialled)
  <2>1. GotInOrder' BY <1>1, <1>3, <1>8 DEF GotInOrder
  <2>2. Giving' BY <1>1, <1>3, <1>4, <1>6, <1>7, <2>1 DEF Giving
  <2> QED BY <1>1, <1>3, <1>8, <2>2
<1>9. CASE Compatible /\ srv.dialled
  <2>1. Tape /\ cli.layers = Full BY <1>1, <1>9, SameFraming
  <2>2. 1 \in 1..Len(down) /\ sent \in Nat BY <1>2 DEF Giving
  <2> DEFINE n == down[1].n
  <2>3. /\ down[1].enc = Framing(Full) /\ down[1].what = "data"
        /\ n = sent - (Len(down) - 1) /\ n > 0
    BY <1>1, <2>1, <2>2 DEF Tape
  <2>4. Readable(down[1], cli.layers) BY <2>1, <2>3 DEF Readable
  <2>5. PICK p \in Padding(cli.layers) : got' = got \o <<n>> \o p
    BY <1>2, <2>4 DEF CallerRead
  <2>6. p \in {<<>>, <<0>>} /\ (p # <<>> => Hysteria(cli.layers)) BY <2>5 DEF Hysteria, Padding
  <2> HIDE DEF n
  <2>7. n \in Nat \ {0} /\ n - 1 = sent - Len(down) /\ n = sent - Len(down') BY <1>2, <2>2, <2>3
  <2>8. /\ Wire(got) /\ IsRun(got) /\ StartsAt(got, gap + 1)
        /\ (gap > 0 => Framing(cli.layers) = {}) /\ (HasForeign(got) => Hysteria(cli.layers))
    BY <1>9 DEF Giving, GotInOrder
  <2>9. /\ \A i \in 1..Len(got) :
              got[i] # 0 /\ (\A k \in (i + 1)..Len(got) : got[k] = 0) => got[i] = n - 1
        /\ (\A i \in 1..Len(got) : got[i] = 0) => gap = n - 1
    BY <1>1, <2>1, <2>7 DEF Tape
  <2>10. /\ IsRun(got')
         /\ \A a : StartsAt(got, a) /\ ((\A i \in 1..Len(got) : got[i] = 0) => n = a)
                     => StartsAt(got', a)
         /\ \A i \in 1..Len(got') :
              got'[i] # 0 /\ (\A k \in (i + 1)..Len(got') : got'[k] = 0) => got'[i] = n
         /\ \E i \in 1..Len(got') : got'[i] # 0
         /\ HasForeign(got') => HasForeign(got) \/ p # <<>>
    <3>1. Longer(got', got, n, p) BY <2>5, <2>6 DEF Longer
    <3> QED BY <2>6, <2>7, <2>8, <2>9, <3>1, RunGrows
  <2>11. (\A i \in 1..Len(got) : got[i] = 0) => n = gap + 1 BY <2>7, <2>9
  <2>12. StartsAt(got', gap + 1) BY <2>8, <2>10, <2>11
  <2>13. GotInOrder' BY <1>1, <1>4, <2>6, <2>8, <2>10, <2>12 DEF GotInOrder
  <2>14. Giving' BY <1>1, <1>3, <1>4, <1>6, <1>7, <2>13 DEF Giving
  <2>15. ASSUME NEW i \in 1..Len(down')
         PROVE  /\ down'[i].enc = Framing(Full) /\ down'[i].what = "data"
                /\ down'[i].n = sent - (Len(down') - i) /\ down'[i].n > 0
    <3>1. /\ i + 1 \in 1..Len(down) /\ down'[i] = down[i + 1]
          /\ Len(down) - (i + 1) = Len(down') - i
      BY <1>2
    <3>2. down[i + 1].what = "data" /\ down[i + 1].enc = Framing(Full)
      BY <1>1, <2>1, <3>1 DEF Tape
    <3>3. down[i + 1].n = sent - (Len(down) - (i + 1)) /\ down[i + 1].n > 0
      BY <2>1, <3>1, <3>2 DEF Tape
    <3> QED BY <3>1, <3>2, <3>3
  <2>16. Tape' BY <1>1, <1>3, <1>4, <2>7, <2>10, <2>15 DEF Tape
  <2> QED BY <2>14, <2>16
<1> QED BY <1>8, <1>9

(* The target is reached.                                                  *)
LEMMA GivenDial ==
    ASSUME StreamInv, Fits => Pair, Given, DialTarget, srv' = Relaying(srv)
    PROVE  Given'
<1> USE DEF Given
<1>1. srv.pc = "dial" /\ UNCHANGED <<setup, cli, sent, got, gap>> BY DEF DialTarget, ends
<1>2. srv'.pc = "relay" /\ srv'.dialled /\ ~srv.dialled
  BY <1>1 DEF Relaying, StreamInv, Shape, Oks
<1>3. (Compatible' <=> Compatible) /\ Full' = Full BY <1>1, SetupFixed
<1>4. sent = 0 /\ (Compatible => got = <<>> /\ gap = 0) BY <1>1, <1>2 DEF Giving
<1>5. \A i \in 1..Len(<<>>) : FALSE OBVIOUS
<1>6. GotInOrder' BY <1>1, <1>3, <1>4, <1>5 DEF GotInOrder, IsRun, StartsAt, HasForeign
<1>7. Giving' BY <1>1, <1>2, <1>6 DEF Giving
<1>8. ASSUME Compatible, cli.pc \in {"reply", "tunnel"} PROVE Tape'
  <2>1. down = <<>> /\ Pair BY <1>1, <1>8 DEF Fits, Pair, Pace
  <2>2. Framing(srv.layers) = Framing(Full)
    <3>1. srv.layers = Full \o Extra /\ setup \in Setups
      BY <1>1, <2>1 DEF Pair, ServerSide, StreamInv, Shape
    <3> QED BY <1>8, <3>1, FitFacts
  <2>3. Len(<<>>) = 0 /\ Len(down) = 0 /\ Wire(down) BY <2>1, WireFacts DEF StreamInv, Wires
  <2>4. CASE setup.kind = "UDP"
    <3>1. down' = down BY <2>4 DEF DialTarget
    <3>2. cli.pc = "tunnel" BY <1>8, <2>4 DEF StreamInv, Turns
    <3>3. \A i \in 1..Len(down') : FALSE BY <2>1, <3>1
    <3>4. gap' = sent' - Len(down') /\ got' = <<>>
      <4>1. gap' = 0 /\ sent' = 0 /\ got' = <<>> BY <1>1, <1>4, <1>8
      <4>2. Len(down') = 0 BY <2>3, <3>1
      <4> QED BY <4>1, <4>2
    <3> QED BY <1>1, <1>5, <3>2, <3>3, <3>4 DEF Tape
  <2>5. CASE setup.kind # "UDP"
    <3> DEFINE u == Unit("ok", 0, srv.layers)
    <3>1. cli.pc = "reply" BY <1>1, <1>8, <2>5 DEF StreamInv, Turns
    <3>2. down' = Append(down, u)
      BY <2>5, <3>1 DEF DialTarget, Answer, ClientGone
    <3>3. u.what = "ok" /\ u.enc = Framing(Full) BY <2>2, UnitFacts
    <3> HIDE DEF u
    <3>4. Len(down') = 1 /\ down'[1] = u
      <4>1. Len(down') = Len(down) + 1 /\ down'[Len(down) + 1] = u BY <2>3, <3>2, AppendFacts
      <4>2. Len(down) + 1 = 1 BY <2>3
      <4> QED BY <4>1, <4>2
    <3>5. \A i \in 1..Len(down') : i = 1 /\ down'[i] = u BY <3>4
    <3>6. Len(down') = sent' + 1 BY <1>1, <1>4, <3>4
    <3> QED BY <1>1, <1>3, <3>1, <3>3, <3>5, <3>6 DEF Tape
  <2> QED BY <2>4, <2>5
<1> QED BY <1>1, <1>3, <1>7, <1>8

(* The target sends.                                                       *)
LEMMA GivenSent ==
    ASSUME StreamInv, Fits => Pair, Given, CopyDown
    PROVE  Given'
<1> USE DEF Given
<1>1. srv.pc = "relay" /\ sent' = sent + 1 /\ UNCHANGED <<setup, cli, got, gap>> BY DEF CopyDown
<1>2. /\ srv'.pc = "relay" /\ srv'.dialled = srv.dialled /\ srv'.layers = srv.layers
  <2>1. \/ srv' = srv
        \/ srv' = [srv EXCEPT !.copyDown = FALSE]
        \/ srv' = [srv EXCEPT !.copyUp = FALSE, !.copyDown = FALSE]
    BY DEF CopyDown, CopyError
  <2> QED BY <1>1, <2>1 DEF StreamInv, Shape
<1>3. (Compatible' <=> Compatible) /\ Full' = Full BY <1>1, SetupFixed
<1>4. srv.dialled /\ sent \in Nat /\ sent' \in Nat BY <1>1 DEF Giving
<1>5. GotInOrder' BY <1>1, <1>2, <1>3 DEF Giving, GotInOrder
<1>6. Giving' BY <1>1, <1>2, <1>3, <1>4, <1>5 DEF Giving
<1>7. ASSUME Compatible, cli.pc \in {"reply", "tunnel"} PROVE Tape'
  <2> DEFINE u == Unit("data", sent', srv.layers)
  <2>1. down' = Append(down, u) BY <1>7 DEF CopyDown, ClientGone
  <2>2. u.what = "data" /\ u.n = sent' /\ u.enc = Framing(Full)
    <3>1. Framing(srv.layers) = Framing(Full) BY <1>4, <1>7, SameFraming
    <3> QED BY <3>1, UnitFacts
  <2> HIDE DEF u
  <2>3. Tape BY <1>4, <1>7
  <2>4. Wire(down) /\ Len(down) \in Nat BY WireFacts DEF StreamInv, Wires
  <2>5. /\ Len(down') = Len(down) + 1 /\ down'[Len(down) + 1] = u
        /\ \A i \in 1..Len(down) : down'[i] = down[i]
    BY <2>1, <2>4, AppendFacts
  <2>6. \A i \in 1..Len(down') : i \in 1..Len(down) \/ i = Len(down) + 1 BY <2>4, <2>5
  <2>7. ASSUME NEW i \in 1..Len(down)
        PROVE  /\ down'[i].enc = Framing(Full)
               /\ down'[i].what = IF cli.pc = "reply" /\ i = 1 THEN "ok" ELSE "data"
               /\ down'[i].what = "data" =>
                    down'[i].n = sent' - (Len(down') - i) /\ down'[i].n > 0
    <3>1. sent - (Len(down) - i) = sent' - (Len(down') - i) BY <1>1, <1>4, <2>4, <2>5
    <3>2. /\ down[i].enc = Framing(Full)
          /\ down[i].what = IF cli.pc = "reply" /\ i = 1 THEN "ok" ELSE "data"
          /\ down[i].what = "data" => down[i].n = sent - (Len(down) - i) /\ down[i].n > 0
      BY <2>3 DEF Tape
    <3> QED BY <2>5, <3>1, <3>2
  <2>8. ASSUME NEW i, i = Len(down) + 1
        PROVE  /\ down'[i].enc = Framing(Full)
               /\ down'[i].what = IF cli.pc = "reply" /\ i = 1 THEN "ok" ELSE "data"
               /\ down'[i].n = sent' - (Len(down') - i) /\ down'[i].n > 0
    <3>1. cli.pc = "reply" => i # 1 BY <1>4, <2>3, <2>4, <2>8 DEF Tape
    <3>2. sent' - (Len(down') - i) = sent' /\ sent' > 0 BY <1>1, <1>4, <2>4, <2>5, <2>8
    <3> QED BY <2>2, <2>5, <2>8, <3>1, <3>2
  <2>9. cli.pc = "reply" => Len(down') = sent' + 1 BY <1>1, <1>4, <2>3, <2>5 DEF Tape
  <2>10. sent' - Len(down') = sent - Len(down) BY <1>1, <1>4, <2>4, <2>5
  <2>11. cli.pc = "tunnel" =>
           /\ \A i \in 1..Len(got) :
                 got[i] # 0 /\ (\A k \in (i + 1)..Len(got) : got[k] = 0) => got[i] = sent' - Len(down')
           /\ (\A i \in 1..Len(got) : got[i] = 0) => gap = sent' - Len(down')
    BY <2>3, <2>10 DEF Tape
  <2>12. \A i \in 1..Len(down') :
           /\ down'[i].enc = Framing(Full)
           /\ down'[i].what = IF cli.pc = "reply" /\ i = 1 THEN "ok" ELSE "data"
           /\ down'[i].what = "data" => down'[i].n = sent' - (Len(down') - i) /\ down'[i].n > 0
    BY <2>6, <2>7, <2>8
  <2> QED BY <1>1, <1>3, <2>9, <2>11, <2>12 DEF Tape
<1> QED BY <1>1, <1>3, <1>6, <1>7

(* Every other step of the client, and what it may find on the wire.       *)
LEMMA GivenClient ==
    ASSUME StreamInv, Fits => Pair, Given,
           ClientStep \/ ClientDeadline \/ CallerWrite \/ CallerRead \/ CallerClose
    PROVE  Given'
<1>1. /\ DOMAIN cli = {"pc", "layers", "agreed", "deadline", "reply"}
      /\ srv.dialled => cli.pc \in Later
      /\ srv.pc = "relay" => srv.dialled
  BY DEF StreamInv, Shape, Turns, Given, Giving
<1>2. CASE \/ OfferObfs \/ ReadObfsReply \/ ClientHello \/ ClientCipher \/ NoHandshake
           \/ VlessAnswer \/ VmessAnswer \/ SendRequest \/ SendDirect \/ SendUDP
  <2>1. UNCHANGED <<setup, srv, sent, got, gap>>
    BY <1>2 DEF OfferObfs, ReadObfsReply, ClientHello, SayHello, ClientCipher, NoHandshake,
         VlessAnswer, VmessAnswer, HelloAnswer, SendRequest, SendDirect, SendUDP, Request, ends
  <2>2. cli.pc \in {"start", "obfs", "shake", "hello", "request"}
    BY <1>2 DEF OfferObfs, ReadObfsReply, ClientHello, SayHello, ClientCipher, NoHandshake,
         VlessAnswer, VmessAnswer, HelloAnswer, SendRequest, SendDirect, SendUDP, Request
  <2>3. ~srv.dialled BY <1>1, <2>2 DEF Later
  <2> QED BY <1>1, <2>1, <2>2, <2>3, GivenQuiet
<1>3. CASE ReplyOther \/ ReplyUnreadable \/ ReplyEOF
  <2>1. UNCHANGED <<setup, srv, sent, got, gap>> /\ cli.pc = "reply"
    BY <1>3 DEF ReplyOther, ReplyUnreadable, ReplyEOF, ends
  <2>2. ~(Compatible /\ srv.dialled)
    <3>1. SUFFICES ASSUME Compatible, srv.dialled PROVE FALSE OBVIOUS
    <3>2. Tape /\ sent \in Nat BY <2>1, <3>1 DEF Given, Giving
    <3>3. Len(down) = sent + 1 BY <2>1, <3>2 DEF Tape
    <3>4. Wire(down) /\ (down = <<>> <=> Len(down) = 0) BY WireFacts DEF StreamInv, Wires
    <3>5. Len(down) # 0 /\ 1 \in 1..Len(down) BY <3>2, <3>3
    <3>6. down # <<>> BY <3>4, <3>5
    <3>7. down[1].what = "ok" /\ down[1].enc = Framing(Full) BY <2>1, <3>2, <3>5 DEF Tape
    <3>8. Framing(cli.layers) = Framing(Full) BY <2>1, <3>1, SameFraming
    <3>9. Readable(down[1], cli.layers) BY <3>7, <3>8 DEF Readable
    <3>10. Head(down) = down[1] BY <3>4, <3>6, TailFacts
    <3> QED BY <1>3, <3>6, <3>7, <3>9, <3>10 DEF ReplyOther, ReplyUnreadable, ReplyEOF
  <2> QED BY <1>1, <2>1, <2>2, GivenQuiet
<1>4. CASE ReplyERR \/ HandshakeEOF
  <2>1. UNCHANGED <<setup, srv, sent, got, gap>> /\ cli.pc \notin {"tunnel", "closed"}
    BY <1>4 DEF ReplyERR, HandshakeEOF, ends
  <2>2. cli'.pc = "failed" BY <1>1, <1>4 DEF ReplyERR, HandshakeEOF, ClientFail
  <2> QED BY <1>1, <2>1, <2>2, GivenQuiet
<1>5. CASE ClientDeadline \/ CallerClose
  <2>1. UNCHANGED <<setup, srv, sent, got, gap>> /\ cli.pc # "closed"
    BY <1>5 DEF ClientDeadline, CallerClose, ends
  <2>2. cli'.pc = (IF cli.pc = "tunnel" THEN "closed" ELSE "failed") /\ cli'.layers = cli.layers
    BY <1>1, <1>5 DEF ClientDeadline, CallerClose
  <2> QED BY <1>1, <2>1, <2>2, GivenQuiet
<1>6. CASE CallerWrite
  <2>1. UNCHANGED <<setup, cli, srv, down, sent, got, gap>> BY <1>6 DEF CallerWrite
  <2> QED BY <1>1, <2>1, GivenQuiet
<1> QED BY <1>2, <1>3, <1>4, <1>5, <1>6, GivenOK, GivenRead DEF ClientStep

(* Every other step of the node.                                           *)
LEMMA GivenNode ==
    ASSUME StreamInv, Fits => Pair, Given,
           \/ ServerStep \/ ServerDeadline \/ DialTarget \/ DialFails
           \/ CopyUp \/ CopyUpEOF \/ CopyDown \/ TargetEOF \/ TargetError
    PROVE  Given'
<1>1. /\ DOMAIN srv = {"pc", "layers", "agreed", "first", "prefixed", "deadline", "dialled",
                       "copyUp", "copyDown", "lost"}
      /\ srv.dialled => srv.pc \in {"relay", "done"}
      /\ srv.pc = "relay" => srv.dialled
  BY DEF StreamInv, Shape, Oks, Given, Giving
<1>2. ASSUME ServerDone
      PROVE  srv'.pc = "done" /\ srv'.dialled = srv.dialled
  BY <1>1, <1>2 DEF ServerDone
<1>3. Wrapped(srv).pc \in {"dial", "read"} /\ Wrapped(srv).dialled = srv.dialled
  BY <1>1 DEF Wrapped
<1>4. CASE ServerEOF \/ (ServerDeadline /\ srv.pc # "relay") \/ RelayReturns
  <2>1. ServerDone /\ UNCHANGED <<setup, cli, down, sent, got, gap>>
    BY <1>4 DEF ServerEOF, ServerDeadline, RelayReturns, ends
  <2> QED BY <1>2, <2>1, GivenQuiet
<1>5. CASE CopyUp \/ CopyUpEOF \/ TargetEOF \/ TargetError
  <2>1. srv.pc = "relay" /\ UNCHANGED <<setup, cli, down, sent, got, gap>>
    BY <1>5 DEF CopyUp, CopyUpEOF, TargetEOF, TargetError, ends
  <2>2. \/ srv' = srv
        \/ srv' = [srv EXCEPT !.copyUp = FALSE]
        \/ srv' = [srv EXCEPT !.copyDown = FALSE]
        \/ srv' = [srv EXCEPT !.copyUp = FALSE, !.copyDown = FALSE]
    BY <1>5 DEF CopyUp, CopyUpEOF, TargetEOF, TargetError, CopyError
  <2>3. srv'.pc = "relay" /\ srv'.dialled = srv.dialled BY <1>1, <2>1, <2>2
  <2> QED BY <1>1, <2>1, <2>3, GivenQuiet
<1>6. CASE PeekObfs
  <2>1. srv.pc = "peek" /\ UNCHANGED <<setup, cli, sent, got, gap>> BY <1>6 DEF PeekObfs, ends
  <2>2. PICK k \in Chunks(up, <<>>) :
          LET s == [srv EXCEPT !.pc = "shake", !.lost = k > 1]
          IN  \/ ServerDone
              \/ srv' = s
              \/ srv' = [s EXCEPT !.agreed = TRUE, !.layers = ObfsLayers(Agreed)]
    BY <1>6 DEF PeekObfs, Answer
  <2>3. srv'.pc # "relay" /\ srv'.dialled = srv.dialled
    <3> DEFINE s == [srv EXCEPT !.pc = "shake", !.lost = k > 1]
    <3>1. s.pc = "shake" /\ s.dialled = srv.dialled /\ DOMAIN s = DOMAIN srv BY <1>1
    <3>2. \/ ServerDone
          \/ srv' = s
          \/ srv' = [s EXCEPT !.agreed = TRUE, !.layers = ObfsLayers(Agreed)]
      BY <2>2
    <3> HIDE DEF s
    <3> QED BY <1>1, <1>2, <3>1, <3>2
  <2> QED BY <1>1, <2>1, <2>3, GivenQuiet
<1>7. CASE PeekRequest \/ PeekLine \/ PeekBinary
  <2>1. srv.pc = "peek" /\ UNCHANGED <<setup, cli, down, sent, got, gap>>
    BY <1>7 DEF PeekRequest, PeekLine, PeekBinary, ends
  <2>2. srv'.pc = "shake" /\ srv'.dialled = srv.dialled
    BY <1>1, <1>7 DEF PeekRequest, PeekLine, PeekBinary
  <2> QED BY <1>1, <2>1, <2>2, GivenQuiet
<1>8. CASE ServerHello \/ ServerCipher \/ ServerPlain
  <2>1. srv.pc = "shake" /\ UNCHANGED <<setup, cli, down, sent, got, gap>>
    BY <1>8 DEF ServerHello, AwaitHello, ServerCipher, ServerPlain, ends
  <2>2. srv'.pc # "relay" /\ srv'.dialled = srv.dialled
    <3>1. CASE ServerHello BY <1>1, <3>1 DEF ServerHello, AwaitHello
    <3>2. CASE ServerPlain BY <1>3, <3>2 DEF ServerPlain
    <3>3. CASE ServerCipher BY <1>1, <3>3 DEF ServerCipher, Wrapped
    <3> QED BY <1>8, <3>1, <3>2, <3>3
  <2> QED BY <1>1, <2>1, <2>2, GivenQuiet
<1>9. CASE VlessHello \/ VmessHello \/ ReadRequest \/ DialFails
  <2>1. srv.pc \in {"hello", "read", "dial"} /\ UNCHANGED <<setup, cli, sent, got, gap>>
    BY <1>9 DEF VlessHello, VmessHello, ReadRequest, DialFails, ends
  <2>2. \/ ServerDone \/ srv' = srv \/ srv' = Wrapped(srv)
        \/ srv' = [srv EXCEPT !.pc = "done"] \/ srv' = [srv EXCEPT !.pc = "dial"]
    BY <1>9 DEF VlessHello, VmessHello, ReadRequest, DialFails, Answer
  <2>3. srv'.pc # "relay" /\ srv'.dialled = srv.dialled BY <1>1, <1>2, <1>3, <2>1, <2>2
  <2> QED BY <1>1, <2>1, <2>3, GivenQuiet
<1>10. CASE DialTarget
  <2>1. srv.pc = "dial" /\ UNCHANGED <<setup, cli, sent, got, gap>> BY <1>10 DEF DialTarget, ends
  <2>2. CASE ServerDone BY <1>1, <1>2, <2>1, <2>2, GivenQuiet
  <2>3. ServerDone \/ srv' = Relaying(srv) BY <1>10 DEF DialTarget, Answer
  <2> QED BY <1>10, <2>2, <2>3, GivenDial
<1> QED
  BY <1>4, <1>5, <1>6, <1>7, <1>8, <1>9, <1>10, GivenSent, DeadlineInRelay DEF ServerStep

-----------------------------------------------------------------------------
LEMMA PairInit ==
    ASSUME Init
    PROVE  PairInv
<1>1. Len(<<>>) = 0 /\ <<>> \in Seq({}) /\ (\A i \in 1..Len(<<>>) : FALSE) OBVIOUS
<1>2. Pair
  BY <1>1 DEF Init, Pair, ClientSide, ServerSide, Pace, ObfsTurn, HelloTurn, RequestTurn, Asked
<1>3. Giving
  BY <1>1 DEF Init, Giving, Wire, GotInOrder
<1> QED BY <1>2, <1>3 DEF PairInv, Init

LEMMA PairStep ==
    ASSUME StreamInv, PairInv, [Next]_vars
    PROVE  PairInv'
<1>1. (Fits => Pair) /\ Given BY DEF PairInv, Given
<1>2. CASE UNCHANGED vars
  <2>1. /\ (Compatible' <=> Compatible) /\ (ObfsOff' <=> ObfsOff) /\ (PlainFirst' <=> PlainFirst)
        /\ ClientProtocol' = ClientProtocol /\ Base' = Base /\ Full' = Full /\ Extra' = Extra
        /\ UNCHANGED <<cli, srv, up, down, sent, got, gap>>
    BY <1>2, SetupFixed DEF vars
  <2>2. GotInOrder' <=> GotInOrder BY <2>1 DEF GotInOrder
  <2>3. Pair' <=> Pair
    BY <2>1 DEF Pair, ClientSide, ServerSide, Pace, ObfsTurn, HelloTurn, RequestTurn, Has
  <2>4. Giving' <=> Giving BY <2>1, <2>2 DEF Giving
  <2>5. Tape' <=> Tape BY <2>1 DEF Tape
  <2> QED BY <2>1, <2>3, <2>4, <2>5 DEF PairInv, Fits
<1>3. CASE Break
  <2>1. ServerDone /\ UNCHANGED <<setup, sent, got, gap>> /\ up' = <<>> BY <1>3 DEF Break, ends
  <2>2. srv'.pc = "done" /\ srv'.dialled = srv.dialled /\ srv'.layers = srv.layers
    BY <2>1 DEF ServerDone, StreamInv, Shape
  <2>3. /\ cli'.pc = IF cli.pc \in {"tunnel", "closed"} THEN "closed" ELSE "failed"
        /\ cli'.layers = cli.layers /\ cli'.agreed = cli.agreed
    BY <1>3 DEF Break, ClientGone, StreamInv, Shape
  <2>4. Given' BY <1>1, <2>1, <2>2, <2>3, GivenQuiet
  <2>5. ASSUME Fits' PROVE Pair'
    <3>1. /\ (Compatible' <=> Compatible) /\ (ObfsOff' <=> ObfsOff)
          /\ (PlainFirst' <=> PlainFirst) /\ ClientProtocol' = ClientProtocol
          /\ Base' = Base /\ Full' = Full /\ Extra' = Extra
      BY <2>1, SetupFixed
    <3>2. cli'.pc = "closed" /\ cli.pc \in {"tunnel", "closed"} BY <2>3, <2>5 DEF Fits
    <3>3. Pair BY <1>1, <2>5, <3>1, <3>2 DEF Fits
    <3>4. ClientSide' BY <2>3, <3>1, <3>2, <3>3 DEF Pair, ClientSide, Asked
    <3>5. ServerSide' BY <2>2, <3>1, <3>3 DEF Pair, ServerSide
    <3>6. Pace' BY <2>2, <3>2 DEF Pace
    <3>7. ObfsTurn' /\ HelloTurn' BY <3>2 DEF ObfsTurn, HelloTurn
    <3>8. \A i \in 1..Len(up') : FALSE BY <2>1
    <3>9. RequestTurn' BY <3>2, <3>8 DEF RequestTurn
    <3> QED BY <3>4, <3>5, <3>6, <3>7, <3>9 DEF Pair
  <2> QED BY <2>4, <2>5 DEF PairInv, Given
<1>4. CASE ClientStep \/ ClientDeadline \/ CallerWrite \/ CallerRead \/ CallerClose
  <2>1. Given' BY <1>1, <1>4, GivenClient
  <2>2. ASSUME Fits' PROVE Pair'
    <3>1. UNCHANGED setup
      BY <1>4 DEF ClientStep, OfferObfs, ReadObfsReply, ClientHello, SayHello, ClientCipher,
         NoHandshake, VlessAnswer, VmessAnswer, HelloAnswer, SendRequest, SendDirect, SendUDP,
         Request, ReplyOK, ReplyERR, ReplyOther, ReplyUnreadable, ReplyEOF, HandshakeEOF,
         ClientDeadline, CallerWrite, CallerRead, CallerClose
    <3>2. Compatible BY <2>2, <3>1, SetupFixed DEF Fits
    <3>3. cli.pc # "failed"
      BY <1>4 DEF ClientStep, OfferObfs, ReadObfsReply, ClientHello, SayHello, ClientCipher,
         NoHandshake, VlessAnswer, VmessAnswer, HelloAnswer, SendRequest, SendDirect, SendUDP,
         Request, ReplyOK, ReplyERR, ReplyOther, ReplyUnreadable, ReplyEOF, HandshakeEOF,
         ClientDeadline, CallerWrite, CallerRead, CallerClose
    <3>4. Fits /\ cli'.pc # "failed" BY <2>2, <3>2, <3>3 DEF Fits
    <3> QED BY <1>1, <1>4, <3>4, PairClient
  <2> QED BY <2>1, <2>2 DEF PairInv, Given
<1>5. CASE \/ ServerStep \/ ServerDeadline \/ DialTarget \/ DialFails
           \/ CopyUp \/ CopyUpEOF \/ CopyDown \/ TargetEOF \/ TargetError
  <2>1. Given' BY <1>1, <1>5, GivenNode
  <2>2. UNCHANGED <<setup, cli>>
    BY <1>5 DEF ServerStep, PeekObfs, PeekRequest, PeekLine, PeekBinary, ServerHello, AwaitHello,
       ServerCipher, ServerPlain, VlessHello, VmessHello, ReadRequest, ServerEOF, RelayReturns,
       ServerDeadline, DialTarget, DialFails, CopyUp, CopyUpEOF, CopyDown, TargetEOF, TargetError
  <2>3. Fits' => Fits BY <2>2, SetupFixed DEF Fits
  <2>4. Fits' => Pair' BY <1>1, <1>5, <2>3, PairNode
  <2> QED BY <2>1, <2>4 DEF PairInv, Given
<1> QED BY <1>2, <1>3, <1>4, <1>5 DEF Next

LEMMA PairInvHolds == Spec => [](StreamInv /\ PairInv)
<1>1. Init => StreamInv /\ PairInv BY StreamInit, PairInit
<1>2. StreamInv /\ PairInv /\ [Next]_vars => (StreamInv /\ PairInv)' BY StreamStep, PairStep
<1> QED BY <1>1, <1>2, PTL DEF Spec

(* Between fitting ends the caller is given what the target sent, in       *)
(* order; what it misses at the beginning was read together with the "OK"  *)
(* of a stream without framing, and only hysteria2 adds bytes (DialTCP,    *)
(* pipeBidirectional).                                                     *)
THEOREM CallerGivenInOrder == Spec => []GotInOrder
<1>1. StreamInv /\ PairInv => GotInOrder BY DEF PairInv, Giving
<1> QED BY <1>1, PairInvHolds, PTL

(* Fitting ends wait for each other only after the node's peek has torn    *)
(* the first bytes of the stream (handleProxyStream's one-byte reader).    *)
THEOREM WaitsAreExplained == Spec => []WaitExplained
<1>1. ASSUME StreamInv, PairInv, Compatible, Waiting
      PROVE  srv.lost
  <2>1. /\ cli.pc \in {"obfs", "hello", "reply"} /\ srv.pc \in {"peek", "hello", "read"}
        /\ up = <<>> /\ down = <<>>
    BY <1>1 DEF Waiting
  <2>2. Pair BY <1>1, <2>1 DEF PairInv, Fits
  <2>3. CASE cli.pc = "obfs" BY <2>1, <2>2, <2>3 DEF Pair, ObfsTurn
  <2>4. CASE cli.pc = "hello" BY <2>1, <2>2, <2>4 DEF Pair, HelloTurn
  <2>5. CASE cli.pc = "reply"
    <3>1. ~srv.first BY <1>1, <2>1 DEF StreamInv, Turns
    <3>2. ~Has(up, {"request"})
      <4>1. \A i \in 1..Len(<<>>) : FALSE OBVIOUS
      <4> QED BY <2>1, <4>1 DEF Has
    <3>3. srv.pc # "hello" BY <2>2, <2>5 DEF Pair, ServerSide, Pace, Asked
    <3> QED BY <2>1, <2>2, <2>5, <3>1, <3>2, <3>3 DEF Pair, RequestTurn
  <2> QED BY <2>1, <2>3, <2>4, <2>5
<1>2. StreamInv /\ PairInv => WaitExplained BY <1>1 DEF WaitExplained
<1> QED BY <1>2, PairInvHolds, PTL
================================================================================
