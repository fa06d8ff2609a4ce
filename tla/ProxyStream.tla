------------------------------ MODULE ProxyStream ------------------------------
(***************************************************************************)
(* One stream of /proxy/1.0.0, from the client's first byte to the end of  *)
(* the relay: the OBFS lines, the handshake of the chosen protocol, the    *)
(* request line, the reply, the tunnel.  src/pkg/client/proxy.go is one    *)
(* end, handleProxyStream in src/hypernet/services/proxy/server/proxy.go   *)
(* the other.                                                              *)
(*                                                                         *)
(* A wire is the sequence of messages written and not yet read.  A message *)
(* carries the wrappers (ciphers, padding, delay) of its writer; a reader  *)
(* with other wrappers, or one that lost a part of it, cannot tell what it *)
(* is: it fails, takes it for some other line, or goes on waiting for more *)
(* bytes.  A read of an unframed stream returns as much as has arrived, so *)
(* a bufio.Reader may hold messages behind the one it was asked for.       *)
(*                                                                         *)
(* `setup' holds what both ends were configured with and what the          *)
(* negotiation left them with, which Negotiation is about.                 *)
(***************************************************************************)
EXTENDS Integers, Sequences, FiniteSets

CONSTANTS Setups,       \* configurations of the two ends
          TextTokens,   \* tokens whose first letter is O, T, U or D
          MaxData       \* bound on the caller's and on the target's messages

NoToken == ""

\* What negotiation may leave an end with; "plain" is any protocol without a
\* step of its own on the proxy stream.
Protocols == {"plain", "vless", "vmess", "shadowsocks", "hysteria2"}

Obfs == [pmin : Nat, pmax : Nat, dmin : Nat, dmax : Nat]

Setup == [kind : {"TCP", "DIRECT", "UDP"}, mode : Protocols, snap : Protocols,
          ctok : STRING, stok : STRING, cobfs : Obfs, sobfs : Obfs]

ASSUME SetupsAssumption == /\ Setups \subseteq Setup
                           /\ MaxData \in Nat

VARIABLES setup,     \* the configuration, fixed
          cli,       \* the client's dial
          srv,       \* the node's handler
          up, down,  \* the two wires
          wrote,     \* messages written by the caller: 1 .. wrote
          fed,       \* what the target has been given
          sent,      \* messages sent by the target: 1 .. sent
          got,       \* what the caller has been given
          gap        \* messages of the target lost with the client's reader

vars == <<setup, cli, srv, up, down, wrote, fed, sent, got, gap>>

ends == <<wrote, fed, sent, got, gap>>

-------------------------------------------------------------------------------
(* Obfuscation parameters *)

\* parse: a maximum below the minimum is refused
ParseObfsLine(p) == p.pmin <= p.pmax /\ p.dmin <= p.dmax

\* the client's range cut to the server's: cut the maximum, then pull the
\* minimum down to the maximum, then up to the server's minimum
Limit(cmin, cmax, smin, smax) ==
    IF smax = 0 THEN <<0, 0>>
    ELSE LET hi == IF cmax > smax THEN smax ELSE cmax
             lo == IF cmin > hi THEN hi ELSE cmin
         IN  <<IF lo < smin THEN smin ELSE lo, hi>>

AgreeObfs(s, c) ==
    LET p == Limit(c.pmin, c.pmax, s.pmin, s.pmax)
        d == Limit(c.dmin, c.dmax, s.dmin, s.dmax)
    IN  [pmin |-> p[1], pmax |-> p[2], dmin |-> d[1], dmax |-> d[2]]

Agreed == AgreeObfs(setup.sobfs, setup.cobfs)

-------------------------------------------------------------------------------
(* Wrappers and wires *)

Layer(name, key) == [name |-> name, key |-> key]

ObfsLayers(p) == (IF p.pmax > 0 THEN <<Layer("pad", NoToken)>> ELSE <<>>)
              \o (IF p.dmax > 0 THEN <<Layer("delay", NoToken)>> ELSE <<>>)

\* What a reader has to undo: every layer but the delays, which change no byte,
\* each with its place among them.
Framing(layers) ==
    LET Framed(n) == {i \in 1..n : layers[i].name # "delay"}
    IN  {<<Cardinality(Framed(i)), layers[i]>> : i \in Framed(Len(layers))}

Unit(what, n, layers) == [what |-> what, n |-> n, enc |-> Framing(layers)]

Torn == [what |-> "torn", n |-> 0, enc |-> {}]

Readable(u, layers) == u.what # "torn" /\ u.enc = Framing(layers)

\* How many messages one read may have taken: a framed stream is read frame by
\* frame, an unframed one returns whatever has arrived.
Chunks(wire, layers) ==
    1..(IF Framing(layers) = {} THEN Len(wire) ELSE 1)

Rest(wire, k) == SubSeq(wire, k + 1, Len(wire))

DataIn(units) == Cardinality({i \in 1..Len(units) : units[i].what = "data"})

\* hysteria2Session.Read hands the random padding of the frame to its caller.
\* 0 stands for bytes that nobody sent.
Padding(layers) == IF \E i \in 1..Len(layers) : layers[i].name = "hysteria2"
                   THEN {<<>>, <<0>>} ELSE {<<>>}

-------------------------------------------------------------------------------
Init ==
    /\ setup \in Setups
    /\ cli = [pc |-> "start", layers |-> <<>>, agreed |-> FALSE,
              deadline |-> FALSE, reply |-> "none"]
    /\ srv = [pc |-> "peek", layers |-> <<>>, agreed |-> FALSE, first |-> FALSE,
              prefixed |-> FALSE, deadline |-> FALSE, dialled |-> FALSE,
              copyUp |-> FALSE, copyDown |-> FALSE, lost |-> FALSE]
    /\ up = <<>> /\ down = <<>>
    /\ wrote = 0 /\ fed = <<>> /\ sent = 0 /\ got = <<>> /\ gap = 0

ClientGone == cli.pc \in {"failed", "closed"}

-------------------------------------------------------------------------------
(* The client: DialTCP, DialTCPDirect, DialUDP *)

ClientFail == cli' = [cli EXCEPT !.pc = "failed"]

OfferObfs ==
    /\ cli.pc = "start"
    /\ IF setup.cobfs.pmax > 0 \/ setup.cobfs.dmax > 0
       THEN /\ up' = Append(up, Unit("obfs", 0, <<>>))
            /\ cli' = [cli EXCEPT !.pc = "obfs"]
       ELSE /\ cli' = [cli EXCEPT !.pc = "shake"]
            /\ UNCHANGED up
    /\ UNCHANGED <<setup, srv, down, ends>>

\* The wrappers go on at once when the answer can be parsed.
ReadObfsReply ==
    /\ cli.pc = "obfs"
    /\ down # <<>>
    /\ \E k \in Chunks(down, <<>>) : down' = Rest(down, k)
    /\ cli' = IF Head(down).what = "obfs" /\ ParseObfsLine(Agreed)
              THEN [cli EXCEPT !.pc = "shake", !.agreed = TRUE,
                               !.layers = ObfsLayers(Agreed)]
              ELSE [cli EXCEPT !.pc = "shake"]
    /\ UNCHANGED <<setup, srv, up, ends>>

\* DialTCPDirect has no handshake, DialUDP none for hysteria2.
ClientProtocol ==
    CASE setup.kind = "DIRECT" -> "plain"
      [] setup.mode = "hysteria2" -> IF setup.kind = "UDP" THEN "plain" ELSE "hysteria2"
      [] setup.ctok = NoToken -> "plain"
      [] OTHER -> setup.mode

SayHello(deadline) ==
    /\ cli.pc = "shake" /\ ClientProtocol \in {"vless", "vmess"}
    /\ up' = Append(up, Unit(ClientProtocol, 0, cli.layers))
    /\ cli' = [cli EXCEPT !.pc = "hello", !.deadline = deadline]
    /\ UNCHANGED <<setup, srv, down, ends>>

\* Mutant: the handshake sets no deadline.
ClientHelloNoDeadline == SayHello(FALSE)

\* vless sends its token, vmess a keyed hash.  Only the bare libp2p stream has
\* SetDeadline, and nobody clears the deadline.
ClientHello == SayHello(cli.layers = <<>>)

\* shadowsocks and hysteria2 exchange nothing, they wrap.
ClientCipher ==
    /\ cli.pc = "shake" /\ ClientProtocol \in {"shadowsocks", "hysteria2"}
    /\ cli' = [cli EXCEPT !.pc = "request",
                          !.layers = Append(@, Layer(ClientProtocol, setup.ctok))]
    /\ UNCHANGED <<setup, srv, up, down, ends>>

NoHandshake ==
    /\ cli.pc = "shake" /\ ClientProtocol = "plain"
    /\ cli' = [cli EXCEPT !.pc = "request"]
    /\ UNCHANGED <<setup, srv, up, down, ends>>

\* The answer, another answer, or bytes that could also be the beginning of one.
HelloAnswer(proto, answer) ==
    /\ cli.pc = "hello" /\ ClientProtocol = proto
    /\ down # <<>>
    /\ \E k \in Chunks(down, cli.layers) : down' = Rest(down, k)
    /\ LET granted == Readable(Head(down), cli.layers) /\ Head(down).what = answer
       IN  \/ granted /\ cli' = [cli EXCEPT !.pc = "request"]
           \/ ~granted /\ ClientFail
           \/ ~Readable(Head(down), cli.layers) /\ UNCHANGED cli
    /\ UNCHANGED <<setup, srv, up, ends>>

VlessAnswer == HelloAnswer("vless", "ok")

VmessAnswer == HelloAnswer("vmess", "granted")

\* The request line, under the client's own padding and delay if none were agreed.
Request(kind, next) ==
    /\ cli.pc = "request" /\ setup.kind = kind
    /\ LET layers == cli.layers \o (IF cli.agreed THEN <<>>
                                    ELSE ObfsLayers(setup.cobfs))
       IN  /\ up' = Append(up, Unit("request", 0, layers))
           /\ cli' = [cli EXCEPT !.layers = layers, !.pc = next]
    /\ UNCHANGED <<setup, srv, down, ends>>

SendRequest == Request("TCP", "reply")

SendDirect == Request("DIRECT", "reply")

\* DialUDP reads no reply.
SendUDP == Request("UDP", "tunnel")

\* "OK": the reader is dropped with what it holds behind the line.
ReplyOK ==
    /\ cli.pc = "reply"
    /\ down # <<>>
    /\ Readable(Head(down), cli.layers) /\ Head(down).what = "ok"
    /\ \E k \in Chunks(down, cli.layers) :
          /\ down' = Rest(down, k)
          /\ gap' = DataIn(SubSeq(down, 1, k))
    /\ cli' = [cli EXCEPT !.pc = "tunnel", !.reply = "ok"]
    /\ UNCHANGED <<setup, srv, up, wrote, fed, sent, got>>

ReplyERR ==
    /\ cli.pc = "reply"
    /\ down # <<>>
    /\ Readable(Head(down), cli.layers) /\ Head(down).what = "ERR "
    /\ down' = Tail(down)
    /\ ClientFail
    /\ UNCHANGED <<setup, srv, up, ends>>

\* Any other line is taken for the target's first; it is put back.
ReplyOther ==
    /\ cli.pc = "reply"
    /\ down # <<>>
    /\ ~(Readable(Head(down), cli.layers) /\ Head(down).what \in {"ok", "ERR "})
    /\ cli' = [cli EXCEPT !.pc = "tunnel", !.reply = "line"]
    /\ UNCHANGED <<setup, srv, up, down, ends>>

\* Bytes that are not a frame: a read error, or a frame that never completes.
ReplyUnreadable ==
    /\ cli.pc = "reply"
    /\ down # <<>>
    /\ ~Readable(Head(down), cli.layers)
    /\ down' = Tail(down)
    /\ ClientFail \/ UNCHANGED cli
    /\ UNCHANGED <<setup, srv, up, ends>>

\* The end of the stream instead of a reply is a success with an empty line.
ReplyEOF ==
    /\ cli.pc = "reply"
    /\ down = <<>> /\ srv.pc = "done"
    /\ cli' = [cli EXCEPT !.pc = "tunnel", !.reply = "eof"]
    /\ UNCHANGED <<setup, srv, up, down, ends>>

\* In the other two reads it is an error.
HandshakeEOF ==
    /\ cli.pc \in {"obfs", "hello"}
    /\ down = <<>> /\ srv.pc = "done"
    /\ ClientFail
    /\ UNCHANGED <<setup, srv, up, down, ends>>

\* The deadline of the handshake, whenever it passes.
ClientDeadline ==
    /\ cli.deadline
    /\ cli.pc \in {"hello", "request", "reply", "tunnel"}
    /\ cli' = [cli EXCEPT !.pc = IF @ = "tunnel" THEN "closed" ELSE "failed"]
    /\ UNCHANGED <<setup, srv, up, down, ends>>

CallerWrite ==
    /\ cli.pc = "tunnel"
    /\ wrote < MaxData
    /\ wrote' = wrote + 1
    /\ up' = Append(up, Unit("data", wrote', cli.layers))
    /\ UNCHANGED <<setup, cli, srv, down, fed, sent, got, gap>>

CallerRead ==
    /\ cli.pc = "tunnel"
    /\ down # <<>>
    /\ down' = Tail(down)
    /\ LET u == Head(down)
       IN  \/ /\ Readable(u, cli.layers)
              /\ \E p \in Padding(cli.layers) : got' = got \o <<u.n>> \o p
              /\ UNCHANGED cli
           \/ /\ ~Readable(u, cli.layers)
              /\ \/ got' = Append(got, 0) /\ UNCHANGED cli
                 \/ UNCHANGED <<got, cli>>
                 \/ cli' = [cli EXCEPT !.pc = "closed"] /\ UNCHANGED got
    /\ UNCHANGED <<setup, srv, up, wrote, fed, sent, gap>>

CallerClose ==
    /\ cli.pc = "tunnel"
    /\ cli' = [cli EXCEPT !.pc = "closed"]
    /\ UNCHANGED <<setup, srv, up, down, ends>>

-------------------------------------------------------------------------------
(* The node: handleProxyStream *)

ServerDone == srv' = [srv EXCEPT !.pc = "done", !.copyUp = FALSE, !.copyDown = FALSE]

\* A write reaches the wire, or fails because the client has closed the stream;
\* every failed write before the relay ends the handler.
Answer(what, next) ==
    \/ /\ down' = Append(down, Unit(what, 0, srv.layers))
       /\ srv' = next
    \/ ClientGone /\ ServerDone /\ UNCHANGED down

\* Mutant: a node without obfuscation does not answer the OBFS line.
PeekObfsSilentWhenOff ==
    /\ srv.pc = "peek"
    /\ up # <<>> /\ Head(up).what = "obfs"
    /\ up' = Tail(up)
    /\ LET s == [srv EXCEPT !.pc = "shake"]
       IN  IF ParseObfsLine(setup.cobfs) /\ ObfsLayers(setup.sobfs) # <<>>
           THEN Answer("obfs", [s EXCEPT !.agreed = TRUE, !.layers = ObfsLayers(Agreed)])
           ELSE srv' = s /\ UNCHANGED down
    /\ UNCHANGED <<setup, cli, ends>>

\* The first byte says OBFS: the line is consumed, parsed or not.
PeekObfs ==
    /\ srv.pc = "peek"
    /\ up # <<>> /\ Head(up).what = "obfs"
    /\ \E k \in Chunks(up, <<>>) :
         LET s == [srv EXCEPT !.pc = "shake", !.lost = k > 1]
         IN  /\ up' = Rest(up, k)
             /\ IF ParseObfsLine(setup.cobfs)
                THEN Answer("obfs", [s EXCEPT !.agreed = TRUE,
                                              !.layers = ObfsLayers(Agreed)])
                ELSE srv' = s /\ UNCHANGED down
    /\ UNCHANGED <<setup, cli, ends>>

IsText(u) == u.enc = {} /\ (\/ u.what = "request"
                            \/ u.what = "vless" /\ setup.ctok \in TextTokens)

\* A request line is kept; the reader that holds what follows it is not.
PeekRequest ==
    /\ srv.pc = "peek"
    /\ up # <<>> /\ IsText(Head(up)) /\ Head(up).what = "request"
    /\ \E k \in Chunks(up, <<>>) :
         /\ up' = Rest(up, k)
         /\ srv' = [srv EXCEPT !.pc = "shake", !.first = TRUE, !.lost = k > 1]
    /\ UNCHANGED <<setup, cli, down, ends>>

\* A line that begins like a command and is none goes back as a whole.
PeekLine ==
    /\ srv.pc = "peek"
    /\ up # <<>> /\ IsText(Head(up)) /\ Head(up).what # "request"
    /\ \E k \in Chunks(up, <<>>) :
         /\ up' = <<Head(up)>> \o Rest(up, k)
         /\ srv' = [srv EXCEPT !.pc = "shake", !.prefixed = TRUE, !.lost = k > 1]
    /\ UNCHANGED <<setup, cli, down, ends>>

\* Otherwise only the first byte goes back.  All is well if the read returned
\* just that byte; else the rest of what it returned is gone.
PeekBinary ==
    /\ srv.pc = "peek"
    /\ up # <<>> /\ Head(up).what # "obfs" /\ ~IsText(Head(up))
    /\ \/ /\ srv' = [srv EXCEPT !.pc = "shake", !.prefixed = TRUE]
          /\ UNCHANGED up
       \/ \E k \in 1..Len(up) :
             /\ up' = <<Torn>> \o Rest(up, k)
             /\ srv' = [srv EXCEPT !.pc = "shake", !.prefixed = TRUE, !.lost = TRUE]
    /\ UNCHANGED <<setup, cli, down, ends>>

\* The handshake of lastChosenProtocol; hysteria2 is keyed with the empty token.
ServerProtocol ==
    CASE srv.first -> "plain"
      [] setup.snap = "hysteria2" -> "hysteria2"
      [] setup.stok = NoToken -> "plain"
      [] OTHER -> setup.snap

\* After the handshake: padding and delay unless they were agreed before.
Wrapped(s) == [s EXCEPT !.pc = IF s.first THEN "dial" ELSE "read",
                        !.layers = @ \o (IF s.agreed THEN <<>>
                                         ELSE ObfsLayers(setup.sobfs))]

AwaitHello(deadline) ==
    /\ srv.pc = "shake" /\ ServerProtocol \in {"vless", "vmess"}
    /\ srv' = [srv EXCEPT !.pc = "hello", !.deadline = deadline]
    /\ UNCHANGED <<setup, cli, up, down, ends>>

ServerHello == AwaitHello(srv.layers = <<>> /\ ~srv.prefixed)

ServerCipher ==
    /\ srv.pc = "shake" /\ ServerProtocol \in {"shadowsocks", "hysteria2"}
    /\ LET key == IF ServerProtocol = "hysteria2" THEN NoToken ELSE setup.stok
       IN  srv' = Wrapped([srv EXCEPT !.layers = Append(@, Layer(ServerProtocol, key))])
    /\ UNCHANGED <<setup, cli, up, down, ends>>

ServerPlain ==
    /\ srv.pc = "shake" /\ ServerProtocol = "plain"
    /\ srv' = Wrapped(srv)
    /\ UNCHANGED <<setup, cli, up, down, ends>>

\* The next message is the hello that this node asks for.
ValidHello == /\ Readable(Head(up), srv.layers)
              /\ Head(up).what = setup.snap
              /\ setup.ctok = setup.stok

\* The token line is right, or the answer is "ERR" without a reason; bytes that
\* are no line may also be waited on.
VlessHello ==
    /\ srv.pc = "hello" /\ setup.snap = "vless"
    /\ up # <<>>
    /\ \E k \in Chunks(up, srv.layers) : up' = Rest(up, k)
    /\ \/ ValidHello /\ Answer("ok", Wrapped(srv))
       \/ ~ValidHello /\ Answer("ERR", [srv EXCEPT !.pc = "done"])
       \/ /\ ~(Readable(Head(up), srv.layers) /\ Head(up).what \in {"vless", "request"})
          /\ UNCHANGED <<srv, down>>
    /\ UNCHANGED <<setup, cli, ends>>

\* The keyed hash is right, or the handler returns without an answer, as it does
\* when the clocks differ by more than two minutes.
VmessHello ==
    /\ srv.pc = "hello" /\ setup.snap = "vmess"
    /\ up # <<>>
    /\ \E k \in Chunks(up, srv.layers) : up' = Rest(up, k)
    /\ \/ ValidHello /\ Answer("granted", Wrapped(srv))
       \/ ServerDone /\ UNCHANGED down
       \/ ~ValidHello /\ UNCHANGED <<srv, down>>
    /\ UNCHANGED <<setup, cli, ends>>

ParseRequest(u) == Readable(u, srv.layers) /\ u.what = "request"

\* Mutant: the relay does not get the reader of the request line.
ReadRequestDropsReader ==
    /\ srv.pc = "read"
    /\ up # <<>>
    /\ IF ParseRequest(Head(up))
       THEN /\ \E k \in Chunks(up, srv.layers) : up' = Rest(up, k)
            /\ srv' = [srv EXCEPT !.pc = "dial"]
            /\ UNCHANGED down
       ELSE up' = Tail(up) /\ Answer("ERR ", [srv EXCEPT !.pc = "done"])
    /\ UNCHANGED <<setup, cli, ends>>

\* A line that is no request is answered; bytes that are no line may also be an
\* error or be waited on.  The padding behind a hysteria2 line stays in reader.
ReadRequest ==
    /\ srv.pc = "read"
    /\ up # <<>>
    /\ LET u == Head(up)
       IN  \/ /\ ParseRequest(u)
              /\ srv' = [srv EXCEPT !.pc = "dial"]
              /\ \E p \in Padding(srv.layers) :
                   up' = (IF p = <<>> THEN <<>> ELSE <<Unit("junk", 0, srv.layers)>>) \o Tail(up)
              /\ UNCHANGED down
           \/ /\ ~ParseRequest(u)
              /\ up' = Tail(up)
              /\ \/ Answer("ERR ", [srv EXCEPT !.pc = "done"])
                 \/ /\ ~(Readable(u, srv.layers) /\ u.what = "vless")
                    /\ ServerDone \/ UNCHANGED srv
                    /\ UNCHANGED down
    /\ UNCHANGED <<setup, cli, ends>>

Relaying(s) == [s EXCEPT !.pc = "relay", !.dialled = TRUE,
                         !.copyUp = TRUE, !.copyDown = TRUE]

\* handleTCPProxy says OK before it copies, handleUDPProxy says nothing.
DialTarget ==
    /\ srv.pc = "dial"
    /\ IF setup.kind = "UDP"
       THEN srv' = Relaying(srv) /\ UNCHANGED down
       ELSE Answer("ok", Relaying(srv))
    /\ UNCHANGED <<setup, cli, up, ends>>

\* Mutant: OK is sent before the target is dialled.
DialFailsAfterOK ==
    /\ srv.pc = "dial"
    /\ Answer("ok", [srv EXCEPT !.pc = "done"])
    /\ UNCHANGED <<setup, cli, up, ends>>

DialFails ==
    /\ srv.pc = "dial"
    /\ Answer("ERR ", [srv EXCEPT !.pc = "done"])
    /\ UNCHANGED <<setup, cli, up, ends>>

\* A read finds the client's end of the stream.
ServerEOF ==
    /\ srv.pc \in {"peek", "hello", "read"}
    /\ up = <<>> /\ ClientGone
    /\ ServerDone
    /\ UNCHANGED <<setup, cli, up, down, ends>>

\* An error closes both connections, which ends the other copy too; the UDP
\* goroutines only return.
CopyError(me) ==
    srv' = IF setup.kind = "UDP" THEN [srv EXCEPT ![me] = FALSE]
           ELSE [srv EXCEPT !.copyUp = FALSE, !.copyDown = FALSE]

\* A read or a write past the deadline fails.  In the relay it is the read of the
\* upward copy; the goroutine in ReadFromUDP stays.
ServerDeadline ==
    /\ srv.deadline
    /\ \/ srv.pc \in {"hello", "read", "dial"} /\ ServerDone
       \/ srv.pc = "relay" /\ srv.copyUp /\ CopyError("copyUp")
    /\ UNCHANGED <<setup, cli, up, down, ends>>

-------------------------------------------------------------------------------
(* pipeBidirectional and handleUDPProxy: two copying goroutines *)

CopyUp ==
    /\ srv.pc = "relay" /\ srv.copyUp
    /\ up # <<>>
    /\ up' = Tail(up)
    /\ LET u == Head(up)
       IN  \/ /\ Readable(u, srv.layers)
              /\ \E p \in Padding(srv.layers) : fed' = fed \o <<u.n>> \o p
              /\ UNCHANGED srv
           \/ ~Readable(u, srv.layers) /\ CopyError("copyUp") /\ UNCHANGED fed
    /\ UNCHANGED <<setup, cli, down, wrote, sent, got, gap>>

\* Mutant: no wg.Done when the copy ends without an error.
CopyUpEOFNotDone ==
    /\ srv.pc = "relay" /\ srv.copyUp
    /\ up = <<>> /\ ClientGone
    /\ UNCHANGED vars

\* A clean end of file is no error: nothing is closed.
CopyUpEOF ==
    /\ srv.pc = "relay" /\ srv.copyUp
    /\ up = <<>> /\ ClientGone
    /\ srv' = [srv EXCEPT !.copyUp = FALSE]
    /\ UNCHANGED <<setup, cli, up, down, ends>>

\* Mutant: the target is copied to the bare stream instead of the wrapped one.
CopyDownUnwrapped ==
    /\ srv.pc = "relay" /\ srv.copyDown
    /\ sent < MaxData
    /\ sent' = sent + 1
    /\ \/ /\ down' = Append(down, Unit("data", sent', <<>>))
          /\ UNCHANGED srv
       \/ ClientGone /\ CopyError("copyDown") /\ UNCHANGED down
    /\ UNCHANGED <<setup, cli, up, wrote, fed, got, gap>>

\* The target sends: the message reaches the wire, or the write fails.
CopyDown ==
    /\ srv.pc = "relay" /\ srv.copyDown
    /\ sent < MaxData
    /\ sent' = sent + 1
    /\ \/ /\ down' = Append(down, Unit("data", sent', srv.layers))
          /\ UNCHANGED srv
       \/ ClientGone /\ CopyError("copyDown") /\ UNCHANGED down
    /\ UNCHANGED <<setup, cli, up, wrote, fed, got, gap>>

\* The target closes its side; a UDP socket has no such end.
TargetEOF ==
    /\ srv.pc = "relay" /\ srv.copyDown /\ setup.kind # "UDP"
    /\ srv' = [srv EXCEPT !.copyDown = FALSE]
    /\ UNCHANGED <<setup, cli, up, down, ends>>

\* The target resets its connection or its port is unreachable; so ends as well a
\* downward copy whose write fails, past the deadline.
TargetError ==
    /\ srv.pc = "relay"
    /\ \/ srv.copyUp /\ CopyError("copyUp")
       \/ srv.copyDown /\ CopyError("copyDown")
    /\ UNCHANGED <<setup, cli, up, down, ends>>

\* wg.Wait: both copies have returned, the stream is closed.
RelayReturns ==
    /\ srv.pc = "relay" /\ ~srv.copyUp /\ ~srv.copyDown
    /\ ServerDone
    /\ UNCHANGED <<setup, cli, up, down, ends>>

\* The connection below the stream is lost, or one of the processes.
Break ==
    /\ cli.pc # "start"
    /\ ~ClientGone \/ srv.pc # "done"
    /\ cli' = [cli EXCEPT !.pc = CASE @ = "tunnel" -> "closed"
                                   [] ClientGone -> @
                                   [] OTHER -> "failed"]
    /\ ServerDone
    /\ up' = <<>> /\ down' = <<>>
    /\ UNCHANGED <<setup, ends>>

-------------------------------------------------------------------------------
ClientStep ==
    \/ OfferObfs \/ ReadObfsReply \/ ClientHello \/ ClientCipher \/ NoHandshake
    \/ VlessAnswer \/ VmessAnswer \/ SendRequest \/ SendDirect \/ SendUDP
    \/ ReplyOK \/ ReplyERR \/ ReplyOther \/ ReplyUnreadable \/ ReplyEOF
    \/ HandshakeEOF

ServerStep ==
    \/ PeekObfs \/ PeekRequest \/ PeekLine \/ PeekBinary
    \/ ServerHello \/ ServerCipher \/ ServerPlain \/ VlessHello \/ VmessHello
    \/ ReadRequest \/ ServerEOF \/ RelayReturns

Next ==
    \/ ClientStep \/ ClientDeadline \/ CallerWrite \/ CallerRead \/ CallerClose
    \/ ServerStep \/ ServerDeadline \/ DialTarget \/ DialFails
    \/ CopyUp \/ CopyUpEOF \/ CopyDown \/ TargetEOF \/ TargetError
    \/ Break

Spec == Init /\ [][Next]_vars

\* Both ends run, a dial of the target ends one way or the other, a deadline
\* passes, what has arrived is copied.  Callers and targets owe nothing.
Fairness ==
    /\ WF_vars(ClientStep) /\ WF_vars(ClientDeadline)
    /\ WF_vars(ServerStep) /\ WF_vars(ServerDeadline)
    /\ WF_vars(DialTarget \/ DialFails)
    /\ WF_vars(CopyUp) /\ WF_vars(CopyUpEOF)

FairSpec == Spec /\ Fairness

-------------------------------------------------------------------------------
(* Properties *)

\* A client that was answered OK has a node behind it that has reached the
\* target, and both ends wrap the stream the same way: no line of a handshake,
\* no stale or unreadable byte passes for the reply (DialTCP, pkg/client/proxy.go:354-375).
OkMeansTunnel ==
    cli.reply = "ok" => /\ srv.dialled
                        /\ Framing(cli.layers) = Framing(srv.layers)

ObfsOff == setup.cobfs.pmax = 0 /\ setup.cobfs.dmax = 0

\* What the node will take the stream for: a plain request line that comes
\* first is recognised without a handshake.
ExpectedProtocol ==
    CASE ObfsOff /\ ClientProtocol = "plain" -> "plain"
      [] setup.snap = "hysteria2" -> "hysteria2"
      [] setup.stok = NoToken -> "plain"
      [] OTHER -> setup.snap

\* The two configurations fit: one protocol, one key, parameters that can be
\* agreed ("must be the same as the client's", SetObfuscation).
Compatible ==
    /\ ClientProtocol = ExpectedProtocol
    /\ CASE ClientProtocol = "plain" -> TRUE
         [] ClientProtocol = "hysteria2" -> setup.ctok = NoToken
         [] OTHER -> setup.ctok = setup.stok
    /\ IF ObfsOff THEN setup.sobfs.pmax = 0
       ELSE ParseObfsLine(setup.cobfs) /\ ParseObfsLine(Agreed)

\* 0 stands for bytes that nobody sent: the others are successive numbers, and
\* the first of them is n.
IsRun(s) ==
    \A i, j \in 1..Len(s) :
        i < j /\ s[i] # 0 /\ s[j] # 0 /\ (\A k \in (i + 1)..(j - 1) : s[k] = 0) => s[j] = s[i] + 1

StartsAt(s, n) ==
    \A i \in 1..Len(s) : s[i] # 0 /\ (\A k \in 1..(i - 1) : s[k] = 0) => s[i] = n

HasForeign(s) == \E i \in 1..Len(s) : s[i] = 0

Hysteria(layers) == Padding(layers) # {<<>>}

\* The target is given what the caller wrote, in order, from the first message
\* on: the client's wait for each answer keeps everything out of the reader that
\* the node drops after its peek.  A UDP tunnel does not wait and may lose the
\* datagrams that arrive together with an unwrapped request line.  Only
\* hysteria2 adds bytes, the padding that its Read returns.
FedInOrder ==
    /\ IsRun(fed)
    /\ StartsAt(fed, 1) \/ (setup.kind = "UDP" /\ srv.first /\ srv.lost)
    /\ HasForeign(fed) => Hysteria(srv.layers)

\* Between fitting ends the caller is given what the target sent, in order,
\* without a gap other than the messages that the reader of the reply line held
\* behind "OK"; these are lost only on a stream without framing.  Only hysteria2
\* adds bytes.
GotInOrder ==
    Compatible /\ srv.dialled =>
        /\ IsRun(got) /\ StartsAt(got, gap + 1)
        /\ gap > 0 => Framing(cli.layers) = {}
        /\ HasForeign(got) => Hysteria(cli.layers)

Waiting == /\ cli.pc \in {"obfs", "hello", "reply"}
           /\ srv.pc \in {"peek", "hello", "read"}
           /\ up = <<>> /\ down = <<>>

\* Fitting ends wait for each other only if the node's peek has dropped bytes of
\* the client's hello: none of the other readers loses what the peer waits for.
WaitExplained == Compatible /\ Waiting => srv.lost

\* A dial between fitting ends returns: on a bare stream the deadline of the
\* vless and vmess handshakes ends the wait for a hello that the node has torn;
\* a wrapped stream has no deadline and needs none, because no hello comes first.
DialReturns ==
    Compatible /\ (ObfsOff => ClientProtocol \notin {"shadowsocks", "hysteria2"})
      => (cli.pc = "start" ~> cli.pc \in {"tunnel", "failed", "closed"})

\* The handler ends once the client has closed the stream and the target its
\* connection, in either order (pipeBidirectional: an end of file closes
\* nothing, the second one releases wg.Wait).
RelayEnds ==
    (srv.pc = "relay" /\ ~srv.copyDown /\ ClientGone) ~> srv.pc = "done"

===============================================================================
