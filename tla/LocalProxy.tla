------------------------------ MODULE LocalProxy ------------------------------
(***************************************************************************)
(* The servers that take a TCP connection and relay it to somewhere else:   *)
(* the SOCKS5, HTTP CONNECT and dokodemo inbounds and the REALITY listener  *)
(* of the daemon, and the commands proxy-forwarder and tls-front.  They     *)
(* share one shape, an accept loop and a handler per connection with two    *)
(* copying goroutines, and differ in four points: who closes the listener   *)
(* on a cancelled context (or a signal), after which accept errors the loop *)
(* ends, what the handler reads before it dials, and whether it waits for   *)
(* one copy or for both.                                                   *)
(*                                                                         *)
(* Connections share nothing but the loop, so one is followed.  A message   *)
(* stands for the bytes of one write; the messages of a direction are       *)
(* numbered.  The client and the target are the environment; for            *)
(* proxy-forwarder the target is the far end of the dialled stream, and     *)
(* that stream may be a shadowsocks session, whose Read holds the one mutex *)
(* of the session while it waits.                                           *)
(***************************************************************************)
EXTENDS Integers, Sequences

CONSTANTS
    Kinds,       \* the servers considered
    MaxData,     \* bound: messages in one direction
    MaxErrors    \* bound: errors of Accept on an open listener

ASSUME LocalAssumptions ==
    /\ Kinds \subseteq {"socks5", "http", "dokodemo", "reality", "forwarder", "tlsfront"}
    /\ MaxData \in Nat /\ MaxErrors \in Nat

VARIABLES
    kind,        \* which server
    blackhole,   \* cfg.Outbound = "blackhole"
    single,      \* the dialled stream is a session with one mutex for Read and Write
    done,        \* the context is cancelled, or the signal has come
    ln,          \* the listener
    loop,        \* "accept" or "returned"
    errors,      \* the errors Accept has returned on an open listener
    client,      \* the client's end: "new", "open", "eof" (it sends no more), "closed"
    target,      \* the target's end, likewise; "none" before the dial
    stalled,     \* the ends that do not read any more, and whose buffers are full
    header,      \* what the client has sent as its request
    h,           \* where the handler is
    sent,        \* how many messages the client and the target have sent
    up, down,    \* what the proxy has not read yet
    buf,         \* what the HTTP request's bufio.Reader holds behind the request
    told,        \* the replies the client has got
    fed, got,    \* what has arrived at the target and at the client
    copies       \* the copying goroutines that still run

fixed == <<kind, blackhole, single>>
connVars == <<client, target, header, sent>>
vars == <<fixed, stalled, done, ln, loop, errors, connVars, h, up, down, buf, fed, told, got, copies>>

Inbounds == {"socks5", "http"}           \* what takes a request from the client
WaitsForOne == {"forwarder", "tlsfront"} \* the handler returns after the first copy
NeverCloses == {"socks5", "forwarder"}   \* nobody closes the listener

Requests == {"valid", "refused", "garbage"}

Init ==
    /\ kind \in Kinds /\ blackhole \in BOOLEAN /\ (blackhole => kind \in Inbounds)
    /\ single \in BOOLEAN /\ (single => kind = "forwarder") /\ stalled = {}
    /\ done = FALSE /\ ln = "open" /\ loop = "accept" /\ errors = <<>>
    /\ client = "new" /\ target = "none" /\ header = "none" /\ h = "none"
    /\ sent = [client |-> 0, target |-> 0]
    /\ up = <<>> /\ down = <<>> /\ buf = <<>> /\ fed = <<>> /\ told = <<>> /\ got = <<>> /\ copies = {}

-----------------------------------------------------------------------------
(* The environment.                                                        *)

Cancel ==
    /\ ~done /\ done' = TRUE
    /\ UNCHANGED <<fixed, stalled, ln, loop, errors, connVars, h, up, down, buf, fed, told, got, copies>>

(* The client connects; the kernel's backlog keeps it until Accept.         *)
Connect ==
    /\ client = "new" /\ ln = "open" /\ client' = "open"
    /\ UNCHANGED <<fixed, stalled, done, ln, loop, errors, target, header, sent, h, up, down,
                   buf, fed, told, got, copies>>

SendRequest ==
    /\ kind \in Inbounds /\ client = "open" /\ header = "none" /\ h # "done"
    /\ header' \in Requests
    /\ UNCHANGED <<fixed, stalled, done, ln, loop, errors, client, target, sent, h, up, down,
                   buf, fed, told, got, copies>>

(* Data, which a client may send before it has an answer.                  *)
ClientSends ==
    /\ client = "open" /\ h # "done" /\ sent.client < MaxData
    /\ kind \in Inbounds => header = "valid"
    /\ sent' = [sent EXCEPT !.client = @ + 1]
    /\ up' = Append(up, sent.client + 1)
    /\ UNCHANGED <<fixed, stalled, done, ln, loop, errors, client, target, header, h, down,
                   buf, fed, told, got, copies>>

TargetSends ==
    /\ target = "open" /\ h # "done" /\ sent.target < MaxData
    /\ sent' = [sent EXCEPT !.target = @ + 1]
    /\ down' = Append(down, sent.target + 1)
    /\ UNCHANGED <<fixed, stalled, done, ln, loop, errors, client, target, header, h, up,
                   buf, fed, told, got, copies>>

(* Either end says that it sends no more, or goes away.                    *)
ClientEnds(how) ==
    /\ client \in {"open", "eof"} /\ client # how /\ client' = how
    /\ UNCHANGED <<fixed, stalled, done, ln, loop, errors, target, header, sent, h, up, down,
                   buf, fed, told, got, copies>>

TargetEnds(how) ==
    /\ target \in {"open", "eof"} /\ target # how /\ target' = how
    /\ UNCHANGED <<fixed, stalled, done, ln, loop, errors, client, header, sent, h, up, down,
                   buf, fed, told, got, copies>>

(* Either end stops reading.                                               *)
Stall(end) ==
    /\ end \notin stalled /\ h # "done"
    /\ IF end = "client" THEN client \in {"open", "eof"} ELSE target \in {"open", "eof"}
    /\ stalled' = stalled \cup {end}
    /\ UNCHANGED <<fixed, done, ln, loop, errors, connVars, h, up, down, buf, fed, told, got, copies>>

-----------------------------------------------------------------------------
(* The accept loop.                                                        *)

(* Mutant of CloseListener: the loop is left to find out by itself.        *)
CloseListenerNever ==
    /\ FALSE
    /\ UNCHANGED vars

(* The goroutine that waits for ctx.Done or the signal.                    *)
CloseListener ==
    /\ done /\ ln = "open" /\ kind \notin NeverCloses
    /\ ln' = "closed"
    /\ UNCHANGED <<fixed, stalled, done, loop, errors, connVars, h, up, down, buf, fed, told, got, copies>>

(* A handler is started, after a cancellation too.  REALITY only logs and  *)
(* closes.                                                                 *)
Accept ==
    /\ loop = "accept" /\ ln = "open" /\ client # "new" /\ h = "none"
    /\ h' = CASE kind = "socks5" -> "greeting" [] kind = "http" -> "request"
              [] kind = "reality" -> "close" [] OTHER -> "dial"
    /\ UNCHANGED <<fixed, stalled, done, ln, loop, errors, connVars, up, down, buf, fed, told, got, copies>>

(* Which error of Accept ends the loop: any, once the context is done; any *)
(* at all for REALITY; one that is not temporary, or the closed listener,  *)
(* for tls-front, which has no context.                                    *)
EndsLoop(e) ==
    \/ kind = "reality"
    \/ kind = "tlsfront" /\ e # "temporary"
    \/ kind # "tlsfront" /\ done

(* Accept fails, on a closed listener at once.  The deferred Close of the  *)
(* listener comes with the return.                                         *)
AcceptError ==
    /\ loop = "accept"
    /\ \/ ln = "closed" /\ errors' = errors /\ EndsLoop("closed")
          /\ loop' = "returned" /\ ln' = "closed"
       \/ \E e \in {"temporary", "fatal"} :
             /\ ln = "open" /\ Len(errors) < MaxErrors /\ errors' = Append(errors, e)
             /\ IF EndsLoop(e) THEN loop' = "returned" /\ ln' = "closed"
                ELSE UNCHANGED <<loop, ln>>
    /\ UNCHANGED <<fixed, stalled, done, connVars, h, up, down, buf, fed, told, got, copies>>

-----------------------------------------------------------------------------
(* The handler up to the relay.                                            *)

Tell(m) == told' = IF client = "closed" THEN told ELSE Append(told, m)

Told == {told[i] : i \in DOMAIN told}

(* The client has ended before its request was complete.                   *)
NoRequest ==
    /\ h \in {"greeting", "request"} /\ client \in {"eof", "closed"} /\ header = "none"
    /\ h' = "done"
    /\ UNCHANGED <<fixed, stalled, done, ln, loop, errors, connVars, up, down, buf, fed, told, got, copies>>

(* SOCKS5: the greeting, which a wrong version ends without a word.        *)
Greeting ==
    /\ h = "greeting" /\ header # "none"
    /\ \/ header = "garbage" /\ h' = "done" /\ UNCHANGED told
       \/ header # "garbage" /\ Tell("method")
          /\ h' \in (IF client = "closed" THEN {"request", "done"} ELSE {"request"})
    /\ UNCHANGED <<fixed, stalled, done, ln, loop, errors, connVars, up, down, buf, fed, got, copies>>

(* Mutant of Request: the reader and what it holds are dropped.            *)
RequestDropsReader ==
    /\ h = "request" /\ header = "valid" /\ h' = "dial"
    /\ \E n \in (IF kind = "http" THEN 0..Len(up) ELSE {0}) : up' = SubSeq(up, n + 1, Len(up))
    /\ UNCHANGED <<fixed, stalled, done, ln, loop, errors, connVars, down, buf, fed, told, got,
                   copies>>

(* The request itself.  io.ReadFull takes exactly its bytes; the reader of *)
(* http.ReadRequest takes what has come with it as well.                   *)
Request ==
    /\ h = "request" /\ header # "none"
    /\ \/ header = "garbage" /\ h' = "done" /\ UNCHANGED <<told, buf, up>>
       \/ header = "refused" /\ h' = "done" /\ Tell("refused") /\ UNCHANGED <<buf, up>>
       \/ header = "valid" /\ h' = "dial" /\ UNCHANGED told
          /\ \E n \in (IF kind = "http" THEN 0..Len(up) ELSE {0}) :
                buf' = SubSeq(up, 1, n) /\ up' = SubSeq(up, n + 1, Len(up))
    /\ UNCHANGED <<fixed, stalled, done, ln, loop, errors, connVars, down, fed, got, copies>>

(* Outbound.Dial, net.Dial or DialTCPWithFallback fails, and with the      *)
(* blackhole always; the inbounds say so.                                  *)
DialFails ==
    /\ h = "dial" /\ h' = "done"
    /\ IF kind \in Inbounds THEN Tell("refused") ELSE UNCHANGED told
    /\ UNCHANGED <<fixed, stalled, done, ln, loop, errors, connVars, up, down, buf, fed, got, copies>>

DialOk ==
    /\ h = "dial" /\ ~blackhole
    /\ target' = "open"
    /\ h' = IF kind \in Inbounds THEN "reply" ELSE "relay"
    /\ copies' = IF kind \in Inbounds THEN {} ELSE {"up", "down"}
    /\ UNCHANGED <<fixed, stalled, done, ln, loop, errors, client, header, sent, up, down,
                   buf, fed, told, got>>

(* The success reply; if the client is gone it may not be writable.        *)
Reply ==
    /\ h = "reply"
    /\ \/ h' = "relay" /\ copies' = {"up", "down"} /\ Tell("ok")
       \/ client = "closed" /\ h' = "close" /\ UNCHANGED <<copies, told>>
    /\ UNCHANGED <<fixed, stalled, done, ln, loop, errors, connVars, up, down, buf, fed, got>>

-----------------------------------------------------------------------------
(* The relay: io.Copy in both directions.  Neither end of file is passed   *)
(* on.  What is written to an end that has gone away is lost, or fails.    *)
(* What is written to an end that does not read blocks once the buffers on *)
(* the way are full, and a session with one mutex lets no write through    *)
(* while its Read waits: the write may still get in before, so that a copy *)
(* can take the step, but it need not.                                     *)

(* The upward copy empties the request's reader before the connection.     *)
CopyUp ==
    /\ h = "relay" /\ "up" \in copies /\ buf \o up # <<>>
    /\ fed' = IF target = "closed" THEN fed ELSE Append(fed, Head(buf \o up))
    /\ \/ buf # <<>> /\ buf' = Tail(buf) /\ UNCHANGED up
       \/ buf = <<>> /\ up' = Tail(up) /\ UNCHANGED buf
    /\ UNCHANGED <<fixed, stalled, done, ln, loop, errors, connVars, h, down, told, got, copies>>

CopyDown ==
    /\ h = "relay" /\ "down" \in copies /\ down # <<>>
    /\ got' = IF client = "closed" THEN got ELSE Append(got, Head(down))
    /\ down' = Tail(down)
    /\ UNCHANGED <<fixed, stalled, done, ln, loop, errors, connVars, h, up, buf, fed, told, copies>>

(* A copy ends when everything is read, or on an error: a reset at the end *)
(* it reads from, or a write to an end that is gone.                       *)
CopyEnds(copy, reader, writer, unread) ==
    /\ h = "relay" /\ copy \in copies
    /\ \/ reader # "open" /\ unread = <<>>
       \/ reader = "closed"
       \/ writer = "closed" /\ unread # <<>>
    /\ copies' = copies \ {copy}
    /\ UNCHANGED <<fixed, stalled, done, ln, loop, errors, connVars, h, up, down, buf, fed,
                   told, got>>

(* Mutant of Waited: everybody returns after the first copy.               *)
WaitedForOne == copies # {"up", "down"}

(* Mutant of Waited: everybody waits for both copies.                      *)
WaitedForBoth == copies = {}

(* wg.Wait, or the receive from errCh, to which proxy-forwarder adds       *)
(* ctx.Done.                                                               *)
Waited ==
    \/ copies = {}
    \/ kind \in WaitsForOne /\ copies # {"up", "down"}
    \/ kind = "forwarder" /\ done

(* The handler returns; its deferred calls close both connections, which   *)
(* ends a copy that still runs.                                            *)
HandlerReturns ==
    /\ h = "close" \/ (h = "relay" /\ Waited)
    /\ h' = "done" /\ copies' = {}
    /\ UNCHANGED <<fixed, stalled, done, ln, loop, errors, connVars, up, down, buf, fed, told, got>>

-----------------------------------------------------------------------------
Environment ==
    \/ Cancel \/ Connect \/ SendRequest \/ ClientSends \/ TargetSends
    \/ \E how \in {"eof", "closed"} : ClientEnds(how) \/ TargetEnds(how)
    \/ \E end \in {"client", "target"} : Stall(end)

CopyingUp == CopyUp \/ CopyEnds("up", client, target, buf \o up)
CopyingDown == CopyDown \/ CopyEnds("down", target, client, down)

(* A copy is in a Write to an end that does not read.                      *)
StalledUp == "up" \in copies /\ buf \o up # <<>> /\ "target" \in stalled /\ target # "closed"
StalledDown == "down" \in copies /\ down # <<>> /\ "client" \in stalled /\ client # "closed"

(* The other way into the same session is taken: by a Read that waits for  *)
(* the target, or by a Write that cannot go on.                            *)
ReadWaits == single /\ "down" \in copies /\ down = <<>> /\ target = "open"
BlockedUp == StalledUp \/ (ReadWaits /\ buf \o up # <<>>)
BlockedDown == StalledDown \/ (single /\ StalledUp)

Starting == NoRequest \/ Greeting \/ Request \/ Reply

Next ==
    \/ Environment \/ CloseListener \/ Accept \/ AcceptError
    \/ DialOk \/ DialFails \/ Starting \/ CopyingUp \/ CopyingDown \/ HandlerReturns

(* Goroutines run, a copy unless it is blocked, and the kernel's dial      *)
(* comes to an end; the dial through a proxy node, which has no deadline   *)
(* (ProxyStream), need not, and the environment owes nothing.  The replies *)
(* are a few bytes and fit into the buffer of the client's socket, and     *)
(* closing a session takes no mutex.                                       *)
Obliged ==
    \/ CloseListener \/ Accept \/ (ln = "closed" /\ AcceptError) \/ Starting \/ HandlerReturns
    \/ (kind # "forwarder" /\ (DialOk \/ DialFails))
    \/ (~BlockedUp /\ CopyingUp) \/ (~BlockedDown /\ CopyingDown)

Spec == Init /\ [][Next]_vars /\ WF_vars(Obliged)

-----------------------------------------------------------------------------
Prefix(s, n) == Len(s) <= n /\ \A i \in 1..Len(s) : s[i] = i

(* Both ends get what the other has sent, from the beginning and in order, *)
(* also what the client sent along with its request; nothing is relayed    *)
(* before the success reply, and a refusal means that no target was there. *)
RelayedInOrder ==
    /\ Prefix(fed, sent.client) /\ Prefix(got, sent.target)
    /\ kind \in Inbounds /\ (fed # <<>> \/ got # <<>>) /\ client # "closed" => "ok" \in Told
    /\ "refused" \in Told => target = "none"

(* If neither end goes away, a handler that has returned from its relay    *)
(* has cut nothing off: the inbounds have delivered everything of both     *)
(* directions.  proxy-forwarder and tls-front wait for one copy only, so   *)
(* that one direction is whole and the other may be cut; proxy-forwarder   *)
(* may cut both when it is cancelled.                                      *)
NothingCut ==
    LET upWhole == client = "eof" /\ Len(fed) = sent.client
        downWhole == target = "eof" /\ Len(got) = sent.target
    IN  h = "done" /\ target # "none" /\ "closed" \notin {client, target} =>
            \/ upWhole /\ downWhole
            \/ kind \in WaitsForOne /\ (upWhole \/ downWhole)
            \/ kind = "forwarder" /\ done

(* What may wait for ever: a handler for its client's request, and a relay *)
(* none of whose copies has to go on.  A copy has relayed all there was    *)
(* and waits for an end that stays open, or it is blocked: by an end that  *)
(* does not read, or in proxy-forwarder by the mutex of a session, so that *)
(* a client that has gone leaves its handler behind while the target is    *)
(* silent.  Who waits for one copy waits only as long as both are there.   *)
HandlersEnd ==
    <>[](/\ h \in {"greeting", "request"} => client = "open" /\ header = "none"
         /\ h = "relay" =>
               /\ copies # {} /\ (kind \in WaitsForOne => copies = {"up", "down"})
               /\ ~(kind = "forwarder" /\ done)
               /\ "up" \in copies => BlockedUp \/ (client = "open" /\ buf \o up = <<>>)
               /\ "down" \in copies => BlockedDown \/ (target = "open" /\ down = <<>>)
         /\ h \in {"reply", "close"} => FALSE
         /\ h = "dial" => kind = "forwarder")

(* After a cancellation the accept loop ends, where somebody closes the    *)
(* listener: nobody does in socks5 and proxy-forwarder.                    *)
ServeStops == <>[](done => loop = "returned" \/ kind \in NeverCloses)
=============================================================================
