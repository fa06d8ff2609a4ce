------------------------------ MODULE Negotiation -----------------------------
(***************************************************************************)
(* How the two ends of a /proxy/1.0.0 stream come to use a protocol.       *)
(*                                                                         *)
(* DialTCP of pkg/client first runs ClientNegotiate on a stream of its own *)
(* and stores the answer in ProxyClient.chosenProto, which all goroutines  *)
(* that dial through that client share without a lock.  The node's         *)
(* negotiation handler sends the answer and only then stores it under the  *)
(* peer id with RememberChosenProtocol.  Then the client opens the proxy   *)
(* stream: handleProxyStream looks up what is stored for the peer, the     *)
(* client compares chosenProto when it is about to do the handshake.       *)
(* Nothing in the proxy stream itself says which protocol is meant.        *)
(*                                                                         *)
(* A call of DialTCPWithFallback makes several attempts; attempt k > 0     *)
(* replaces the client's manager by one with the order rotated by k.       *)
(***************************************************************************)
EXTENDS ProtoManager

CONSTANTS
    Peers,             \* libp2p hosts that dial the node
    Clients,           \* ProxyClient objects
    Calls,             \* calls of DialTCPWithFallback
    PeerOf,            \* the host of a ProxyClient
    ClientOf,          \* the ProxyClient of a call
    DefaultOrder,      \* preferred of NewProxyClient, defaultProtoOrder of the node
    Unset,             \* stands for a protocol that has not been read yet
    Vmess,             \* the protocol that a rotated manager does not register
    NodeConfigs,       \* values of cfg.ProxyProtocols
    AttemptsOf,        \* bound: attempts of a call (Len(DefaultOrder) in the code)
    MaxRestarts        \* bound: restarts of the node

ASSUME NegotiationAssumption ==
    /\ PeerOf \in [Clients -> Peers] /\ ClientOf \in [Calls -> Clients]
    /\ DefaultOrder \in Seq(Names) /\ Unset \notin Names \cup {None}
    /\ AttemptsOf \in [Calls -> 1..Len(DefaultOrder)] /\ MaxRestarts \in Nat

VARIABLES
    rotation,          \* by how much the preferred order of c.mgr is rotated
    chosenProto,       \* ProxyClient.chosenProto
    dpc,               \* progress of each attempt on the client
    npc,               \* progress of its negotiation handler on the node
    offer, answer,     \* the two messages of its negotiation stream
    registered,        \* SupportedNames of the node's manager
    lastChosen,        \* Server.lastChosen
    mode,              \* protocol the client's comparisons selected
    snap,              \* chosenProto of handleProxyStream
    restarts,
    orderly            \* history: nothing has disturbed the attempt so far

clientVars == <<rotation, chosenProto, dpc, mode>>
nodeVars == <<npc, registered, lastChosen, snap, restarts>>
vars == <<clientVars, nodeVars, offer, answer, orderly>>

Attempts == UNION {{d} \X (0..(AttemptsOf[d] - 1)) : d \in Calls}
Client(a) == ClientOf[a[1]]
Peer(a) == PeerOf[Client(a)]
Rivals(a) == {b \in Attempts \ {a} : Peer(b) = Peer(a)}

-----------------------------------------------------------------------------
(* NewProxyClient's manager, and the manager of attempt k > 0: the order   *)
(* rotated by k, everything registered but vmess.                          *)
Rotated(k) == SubSeq(DefaultOrder, k + 1, Len(DefaultOrder)) \o SubSeq(DefaultOrder, 1, k)

ClientManager(k) ==
    [NewManager(Rotated(k)) EXCEPT
        !.protocols = IF k = 0 THEN Values(DefaultOrder) ELSE Values(DefaultOrder) \ {Vmess}]

Offered == [k \in 0..(Len(DefaultOrder) - 1) |-> SupportedNames(ClientManager(k))]

(* The node registers what its configuration names and the code knows; a   *)
(* configuration that names nothing known means the default.               *)
NodePreferred(cfg) ==
    LET known == SelectSeq(cfg, LAMBDA n : n \in Values(DefaultOrder)) IN
    IF known = <<>> THEN DefaultOrder ELSE known

NodeManager(cfg) ==
    [NewManager(NodePreferred(cfg)) EXCEPT !.protocols = Values(NodePreferred(cfg))]

NodeOffers == {SupportedNames(NodeManager(cfg)) : cfg \in NodeConfigs}

-----------------------------------------------------------------------------
(* Nothing of the attempt is running any more, on either side.             *)
Over(a) == /\ dpc[a] = "failed" \/ (dpc[a] = "acting" /\ snap[a] # Unset)
           /\ npc[a] \notin {"waiting", "answered"}
Busy(a) == dpc[a] # "idle" /\ ~Over(a)

(* The attempt a begins: it is orderly if it is alone, and it disturbs the *)
(* attempts of the same peer that are still running.                       *)
Begins(a) ==
    orderly' = [b \in Attempts |->
                   IF b = a THEN \A r \in Rivals(a) : ~Busy(r)
                   ELSE orderly[b] /\ (b \in Rivals(a) => Over(b))]

Disturbed(a) == orderly' = [orderly EXCEPT ![a] = FALSE]

Init ==
    /\ rotation = [c \in Clients |-> 0] /\ chosenProto = [c \in Clients |-> None]
    /\ dpc = [a \in Attempts |-> "idle"] /\ npc = [a \in Attempts |-> "none"]
    /\ offer = [a \in Attempts |-> <<>>] /\ answer = [a \in Attempts |-> None]
    /\ registered \in NodeOffers
    /\ lastChosen = [p \in Peers |-> None]
    /\ mode = [a \in Attempts |-> Unset] /\ snap = [a \in Attempts |-> Unset]
    /\ restarts = 0
    /\ orderly = [a \in Attempts |-> FALSE]

-----------------------------------------------------------------------------
(* The client.                                                             *)

(* A call of DialTCPWithFallback: the first attempt keeps the manager.     *)
FirstAttempt(a) ==
    /\ a[2] = 0 /\ dpc[a] = "idle"
    /\ dpc' = [dpc EXCEPT ![a] = "begun"]
    /\ Begins(a)
    /\ UNCHANGED <<rotation, chosenProto, mode, nodeVars, offer, answer>>

(* The attempt before failed or was too slow: a manager with the rotated   *)
(* order, and no chosen protocol.                                          *)
Retry(a) ==
    /\ a[2] > 0 /\ dpc[a] = "idle"
    /\ dpc[<<a[1], a[2] - 1>>] \in {"acting", "failed"}
    /\ dpc' = [dpc EXCEPT ![a] = "begun"]
    /\ rotation' = [rotation EXCEPT ![Client(a)] = a[2]]
    /\ chosenProto' = [chosenProto EXCEPT ![Client(a)] = None]
    /\ Begins(a)
    /\ UNCHANGED <<mode, nodeVars, offer, answer>>

(* DialTCP gives up: H.Connect or H.NewStream of the proxy stream fails.   *)
DialFails(a) ==
    /\ dpc[a] \in {"begun", "negotiated"}
    /\ dpc' = [dpc EXCEPT ![a] = "failed"]
    /\ Disturbed(a)
    /\ UNCHANGED <<rotation, chosenProto, mode, nodeVars, offer, answer>>

(* ClientNegotiate: the stream is opened and the offer written.            *)
SendOffer(a) ==
    /\ dpc[a] = "begun"
    /\ dpc' = [dpc EXCEPT ![a] = "offered"]
    /\ npc' = [npc EXCEPT ![a] = "waiting"]
    /\ offer' = [offer EXCEPT ![a] = Offered[rotation[Client(a)]]]
    /\ UNCHANGED <<rotation, chosenProto, mode, registered, lastChosen, snap, restarts,
                   answer, orderly>>

(* Mutant of ReceiveAnswer: the client takes the first name it offered.    *)
ReceiveAnswerOptimistic(a) ==
    /\ dpc[a] = "offered"
    /\ npc[a] \in {"answered", "remembered", "refused"}
    /\ dpc' = [dpc EXCEPT ![a] = "negotiated"]
    /\ chosenProto' = [chosenProto EXCEPT ![Client(a)] = Head(offer[a])]
    /\ UNCHANGED <<rotation, mode, nodeVars, offer, answer, orderly>>

(* The answer arrives, perhaps after the node that sent it has died; an    *)
(* empty choice is an error and changes nothing.                           *)
ReceiveAnswer(a) ==
    /\ dpc[a] = "offered"
    /\ npc[a] \in {"answered", "remembered", "refused"} \/ answer[a] # None
    /\ dpc' = [dpc EXCEPT ![a] = "negotiated"]
    /\ \/ /\ answer[a] # None
          /\ chosenProto' = [chosenProto EXCEPT ![Client(a)] = answer[a]]
          /\ UNCHANGED orderly
       \/ answer[a] = None /\ UNCHANGED chosenProto /\ Disturbed(a)
    /\ UNCHANGED <<rotation, mode, nodeVars, offer, answer>>

(* ClientNegotiate fails on an I/O error; DialTCP goes on regardless.      *)
NegotiateFails(a) ==
    /\ dpc[a] \in {"begun", "offered"}
    /\ dpc' = [dpc EXCEPT ![a] = "negotiated"]
    /\ Disturbed(a)
    /\ UNCHANGED <<rotation, chosenProto, mode, nodeVars, offer, answer>>

(* The proxy stream is opened.                                             *)
OpenProxyStream(a) ==
    /\ dpc[a] = "negotiated"
    /\ dpc' = [dpc EXCEPT ![a] = "open"]
    /\ UNCHANGED <<rotation, chosenProto, mode, nodeVars, offer, answer, orderly>>

(* The comparisons of c.chosenProto with the protocol names.  They are     *)
(* separate reads without a lock: a write of another goroutine between     *)
(* them can make all of them fail.                                         *)
PickHandshake(a) ==
    /\ dpc[a] = "open"
    /\ dpc' = [dpc EXCEPT ![a] = "acting"]
    /\ \E p \in {chosenProto[Client(a)]} \cup
               (IF \E b \in Rivals(a) : Client(b) = Client(a) /\ Busy(b) THEN {None} ELSE {}) :
          mode' = [mode EXCEPT ![a] = p]
    /\ UNCHANGED <<rotation, chosenProto, nodeVars, offer, answer, orderly>>

-----------------------------------------------------------------------------
(* The node.                                                               *)

(* Mutant of HandleStream: no response when there is no common protocol.   *)
HandleStreamSilent(a) ==
    LET chosen == ChooseCommon(offer[a], registered) IN
    /\ npc[a] = "waiting" /\ chosen # None
    /\ answer' = [answer EXCEPT ![a] = chosen]
    /\ npc' = [npc EXCEPT ![a] = "answered"]
    /\ UNCHANGED <<clientVars, offer, registered, lastChosen, snap, restarts, orderly>>

(* HandleStream: decode the offer, choose, write the response.             *)
HandleStream(a) ==
    LET chosen == ChooseCommon(offer[a], registered) IN
    /\ npc[a] = "waiting"
    /\ answer' = [answer EXCEPT ![a] = chosen]
    /\ \/ chosen # None /\ npc' = [npc EXCEPT ![a] = "answered"]
       \/ chosen = None /\ npc' = [npc EXCEPT ![a] = "refused"]
    /\ UNCHANGED <<clientVars, offer, registered, lastChosen, snap, restarts, orderly>>

(* The offer cannot be read or the response cannot be written: the handler *)
(* logs the error and remembers nothing, as after a refusal.               *)
HandleStreamFails(a) ==
    /\ npc[a] = "waiting"
    /\ npc' = [npc EXCEPT ![a] = "failed"]
    /\ UNCHANGED <<clientVars, offer, answer, registered, lastChosen, snap, restarts,
                   orderly>>

(* Mutant of RememberChosenProtocol: an entry is not overwritten.          *)
RememberOnce(a) ==
    /\ npc[a] = "answered"
    /\ npc' = [npc EXCEPT ![a] = "remembered"]
    /\ lastChosen' = [lastChosen EXCEPT ![Peer(a)] = IF @ = None THEN answer[a] ELSE @]
    /\ UNCHANGED <<clientVars, offer, answer, registered, snap, restarts, orderly>>

(* After the answer is on its way.                                         *)
RememberChosenProtocol(a) ==
    /\ npc[a] = "answered"
    /\ npc' = [npc EXCEPT ![a] = "remembered"]
    /\ lastChosen' = [lastChosen EXCEPT ![Peer(a)] = answer[a]]
    /\ UNCHANGED <<clientVars, offer, answer, registered, snap, restarts, orderly>>

(* handleProxyStream starts: lastChosenProtocol(peer).                     *)
AcceptProxyStream(a) ==
    /\ dpc[a] \in {"open", "acting"} /\ snap[a] = Unset
    /\ snap' = [snap EXCEPT ![a] = lastChosen[Peer(a)]]
    /\ orderly' = [orderly EXCEPT ![a] = @ /\ npc[a] = "remembered"]
    /\ UNCHANGED <<clientVars, npc, registered, lastChosen, restarts, offer, answer>>

(* The node restarts, perhaps with another configuration: the map is empty *)
(* and the running handlers are gone.                                      *)
Restart ==
    /\ restarts < MaxRestarts
    /\ restarts' = restarts + 1
    /\ registered' \in NodeOffers
    /\ lastChosen' = [p \in Peers |-> None]
    /\ npc' = [a \in Attempts |-> IF npc[a] \in {"waiting", "answered"}
                                  THEN "failed" ELSE npc[a]]
    /\ orderly' = [a \in Attempts |-> orderly[a] /\ (dpc[a] = "begun" \/ Over(a))]
    /\ UNCHANGED <<clientVars, offer, answer, snap>>

-----------------------------------------------------------------------------
ClientStep(a) == \/ FirstAttempt(a) \/ Retry(a) \/ DialFails(a)
                 \/ SendOffer(a) \/ ReceiveAnswer(a) \/ NegotiateFails(a)
                 \/ OpenProxyStream(a) \/ PickHandshake(a)
NodeStep(a) == \/ HandleStream(a) \/ HandleStreamFails(a)
               \/ RememberChosenProtocol(a) \/ AcceptProxyStream(a)

Next == (\E a \in Attempts : ClientStep(a) \/ NodeStep(a)) \/ Restart

Spec == Init /\ [][Next]_vars

(* A stream handler that is running goes on; so does a dial that got its   *)
(* answer, or whose stream the node has closed.  Nobody is obliged to dial *)
(* or to retry, and no connection is obliged to break.  Attempts are       *)
(* bounded and each step takes one of them further, so none is overtaken   *)
(* for ever and fairness of the steps together is enough.                  *)
Obliged(a) ==
    \/ HandleStream(a) \/ RememberChosenProtocol(a) \/ AcceptProxyStream(a)
    \/ SendOffer(a) \/ ReceiveAnswer(a) \/ (npc[a] = "failed" /\ NegotiateFails(a))
    \/ OpenProxyStream(a) \/ PickHandshake(a)

FairSpec == Spec /\ WF_vars(\E a \in Attempts : Obliged(a))
-----------------------------------------------------------------------------
(* An attempt that runs alone for its peer, whose negotiation succeeds and *)
(* whose proxy stream reaches the node after RememberChosenProtocol has    *)
(* both ends act on the same protocol, whatever earlier attempts, failures,*)
(* rotations and restarts left in the two maps.                            *)
OrderlyDialsAgree ==
    \A a \in Attempts :
        orderly[a] /\ mode[a] # Unset /\ snap[a] # Unset => mode[a] = snap[a]

(* What the node remembers for a peer is a protocol it has answered that   *)
(* peer with since it started, hence one that it registered; and a client  *)
(* acts on a protocol only if that very client was answered with it.       *)
OnlyAnswersAreKept ==
    /\ \A p \in Peers : lastChosen[p] # None =>
          /\ lastChosen[p] \in Values(registered)
          /\ \E a \in Attempts : Peer(a) = p /\ npc[a] = "remembered" /\ answer[a] = lastChosen[p]
    /\ \A c \in Clients : chosenProto[c] # None =>
          \E a \in Attempts : Client(a) = c /\ answer[a] = chosenProto[c]

(* Every attempt that has begun ends: it fails, or both ends have decided  *)
(* on a protocol.  No end waits for the other for ever.                    *)
DialsFinish ==
    <>[](\A a \in Attempts :
            dpc[a] \in {"idle", "failed"} \/ (mode[a] # Unset /\ snap[a] # Unset))

===============================================================================
