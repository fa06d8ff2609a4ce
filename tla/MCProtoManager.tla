---------------------------- MODULE MCProtoManager ----------------------------
(***************************************************************************)
(* Every manager that NewManager, Register and the two transport setters   *)
(* build from short lists of names, and a negotiation between two of them: *)
(* "mgr" is the node's manager and "peer" the client's.                    *)
(***************************************************************************)
EXTENDS ProtoManager

CONSTANTS MaxList,         \* bound: length of a configured list
          NodeTransports   \* transport lists a node is configured with

ASSUME ManagersAssumption == MaxList \in Nat /\ NodeTransports \subseteq Seq(Names)

VARIABLES mgr, peer
managers == <<mgr, peer>>

Lists == UNION {[1..n -> Names] : n \in 0..MaxList}

TcpAndWs == {<<1, 2>>}

ManagersInit ==
    /\ \E p \in Lists : mgr = NewManager(p)
    /\ \E p \in Lists : Len(p) # 1 /\ peer = NewManager(p)

RegisterLocal(name) == mgr' = Register(mgr, name) /\ UNCHANGED peer
RegisterPeer(name) == peer' = Register(peer, name) /\ UNCHANGED mgr

NodeHasTransports(s) == mgr' = SetSupportedTransports(mgr, s) /\ UNCHANGED peer
PeerDefaultsTo(t) == peer' = SetDefaultTransport(peer, t) /\ UNCHANGED mgr

ManagersNext ==
    \/ \E name \in Names \cup {None} : RegisterLocal(name) \/ RegisterPeer(name)
    \/ \E s \in NodeTransports : NodeHasTransports(s)
    \/ \E t \in Names \ {Tcp} : PeerDefaultsTo(t)

ManagersSpec == ManagersInit /\ [][ManagersNext]_managers

Offer == SupportedNames(peer)
Answer == ChooseCommon(Offer, SupportedNames(mgr))
Transport == ChooseCommonTransport(mgr, OfferedTransports(peer))

(* SupportedNames lists every registered protocol exactly once, whatever   *)
(* preferred says: one it does not name is still offered, but after all it *)
(* names, and one registered twice is offered once.  Without preferred the *)
(* order is that of registration.                                          *)
OffersInOrder ==
    \A m \in {mgr, peer} :
        LET s == SupportedNames(m) IN
        /\ Values(s) = m.protocols /\ Len(s) = Cardinality(m.protocols)
        /\ m.preferred = <<>> => s = m.registrationOrder
        /\ m.preferred # <<>> =>
              \A i, j \in DOMAIN s :
                  s[i] \in Values(m.preferred) /\ s[j] \notin Values(m.preferred) => i < j

Best(offer, answer, supported) ==
    IF answer = None THEN Values(offer) \cap supported = {}
    ELSE \E i \in DOMAIN offer :
            /\ offer[i] = answer /\ answer \in supported
            /\ \A j \in 1..(i - 1) : offer[j] \notin supported

(* The protocol that is negotiated is known to both sides and no common    *)
(* one stands before it in the client's offer; it is empty only when there *)
(* is no common protocol at all.  The same holds of the transport, which   *)
(* is the client's default whenever the node has it.                       *)
AnswerIsClientsBest ==
    LET has == Values(SupportedTransports(mgr)) IN
    /\ Best(Offer, Answer, mgr.protocols)
    /\ Best(OfferedTransports(peer), Transport, has)
    /\ peer.defaultTransport \in has => Transport = peer.defaultTransport
===============================================================================
