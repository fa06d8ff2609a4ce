----------------------------- MODULE ProtoManager -----------------------------
(***************************************************************************)
(* The protocol manager of hypernet/services/proxy/protomanager, as        *)
(* operators on a record.  A protocol or transport name is a positive      *)
(* number whose order stands for the order of the strings; 0 is the empty  *)
(* string.                                                                 *)
(***************************************************************************)
EXTENDS Naturals, Sequences, FiniteSets

CONSTANT Names             \* protocol and transport names
ASSUME NamesAssumption == Names \subseteq Nat \ {0} /\ IsFiniteSet(Names)

None == 0                  \* "" in the code
Tcp == 1                   \* the transport "tcp"

Values(s) == {s[i] : i \in DOMAIN s}

(* NewManager(preferred).                                                  *)
NewManager(preferred) ==
    [protocols |-> {}, preferred |-> preferred, registrationOrder |-> <<>>,
     supportedTransports |-> <<>>, defaultTransport |-> None]

(* Mutant of Register: registering again moves the name to the end.        *)
RegisterAgain(m, name) ==
    IF name = None THEN m
    ELSE [m EXCEPT !.protocols = @ \cup {name}, !.registrationOrder = Append(@, name)]

(* Register: a name is recorded once in the order, however often it comes. *)
Register(m, name) ==
    IF name = None \/ name \in m.protocols THEN m
    ELSE [m EXCEPT !.protocols = @ \cup {name}, !.registrationOrder = Append(@, name)]

effectivelyPreferredOrder(m) ==
    IF m.preferred # <<>> THEN m.preferred ELSE m.registrationOrder

(* priority[name] = i for i, name in order: the last index wins.           *)
Priority(order, name) ==
    CHOOSE i \in DOMAIN order :
        order[i] = name /\ \A j \in DOMAIN order : order[j] = name => j <= i

(* The comparison given to sort.Slice.                                     *)
Before(order, a, b) ==
    CASE a \in Values(order) /\ b \in Values(order) -> Priority(order, a) < Priority(order, b)
      [] a \in Values(order) /\ b \notin Values(order) -> TRUE
      [] a \notin Values(order) /\ b \in Values(order) -> FALSE
      [] OTHER -> a < b

(* The registered names, sorted; with no order at all, by name.            *)
SupportedNames(m) ==
    LET order == effectivelyPreferredOrder(m) IN
    CHOOSE s \in [1..Cardinality(m.protocols) -> m.protocols] :
        \A i, j \in DOMAIN s : i < j => Before(order, s[i], s[j])

(* The index of the first element of s that is in S.                       *)
FirstIn(s, S) ==
    CHOOSE i \in DOMAIN s : s[i] \in S /\ \A j \in DOMAIN s : s[j] \in S => i <= j

(* Mutant of ChooseCommon: the order of the remote side decides.           *)
ChooseCommonRemoteOrder(localSupported, remoteSupported) ==
    IF Values(localSupported) \cap Values(remoteSupported) = {} THEN None
    ELSE remoteSupported[FirstIn(remoteSupported, Values(localSupported))]

(* The first local name the remote side has too, None if there is none.    *)
ChooseCommon(localSupported, remoteSupported) ==
    IF Values(localSupported) \cap Values(remoteSupported) = {} THEN None
    ELSE localSupported[FirstIn(localSupported, Values(remoteSupported))]

SetDefaultTransport(m, name) == [m EXCEPT !.defaultTransport = name]
SetSupportedTransports(m, transports) == [m EXCEPT !.supportedTransports = transports]

SupportedTransports(m) ==
    IF m.supportedTransports # <<>> THEN m.supportedTransports ELSE <<Tcp>>

(* The first transport of the client that the manager has; empty names are *)
(* skipped.                                                                *)
ChooseCommonTransport(m, clientPreferred) ==
    LET S == Values(SupportedTransports(m)) \ {None} IN
    IF Values(clientPreferred) \cap S = {} THEN None
    ELSE clientPreferred[FirstIn(clientPreferred, S)]

(* ClientNegotiate's list: the default transport in front, if it is set.   *)
OfferedTransports(m) ==
    IF m.defaultTransport # None
    THEN <<m.defaultTransport>> \o SupportedTransports(m)
    ELSE SupportedTransports(m)
===============================================================================
