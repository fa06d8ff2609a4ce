-------------------------- MODULE NegotiationProofs ---------------------------
(***************************************************************************)
(* First the protocol manager: sorting and choosing do what they promise   *)
(* for any lists of names.  Then why two ends that share no word about the *)
(* protocol on the proxy stream still agree on it when a dial is           *)
(* undisturbed, and why nothing but answers is ever stored.                *)
(*                                                                         *)
(* OrderlyDialsAgree is far from inductive: AgreeInv adds what holds at    *)
(* every stage of an undisturbed attempt, that its rivals are at rest, and *)
(* that an attempt at rest can do nothing but begin.                       *)
(***************************************************************************)
EXTENDS Negotiation, MCProtoManager, WellFoundedInduction, FiniteSetTheorems, TLAPS

-----------------------------------------------------------------------------
(* Every nonempty set of naturals has a least element.  The provers cannot  *)
(* use induction directly; a set of counterexamples takes its place below.  *)
LEMMA Least ==
    ASSUME NEW T, T \subseteq Nat, T # {}
    PROVE  \E n \in T : \A m \in T : n <= m
<1>1. PICK n \in T : \A m \in T : ~(<<m, n>> \in OpToRel(<, Nat))
  BY NatLessThanWellFounded, WFMin
<1>2. \A m \in T : ~(m < n) BY <1>1 DEF OpToRel
<1>3. n \in Nat /\ \A m \in T : m \in Nat OBVIOUS
<1> QED BY <1>2, <1>3

LEMMA Greatest ==
    ASSUME NEW k \in Nat, NEW T, T \subseteq 1..k, T # {}
    PROVE  \E n \in T : \A m \in T : m <= n
<1> DEFINE U == {x \in Nat : k - x \in T}
<1>1. PICK t \in T : TRUE OBVIOUS
<1>2. k - t \in U /\ U \subseteq Nat BY <1>1
<1>3. PICK u \in U : \A v \in U : u <= v BY <1>2, Least
<1>4. ASSUME NEW m \in T PROVE m <= k - u
  <2>1. k - m \in U OBVIOUS
  <2>2. u <= k - m BY <1>3, <2>1
  <2> QED BY <2>2
<1> QED BY <1>3, <1>4

(* The first name of an offer that is in a set.                            *)
LEMMA FirstInIs ==
    ASSUME NEW s, DOMAIN s \subseteq Nat, NEW S, Values(s) \cap S # {}
    PROVE  /\ FirstIn(s, S) \in DOMAIN s /\ s[FirstIn(s, S)] \in S
           /\ \A j \in DOMAIN s : s[j] \in S => FirstIn(s, S) <= j
<1> DEFINE T == {i \in DOMAIN s : s[i] \in S}
<1>1. T \subseteq Nat /\ T # {} BY DEF Values
<1>2. PICK i \in T : \A j \in T : i <= j BY <1>1, Least
<1> QED BY <1>2 DEF FirstIn

LEMMA PriorityIs ==
    ASSUME NEW order \in Seq(Names), NEW name \in Values(order)
    PROVE  /\ Priority(order, name) \in DOMAIN order
           /\ order[Priority(order, name)] = name
<1> DEFINE T == {i \in DOMAIN order : order[i] = name}
<1>1. T \subseteq 1..Len(order) /\ T # {} /\ Len(order) \in Nat BY DEF Values
<1>2. PICK i \in T : \A j \in T : j <= i BY <1>1, Greatest
<1> QED BY <1>2 DEF Priority

(* The comparison of sort.Slice is a strict total order of the names,      *)
(* whatever the preferred list repeats or leaves out.                      *)
LEMMA BeforeIsAnOrder ==
    ASSUME NEW order \in Seq(Names), NEW a \in Names, NEW b \in Names, NEW c \in Names
    PROVE  /\ ~Before(order, a, a)
           /\ a # b => Before(order, a, b) \/ Before(order, b, a)
           /\ Before(order, a, b) /\ Before(order, b, c) => Before(order, a, c)
<1>1. ASSUME NEW x \in Values(order)
      PROVE  Priority(order, x) \in Nat /\ order[Priority(order, x)] = x
  <2>1. DOMAIN order \subseteq Nat OBVIOUS
  <2> QED BY <2>1, PriorityIs
<1>2. a \in Nat /\ b \in Nat /\ c \in Nat BY NamesAssumption
<1>3. ~Before(order, a, a) BY <1>1, <1>2 DEF Before
<1>4. a # b => Before(order, a, b) \/ Before(order, b, a)
  <2>1. CASE a \in Values(order) /\ b \in Values(order)
    <3>1. a # b => Priority(order, a) # Priority(order, b) BY <1>1, <2>1
    <3> QED BY <1>1, <2>1, <3>1 DEF Before
  <2> QED BY <1>2, <2>1 DEF Before
<1>5. Before(order, a, b) /\ Before(order, b, c) => Before(order, a, c)
  BY <1>1, <1>2 DEF Before
<1> QED BY <1>3, <1>4, <1>5

(* A set of names has a first one.                                         *)
LEMMA FirstName ==
    ASSUME NEW order \in Seq(Names), NEW S \in SUBSET Names, S # {}
    PROVE  \E x \in S : \A y \in S \ {x} : Before(order, x, y)
<1> DEFINE Has(R) == \E x \in R : \A y \in R \ {x} : Before(order, x, y)
           Bad == {n \in Nat : \E R \in SUBSET Names : R # {} /\ Cardinality(R) = n /\ ~Has(R)}
<1>0. \A R \in SUBSET Names : IsFiniteSet(R) /\ Cardinality(R) \in Nat
  BY NamesAssumption, FS_Subset, FS_CardinalityType
<1>1. SUFFICES ASSUME ~Has(S) PROVE FALSE OBVIOUS
<1>2. Cardinality(S) \in Bad BY <1>0, <1>1
<1>3. PICK n \in Bad : \A m \in Bad : n <= m
  <2> HIDE DEF Has
  <2> QED BY <1>2, Least
<1>4. PICK R \in SUBSET Names : R # {} /\ Cardinality(R) = n /\ ~Has(R) BY <1>3
<1>5. PICK x \in R : TRUE BY <1>4
<1>6. Cardinality(R \ {x}) = n - 1 /\ n \in Nat /\ R \ {x} \in SUBSET Names
  BY <1>0, <1>3, <1>4, FS_RemoveElement
<1>7. CASE R \ {x} = {} BY <1>4, <1>5, <1>7
<1>8. CASE R \ {x} # {}
  <2>1. Has(R \ {x})
    <3> SUFFICES ASSUME ~Has(R \ {x}) PROVE FALSE OBVIOUS
    <3>1. n - 1 \in Nat BY <1>0, <1>6
    <3>2. n - 1 \in Bad
      <4> HIDE DEF Has
      <4> QED BY <1>6, <1>8, <3>1
    <3> QED BY <1>3, <3>1, <3>2
  <2>2. PICK y \in R \ {x} : \A z \in (R \ {x}) \ {y} : Before(order, y, z) BY <2>1
  <2>3. x \in Names /\ y \in Names /\ x # y BY <2>2
  <2>4. CASE Before(order, x, y)
    <3>1. ASSUME NEW z \in R \ {x} PROVE Before(order, x, z)
      <4>1. CASE z = y BY <2>4, <4>1
      <4>2. CASE z # y
        <5>1. Before(order, y, z) /\ z \in Names BY <2>2, <4>2
        <5> QED BY <2>3, <2>4, <5>1, BeforeIsAnOrder
      <4> QED BY <4>1, <4>2
    <3> QED BY <1>4, <3>1
  <2>5. CASE Before(order, y, x)
    <3>1. \A z \in R \ {y} : Before(order, y, z) BY <2>2, <2>5
    <3> QED BY <1>4, <2>2, <3>1
  <2> QED BY <2>3, <2>4, <2>5, BeforeIsAnOrder
<1> QED BY <1>7, <1>8

Sorted(order, s) == \A i, j \in DOMAIN s : i < j => Before(order, s[i], s[j])

(* Every set of names can be sorted.                                       *)
LEMMA SortExists ==
    ASSUME NEW order \in Seq(Names), NEW S \in SUBSET Names
    PROVE  \E s \in [1..Cardinality(S) -> S] : Sorted(order, s)
<1> DEFINE Has(R) == \E s \in [1..Cardinality(R) -> R] : Sorted(order, s)
           Bad == {n \in Nat : \E R \in SUBSET Names : Cardinality(R) = n /\ ~Has(R)}
<1>0. \A R \in SUBSET Names : IsFiniteSet(R) /\ Cardinality(R) \in Nat
  BY NamesAssumption, FS_Subset, FS_CardinalityType
<1>1. SUFFICES ASSUME ~Has(S) PROVE FALSE OBVIOUS
<1>2. Cardinality(S) \in Bad BY <1>0, <1>1
<1>3. PICK n \in Bad : \A m \in Bad : n <= m
  <2> HIDE DEF Has
  <2> QED BY <1>2, Least
<1>4. PICK R \in SUBSET Names : Cardinality(R) = n /\ ~Has(R) BY <1>3
<1>5. CASE R = {}
  <2>1. n = 0 BY <1>4, <1>5, FS_EmptySet
  <2>2. <<>> \in [1..Cardinality(R) -> R] /\ DOMAIN <<>> = {} BY <1>4, <2>1
  <2>3. Sorted(order, <<>>) BY <2>2 DEF Sorted
  <2> QED BY <1>4, <2>2, <2>3
<1>6. CASE R # {}
  <2>1. PICK x \in R : \A y \in R \ {x} : Before(order, x, y) BY <1>6, FirstName
  <2>2. Cardinality(R \ {x}) = n - 1 /\ n \in Nat /\ R \ {x} \in SUBSET Names
    BY <1>0, <1>3, <1>4, FS_RemoveElement
  <2>3. n - 1 \in Nat BY <1>0, <2>2
  <2>4. Has(R \ {x})
    <3> SUFFICES ASSUME ~Has(R \ {x}) PROVE FALSE OBVIOUS
    <3>1. n - 1 \in Bad
      <4> HIDE DEF Has
      <4> QED BY <2>2, <2>3
    <3> QED BY <1>3, <2>3, <3>1
  <2>5. PICK t \in [1..(n - 1) -> R \ {x}] : Sorted(order, t) BY <2>2, <2>4
  <2> DEFINE s == [i \in 1..n |-> IF i = 1 THEN x ELSE t[i - 1]]
  <2>6. s \in [1..n -> R]
    <3>1. ASSUME NEW i \in 1..n PROVE s[i] \in R
      <4>1. CASE i = 1 BY <4>1
      <4>2. CASE i # 1
        <5>1. i - 1 \in 1..(n - 1) BY <2>3, <4>2
        <5> QED BY <2>5, <4>2, <5>1
      <4> QED BY <4>1, <4>2
    <3> QED BY <3>1
  <2>7. ASSUME NEW i \in 1..n, NEW j \in 1..n, i < j PROVE Before(order, s[i], s[j])
    <3>1. j - 1 \in 1..(n - 1) /\ j # 1 BY <2>3, <2>7
    <3>2. s[j] = t[j - 1] /\ t[j - 1] \in R \ {x} BY <2>5, <3>1
    <3>3. CASE i = 1
      <4>1. s[i] = x BY <3>3
      <4> QED BY <2>1, <3>2, <4>1
    <3>4. CASE i # 1
      <4>1. i - 1 \in 1..(n - 1) /\ i - 1 < j - 1 BY <2>3, <2>7, <3>4
      <4>2. s[i] = t[i - 1] BY <3>4
      <4>3. Before(order, t[i - 1], t[j - 1]) BY <2>5, <3>1, <4>1 DEF Sorted
      <4> QED BY <3>2, <4>2, <4>3
    <3> QED BY <3>3, <3>4
  <2>8. Sorted(order, s)
    <3>1. DOMAIN s = 1..n OBVIOUS
    <3> HIDE DEF s
    <3> QED BY <2>7, <3>1 DEF Sorted
  <2> QED BY <1>4, <2>6, <2>8
<1> QED BY <1>5, <1>6

(* So SupportedNames returns every registered name once, in order.         *)
LEMMA SupportedNamesSorted ==
    ASSUME NEW m, m.protocols \in SUBSET Names, effectivelyPreferredOrder(m) \in Seq(Names)
    PROVE  /\ SupportedNames(m) \in [1..Cardinality(m.protocols) -> m.protocols]
           /\ Cardinality(m.protocols) \in Nat
           /\ Sorted(effectivelyPreferredOrder(m), SupportedNames(m))
           /\ Values(SupportedNames(m)) = m.protocols
<1> DEFINE order == effectivelyPreferredOrder(m)
           P == m.protocols
           s == SupportedNames(m)
<1>1. s \in [1..Cardinality(P) -> P] /\ Sorted(order, s)
  <2>1. \E t \in [1..Cardinality(P) -> P] : Sorted(order, t) BY SortExists
  <2> QED BY <2>1 DEF SupportedNames, Sorted
<1>2. IsFiniteSet(P) /\ Cardinality(P) \in Nat
  BY NamesAssumption, FS_Subset, FS_CardinalityType
<1>3. IsFiniteSet(1..Cardinality(P)) /\ Cardinality(1..Cardinality(P)) = Cardinality(P)
  <2>1. 1 \in Int /\ Cardinality(P) \in Int BY <1>2
  <2>2. Cardinality(1..Cardinality(P)) = IF 1 > Cardinality(P) THEN 0 ELSE Cardinality(P) - 1 + 1
    BY <2>1, FS_Interval
  <2> QED BY <1>2, <2>1, <2>2, FS_Interval
<1>4. s \in Injection(1..Cardinality(P), P)
  <2> SUFFICES ASSUME NEW i \in 1..Cardinality(P), NEW j \in 1..Cardinality(P), i # j
               PROVE  s[i] # s[j]
    BY <1>1 DEF Injection, IsInjective
  <2>1. s[i] \in Names /\ s[j] \in Names /\ DOMAIN s = 1..Cardinality(P) BY <1>1
  <2>2. i < j \/ j < i BY <1>2
  <2>3. Before(order, s[i], s[j]) \/ Before(order, s[j], s[i])
    <3> HIDE DEF s, order, P
    <3> QED BY <1>1, <2>1, <2>2 DEF Sorted
  <2> QED BY <2>1, <2>3, BeforeIsAnOrder
<1>5. s \in Surjection(1..Cardinality(P), P) BY <1>2, <1>3, <1>4, FS_Injection
<1>6. Values(s) = P
  <2> HIDE DEF s, P
  <2> QED BY <1>1, <1>5 DEF Values, Surjection
<1> QED BY <1>1, <1>2, <1>6

(* Two sorted sequences of the same names are the same.                    *)
LEMMA SortUnique ==
    ASSUME NEW order \in Seq(Names), NEW n \in Nat, NEW S \in SUBSET Names,
           NEW s \in [1..n -> S], NEW t \in [1..n -> S],
           Sorted(order, s), Sorted(order, t), Values(s) = S, Values(t) = S
    PROVE  s = t
<1> DEFINE Bad == {i \in 1..n : s[i] # t[i]}
<1> SUFFICES ASSUME Bad # {} PROVE FALSE OBVIOUS
<1>1. Bad \subseteq Nat OBVIOUS
<1>2. PICK i \in Bad : \A j \in Bad : i <= j BY <1>1, Least
<1>3. i \in 1..n /\ s[i] # t[i] /\ \A j \in 1..n : j < i => s[j] = t[j]
  BY <1>1, <1>2
<1>4. PICK j \in 1..n : s[j] = t[i] BY <1>3 DEF Values
<1>5. PICK k \in 1..n : t[k] = s[i] BY <1>3 DEF Values
<1>6. i < j
  <2>1. i # j BY <1>3, <1>4
  <2>2. CASE j < i
    <3>1. t[j] = t[i] BY <1>3, <1>4, <2>2
    <3>2. Before(order, t[j], t[i]) BY <1>3, <1>4, <2>2 DEF Sorted
    <3> QED BY <1>3, <3>1, <3>2, BeforeIsAnOrder
  <2> QED BY <1>3, <1>4, <2>1, <2>2
<1>7. i < k
  <2>1. i # k BY <1>3, <1>5
  <2>2. CASE k < i
    <3>1. s[k] = s[i] BY <1>3, <1>5, <2>2
    <3>2. Before(order, s[k], s[i]) BY <1>3, <1>5, <2>2 DEF Sorted
    <3> QED BY <1>3, <3>1, <3>2, BeforeIsAnOrder
  <2> QED BY <1>3, <1>5, <2>1, <2>2
<1>8. Before(order, s[i], t[i]) BY <1>3, <1>4, <1>6 DEF Sorted
<1>9. Before(order, t[i], s[i]) BY <1>3, <1>5, <1>7 DEF Sorted
<1>10. s[i] \in Names /\ t[i] \in Names BY <1>3
<1> QED BY <1>8, <1>9, <1>10, BeforeIsAnOrder

-----------------------------------------------------------------------------
(* What NewManager and Register keep: the order of registration lists each *)
(* registered name once.                                                   *)
ManagerOK(m) ==
    /\ m \in [protocols : SUBSET Names, preferred : Seq(Names), registrationOrder : Seq(Names),
              supportedTransports : Seq(Names), defaultTransport : Names \cup {None}]
    /\ Values(m.registrationOrder) = m.protocols
    /\ Len(m.registrationOrder) = Cardinality(m.protocols)
    /\ \A i, j \in DOMAIN m.registrationOrder :
          i < j => m.registrationOrder[i] # m.registrationOrder[j]

LEMMA NewManagerOK ==
    ASSUME NEW p \in Seq(Names)
    PROVE  ManagerOK(NewManager(p))
BY FS_EmptySet DEF ManagerOK, NewManager, Values

LEMMA RegisterKeepsOK ==
    ASSUME NEW m, ManagerOK(m), NEW name \in Names \cup {None}
    PROVE  ManagerOK(Register(m, name))
<1>1. CASE name = None \/ name \in m.protocols BY <1>1 DEF Register
<1>2. CASE name # None /\ name \notin m.protocols
  <2> DEFINE r == m.registrationOrder
             q == Append(r, name)
             P == m.protocols
  <2>0. name \in Names /\ r \in Seq(Names) /\ P \in SUBSET Names BY <1>2 DEF ManagerOK
  <2>1. /\ Register(m, name).protocols = P \cup {name}
        /\ Register(m, name).registrationOrder = q
        /\ Register(m, name) \in
             [protocols : SUBSET Names, preferred : Seq(Names), registrationOrder : Seq(Names),
              supportedTransports : Seq(Names), defaultTransport : Names \cup {None}]
    <3>1. Register(m, name) = [m EXCEPT !.protocols = P \cup {name}, !.registrationOrder = q]
      BY <1>2 DEF Register
    <3>2. q \in Seq(Names) /\ P \cup {name} \in SUBSET Names BY <2>0
    <3> HIDE DEF q, P
    <3> QED BY <3>1, <3>2 DEF ManagerOK
  <2>2. q \in Seq(Names) /\ Len(q) = Len(r) + 1 /\ DOMAIN q = 1..(Len(r) + 1)
        /\ Len(r) \in Nat /\ DOMAIN r = 1..Len(r)
        /\ q[Len(r) + 1] = name /\ \A i \in 1..Len(r) : q[i] = r[i]
    BY <2>0
  <2>3. Values(r) = P /\ Len(r) = Cardinality(P)
        /\ \A i, j \in DOMAIN r : i < j => r[i] # r[j]
    BY DEF ManagerOK
  <2>4. Cardinality(P \cup {name}) = Cardinality(P) + 1
    <3>1. IsFiniteSet(P) BY <2>0, NamesAssumption, FS_Subset
    <3> QED BY <1>2, <3>1, FS_AddElement
  <2> HIDE DEF q, r, P
  <2>5. Values(q) = P \cup {name}
    <3>1. ASSUME NEW x \in Values(q) PROVE x \in P \cup {name}
      <4>1. PICK i \in DOMAIN q : x = q[i] BY DEF Values
      <4>2. CASE i = Len(r) + 1 BY <2>2, <4>1, <4>2
      <4>3. CASE i \in 1..Len(r) BY <2>2, <2>3, <4>1, <4>3 DEF Values
      <4> QED BY <2>2, <4>1, <4>2, <4>3
    <3>2. ASSUME NEW x \in P PROVE x \in Values(q)
      <4>1. PICK i \in DOMAIN r : x = r[i] BY <2>3 DEF Values
      <4>2. i \in DOMAIN q /\ x = q[i] BY <2>2, <4>1
      <4> QED BY <4>2 DEF Values
    <3>3. name \in Values(q)
      <4>1. Len(r) + 1 \in DOMAIN q BY <2>2
      <4> QED BY <2>2, <4>1 DEF Values
    <3> QED BY <3>1, <3>2, <3>3
  <2>6. ASSUME NEW i \in DOMAIN q, NEW j \in DOMAIN q, i < j PROVE q[i] # q[j]
    <3>1. i \in 1..Len(r) BY <2>2, <2>6
    <3>2. CASE j = Len(r) + 1
      <4>1. q[i] \in P BY <2>2, <2>3, <3>1 DEF Values
      <4> QED BY <1>2, <2>2, <3>2, <4>1 DEF P
    <3>3. CASE j \in 1..Len(r) BY <2>2, <2>3, <2>6, <3>1, <3>3
    <3> QED BY <2>2, <3>2, <3>3
  <2> QED BY <2>1, <2>2, <2>3, <2>4, <2>5, <2>6 DEF ManagerOK
<1> QED BY <1>1, <1>2

(* The offer of a manager.                                                 *)
LEMMA ManagerOffers ==
    ASSUME NEW m, ManagerOK(m)
    PROVE  LET s == SupportedNames(m) IN
           /\ s \in Seq(Names)
           /\ Values(s) = m.protocols /\ Len(s) = Cardinality(m.protocols)
           /\ m.preferred = <<>> => s = m.registrationOrder
           /\ m.preferred # <<>> =>
                 \A i, j \in DOMAIN s :
                     s[i] \in Values(m.preferred) /\ s[j] \notin Values(m.preferred) => i < j
<1> DEFINE s == SupportedNames(m)
           P == m.protocols
           order == effectivelyPreferredOrder(m)
           r == m.registrationOrder
<1>1. P \in SUBSET Names /\ order \in Seq(Names) /\ r \in Seq(Names) /\ m.preferred \in Seq(Names)
  BY DEF ManagerOK, effectivelyPreferredOrder
<1>2. /\ s \in [1..Cardinality(P) -> P] /\ Cardinality(P) \in Nat
      /\ Sorted(order, s) /\ Values(s) = P
  BY <1>1, SupportedNamesSorted
<1>3. s \in Seq(Names) /\ Len(s) = Cardinality(P) /\ DOMAIN s = 1..Cardinality(P)
  <2> HIDE DEF s, P
  <2> QED BY <1>1, <1>2
<1>4. ASSUME m.preferred = <<>> PROVE s = r
  <2>1. order = r BY <1>4 DEF effectivelyPreferredOrder
  <2>2. r \in [1..Cardinality(P) -> P] /\ Values(r) = P
        /\ \A i, j \in DOMAIN r : i < j => r[i] # r[j]
    <3>1. DOMAIN r = 1..Cardinality(P) /\ Values(r) = P BY <1>1 DEF ManagerOK
    <3> QED BY <1>1, <3>1 DEF Values, ManagerOK
  <2>3. Sorted(r, r)
    <3> HIDE DEF r, P
    <3>1. \A i \in DOMAIN r : r[i] \in Values(r) BY DEF Values
    <3>2. ASSUME NEW i \in DOMAIN r PROVE Priority(r, r[i]) = i
      <4>1. Priority(r, r[i]) \in DOMAIN r /\ r[Priority(r, r[i])] = r[i]
        BY <1>1, <3>1, PriorityIs
      <4>2. DOMAIN r \subseteq Nat BY <1>1
      <4> QED BY <2>2, <4>1, <4>2
    <3> QED BY <3>1, <3>2 DEF Sorted, Before
  <2> HIDE DEF s, P, r, order
  <2> QED BY <1>1, <1>2, <2>1, <2>2, <2>3, SortUnique
<1>5. ASSUME m.preferred # <<>>, NEW i \in DOMAIN s, NEW j \in DOMAIN s,
             s[i] \in Values(m.preferred), s[j] \notin Values(m.preferred)
      PROVE  i < j
  <2>1. order = m.preferred BY <1>5 DEF effectivelyPreferredOrder
  <2>2. ~Before(order, s[j], s[i]) BY <1>5, <2>1 DEF Before
  <2>3. i # j BY <1>5
  <2> HIDE DEF s, order
  <2>4. i \in Nat /\ j \in Nat BY <1>3, <1>5
  <2> QED BY <1>2, <1>5, <2>2, <2>3, <2>4 DEF Sorted
<1> QED BY <1>2, <1>3, <1>4, <1>5

LEMMA SequenceOfNames ==
    ASSUME NEW s \in Seq(Names)
    PROVE  s \in Seq(Nat)
<1>1. s \in [1..Len(s) -> Names] /\ Len(s) \in Nat OBVIOUS
<1>2. s \in [1..Len(s) -> Nat] BY <1>1, NamesAssumption
<1> QED BY <1>1, <1>2

(* The answer is the first name of the offer that is supported.            *)
LEMMA ChoiceIsBest ==
    ASSUME NEW offered \in Seq(Nat), NEW S, None \notin Values(offered) \cap S, NEW chosen,
           chosen = IF Values(offered) \cap S = {} THEN None ELSE offered[FirstIn(offered, S)]
    PROVE  Best(offered, chosen, S)
<1>0. DOMAIN offered = 1..Len(offered) /\ Len(offered) \in Nat OBVIOUS
<1>1. CASE Values(offered) \cap S = {} BY <1>1 DEF Best
<1>2. CASE Values(offered) \cap S # {}
  <2> DEFINE i == FirstIn(offered, S)
  <2>1. /\ i \in DOMAIN offered /\ offered[i] \in S
        /\ \A j \in DOMAIN offered : offered[j] \in S => i <= j
    BY <1>0, <1>2, FirstInIs
  <2>2. chosen = offered[i] /\ chosen # None BY <1>2, <2>1 DEF Values
  <2> HIDE DEF i
  <2>3. \A j \in 1..(i - 1) : offered[j] \notin S BY <1>0, <2>1
  <2> QED BY <2>1, <2>2, <2>3 DEF Best
<1> QED BY <1>1, <1>2

(* The first element of a list is chosen whenever it is supported.         *)
LEMMA HeadIsChosen ==
    ASSUME NEW s \in Seq(Nat), NEW S, Len(s) > 0, s[1] \in S
    PROVE  Values(s) \cap S # {} /\ s[FirstIn(s, S)] = s[1]
<1>1. 1 \in DOMAIN s /\ DOMAIN s = 1..Len(s) /\ Len(s) \in Nat OBVIOUS
<1>2. Values(s) \cap S # {} BY <1>1 DEF Values
<1>3. FirstIn(s, S) = 1 BY <1>1, <1>2, FirstInIs
<1> QED BY <1>2, <1>3

ManagersInv == ManagerOK(mgr) /\ ManagerOK(peer)

LEMMA ManagersStayOK == ManagersSpec => []ManagersInv
<1>1. ManagersInit => ManagersInv
  <2>1. Lists \subseteq Seq(Names) BY ManagersAssumption DEF Lists
  <2> QED BY <2>1, NewManagerOK DEF ManagersInit, ManagersInv
<1>2. ManagersInv /\ [ManagersNext]_managers => ManagersInv'
  <2> SUFFICES ASSUME ManagersInv, [ManagersNext]_managers PROVE ManagersInv' OBVIOUS
  <2>1. CASE \E name \in Names \cup {None} : RegisterLocal(name) \/ RegisterPeer(name)
    BY <2>1, RegisterKeepsOK DEF ManagersInv, RegisterLocal, RegisterPeer
  <2>2. ASSUME NEW s \in NodeTransports, NodeHasTransports(s) PROVE ManagersInv'
    <3>1. s \in Seq(Names) BY ManagersAssumption
    <3>2. ManagerOK([mgr EXCEPT !.supportedTransports = s])
      BY <3>1 DEF ManagersInv, ManagerOK
    <3> QED BY <2>2, <3>2 DEF ManagersInv, NodeHasTransports, SetSupportedTransports
  <2>3. ASSUME NEW t \in Names \ {Tcp}, PeerDefaultsTo(t) PROVE ManagersInv'
    <3>1. ManagerOK([peer EXCEPT !.defaultTransport = t])
      BY DEF ManagersInv, ManagerOK
    <3> QED BY <2>3, <3>1 DEF ManagersInv, PeerDefaultsTo, SetDefaultTransport
  <2>4. CASE UNCHANGED managers BY <2>4 DEF managers, ManagersInv
  <2> QED BY <2>1, <2>2, <2>3, <2>4 DEF ManagersNext
<1> QED BY <1>1, <1>2, PTL DEF ManagersSpec

(* For any names, lists and registrations SupportedNames lists every       *)
(* registered protocol once, the preferred ones first, and without a       *)
(* preference in the order of registration.                                *)
THEOREM OffersAlwaysInOrder == ManagersSpec => []OffersInOrder
<1>1. ManagersInv => OffersInOrder
  <2> SUFFICES ASSUME ManagersInv, NEW m \in {mgr, peer}
               PROVE  LET s == SupportedNames(m) IN
                      /\ Values(s) = m.protocols /\ Len(s) = Cardinality(m.protocols)
                      /\ m.preferred = <<>> => s = m.registrationOrder
                      /\ m.preferred # <<>> =>
                            \A i, j \in DOMAIN s :
                               s[i] \in Values(m.preferred) /\ s[j] \notin Values(m.preferred) => i < j
    BY DEF OffersInOrder
  <2>1. ManagerOK(m) BY DEF ManagersInv
  <2> QED BY <2>1, ManagerOffers
<1> QED BY <1>1, ManagersStayOK, PTL

LEMMA NegotiatedIsBest ==
    ASSUME ManagersInv
    PROVE  AnswerIsClientsBest
<1> DEFINE has == Values(SupportedTransports(mgr))
           list == OfferedTransports(peer)
<1>n. Names \subseteq Nat /\ None \notin Names BY NamesAssumption DEF None
<1>1. Best(Offer, Answer, mgr.protocols)
  <2>1. /\ SupportedNames(peer) \in Seq(Names) /\ Values(SupportedNames(mgr)) = mgr.protocols
        /\ Values(SupportedNames(peer)) = peer.protocols
    BY ManagerOffers DEF ManagersInv
  <2>2. SupportedNames(peer) \in Seq(Nat) BY <2>1, SequenceOfNames
  <2>3. None \notin mgr.protocols BY <1>n DEF ManagersInv, ManagerOK
  <2>4. Answer = IF Values(Offer) \cap mgr.protocols = {} THEN None
                 ELSE Offer[FirstIn(Offer, mgr.protocols)]
    BY <2>1 DEF Offer, Answer, ChooseCommon
  <2> QED BY <2>2, <2>3, <2>4, ChoiceIsBest DEF Offer
<1>2. None \notin has
  <2>1. mgr.supportedTransports \in Seq(Names) BY DEF ManagersInv, ManagerOK
  <2>2. CASE mgr.supportedTransports = <<>>
    <3>1. SupportedTransports(mgr) = <<1>> BY <2>2 DEF SupportedTransports, Tcp
    <3>2. Values(<<1>>) = {1} BY DEF Values
    <3> QED BY <3>1, <3>2 DEF None
  <2>3. CASE mgr.supportedTransports # <<>>
    <3>1. SupportedTransports(mgr) = mgr.supportedTransports BY <2>3 DEF SupportedTransports
    <3> QED BY <1>n, <2>1, <3>1 DEF Values
  <2> QED BY <2>2, <2>3
<1>3. list \in Seq(Nat) /\ (peer.defaultTransport # None => Len(list) > 0 /\ list[1] = peer.defaultTransport)
  <2>1. peer.supportedTransports \in Seq(Names) /\ peer.defaultTransport \in Names \cup {None}
    BY DEF ManagersInv, ManagerOK
  <2>2. SupportedTransports(peer) \in Seq(Nat) /\ peer.defaultTransport \in Nat
    <3>1. peer.supportedTransports \in Seq(Nat) BY <2>1, SequenceOfNames
    <3>2. 1 \in Nat /\ <<1>> \in Seq(Nat)
      <4>1. <<1>> \in [1..1 -> Nat] OBVIOUS
      <4> QED BY <4>1
    <3>3. peer.defaultTransport \in Nat
      <4>1. Names \cup {0} \subseteq Nat BY <1>n
      <4>2. peer.defaultTransport \in Names \cup {0} BY <2>1 DEF None
      <4> QED BY <4>1, <4>2
    <3> QED BY <3>1, <3>2, <3>3 DEF SupportedTransports, Tcp
  <2>3. CASE peer.defaultTransport = None BY <2>2, <2>3 DEF OfferedTransports
  <2>4. CASE peer.defaultTransport # None
    <3> DEFINE d == peer.defaultTransport
               u == SupportedTransports(peer)
    <3>1. list = <<d>> \o u BY <2>4 DEF OfferedTransports
    <3>2. u \in Seq(Nat) /\ d \in Nat BY <2>2
    <3> HIDE DEF d, u
    <3>3. <<d>> \o u \in Seq(Nat) /\ Len(<<d>> \o u) > 0 /\ (<<d>> \o u)[1] = d BY <3>2
    <3> QED BY <3>1, <3>3 DEF d
  <2> QED BY <2>3, <2>4
<1>4. Transport = IF Values(list) \cap has = {} THEN None ELSE list[FirstIn(list, has)]
  <2>1. has \ {None} = has BY <1>2
  <2> QED BY <2>1 DEF Transport, ChooseCommonTransport
<1> HIDE DEF has, list
<1>5. Best(list, Transport, has) BY <1>2, <1>3, <1>4, ChoiceIsBest
<1>6. ASSUME peer.defaultTransport \in has PROVE Transport = peer.defaultTransport
  <2>1. peer.defaultTransport # None BY <1>2, <1>6
  <2> QED BY <1>3, <1>4, <1>6, <2>1, HeadIsChosen
<1> QED BY <1>1, <1>5, <1>6 DEF AnswerIsClientsBest, has, list

(* For any managers the negotiated protocol and transport are the first    *)
(* of the client's offer that the node has, and empty only if it has none. *)
THEOREM AnswersAreClientsBest == ManagersSpec => []AnswerIsClientsBest
BY ManagersStayOK, NegotiatedIsBest, PTL
-----------------------------------------------------------------------------
(* The dials.                                                              *)
Domains ==
    /\ DOMAIN chosenProto = Clients /\ DOMAIN rotation = Clients
    /\ DOMAIN lastChosen = Peers
    /\ DOMAIN dpc = Attempts /\ DOMAIN npc = Attempts
    /\ DOMAIN offer = Attempts /\ DOMAIN answer = Attempts
    /\ DOMAIN mode = Attempts /\ DOMAIN snap = Attempts /\ DOMAIN orderly = Attempts

(* What was not started has left no trace.                                 *)
Fresh(a) ==
    /\ dpc[a] \in {"idle", "begun"} => npc[a] = "none"
    /\ dpc[a] \notin {"open", "acting"} => snap[a] = Unset
    /\ dpc[a] # "acting" => mode[a] = Unset
    /\ npc[a] \in {"none", "waiting"} => answer[a] = None

(* An undisturbed attempt: it has begun and has not failed; its rivals     *)
(* rest while it runs; what it stored is what it was answered.             *)
Undisturbed(a) ==
    /\ dpc[a] \notin {"idle", "failed"}
    /\ ~Over(a) => \A b \in Rivals(a) : ~Busy(b)
    /\ dpc[a] \in {"negotiated", "open", "acting"} => npc[a] \notin {"none", "waiting"}
    /\ dpc[a] \in {"negotiated", "open"} => chosenProto[Client(a)] = answer[a]
    /\ dpc[a] = "acting" => mode[a] = answer[a]
    /\ npc[a] = "remembered" /\ ~Over(a) => lastChosen[Peer(a)] = answer[a]
    /\ snap[a] # Unset => snap[a] = answer[a] /\ npc[a] = "remembered"

AgreeInv ==
    /\ Domains
    /\ \A a \in Attempts : Fresh(a) /\ (orderly[a] => Undisturbed(a))

LEMMA AttemptTypes ==
    ASSUME NEW a \in Attempts
    PROVE  Client(a) \in Clients /\ Peer(a) \in Peers
<1>1. PICK d \in Calls : a \in {d} \X (0..(AttemptsOf[d] - 1)) BY DEF Attempts
<1>2. a[1] \in Calls BY <1>1
<1> QED BY <1>2, NegotiationAssumption DEF Client, Peer

LEMMA RivalsFacts ==
    ASSUME NEW a \in Attempts, NEW b \in Attempts, a # b
    PROVE  /\ b \in Rivals(a) <=> Peer(b) = Peer(a)
           /\ b \in Rivals(a) <=> a \in Rivals(b)
           /\ Client(b) = Client(a) => b \in Rivals(a)
BY DEF Rivals, Peer

-----------------------------------------------------------------------------
(* A step of attempt b touches its own entries and those of its client and *)
(* of its peer.                                                            *)
OnlyOf(b) ==
    /\ Domains'
    /\ \A a \in Attempts \ {b} :
          /\ dpc'[a] = dpc[a] /\ npc'[a] = npc[a] /\ answer'[a] = answer[a]
          /\ mode'[a] = mode[a] /\ snap'[a] = snap[a]
    /\ \A c \in Clients \ {Client(b)} : chosenProto'[c] = chosenProto[c]
    /\ \A p \in Peers \ {Peer(b)} : lastChosen'[p] = lastChosen[p]

(* It does not disturb an attempt of another peer, nor one that is over.   *)
LEMMA OthersStay ==
    ASSUME AgreeInv, NEW a \in Attempts, NEW b \in Attempts, a # b,
           OnlyOf(b), orderly[a], a \in Rivals(b) => Over(a)
    PROVE  Undisturbed(a)'
<1>1. Undisturbed(a) BY DEF AgreeInv
<1>2. /\ dpc'[a] = dpc[a] /\ npc'[a] = npc[a] /\ answer'[a] = answer[a]
      /\ mode'[a] = mode[a] /\ snap'[a] = snap[a]
  BY DEF OnlyOf
<1>3. Over(a)' <=> Over(a) BY <1>2 DEF Over
<1>4. CASE Over(a)
  BY <1>1, <1>2, <1>3, <1>4 DEF Undisturbed, Over
<1>5. CASE ~Over(a)
  <2>1. Peer(a) # Peer(b) /\ Client(a) # Client(b) /\ b \notin Rivals(a)
    BY <1>5, RivalsFacts
  <2>2. chosenProto'[Client(a)] = chosenProto[Client(a)] /\ lastChosen'[Peer(a)] = lastChosen[Peer(a)]
    BY <2>1, AttemptTypes DEF OnlyOf
  <2>3. ASSUME NEW c \in Rivals(a) PROVE ~Busy(c)'
    <3>1. c \in Attempts \ {b} BY <2>1 DEF Rivals
    <3>2. ~Busy(c) BY <1>1, <1>5 DEF Undisturbed
    <3> QED BY <3>1, <3>2 DEF OnlyOf, Busy, Over
  <2> QED BY <1>1, <1>2, <1>3, <2>2, <2>3 DEF Undisturbed
<1> QED BY <1>4, <1>5

(* The rivals of b rest after its step if they rested before.              *)
LEMMA RivalsStay ==
    ASSUME NEW b \in Attempts, OnlyOf(b), \A c \in Rivals(b) : ~Busy(c)
    PROVE  \A c \in Rivals(b) : ~Busy(c)'
BY DEF OnlyOf, Rivals, Busy, Over

(* What has to be shown of a step of b.                                    *)
LEMMA StepOf ==
    ASSUME AgreeInv, NEW b \in Attempts, OnlyOf(b),
           Fresh(b)', orderly'[b] => Undisturbed(b)',
           \A a \in Attempts \ {b} :
               orderly'[a] => orderly[a] /\ (a \in Rivals(b) => Over(a))
    PROVE  AgreeInv'
<1>1. Domains' BY DEF OnlyOf
<1>2. ASSUME NEW a \in Attempts \ {b} PROVE Fresh(a)'
  BY DEF AgreeInv, OnlyOf, Fresh
<1>3. ASSUME NEW a \in Attempts \ {b}, orderly'[a] PROVE Undisturbed(a)'
  BY <1>3, OthersStay
<1> QED BY <1>1, <1>2, <1>3 DEF AgreeInv

(* A busy attempt takes a step: the undisturbed attempts of the same peer, *)
(* other than itself, are over.                                            *)
LEMMA BusyStepOf ==
    ASSUME AgreeInv, NEW b \in Attempts, OnlyOf(b), Busy(b),
           Fresh(b)', orderly'[b] => Undisturbed(b)',
           \A a \in Attempts \ {b} : orderly'[a] => orderly[a]
    PROVE  AgreeInv'
<1>1. ASSUME NEW a \in Attempts \ {b}, orderly[a], a \in Rivals(b) PROVE Over(a)
  <2>1. Undisturbed(a) /\ b \in Rivals(a) BY <1>1, RivalsFacts DEF AgreeInv
  <2> QED BY <2>1 DEF Undisturbed
<1> QED BY <1>1, StepOf

-----------------------------------------------------------------------------
(* The beginning of an attempt.                                            *)
LEMMA BeginKeepsAgreement ==
    ASSUME AgreeInv, NEW b \in Attempts, FirstAttempt(b) \/ Retry(b)
    PROVE  AgreeInv'
<1> USE AttemptTypes DEF AgreeInv, Domains
<1>1. /\ dpc[b] = "idle" /\ dpc' = [dpc EXCEPT ![b] = "begun"] /\ Begins(b)
      /\ UNCHANGED <<npc, lastChosen, snap, mode, offer, answer>>
  BY DEF FirstAttempt, Retry, nodeVars
<1>2. /\ chosenProto' = chosenProto \/ chosenProto' = [chosenProto EXCEPT ![Client(b)] = None]
      /\ rotation' = rotation \/ rotation' = [rotation EXCEPT ![Client(b)] = b[2]]
  BY DEF FirstAttempt, Retry
<1>3. DOMAIN orderly' = Attempts BY <1>1 DEF Begins
<1>4. OnlyOf(b) BY <1>1, <1>2, <1>3 DEF OnlyOf
<1>5. Fresh(b) BY DEF AgreeInv
<1>6. /\ npc'[b] = "none" /\ snap'[b] = Unset /\ mode'[b] = Unset
      /\ dpc'[b] = "begun" /\ answer'[b] = None
  BY <1>1, <1>5 DEF Fresh
<1>7. Fresh(b)' BY <1>6 DEF Fresh
<1>8. ASSUME orderly'[b] PROVE Undisturbed(b)'
  <2>1. \A c \in Rivals(b) : ~Busy(c) BY <1>1, <1>8 DEF Begins
  <2>2. \A c \in Rivals(b) : ~Busy(c)' BY <1>4, <2>1, RivalsStay
  <2> QED BY <1>6, <2>2 DEF Undisturbed
<1>9. \A a \in Attempts \ {b} : orderly'[a] => orderly[a] /\ (a \in Rivals(b) => Over(a))
  BY <1>1 DEF Begins
<1> QED BY <1>4, <1>7, <1>8, <1>9, StepOf

(* The steps of a running attempt, on the client and on the node.          *)
LEMMA StepKeepsAgreement ==
    ASSUME AgreeInv, NEW b \in Attempts,
           \/ DialFails(b) \/ SendOffer(b) \/ ReceiveAnswer(b) \/ NegotiateFails(b)
           \/ OpenProxyStream(b) \/ PickHandshake(b)
           \/ HandleStream(b) \/ HandleStreamFails(b)
           \/ RememberChosenProtocol(b) \/ AcceptProxyStream(b)
    PROVE  AgreeInv'
<1>a. Client(b) \in Clients /\ Peer(b) \in Peers BY AttemptTypes
<1>d. Domains BY DEF AgreeInv
<1>f. Fresh(b) BY DEF AgreeInv
<1>u. orderly[b] => Undisturbed(b) BY DEF AgreeInv
<1>r. ASSUME OnlyOf(b), orderly[b], Busy(b) PROVE \A c \in Rivals(b) : ~Busy(c)'
  <2>1. \A c \in Rivals(b) : ~Busy(c) BY <1>r, <1>u DEF Undisturbed, Busy
  <2> QED BY <1>r, <2>1, RivalsStay
<1>1. CASE DialFails(b)
  <2>1. /\ dpc[b] \in {"begun", "negotiated"} /\ dpc' = [dpc EXCEPT ![b] = "failed"]
        /\ orderly' = [orderly EXCEPT ![b] = FALSE]
        /\ UNCHANGED <<rotation, chosenProto, npc, lastChosen, snap, mode, offer, answer>>
    BY <1>1 DEF DialFails, Disturbed, nodeVars
  <2>2. OnlyOf(b) BY <1>d, <2>1 DEF OnlyOf, Domains
  <2>3. Busy(b) /\ Fresh(b)' /\ ~orderly'[b] BY <1>d, <1>f, <2>1 DEF Busy, Over, Fresh, Domains
  <2> QED BY <1>d, <2>1, <2>2, <2>3, BusyStepOf DEF Domains
<1>2. CASE SendOffer(b)
  <2>1. /\ dpc[b] = "begun" /\ dpc' = [dpc EXCEPT ![b] = "offered"]
        /\ npc' = [npc EXCEPT ![b] = "waiting"]
        /\ DOMAIN offer' = DOMAIN offer
        /\ UNCHANGED <<rotation, chosenProto, lastChosen, snap, mode, answer, orderly>>
    BY <1>2 DEF SendOffer
  <2>2. OnlyOf(b) BY <1>d, <2>1 DEF OnlyOf, Domains
  <2>3. Busy(b) /\ Fresh(b)' BY <1>d, <1>f, <2>1 DEF Busy, Over, Fresh, Domains
  <2>4. orderly[b] => Undisturbed(b)'
    BY <1>d, <1>f, <1>r, <2>1, <2>2, <2>3 DEF Undisturbed, Fresh, Domains
  <2> QED BY <2>1, <2>2, <2>3, <2>4, BusyStepOf
<1>3. CASE ReceiveAnswer(b)
  <2>1. /\ dpc[b] = "offered" /\ dpc' = [dpc EXCEPT ![b] = "negotiated"]
        /\ UNCHANGED <<rotation, npc, lastChosen, snap, mode, offer, answer>>
        /\ \/ /\ chosenProto' = [chosenProto EXCEPT ![Client(b)] = answer[b]]
              /\ orderly' = orderly
           \/ chosenProto' = chosenProto /\ orderly' = [orderly EXCEPT ![b] = FALSE]
    BY <1>3 DEF ReceiveAnswer, Disturbed, nodeVars
  <2>2. OnlyOf(b) BY <1>a, <1>d, <2>1 DEF OnlyOf, Domains
  <2>3. Busy(b) /\ Fresh(b)' BY <1>d, <1>f, <2>1 DEF Busy, Over, Fresh, Domains
  <2>4. orderly'[b] => Undisturbed(b)'
    <3> SUFFICES ASSUME orderly'[b] PROVE Undisturbed(b)' OBVIOUS
    <3>1. orderly[b] /\ chosenProto'[Client(b)] = answer[b] BY <1>a, <1>d, <2>1 DEF Domains
    <3>2. \A c \in Rivals(b) : ~Busy(c)' BY <1>r, <2>2, <2>3, <3>1
    <3>3. npc[b] \notin {"none", "waiting"} BY <1>3, <1>f DEF ReceiveAnswer, Fresh
    <3>4. Undisturbed(b) BY <1>u, <3>1
    <3> QED BY <1>d, <2>1, <2>3, <3>1, <3>2, <3>3, <3>4 DEF Undisturbed, Busy, Fresh, Domains
  <2>5. \A a \in Attempts \ {b} : orderly'[a] => orderly[a] BY <1>d, <2>1 DEF Domains
  <2> QED BY <2>2, <2>3, <2>4, <2>5, BusyStepOf
<1>4. CASE NegotiateFails(b)
  <2>1. /\ dpc[b] \in {"begun", "offered"} /\ dpc' = [dpc EXCEPT ![b] = "negotiated"]
        /\ orderly' = [orderly EXCEPT ![b] = FALSE]
        /\ UNCHANGED <<rotation, chosenProto, npc, lastChosen, snap, mode, offer, answer>>
    BY <1>4 DEF NegotiateFails, Disturbed, nodeVars
  <2>2. OnlyOf(b) BY <1>d, <2>1 DEF OnlyOf, Domains
  <2>3. Busy(b) /\ Fresh(b)' /\ ~orderly'[b] BY <1>d, <1>f, <2>1 DEF Busy, Over, Fresh, Domains
  <2> QED BY <1>d, <2>1, <2>2, <2>3, BusyStepOf DEF Domains
<1>5. CASE OpenProxyStream(b)
  <2>1. /\ dpc[b] = "negotiated" /\ dpc' = [dpc EXCEPT ![b] = "open"]
        /\ UNCHANGED <<rotation, chosenProto, npc, lastChosen, snap, mode, offer, answer, orderly>>
    BY <1>5 DEF OpenProxyStream, nodeVars
  <2>2. OnlyOf(b) BY <1>d, <2>1 DEF OnlyOf, Domains
  <2>3. Busy(b) /\ Fresh(b)' BY <1>d, <1>f, <2>1 DEF Busy, Over, Fresh, Domains
  <2>4. orderly[b] => Undisturbed(b)'
    BY <1>d, <1>f, <1>r, <1>u, <2>1, <2>2, <2>3 DEF Undisturbed, Busy, Fresh, Domains
  <2> QED BY <2>1, <2>2, <2>3, <2>4, BusyStepOf
<1>6. CASE PickHandshake(b)
  <2>1. /\ dpc[b] = "open" /\ dpc' = [dpc EXCEPT ![b] = "acting"]
        /\ UNCHANGED <<rotation, chosenProto, npc, lastChosen, snap, offer, answer, orderly>>
    BY <1>6 DEF PickHandshake, nodeVars
  <2>2. PICK q : /\ mode' = [mode EXCEPT ![b] = q]
                 /\ \/ q = chosenProto[Client(b)]
                    \/ \E c \in Rivals(b) : Busy(c)
    BY <1>6 DEF PickHandshake
  <2>3. OnlyOf(b) BY <1>d, <2>1, <2>2 DEF OnlyOf, Domains
  <2>4. Busy(b) /\ Fresh(b)' BY <1>d, <1>f, <2>1, <2>2 DEF Busy, Over, Fresh, Domains
  <2>5. ASSUME orderly[b] PROVE Undisturbed(b)'
    <3>1. Undisturbed(b) /\ ~Over(b) BY <1>u, <2>4, <2>5 DEF Busy
    <3>2. mode'[b] = answer[b] BY <1>d, <2>1, <2>2, <3>1 DEF Undisturbed, Domains
    <3>3. \A c \in Rivals(b) : ~Busy(c)' BY <1>r, <2>3, <2>4, <2>5
    <3> QED BY <1>d, <2>1, <3>1, <3>2, <3>3 DEF Undisturbed, Domains
  <2> QED BY <2>1, <2>3, <2>4, <2>5, BusyStepOf
<1>7. CASE HandleStream(b) \/ HandleStreamFails(b)
  <2>1. /\ npc[b] = "waiting"
        /\ \/ \E x \in {"answered", "refused"} : npc' = [npc EXCEPT ![b] = x]
           \/ npc' = [npc EXCEPT ![b] = "failed"] /\ answer' = answer
        /\ answer' = answer \/ \E x : answer' = [answer EXCEPT ![b] = x]
        /\ UNCHANGED <<rotation, chosenProto, dpc, lastChosen, snap, mode, offer, orderly>>
    BY <1>7 DEF HandleStream, HandleStreamFails, clientVars
  <2>2. OnlyOf(b) BY <1>d, <2>1 DEF OnlyOf, Domains
  <2>3. Busy(b) /\ Fresh(b)' BY <1>d, <1>f, <2>1 DEF Busy, Over, Fresh, Domains
  <2>4. ASSUME orderly[b] PROVE Undisturbed(b)'
    <3>1. Undisturbed(b) BY <1>u, <2>4
    <3>2. dpc[b] \notin {"idle", "failed", "negotiated", "open", "acting"}
      BY <2>1, <3>1 DEF Undisturbed
    <3>3. snap[b] = Unset BY <1>f, <3>2 DEF Fresh
    <3>4. \A c \in Rivals(b) : ~Busy(c)' BY <1>r, <2>2, <2>3, <2>4
    <3>5. npc'[b] # "remembered" BY <1>d, <2>1 DEF Domains
    <3> QED BY <2>1, <3>2, <3>3, <3>4, <3>5 DEF Undisturbed
  <2> QED BY <2>1, <2>2, <2>3, <2>4, BusyStepOf
<1>8. CASE RememberChosenProtocol(b)
  <2>1. /\ npc[b] = "answered" /\ npc' = [npc EXCEPT ![b] = "remembered"]
        /\ lastChosen' = [lastChosen EXCEPT ![Peer(b)] = answer[b]]
        /\ UNCHANGED <<rotation, chosenProto, dpc, snap, mode, offer, answer, orderly>>
    BY <1>8 DEF RememberChosenProtocol, clientVars
  <2>2. OnlyOf(b) BY <1>d, <2>1 DEF OnlyOf, Domains
  <2>3. Busy(b) /\ Fresh(b)' BY <1>d, <1>f, <2>1 DEF Busy, Over, Fresh, Domains
  <2>4. ASSUME orderly[b] PROVE Undisturbed(b)'
    <3>1. Undisturbed(b) BY <1>u, <2>4
    <3>2. lastChosen'[Peer(b)] = answer[b] /\ npc'[b] = "remembered" BY <1>a, <1>d, <2>1 DEF Domains
    <3>3. \A c \in Rivals(b) : ~Busy(c)' BY <1>r, <2>2, <2>3, <2>4
    <3> QED BY <2>1, <3>1, <3>2, <3>3 DEF Undisturbed
  <2> QED BY <2>1, <2>2, <2>3, <2>4, BusyStepOf
<1>9. CASE AcceptProxyStream(b)
  <2>1. /\ dpc[b] \in {"open", "acting"} /\ snap[b] = Unset
        /\ snap' = [snap EXCEPT ![b] = lastChosen[Peer(b)]]
        /\ orderly' = [orderly EXCEPT ![b] = orderly[b] /\ npc[b] = "remembered"]
        /\ UNCHANGED <<rotation, chosenProto, dpc, npc, lastChosen, mode, offer, answer>>
    BY <1>9 DEF AcceptProxyStream, clientVars
  <2>2. OnlyOf(b) BY <1>d, <2>1 DEF OnlyOf, Domains
  <2>3. Busy(b) /\ Fresh(b)' BY <1>d, <1>f, <2>1 DEF Busy, Over, Fresh, Domains
  <2>4. ASSUME orderly'[b] PROVE Undisturbed(b)'
    <3>1. orderly[b] /\ npc[b] = "remembered" BY <1>d, <2>1, <2>4 DEF Domains
    <3>2. Undisturbed(b) /\ ~Over(b) BY <1>u, <2>3, <3>1 DEF Busy
    <3>3. snap'[b] = answer[b] BY <1>d, <2>1, <3>1, <3>2 DEF Undisturbed, Domains
    <3>4. \A c \in Rivals(b) : ~Busy(c)' BY <1>r, <2>2, <2>3, <3>1
    <3> QED BY <2>1, <3>1, <3>2, <3>3, <3>4 DEF Undisturbed
  <2>5. \A a \in Attempts \ {b} : orderly'[a] => orderly[a] BY <1>d, <2>1 DEF Domains
  <2> QED BY <2>2, <2>3, <2>4, <2>5, BusyStepOf
<1> QED BY <1>1, <1>2, <1>3, <1>4, <1>5, <1>6, <1>7, <1>8, <1>9

(* A restart of the node leaves only attempts undisturbed that are over or *)
(* have not reached the node yet.                                          *)
LEMMA RestartKeepsAgreement ==
    ASSUME AgreeInv, Restart
    PROVE  AgreeInv'
<1>1. /\ npc' = [a \in Attempts |-> IF npc[a] \in {"waiting", "answered"} THEN "failed" ELSE npc[a]]
      /\ orderly' = [a \in Attempts |-> orderly[a] /\ (dpc[a] = "begun" \/ Over(a))]
      /\ DOMAIN lastChosen' = Peers
      /\ UNCHANGED <<rotation, chosenProto, dpc, mode, snap, offer, answer>>
  BY DEF Restart, clientVars
<1>2. Domains' BY <1>1 DEF AgreeInv, Domains
<1>3. ASSUME NEW a \in Attempts PROVE Fresh(a)'
  BY <1>1 DEF AgreeInv, Fresh
<1>4. ASSUME NEW a \in Attempts, orderly'[a] PROVE Undisturbed(a)'
  <2>1. Undisturbed(a) /\ Fresh(a) /\ (dpc[a] = "begun" \/ Over(a)) BY <1>1, <1>4 DEF AgreeInv
  <2>2. CASE Over(a)
    <3>1. npc'[a] = npc[a] BY <1>1, <2>2 DEF Over
    <3>2. Over(a)' BY <1>1, <2>2, <3>1 DEF Over
    <3> QED BY <1>1, <2>1, <2>2, <3>1, <3>2 DEF Undisturbed, Over
  <2>3. CASE dpc[a] = "begun"
    <3>1. npc[a] = "none" /\ snap[a] = Unset BY <2>1, <2>3 DEF Fresh
    <3>2. ASSUME NEW c \in Rivals(a) PROVE ~Busy(c)'
      <4>1. c \in Attempts /\ ~Busy(c) BY <2>1, <2>3 DEF Undisturbed, Over, Rivals
      <4> QED BY <1>1, <4>1 DEF Busy, Over
    <3> QED BY <1>1, <2>3, <3>1, <3>2 DEF Undisturbed
  <2> QED BY <2>1, <2>2, <2>3
<1> QED BY <1>2, <1>3, <1>4 DEF AgreeInv

LEMMA AgreementStep ==
    ASSUME AgreeInv, [Next]_vars
    PROVE  AgreeInv'
<1>1. CASE \E b \in Attempts : ClientStep(b) \/ NodeStep(b)
  BY <1>1, BeginKeepsAgreement, StepKeepsAgreement DEF ClientStep, NodeStep
<1>2. CASE Restart BY <1>2, RestartKeepsAgreement
<1>3. CASE UNCHANGED vars
  BY <1>3 DEF vars, clientVars, nodeVars, AgreeInv, Domains, Fresh, Undisturbed, Over, Busy
<1> QED BY <1>1, <1>2, <1>3 DEF Next

(* A dial that is alone for its peer, negotiates successfully and reaches  *)
(* the node after RememberChosenProtocol has both ends act on the same     *)
(* protocol, for any number of hosts, clients, calls, attempts, restarts   *)
(* and protocols.                                                          *)
THEOREM OrderlyDialsAlwaysAgree == Spec => []OrderlyDialsAgree
<1>1. Init => AgreeInv
  BY DEF Init, AgreeInv, Domains, Fresh
<1>2. AgreeInv /\ [Next]_vars => AgreeInv' BY AgreementStep
<1>3. AgreeInv => OrderlyDialsAgree
  BY DEF AgreeInv, Fresh, Undisturbed, OrderlyDialsAgree
<1> QED BY <1>1, <1>2, <1>3, PTL DEF Spec

-----------------------------------------------------------------------------
(* What ClientNegotiate writes is a sequence of names, for every rotation. *)
LEMMA OffersAreSequences ==
    ASSUME NEW k \in 0..(Len(DefaultOrder) - 1)
    PROVE  Offered[k] \in Seq(Names)
<1> DEFINE m == ClientManager(k)
<1>1. DefaultOrder \in Seq(Names) /\ Len(DefaultOrder) \in Nat BY NegotiationAssumption
<1>2. Rotated(k) \in Seq(Names)
  <2>1. /\ SubSeq(DefaultOrder, k + 1, Len(DefaultOrder)) \in Seq(Names)
        /\ SubSeq(DefaultOrder, 1, k) \in Seq(Names)
    BY <1>1
  <2> QED BY <2>1 DEF Rotated
<1>3. Values(DefaultOrder) \in SUBSET Names BY <1>1 DEF Values
<1>4. m.protocols \in SUBSET Names BY <1>3 DEF ClientManager, NewManager
<1>5. m.preferred = Rotated(k) /\ m.registrationOrder = <<>> BY DEF ClientManager, NewManager
<1>6. effectivelyPreferredOrder(m) \in Seq(Names)
  BY <1>2, <1>5 DEF effectivelyPreferredOrder
<1>7. SupportedNames(m) \in [1..Cardinality(m.protocols) -> m.protocols] /\ Cardinality(m.protocols) \in Nat
  BY <1>4, <1>6, SupportedNamesSorted
<1>8. Offered[k] = SupportedNames(m) BY DEF Offered
<1> QED BY <1>4, <1>7, <1>8

(* What a handler is about to answer is one of the node's protocols, and   *)
(* an answer that is stored is not forgotten.                              *)
Answering(a) ==
    /\ rotation[Client(a)] \in 0..(Len(DefaultOrder) - 1)
    /\ DOMAIN offer[a] \subseteq Nat
    /\ npc[a] = "answered" => answer[a] \in Values(registered)

KeptInv == AgreeInv /\ OnlyAnswersAreKept /\ \A a \in Attempts : Answering(a)

(* A step that stores nothing: what is remembered stays remembered, no     *)
(* answer is touched.                                                      *)
LEMMA StoringNothingKeeps ==
    ASSUME KeptInv, AgreeInv',
           UNCHANGED <<lastChosen, registered, answer>>,
           \A c \in Clients : chosenProto'[c] \in {chosenProto[c], None},
           \A a \in Attempts : /\ npc'[a] = "answered" => npc[a] = "answered"
                               /\ npc[a] = "remembered" => npc'[a] = "remembered"
                               /\ rotation'[Client(a)] \in 0..(Len(DefaultOrder) - 1)
                               /\ DOMAIN offer'[a] \subseteq Nat
    PROVE  KeptInv'
<1>1. ASSUME NEW a \in Attempts PROVE Answering(a)' BY DEF KeptInv, Answering
<1>2. OnlyAnswersAreKept' BY DEF KeptInv, OnlyAnswersAreKept
<1> QED BY <1>1, <1>2 DEF KeptInv

LEMMA StepKeepsKept ==
    ASSUME KeptInv, AgreeInv', NEW b \in Attempts, ClientStep(b) \/ NodeStep(b)
    PROVE  KeptInv'
<1>d. Domains /\ Fresh(b) /\ Client(b) \in Clients /\ Peer(b) \in Peers
  BY AttemptTypes DEF KeptInv, AgreeInv
<1>a. /\ OnlyAnswersAreKept
      /\ \A a \in Attempts : Answering(a) /\ Client(a) \in Clients /\ Peer(a) \in Peers
  BY AttemptTypes DEF KeptInv
<1>1. CASE \/ FirstAttempt(b) \/ DialFails(b) \/ NegotiateFails(b)
           \/ OpenProxyStream(b) \/ PickHandshake(b) \/ AcceptProxyStream(b)
  <2>1. UNCHANGED <<rotation, chosenProto, lastChosen, registered, answer, npc, offer>>
    BY <1>1 DEF FirstAttempt, DialFails, NegotiateFails, OpenProxyStream, PickHandshake,
                AcceptProxyStream, nodeVars, clientVars
  <2> QED BY <1>a, <2>1, StoringNothingKeeps DEF Answering
<1>2. CASE Retry(b)
  <2>1. /\ UNCHANGED <<lastChosen, registered, answer, npc, offer>>
        /\ rotation' = [rotation EXCEPT ![Client(b)] = b[2]]
        /\ chosenProto' = [chosenProto EXCEPT ![Client(b)] = None]
    BY <1>2 DEF Retry, nodeVars
  <2>2. b[2] \in 0..(Len(DefaultOrder) - 1)
    <3>1. PICK d \in Calls : b \in {d} \X (0..(AttemptsOf[d] - 1)) BY DEF Attempts
    <3>2. b[2] \in 0..(AttemptsOf[d] - 1) BY <3>1
    <3>3. AttemptsOf[d] \in 1..Len(DefaultOrder) /\ Len(DefaultOrder) \in Nat
      BY NegotiationAssumption
    <3> QED BY <3>2, <3>3
  <2>3. \A c \in Clients : /\ chosenProto'[c] \in {chosenProto[c], None}
                           /\ rotation'[c] \in {rotation[c], b[2]}
    BY <1>d, <2>1 DEF Domains
  <2> QED BY <1>a, <2>1, <2>2, <2>3, StoringNothingKeeps DEF Answering
<1>3. CASE SendOffer(b)
  <2>1. /\ UNCHANGED <<rotation, chosenProto, lastChosen, registered, answer>>
        /\ dpc[b] = "begun" /\ npc' = [npc EXCEPT ![b] = "waiting"]
        /\ offer' = [offer EXCEPT ![b] = Offered[rotation[Client(b)]]]
    BY <1>3 DEF SendOffer
  <2>2. npc[b] = "none" BY <1>d, <2>1 DEF Fresh
  <2>3. DOMAIN (Offered[rotation[Client(b)]]) \subseteq Nat
    <3>1. Offered[rotation[Client(b)]] \in Seq(Names) BY <1>a, OffersAreSequences DEF Answering
    <3> QED BY <3>1
  <2>4. \A a \in Attempts : offer'[a] \in {offer[a], Offered[rotation[Client(b)]]}
    BY <1>d, <2>1 DEF Domains
  <2>5. \A a \in Attempts : DOMAIN offer'[a] \subseteq Nat
    BY <1>a, <2>3, <2>4 DEF Answering
  <2>6. \A a \in Attempts : /\ npc'[a] = "answered" => npc[a] = "answered"
                            /\ npc[a] = "remembered" => npc'[a] = "remembered"
    BY <1>d, <2>1, <2>2 DEF Domains
  <2> QED BY <1>a, <2>1, <2>5, <2>6, StoringNothingKeeps DEF Answering
<1>4. CASE ReceiveAnswer(b)
  <2>1. /\ UNCHANGED <<rotation, lastChosen, registered, answer, npc, offer>>
        /\ \/ chosenProto' = [chosenProto EXCEPT ![Client(b)] = answer[b]]
           \/ chosenProto' = chosenProto
    BY <1>4 DEF ReceiveAnswer, nodeVars
  <2>2. OnlyAnswersAreKept'
    <3>1. \A c \in Clients : \/ chosenProto'[c] = chosenProto[c]
                             \/ c = Client(b) /\ chosenProto'[c] = answer[b]
      BY <1>d, <2>1 DEF Domains
    <3> QED BY <1>a, <2>1, <3>1 DEF OnlyAnswersAreKept
  <2> QED BY <1>a, <2>1, <2>2 DEF KeptInv, Answering
<1>5. CASE HandleStream(b) \/ HandleStreamFails(b)
  <2>1. /\ UNCHANGED <<rotation, chosenProto, lastChosen, registered, offer>>
        /\ npc[b] = "waiting"
        /\ \/ npc' = [npc EXCEPT ![b] = "failed"] /\ answer' = answer
           \/ /\ answer' = [answer EXCEPT ![b] = ChooseCommon(offer[b], registered)]
              /\ \/ npc' = [npc EXCEPT ![b] = "answered"] /\ ChooseCommon(offer[b], registered) # None
                 \/ npc' = [npc EXCEPT ![b] = "refused"]
    BY <1>5 DEF HandleStream, HandleStreamFails, clientVars
  <2>2. ChooseCommon(offer[b], registered) # None
           => ChooseCommon(offer[b], registered) \in Values(registered)
    BY <1>a, FirstInIs DEF Answering, ChooseCommon
  <2>3. answer[b] = None BY <1>d, <2>1 DEF Fresh
  <2>4. \A a \in Attempts \ {b} : answer'[a] = answer[a] /\ npc'[a] = npc[a]
    BY <1>d, <2>1 DEF Domains
  <2>5. npc'[b] = "answered" => answer'[b] \in Values(registered)
    BY <1>d, <2>1, <2>2 DEF Domains
  <2>6. \A a \in Attempts : Answering(a)'
    BY <1>a, <2>1, <2>4, <2>5 DEF Answering
  <2>7. OnlyAnswersAreKept'
    <3>1. ASSUME NEW p \in Peers, lastChosen'[p] # None
          PROVE  /\ lastChosen'[p] \in Values(registered')
                 /\ \E a \in Attempts :
                       Peer(a) = p /\ npc'[a] = "remembered" /\ answer'[a] = lastChosen'[p]
      <4>1. PICK a \in Attempts : Peer(a) = p /\ npc[a] = "remembered" /\ answer[a] = lastChosen[p]
        BY <1>a, <2>1, <3>1 DEF OnlyAnswersAreKept
      <4>2. a # b BY <2>1, <4>1
      <4> QED BY <1>a, <2>1, <2>4, <3>1, <4>1, <4>2 DEF OnlyAnswersAreKept
    <3>2. ASSUME NEW c \in Clients, chosenProto'[c] # None
          PROVE  \E a \in Attempts : Client(a) = c /\ answer'[a] = chosenProto'[c]
      <4>1. PICK a \in Attempts : Client(a) = c /\ answer[a] = chosenProto[c]
        BY <1>a, <2>1, <3>2 DEF OnlyAnswersAreKept
      <4>2. a # b BY <2>1, <2>3, <3>2, <4>1
      <4> QED BY <2>1, <2>4, <4>1, <4>2
    <3> QED BY <3>1, <3>2 DEF OnlyAnswersAreKept
  <2> QED BY <2>6, <2>7 DEF KeptInv
<1>6. CASE RememberChosenProtocol(b)
  <2>1. /\ UNCHANGED <<rotation, chosenProto, registered, offer, answer>>
        /\ npc[b] = "answered" /\ npc' = [npc EXCEPT ![b] = "remembered"]
        /\ lastChosen' = [lastChosen EXCEPT ![Peer(b)] = answer[b]]
    BY <1>6 DEF RememberChosenProtocol, clientVars
  <2>2. \A a \in Attempts : /\ npc'[a] = "answered" => npc[a] = "answered"
                            /\ npc[a] = "remembered" => npc'[a] = "remembered"
    BY <1>d, <2>1 DEF Domains
  <2>3. npc'[b] = "remembered" /\ answer[b] \in Values(registered)
    BY <1>a, <1>d, <2>1 DEF Domains, Answering
  <2>4. \A p \in Peers : \/ lastChosen'[p] = lastChosen[p]
                         \/ p = Peer(b) /\ lastChosen'[p] = answer[b]
    BY <1>d, <2>1 DEF Domains
  <2>5. \A a \in Attempts : Answering(a)' BY <1>a, <2>1, <2>2 DEF Answering
  <2>6. OnlyAnswersAreKept'
    BY <1>a, <2>1, <2>2, <2>3, <2>4 DEF OnlyAnswersAreKept
  <2> QED BY <2>5, <2>6 DEF KeptInv
<1> QED BY <1>1, <1>2, <1>3, <1>4, <1>5, <1>6 DEF ClientStep, NodeStep

(* Whatever fails, races or restarts, the node remembers for a peer only   *)
(* protocols it has registered and answered that peer with since it        *)
(* started, and a client acts only on an answer to that very client.       *)
THEOREM OnlyAnswersAreEverKept == Spec => []OnlyAnswersAreKept
<1>1. Init => KeptInv
  <2> SUFFICES ASSUME Init PROVE KeptInv OBVIOUS
  <2>1. AgreeInv BY DEF Init, AgreeInv, Domains, Fresh
  <2>2. OnlyAnswersAreKept BY DEF Init, OnlyAnswersAreKept
  <2>3. ASSUME NEW a \in Attempts PROVE Answering(a)
    <3>1. Client(a) \in Clients /\ rotation[Client(a)] = 0 BY AttemptTypes DEF Init
    <3>2. 0 \in 0..(Len(DefaultOrder) - 1)
      <4>1. PICK d \in Calls : TRUE BY DEF Attempts
      <4>2. AttemptsOf[d] \in 1..Len(DefaultOrder) /\ Len(DefaultOrder) \in Nat
        BY NegotiationAssumption
      <4> QED BY <4>2
    <3>3. offer[a] = <<>> /\ npc[a] = "none" BY DEF Init
    <3> QED BY <3>1, <3>2, <3>3 DEF Answering
  <2> QED BY <2>1, <2>2, <2>3 DEF KeptInv
<1>2. KeptInv /\ [Next]_vars => KeptInv'
  <2> SUFFICES ASSUME KeptInv, [Next]_vars PROVE KeptInv' OBVIOUS
  <2>0. AgreeInv' BY AgreementStep DEF KeptInv
  <2>1. CASE \E b \in Attempts : ClientStep(b) \/ NodeStep(b)
    BY <2>0, <2>1, StepKeepsKept
  <2>2. CASE Restart
    <3>1. /\ lastChosen' = [p \in Peers |-> None]
          /\ npc' = [a \in Attempts |-> IF npc[a] \in {"waiting", "answered"} THEN "failed" ELSE npc[a]]
          /\ UNCHANGED <<rotation, chosenProto, offer, answer>>
      BY <2>2 DEF Restart, clientVars
    <3>2. \A a \in Attempts : npc'[a] # "answered" BY <3>1
    <3>3. \A a \in Attempts : Answering(a)' BY <3>1, <3>2 DEF KeptInv, Answering
    <3>4. OnlyAnswersAreKept' BY <3>1 DEF KeptInv, OnlyAnswersAreKept
    <3> QED BY <2>0, <3>3, <3>4 DEF KeptInv
  <2>3. CASE UNCHANGED vars
    BY <2>0, <2>3 DEF vars, clientVars, nodeVars, KeptInv, OnlyAnswersAreKept, Answering
  <2> QED BY <2>1, <2>2, <2>3 DEF Next
<1>3. KeptInv => OnlyAnswersAreKept BY DEF KeptInv
<1> QED BY <1>1, <1>2, <1>3, PTL DEF Spec
===============================================================================
