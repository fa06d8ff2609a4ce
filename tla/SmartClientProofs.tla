--------------------------- MODULE SmartClientProofs ---------------------------
(***************************************************************************)
(* How old a list of providers can be when it is used, why a call in which  *)
(* every provider failed did so, what a peer is blamed for, and that        *)
(* ordering loses no provider, for every number of calls and peers, every   *)
(* cache lifetime and every behaviour of the peers and of the DHT.          *)
(***************************************************************************)
EXTENDS SmartClient, SequenceTheorems, FiniteSetTheorems, WellFoundedInduction, TLAPS

-----------------------------------------------------------------------------
(* The age of a list.                                                      *)

Places == {"idle", "region", "global", "order", "try", "ok", "exhausted", "lookupFailed", "noProviders"}

Times ==
    /\ now \in Nat
    /\ pc \in [Calls -> Places] /\ fromCache \in [Calls -> BOOLEAN]
    /\ asked \in [Calls -> Nat] /\ age \in [Calls -> Int]

(* A lookup that is under way has not taken longer than it may.            *)
LookupsAge ==
    \A c \in Calls : pc[c] \in Looking => now - asked[c] <= MaxLookup

(* An entry says when its list was there, at most MaxLookup after the      *)
(* lookup began, whichever of several lookups wrote it last.               *)
EntriesAge ==
    \A e \in cache : /\ e.asked \in Nat /\ e.fetchedAt \in Nat
                     /\ e.fetchedAt - e.asked <= MaxLookup

AgeInv == Times /\ LookupsAge /\ EntriesAge /\ ListAge

LEMMA AgeInit == Init => AgeInv
<1> SUFFICES ASSUME Init PROVE AgeInv
  OBVIOUS
<1>1. Times
  BY DEF Init, Times, Places
<1>2. LookupsAge /\ EntriesAge
  BY DEF Init, LookupsAge, EntriesAge, Looking
<1>3. ListAge
  <2>1. \A c \in Calls : age[c] = 0 /\ fromCache[c] = FALSE
    BY DEF Init
  <2> QED BY <2>1, SmartAssumptions DEF ListAge
<1> QED BY <1>1, <1>2, <1>3 DEF AgeInv

(* A lookup that answers: the new entry and the call's list are as old as  *)
(* the lookup took.                                                        *)
LEMMA FetchedAge ==
    ASSUME AgeInv, NEW c \in Calls, NEW s, pc[c] \in Looking, Fetched(c, s)
    PROVE  AgeInv'
<1>1. now - asked[c] <= MaxLookup /\ asked[c] \in Nat /\ now \in Nat
  BY DEF AgeInv, Times, LookupsAge
<1>2. Times'
  BY <1>1 DEF AgeInv, Times, Places, Fetched, AfterFetch
<1>3. LookupsAge'
  BY DEF AgeInv, Times, LookupsAge, Fetched, AfterFetch, Looking
<1>4. EntriesAge'
  BY <1>1 DEF Fetched, Store, EntriesAge
<1>5. ListAge'
  BY <1>1, SmartAssumptions DEF AgeInv, Times, ListAge, Fetched
<1> QED BY <1>2, <1>3, <1>4, <1>5 DEF AgeInv

(* A list from the cache: the entry is fresh.                              *)
LEMMA CachedAge ==
    ASSUME AgeInv, NEW c \in Calls, BeginCached(c)
    PROVE  AgeInv'
<1>1. PICK e \in cache : Fresh(e) /\ age' = [age EXCEPT ![c] = now - e.asked]
  BY DEF BeginCached
<1>2. /\ e.asked \in Nat /\ e.fetchedAt \in Nat /\ now \in Nat
      /\ e.fetchedAt - e.asked <= MaxLookup /\ now - e.fetchedAt <= TTL
  BY <1>1 DEF AgeInv, EntriesAge, Times, Fresh
<1>3. now - e.asked <= MaxLookup + TTL
  BY <1>2, SmartAssumptions
<1>4. Times'
  BY <1>1, <1>2 DEF AgeInv, Times, Places, BeginCached
<1>5. LookupsAge' /\ EntriesAge'
  BY DEF AgeInv, Times, LookupsAge, EntriesAge, BeginCached, Looking
<1>6. ListAge'
  BY <1>1, <1>3, SmartAssumptions DEF AgeInv, Times, ListAge, BeginCached
<1> QED BY <1>4, <1>5, <1>6 DEF AgeInv

(* A lookup begins, for the first time or once more.                       *)
LEMMA FetchAge ==
    ASSUME AgeInv, NEW c \in Calls, BeginFetch(c) \/ Refetch(c)
    PROVE  AgeInv'
<1>1. /\ now' = now /\ asked' = [asked EXCEPT ![c] = now] /\ UNCHANGED <<age, fromCache, cache>>
      /\ pc' = [pc EXCEPT ![c] = IF PreferredRegion THEN "region" ELSE "global"]
  BY DEF BeginFetch, Refetch, Fetch
<1>2. Times' /\ EntriesAge' /\ ListAge'
  BY <1>1 DEF AgeInv, Times, Places, EntriesAge, ListAge
<1>3. LookupsAge'
  BY <1>1, SmartAssumptions DEF AgeInv, Times, LookupsAge, Looking
<1> QED BY <1>2, <1>3 DEF AgeInv

(* Every other step of a call ends a lookup without a list, goes on with   *)
(* the next lookup of the same fetch, or is not about lookups.             *)
LEMMA OtherAge ==
    ASSUME AgeInv, NEW c \in Calls,
           \/ RegionEmpty(c) \/ NoProviders(c) \/ LookupFails(c) \/ Order(c) \/ NoAddress(c)
           \/ Exhausted(c) \/ Cancel(c)
           \/ \E p \in Peers : DialOk(c, p) \/ DialFails(c, p)
    PROVE  AgeInv'
<1>1. UNCHANGED <<now, cache, asked, age, fromCache>>
  BY DEF RegionEmpty, NoProviders, LookupFails, Listless, Order, NoAddress, Exhausted, Cancel, DialOk,
         DialFails, callVars
<1>2. pc' \in [Calls -> Places]
  BY DEF AgeInv, Times, Places, RegionEmpty, NoProviders, LookupFails, Listless, Order, NoAddress, Exhausted,
         Cancel, DialOk, DialFails, callVars
<1>3. \A d \in Calls : pc'[d] \in Looking => pc[d] \in Looking
  BY DEF AgeInv, Times, RegionEmpty, NoProviders, LookupFails, Listless, Order, NoAddress, Exhausted, Cancel,
         DialOk, DialFails, callVars, Looking
<1> QED BY <1>1, <1>2, <1>3 DEF AgeInv, Times, LookupsAge, EntriesAge, ListAge

LEMMA AgeStep == AgeInv /\ [Next]_vars => AgeInv'
<1> SUFFICES ASSUME AgeInv, [Next]_vars PROVE AgeInv'
  OBVIOUS
<1>1. ASSUME NEW c \in Calls, RegionFound(c) \/ GlobalFound(c) \/ UseConnected(c) PROVE AgeInv'
  BY <1>1, FetchedAge DEF RegionFound, GlobalFound, UseConnected, Looking
<1>2. CASE Tick
  BY <1>2, SmartAssumptions DEF AgeInv, Times, LookupsAge, EntriesAge, ListAge, Tick, callVars, Looking
<1>3. ASSUME NEW c \in Calls, NEW p \in Peers, Change(c, p) PROVE AgeInv'
  BY <1>3 DEF AgeInv, Times, LookupsAge, EntriesAge, ListAge, Change, callVars
<1>4. CASE UNCHANGED vars
  BY <1>4 DEF AgeInv, Times, LookupsAge, EntriesAge, ListAge, vars, callVars
<1> QED
  BY <1>1, <1>2, <1>3, <1>4, CachedAge, FetchAge, OtherAge DEF Next, CallStep

(* A list is used at most MaxLookup after it was asked for, and a cached   *)
(* one at most TTL later than that.                                        *)
THEOREM ListsAreFresh == Spec => []ListAge
<1>1. AgeInv => ListAge
  BY DEF AgeInv
<1> QED BY <1>1, AgeInit, AgeStep, PTL DEF Spec

-----------------------------------------------------------------------------
(* orderProviders: no provider is lost.                                    *)

IsSeq(s) == \E S : s \in Seq(S)

LEMMA FirstOf ==
    ASSUME NEW T, T \subseteq Nat, T # {}
    PROVE  \E n \in T : \A m \in T : n <= m
<1>1. PICK n \in T : \A m \in T : ~(<<m, n>> \in OpToRel(<, Nat))
  BY NatLessThanWellFounded, WFMin
<1>2. \A m \in T : ~(m < n) BY <1>1 DEF OpToRel
<1>3. n \in Nat /\ \A m \in T : m \in Nat OBVIOUS
<1> QED BY <1>2, <1>3

(* Every position is in a descending run, which begins ...                 *)
LEMMA RunBegins ==
    ASSUME NEW score, NEW j \in Nat \ {0}
    PROVE  /\ RunStart(score, j) \in 1..j
           /\ Descending(score, RunStart(score, j), j)
           /\ RunStart(score, j) > 1 => ~Descending(score, RunStart(score, j) - 1, RunStart(score, j))
<1> DEFINE T == {a \in 1..j : Descending(score, a, j)}
<1>1. j \in T BY DEF Descending
<1>2. T \subseteq Nat OBVIOUS
<1>3. PICK a \in T : \A b \in T : a <= b BY <1>1, <1>2, FirstOf
<1>4. a \in 1..j /\ Descending(score, a, j) BY <1>3
<1>5. ASSUME a > 1, Descending(score, a - 1, a) PROVE FALSE
  <2>1. a - 1 \in 1..j /\ \A i \in ((a - 1) + 1)..j : i \in ((a - 1) + 1)..a \/ i \in (a + 1)..j
    BY <1>4, <1>5
  <2>2. a - 1 \in T BY <1>4, <1>5, <2>1 DEF Descending
  <2> QED BY <1>3, <1>4, <2>2
<1> QED BY <1>4, <1>5 DEF RunStart

(* ... and ends.                                                           *)
LEMMA RunStops ==
    ASSUME NEW score, Len(score) \in Nat, NEW j \in 1..Len(score)
    PROVE  /\ RunEnd(score, j) \in j..Len(score)
           /\ Descending(score, j, RunEnd(score, j))
           /\ RunEnd(score, j) < Len(score) =>
                 ~Descending(score, RunEnd(score, j), RunEnd(score, j) + 1)
<1> DEFINE n == Len(score)
           T == {k \in 0..(n - j) : Descending(score, j, n - k)}
<1>n. n \in Nat /\ j \in 1..n OBVIOUS
<1> HIDE DEF n
<1>1. n - j \in T
  <2>1. n - (n - j) = j /\ n - j \in 0..(n - j) BY <1>n
  <2> QED BY <1>n, <2>1 DEF Descending
<1>2. T \subseteq Nat BY <1>n
<1>3. PICK k \in T : \A m \in T : k <= m BY <1>1, <1>2, FirstOf
<1> DEFINE b == n - k
<1>4. b \in j..n /\ Descending(score, j, b) BY <1>n, <1>3
<1>5. ASSUME b < n, Descending(score, b, b + 1) PROVE FALSE
  <2>1. k - 1 \in 0..(n - j) /\ n - (k - 1) = b + 1 BY <1>n, <1>3, <1>5
  <2>2. \A i \in (j + 1)..(b + 1) : i \in (j + 1)..b \/ i \in (b + 1)..(b + 1) BY <1>n, <1>4
  <2>3. Descending(score, j, b + 1) BY <1>4, <1>5, <2>2 DEF Descending
  <2>4. k - 1 \in T BY <2>1, <2>3
  <2> QED BY <1>n, <1>3, <2>4
<1> HIDE DEF b
<1>6. \E e \in j..n : Descending(score, j, e) /\ (e < n => ~Descending(score, e, e + 1))
  BY <1>4, <1>5
<1> QED BY <1>6 DEF RunEnd, n

(* Positions of one run agree on where it begins and ends.                 *)
LEMMA OneRun ==
    ASSUME NEW score, Len(score) \in Nat, NEW j \in 1..Len(score),
           NEW k \in RunStart(score, j)..RunEnd(score, j)
    PROVE  /\ k \in 1..Len(score)
           /\ RunStart(score, k) = RunStart(score, j) /\ RunEnd(score, k) = RunEnd(score, j)
<1> DEFINE n == Len(score)
           a == RunStart(score, j)  b == RunEnd(score, j)
           c == RunStart(score, k)  d == RunEnd(score, k)
           Down(i) == score[i] < score[i - 1]
<1>1. n \in Nat /\ j \in 1..n OBVIOUS
<1>2. a \in 1..j /\ b \in j..n BY <1>1, RunBegins, RunStops
<1>3. k \in a..b /\ k \in 1..n BY <1>1, <1>2
<1>4. c \in 1..k /\ d \in k..n BY <1>3, RunBegins, RunStops
<1>5. /\ \A i \in (a + 1)..j : Down(i)
      /\ \A i \in (j + 1)..b : Down(i)
      /\ \A i \in (c + 1)..k : Down(i)
      /\ \A i \in (k + 1)..d : Down(i)
  BY <1>1, <1>3, RunBegins, RunStops DEF Descending
<1>6. ASSUME NEW i \in Nat, NEW m \in Nat, m = i + 1, Down(m) PROVE Descending(score, i, m)
  <2>1. \A x \in (i + 1)..m : x = m BY <1>6
  <2> QED BY <1>6, <2>1 DEF Descending
<1>7. /\ a > 1 => ~Down(a)
      /\ c > 1 => ~Down(c)
      /\ b < n => ~Down(b + 1)
      /\ d < n => ~Down(d + 1)
  <2>1. a > 1 => ~Descending(score, a - 1, a) BY <1>1, RunBegins
  <2>2. c > 1 => ~Descending(score, c - 1, c) BY <1>3, RunBegins
  <2>3. b < n => ~Descending(score, b, b + 1) BY <1>1, RunStops
  <2>4. d < n => ~Descending(score, d, d + 1) BY <1>3, RunStops
  <2> HIDE DEF a, b, c, d, n, Down
  <2>5. a > 1 => a - 1 \in Nat /\ a \in Nat /\ a = (a - 1) + 1 BY <1>1, <1>2
  <2>6. c > 1 => c - 1 \in Nat /\ c \in Nat /\ c = (c - 1) + 1 BY <1>3, <1>4
  <2>7. b \in Nat /\ b + 1 \in Nat /\ d \in Nat /\ d + 1 \in Nat BY <1>1, <1>2, <1>3, <1>4
  <2> QED BY <1>6, <2>1, <2>2, <2>3, <2>4, <2>5, <2>6, <2>7
<1> HIDE DEF a, b, c, d, n, Down
<1>8. \A i \in (a + 1)..b : Down(i)
  <2>1. \A i \in (a + 1)..b : i \in (a + 1)..j \/ i \in (j + 1)..b BY <1>1, <1>2
  <2> QED BY <1>5, <2>1
<1>9. a = c
  <2>1. ASSUME a < c PROVE FALSE
    <3>1. c \in (a + 1)..b /\ c > 1 BY <1>1, <1>2, <1>3, <1>4, <2>1
    <3> QED BY <1>7, <1>8, <3>1
  <2>2. ASSUME c < a PROVE FALSE
    <3>1. a \in (c + 1)..k /\ a > 1 BY <1>1, <1>2, <1>3, <1>4, <2>2
    <3> QED BY <1>5, <1>7, <3>1
  <2> QED BY <1>1, <1>2, <1>3, <1>4, <2>1, <2>2
<1>10. b = d
  <2>1. ASSUME d < b PROVE FALSE
    <3>1. d + 1 \in (a + 1)..b /\ d < n BY <1>1, <1>2, <1>3, <1>4, <2>1
    <3> QED BY <1>7, <1>8, <3>1
  <2>2. ASSUME b < d PROVE FALSE
    <3>1. b + 1 \in (k + 1)..d /\ b < n BY <1>1, <1>2, <1>3, <1>4, <2>2
    <3> QED BY <1>5, <1>7, <3>1
  <2> QED BY <1>1, <1>2, <1>3, <1>4, <2>1, <2>2
<1> QED BY <1>3, <1>9, <1>10 DEF a, b, c, d, n

(* Whatever the comparison of orderProviders does with scores that it      *)
(* looks up by position, it only reverses runs: the list it returns is a   *)
(* permutation of the list it was given, so a call tries every provider of *)
(* a list and each as often as it is in it.                                *)
THEOREM OrderPermutes ==
    ASSUME NEW s, IsSeq(s)
    PROVE  \E f \in Bijection(1..Len(s), 1..Len(s)) :
              orderProviders(s) = [j \in 1..Len(s) |-> s[f[j]]]
<1> DEFINE n == Len(s)
           score == [i \in 1..n |-> Score(s[i])]
           f == [j \in 1..n |-> RunStart(score, j) + RunEnd(score, j) - j]
<1>1. n \in Nat BY DEF IsSeq
<1>2. Len(score) = n BY <1>1
<1>3. orderProviders(s) = [j \in 1..n |-> s[f[j]]] BY DEF orderProviders, SliceStable
<1> HIDE DEF n, score
<1>4. ASSUME NEW j \in 1..n PROVE f[j] \in 1..n /\ f[f[j]] = j
  <2> DEFINE a == RunStart(score, j)  b == RunEnd(score, j)
  <2>1. a \in 1..j /\ b \in j..n /\ f[j] = a + b - j BY <1>1, <1>2, RunBegins, RunStops
  <2>2. f[j] \in a..b
    <3> HIDE DEF a, b
    <3> QED BY <1>1, <2>1
  <2>3. f[j] \in 1..n /\ RunStart(score, f[j]) = a /\ RunEnd(score, f[j]) = b
    BY <1>1, <1>2, <2>2, OneRun
  <2>4. f[f[j]] = a + b - f[j] BY <2>3
  <2>5. a + b - (a + b - j) = j
    <3> HIDE DEF a, b
    <3> QED BY <1>1, <2>1
  <2> QED BY <2>1, <2>3, <2>4, <2>5
<1> HIDE DEF f
<1>5. f \in [1..n -> 1..n]
  <2>1. f \in [1..n -> {f[j] : j \in 1..n}] BY DEF f
  <2> QED BY <1>4, <2>1
<1>6. f \in Bijection(1..n, 1..n)
  <2>1. f \in Injection(1..n, 1..n) BY <1>4, <1>5 DEF Injection, IsInjective
  <2>2. f \in Surjection(1..n, 1..n) BY <1>4, <1>5 DEF Surjection
  <2> QED BY <2>1, <2>2 DEF Bijection
<1> QED BY <1>3, <1>6 DEF n

-----------------------------------------------------------------------------
(* Why a call failed.                                                      *)

(* What the cache and a call have of the DHT: a list without repetitions.  *)
ProperList(s) == IsSeq(s) /\ s # <<>> /\ \A i, j \in 1..Len(s) : s[i] = s[j] => i = j

Shapes ==
    /\ pc \in [Calls -> Places] /\ fromCache \in [Calls -> BOOLEAN]
    /\ pos \in [Calls -> Nat \ {0}] /\ lookups \in [Calls -> Nat] /\ list = [c \in Calls |-> list[c]]
    /\ reach = [c \in Calls |-> reach[c]] /\ failing = [c \in Calls |-> failing[c]]
    /\ given = [c \in Calls |-> given[c]]
    /\ \A e \in cache : e.providers # <<>> => ProperList(e.providers)

(* Where a call is: at the first peer of its first list when it is to      *)
(* order it; it has asked the DHT unless the list it tries is the cached   *)
(* one, and it has been given nothing before its first lookup has ended.   *)
AtPlace(c) ==
    /\ pc[c] = "idle" => pos[c] = 1 /\ ~fromCache[c] /\ lookups[c] = 0 /\ given[c] = {}
    /\ pc[c] = "order" => pos[c] = 1 /\ given[c] = Elements(list[c])
    /\ pc[c] \in {"order", "try"} =>
          /\ ProperList(list[c]) /\ given[c] # {}
          /\ lookups[c] = IF fromCache[c] THEN 0 ELSE 1
    /\ pc[c] \in Looking => lookups[c] = 1 /\ (fromCache[c] <=> given[c] # {})
    /\ pc[c] = "exhausted" => lookups[c] = 1 /\ given[c] # {}

(* A peer that cannot reach the target while a call runs is known for it.  *)
FailSeen(c) == Running(c) => Peers \ reach[c] \subseteq failing[c]

Ahead(c, q) == \E i \in 1..Len(list[c]) : i >= pos[c] /\ list[c][i] = q

(* Every peer that a call has been given has failed for a reason, or is    *)
(* still ahead of it in the list it tries.                                 *)
Explained(c) ==
    /\ pc[c] = "try" =>
          c \in cancelled \/ \A q \in given[c] : q \in failing[c] \cup NoAddr \/ Ahead(c, q)
    /\ pc[c] \in Looking \cup {"exhausted"} =>
          c \in cancelled \/ given[c] \subseteq failing[c] \cup NoAddr

CallInv(c) == AtPlace(c) /\ FailSeen(c) /\ Explained(c)

FailInv == Shapes /\ \A c \in Calls : CallInv(c)

LEMMA FailInit == Init => FailInv
<1> SUFFICES ASSUME Init PROVE FailInv
  OBVIOUS
<1>1. Shapes
  <2>1. \A e \in cache : e.providers # <<>> => ProperList(e.providers)
    BY DEF Init
  <2>2. reach = [c \in Calls |-> reach[c]]
    BY DEF Init
  <2> QED BY <2>1, <2>2 DEF Init, Shapes, Places
<1>2. \A c \in Calls : pc[c] = "idle" /\ pos[c] = 1 /\ ~fromCache[c] /\ lookups[c] = 0 /\ given[c] = {}
  BY DEF Init
<1> QED BY <1>1, <1>2 DEF FailInv, CallInv, AtPlace, FailSeen, Explained, Running, Looking

(* A step of another call.                                                 *)
LEMMA OtherCall ==
    ASSUME NEW d, CallInv(d), cancelled \subseteq cancelled',
           UNCHANGED <<pc[d], list[d], pos[d], fromCache[d], reach[d], failing[d], given[d], lookups[d]>>
    PROVE  CallInv(d)'
BY DEF CallInv, AtPlace, FailSeen, Explained, Ahead, Running

(* A list that the DHT has found is a proper one.                          *)
LEMMA ListsAreProper == \A S : \A s \in Lists(S) : s # <<>> => ProperList(s)
<1> SUFFICES ASSUME NEW S, NEW s \in Lists(S), s # <<>> PROVE ProperList(s)
  OBVIOUS
<1>1. PICK n \in 0..Cardinality(S) : s \in [1..n -> S]
  BY DEF Lists
<1>2. n \in Nat
  BY <1>1
<1>3. s \in Seq(S) /\ Len(s) = n
  BY <1>1, <1>2, IsASeq
<1>4. \A i, j \in DOMAIN s : i # j => s[i] # s[j]
  BY DEF Lists
<1> QED BY <1>1, <1>3, <1>4 DEF IsSeq, ProperList

LEMMA SameInterval == ASSUME NEW a \in Nat, NEW b \in Nat, 1..a = 1..b PROVE a = b
<1>1. a # 0 => a \in 1..a OBVIOUS
<1>2. b # 0 => b \in 1..b OBVIOUS
<1> QED BY <1>1, <1>2

(* Ordering keeps a list proper and everybody in it.                       *)
LEMMA OrderKeepsLists ==
    ASSUME NEW s, ProperList(s)
    PROVE  /\ ProperList(orderProviders(s))
           /\ \A q \in Elements(s) : \E i \in 1..Len(orderProviders(s)) : orderProviders(s)[i] = q
<1> DEFINE n == Len(s)
           o == orderProviders(s)
<1>1. n \in Nat /\ n # 0 /\ DOMAIN s = 1..n
  BY LenProperties DEF ProperList, IsSeq
<1>2. PICK f \in Bijection(1..n, 1..n) : o = [j \in 1..n |-> s[f[j]]]
  BY OrderPermutes DEF ProperList
<1>3. /\ f \in [1..n -> 1..n]
      /\ \A i, j \in 1..n : f[i] = f[j] => i = j
      /\ \A k \in 1..n : \E j \in 1..n : f[j] = k
  BY <1>2 DEF Bijection, Injection, Surjection, IsInjective
<1> HIDE DEF n, o
<1> DEFINE all == {s[k] : k \in 1..n}
<1>4. o \in [1..n -> all]
  BY <1>2, <1>3
<1> HIDE DEF all
<1>5. o \in Seq(all) /\ Len(o) = n
  <2>1. o \in Seq(all) BY <1>1, <1>4, IsASeq
  <2>2. Len(o) \in Nat /\ DOMAIN o = 1..Len(o) BY <2>1, LenProperties
  <2>3. DOMAIN o = 1..n BY <1>4
  <2> QED BY <1>1, <2>1, <2>2, <2>3, SameInterval
<1>6. \A i, j \in 1..n : s[i] = s[j] => i = j
  BY DEF ProperList, n
<1>7. ASSUME NEW i \in 1..n, NEW j \in 1..n, o[i] = o[j] PROVE i = j
  BY <1>2, <1>3, <1>6, <1>7
<1>8. ASSUME NEW q \in Elements(s) PROVE \E i \in 1..n : o[i] = q
  <2>1. PICK k \in 1..n : s[k] = q BY <1>1 DEF Elements
  <2>2. PICK j \in 1..n : f[j] = k BY <1>3
  <2> QED BY <1>2, <2>1, <2>2
<1>9. ProperList(o)
  BY <1>1, <1>5, <1>7 DEF ProperList, IsSeq
<1> QED BY <1>5, <1>8, <1>9 DEF o

(* A call gets a list: from the DHT, ...                                   *)
LEMMA FetchedFail ==
    ASSUME FailInv, NEW c \in Calls, NEW s, ProperList(s), pc[c] \in Looking, Fetched(c, s)
    PROVE  FailInv'
<1>0. Len(s) \in Nat /\ Len(s) # 0 /\ DOMAIN s = 1..Len(s)
  BY LenProperties DEF ProperList, IsSeq
<1>a. Elements(s) # {}
  <2>1. s[1] \in Elements(s) BY <1>0 DEF Elements
  <2> QED BY <2>1
<1>1. Shapes'
  <2>1. \A e \in cache' : e.providers # <<>> => ProperList(e.providers)
    BY DEF Fetched, Store
  <2>2. pc' \in [Calls -> Places] /\ fromCache' \in [Calls -> BOOLEAN]
    BY DEF FailInv, Shapes, Places, Fetched, AfterFetch
  <2>3. given' = [d \in Calls |-> given'[d]] /\ list' = [d \in Calls |-> list'[d]]
    BY DEF FailInv, Shapes, Fetched
  <2>4. pos' \in [Calls -> Nat \ {0}] /\ UNCHANGED <<lookups, reach, failing>>
    BY DEF FailInv, Shapes, Fetched
  <2> QED BY <2>1, <2>2, <2>3, <2>4 DEF FailInv, Shapes
<1>2. CallInv(c)'
  <2>1. /\ pc'[c] = IF fromCache[c] THEN "try" ELSE "order"
        /\ list'[c] = s /\ pos'[c] = 1 /\ ~fromCache'[c] /\ given'[c] = given[c] \cup Elements(s)
        /\ UNCHANGED <<reach, failing, cancelled, lookups>>
    BY DEF FailInv, Shapes, Fetched, AfterFetch
  <2>2. lookups[c] = 1 /\ (fromCache[c] <=> given[c] # {})
    BY DEF FailInv, CallInv, AtPlace
  <2>3. AtPlace(c)'
    <3>1. fromCache[c] \in BOOLEAN BY DEF FailInv, Shapes
    <3>2. fromCache[c] \/ given'[c] = Elements(s) BY <2>1, <2>2
    <3>3. given'[c] # {} BY <1>a, <2>1
    <3> QED BY <2>1, <2>2, <3>1, <3>2, <3>3 DEF AtPlace, Looking
  <2>4. FailSeen(c)'
    BY <2>1 DEF FailInv, CallInv, FailSeen, Running, Looking, Ends
  <2>5. Explained(c)'
    <3>1. ASSUME c \notin cancelled, NEW q \in given'[c] PROVE q \in failing[c] \cup NoAddr \/ Ahead(c, q)'
      <4>1. CASE q \in given[c]
        BY <3>1, <4>1 DEF FailInv, CallInv, Explained
      <4>2. CASE q \in Elements(s)
        <5>1. PICK i \in 1..Len(s) : s[i] = q BY <1>0, <4>2 DEF Elements
        <5>2. i >= 1 BY <1>0
        <5> QED BY <2>1, <5>1, <5>2 DEF Ahead
      <4> QED BY <2>1, <3>1, <4>1, <4>2
    <3> QED BY <2>1, <3>1 DEF Explained, Looking
  <2> QED BY <2>3, <2>4, <2>5 DEF CallInv
<1>3. ASSUME NEW d \in Calls, d # c PROVE CallInv(d)'
  <2>1. /\ UNCHANGED <<pc[d], list[d], pos[d], fromCache[d], reach[d], failing[d], given[d], lookups[d]>>
        /\ cancelled' = cancelled
    BY <1>3 DEF FailInv, Shapes, Fetched
  <2> QED BY <2>1, OtherCall DEF FailInv
<1> QED BY <1>1, <1>2, <1>3 DEF FailInv

(* ... or from the cache.                                                  *)
LEMMA CachedFail ==
    ASSUME FailInv, NEW c \in Calls, BeginCached(c)
    PROVE  FailInv'
<1>1. PICK e \in cache : e.providers # <<>> /\ list' = [list EXCEPT ![c] = e.providers]
  BY DEF BeginCached, Fresh
<1>2. ProperList(e.providers)
  BY <1>1 DEF FailInv, Shapes
<1>3. Shapes'
  BY <1>1 DEF FailInv, Shapes, Places, BeginCached
<1>4. CallInv(c)'
  <2>1. /\ pc'[c] = "order" /\ list'[c] = e.providers /\ pos'[c] = 1 /\ fromCache'[c] = TRUE
        /\ lookups'[c] = 0 /\ given'[c] = Elements(e.providers)
        /\ failing'[c] = Peers \ reach[c] /\ reach' = reach
    BY <1>1 DEF FailInv, Shapes, CallInv, AtPlace, BeginCached
  <2>2. Elements(e.providers) # {}
    <3>1. 1 \in DOMAIN e.providers
      BY <1>2, LenProperties DEF ProperList, IsSeq
    <3>2. e.providers[1] \in Elements(e.providers) BY <3>1 DEF Elements
    <3> QED BY <3>2
  <2> QED BY <1>2, <2>1, <2>2 DEF CallInv, AtPlace, FailSeen, Explained, Looking
<1>5. ASSUME NEW d \in Calls, d # c PROVE CallInv(d)'
  <2>1. /\ UNCHANGED <<pc[d], list[d], pos[d], fromCache[d], reach[d], failing[d], given[d], lookups[d]>>
        /\ cancelled' = cancelled
    BY <1>1, <1>5 DEF FailInv, Shapes, BeginCached
  <2> QED BY <2>1, OtherCall DEF FailInv
<1> QED BY <1>3, <1>4, <1>5 DEF FailInv

(* A call asks the DHT: at once, or when all of its cached list is behind  *)
(* it.                                                                     *)
LEMMA FetchFail ==
    ASSUME FailInv, NEW c \in Calls, BeginFetch(c) \/ Refetch(c)
    PROVE  FailInv'
<1>1. /\ UNCHANGED <<reach, cache, list, pos, fromCache, cancelled, given>>
      /\ \E l \in Looking : pc' = [pc EXCEPT ![c] = l]
      /\ lookups' = [lookups EXCEPT ![c] = @ + 1]
      /\ \/ pc[c] = "idle" /\ failing' = [failing EXCEPT ![c] = Peers \ reach[c]]
         \/ pc[c] = "try" /\ pos[c] > Len(list[c]) /\ fromCache[c] /\ failing' = failing
  BY DEF BeginFetch, Refetch, Fetch, Looking
<1>2. Shapes'
  BY <1>1 DEF FailInv, Shapes, Places, Looking
<1>3. CallInv(c)'
  <2>1. pc'[c] \in Looking /\ lookups'[c] = lookups[c] + 1
    BY <1>1 DEF FailInv, Shapes
  <2>2. lookups[c] = 0 /\ (fromCache[c] <=> given[c] # {})
    BY <1>1 DEF FailInv, CallInv, AtPlace
  <2>3. FailSeen(c)'
    <3>1. CASE pc[c] = "idle"
      BY <1>1, <3>1 DEF FailInv, Shapes, FailSeen
    <3>2. CASE pc[c] = "try"
      BY <1>1, <3>2 DEF FailInv, CallInv, FailSeen, Running, Ends
    <3> QED BY <1>1, <3>1, <3>2
  <2>4. c \in cancelled \/ given[c] \subseteq failing'[c] \cup NoAddr
    <3>1. CASE pc[c] = "idle"
      BY <3>1 DEF FailInv, CallInv, AtPlace
    <3>2. CASE pc[c] = "try"
      <4>1. Len(list[c]) \in Nat /\ pos[c] \in Nat
        BY <3>2, LenProperties DEF FailInv, Shapes, CallInv, AtPlace, ProperList, IsSeq
      <4>2. \A i \in 1..Len(list[c]) : ~(i >= pos[c])
        BY <1>1, <3>2, <4>1
      <4> QED BY <1>1, <3>2, <4>2 DEF FailInv, CallInv, Explained, Ahead
    <3> QED BY <1>1, <3>1, <3>2
  <2> QED BY <1>1, <2>1, <2>2, <2>3, <2>4 DEF CallInv, AtPlace, Explained, Looking
<1>4. ASSUME NEW d \in Calls, d # c PROVE CallInv(d)'
  <2>1. UNCHANGED <<pc[d], list[d], pos[d], fromCache[d], reach[d], failing[d], given[d], lookups[d]>>
    BY <1>1, <1>4 DEF FailInv, Shapes
  <2> QED BY <1>1, <2>1, OtherCall DEF FailInv
<1> QED BY <1>2, <1>3, <1>4 DEF FailInv

(* A call goes on looking or ends without a list.                          *)
LEMMA LookingFail ==
    ASSUME FailInv, NEW c \in Calls, RegionEmpty(c) \/ NoProviders(c) \/ LookupFails(c)
    PROVE  FailInv'
<1>1. /\ UNCHANGED <<reach, cache, list, pos, fromCache, cancelled, dialled, failing, given, lookups>>
      /\ pc[c] \in Looking
      /\ \/ pc' = [pc EXCEPT ![c] = "global"]
         \/ fromCache[c] /\ pc' = [pc EXCEPT ![c] = "exhausted"]
         \/ pc' = [pc EXCEPT ![c] = "noProviders"]
         \/ pc' = [pc EXCEPT ![c] = "lookupFailed"]
  BY DEF RegionEmpty, NoProviders, LookupFails, Listless, Looking, history
<1>2. Shapes'
  BY <1>1 DEF FailInv, Shapes, Places
<1>3. CallInv(c)'
  <2>1. \/ pc'[c] = "global"
        \/ fromCache[c] /\ pc'[c] = "exhausted"
        \/ pc'[c] \in {"noProviders", "lookupFailed"}
    BY <1>1 DEF FailInv, Shapes
  <2>2. AtPlace(c)' /\ Explained(c)'
    BY <1>1, <2>1 DEF FailInv, CallInv, AtPlace, Explained, Looking
  <2>3. FailSeen(c)'
    BY <1>1 DEF FailInv, CallInv, FailSeen, Running, Ends, Looking
  <2> QED BY <2>2, <2>3 DEF CallInv
<1>4. ASSUME NEW d \in Calls, d # c PROVE CallInv(d)'
  <2>1. UNCHANGED <<pc[d], list[d], pos[d], fromCache[d], reach[d], failing[d], given[d], lookups[d]>>
    BY <1>1, <1>4 DEF FailInv, Shapes
  <2> QED BY <1>1, <2>1, OtherCall DEF FailInv
<1> QED BY <1>2, <1>3, <1>4 DEF FailInv

LEMMA OrderFail ==
    ASSUME FailInv, NEW c \in Calls, Order(c)
    PROVE  FailInv'
<1> DEFINE o == orderProviders(list[c])
<1>1. /\ pc[c] = "order" /\ pc' = [pc EXCEPT ![c] = "try"] /\ list' = [list EXCEPT ![c] = o]
      /\ UNCHANGED <<reach, cache, pos, fromCache, cancelled, failing, given, lookups>>
  BY DEF Order, history
<1>2. ProperList(o) /\ \A q \in Elements(list[c]) : \E i \in 1..Len(o) : o[i] = q
  BY <1>1, OrderKeepsLists DEF FailInv, CallInv, AtPlace
<1> HIDE DEF o
<1>3. Shapes'
  BY <1>1 DEF FailInv, Shapes, Places
<1>4. CallInv(c)'
  <2>1. pc'[c] = "try" /\ list'[c] = o /\ pos'[c] = 1 /\ given'[c] = Elements(list[c])
    BY <1>1 DEF FailInv, Shapes, CallInv, AtPlace
  <2>2. AtPlace(c)'
    BY <1>1, <1>2, <2>1 DEF FailInv, CallInv, AtPlace, Looking
  <2>3. FailSeen(c)'
    BY <1>1 DEF FailInv, CallInv, FailSeen, Running, Ends
  <2>4. Explained(c)'
    <3>1. ASSUME NEW q \in given'[c] PROVE Ahead(c, q)'
      <4>1. PICK i \in 1..Len(o) : o[i] = q BY <1>2, <2>1, <3>1
      <4>2. i >= 1 OBVIOUS
      <4> QED BY <2>1, <4>1, <4>2 DEF Ahead
    <3> QED BY <2>1, <3>1 DEF Explained, Looking
  <2> QED BY <2>2, <2>3, <2>4 DEF CallInv
<1>5. ASSUME NEW d \in Calls, d # c PROVE CallInv(d)'
  <2>1. UNCHANGED <<pc[d], list[d], pos[d], fromCache[d], reach[d], failing[d], given[d], lookups[d]>>
    BY <1>1, <1>5 DEF FailInv, Shapes
  <2> QED BY <1>1, <2>1, OtherCall DEF FailInv
<1> QED BY <1>3, <1>4, <1>5 DEF FailInv

(* The next peer fails, for one of the three reasons.                       *)
LEMMA TriedFail ==
    ASSUME FailInv, NEW c \in Calls, NEW p,
           pc[c] = "try", p = list[c][pos[c]],
           c \in cancelled \/ p \in failing[c] \cup NoAddr,
           pos' = [pos EXCEPT ![c] = @ + 1],
           UNCHANGED <<reach, cache, pc, list, fromCache, cancelled, failing, given, lookups>>
    PROVE  FailInv'
<1>1. Shapes'
  BY DEF FailInv, Shapes
<1>2. CallInv(c)'
  <2>1. pos[c] \in Nat /\ pos'[c] = pos[c] + 1
    BY DEF FailInv, Shapes
  <2>2. Explained(c)'
    <3>1. ASSUME c \notin cancelled, NEW q \in given[c], q \notin failing[c] \cup NoAddr
          PROVE  Ahead(c, q)'
      <4>1. PICK i \in 1..Len(list[c]) : i >= pos[c] /\ list[c][i] = q
        BY <3>1 DEF FailInv, CallInv, Explained, Ahead
      <4>2. i # pos[c] BY <3>1, <4>1
      <4>3. i >= pos'[c] BY <2>1, <4>1, <4>2
      <4> QED BY <4>1, <4>3 DEF Ahead
    <3> QED BY <3>1 DEF Explained, Looking
  <2>3. AtPlace(c)' /\ FailSeen(c)'
    BY DEF FailInv, CallInv, AtPlace, FailSeen, Running, Looking
  <2> QED BY <2>2, <2>3 DEF CallInv
<1>3. ASSUME NEW d \in Calls, d # c PROVE CallInv(d)'
  <2>1. pos'[d] = pos[d]
    BY <1>3 DEF FailInv, Shapes
  <2> QED BY <2>1, OtherCall DEF FailInv
<1> QED BY <1>1, <1>2, <1>3 DEF FailInv

LEMMA EndFail ==
    ASSUME FailInv, NEW c \in Calls, Exhausted(c) \/ \E p \in Peers : DialOk(c, p)
    PROVE  FailInv'
<1>1. /\ UNCHANGED <<reach, cache, list, pos, fromCache, cancelled, failing, given, lookups>>
      /\ pc[c] = "try"
      /\ \/ pc' = [pc EXCEPT ![c] = "ok"]
         \/ pc' = [pc EXCEPT ![c] = "exhausted"] /\ pos[c] > Len(list[c]) /\ ~fromCache[c]
  BY DEF Exhausted, DialOk, Dials, history
<1>2. Shapes'
  BY <1>1 DEF FailInv, Shapes, Places
<1>3. CallInv(c)'
  <2>1. pc'[c] = "ok" \/ (pc'[c] = "exhausted" /\ pos[c] > Len(list[c]) /\ ~fromCache[c])
    BY <1>1 DEF FailInv, Shapes
  <2>2. CASE pc'[c] = "ok"
    BY <2>2 DEF CallInv, AtPlace, FailSeen, Explained, Running, Ends, Looking
  <2>3. CASE pc'[c] = "exhausted" /\ pos[c] > Len(list[c]) /\ ~fromCache[c]
    <3>1. Len(list[c]) \in Nat /\ pos[c] \in Nat
      BY <1>1, LenProperties DEF FailInv, Shapes, CallInv, AtPlace, ProperList, IsSeq
    <3>2. \A i \in 1..Len(list[c]) : ~(i >= pos[c])
      BY <2>3, <3>1
    <3>3. Explained(c)'
      BY <1>1, <2>3, <3>2 DEF FailInv, CallInv, Explained, Ahead, Looking
    <3>4. AtPlace(c)'
      BY <1>1, <2>3 DEF FailInv, CallInv, AtPlace, Looking
    <3> QED BY <2>3, <3>3, <3>4 DEF CallInv, FailSeen, Running, Ends
  <2> QED BY <2>1, <2>2, <2>3
<1>4. ASSUME NEW d \in Calls, d # c PROVE CallInv(d)'
  <2>1. pc'[d] = pc[d]
    BY <1>1, <1>4 DEF FailInv, Shapes
  <2> QED BY <1>1, <2>1, OtherCall DEF FailInv
<1> QED BY <1>2, <1>3, <1>4 DEF FailInv

(* A peer starts or stops reaching the target: what was seen stays seen.   *)
LEMMA ChangeFail ==
    ASSUME FailInv, NEW c \in Calls, NEW p \in Peers, Change(c, p)
    PROVE  FailInv'
<1>1. /\ UNCHANGED <<cache, pc, list, pos, fromCache, cancelled, given, lookups>>
      /\ reach' = [reach EXCEPT ![c] = IF p \in @ THEN @ \ {p} ELSE @ \cup {p}]
      /\ failing' = [failing EXCEPT ![c] = @ \cup (Peers \ reach'[c])]
  BY DEF Change, callVars
<1>2. Shapes'
  BY <1>1 DEF FailInv, Shapes
<1>3. CallInv(c)'
  <2>1. failing'[c] = failing[c] \cup (Peers \ reach'[c])
    BY <1>1 DEF FailInv, Shapes
  <2>2. Explained(c)'
    BY <1>1, <2>1 DEF FailInv, CallInv, Explained, Ahead
  <2>3. FailSeen(c)'
    BY <2>1 DEF FailSeen
  <2>4. AtPlace(c)'
    BY <1>1 DEF FailInv, CallInv, AtPlace
  <2> QED BY <2>2, <2>3, <2>4 DEF CallInv
<1>4. ASSUME NEW d \in Calls, d # c PROVE CallInv(d)'
  <2>1. reach'[d] = reach[d] /\ failing'[d] = failing[d]
    BY <1>1, <1>4 DEF FailInv, Shapes
  <2> QED BY <1>1, <2>1, OtherCall DEF FailInv
<1> QED BY <1>2, <1>3, <1>4 DEF FailInv

LEMMA FailStep == FailInv /\ [Next]_vars => FailInv'
<1> SUFFICES ASSUME FailInv, [Next]_vars PROVE FailInv'
  OBVIOUS
<1>1. ASSUME NEW c \in Calls, RegionFound(c) \/ GlobalFound(c) \/ UseConnected(c) PROVE FailInv'
  <2>1. PICK s : ProperList(s) /\ Fetched(c, s) /\ pc[c] \in Looking
    BY <1>1, ListsAreProper DEF RegionFound, GlobalFound, UseConnected, Answers, Looking
  <2> QED BY <2>1, FetchedFail
<1>2. ASSUME NEW c \in Calls, NEW p \in Peers, DialFails(c, p) PROVE FailInv'
  <2>1. c \in cancelled \/ p \in failing[c]
    BY <1>2 DEF FailInv, CallInv, FailSeen, Running, Ends, DialFails, Dials
  <2> QED BY <1>2, <2>1, TriedFail DEF DialFails, Dials
<1>3. ASSUME NEW c \in Calls, NoAddress(c) PROVE FailInv'
  BY <1>3, TriedFail DEF NoAddress, history
<1>4. CASE Tick \/ UNCHANGED vars \/ \E c \in Calls : Cancel(c)
  <2>1. /\ UNCHANGED <<reach, cache, pc, list, pos, fromCache, failing, given, lookups>>
        /\ cancelled \subseteq cancelled'
    BY <1>4 DEF Tick, Cancel, vars, callVars, history
  <2>2. Shapes' BY <2>1 DEF FailInv, Shapes
  <2> QED BY <2>1, <2>2, OtherCall DEF FailInv
<1> QED
  BY <1>1, <1>2, <1>3, <1>4, CachedFail, FetchFail, LookingFail, OrderFail, EndFail, ChangeFail
     DEF Next, CallStep

(* For any number of calls and peers: a call that ends with the error of a *)
(* dial has asked the DHT itself, once, and every peer of every list that  *)
(* it has got has no address or could not reach the call's target, unless  *)
(* the caller had cancelled.                                               *)
THEOREM FailuresAreExplained == Spec => []FailureExplained
<1>1. FailInv => FailureExplained
  BY DEF FailInv, CallInv, AtPlace, Explained, FailureExplained
<1> QED BY <1>1, FailInit, FailStep, PTL DEF Spec

-----------------------------------------------------------------------------
(* What a peer is blamed for.                                              *)

(* How often a call may have dialled a peer: once for a cached list that   *)
(* it has done with, and once if the peer is behind it in its list.        *)
Behind(c, p) == \E i \in 1..Len(list[c]) : i < pos[c] /\ list[c][i] = p

Counted(c, p) ==
    /\ pc[c] \in {"idle", "order"} => dialled[c][p] = 0
    /\ pc[c] \in Looking => dialled[c][p] <= IF fromCache[c] THEN 1 ELSE 0
    /\ pc[c] = "try" =>
          dialled[c][p] <= (IF fromCache[c] THEN 0 ELSE 1) + (IF Behind(c, p) THEN 1 ELSE 0)
    /\ FailedDials(c, p) <= 2

BlameTypes ==
    /\ dialled \in [Calls -> [Peers -> Nat]]
    /\ stats \in [Peers -> [latency : Nat, failures : Nat, lastFailure : Nat]]

BlameInv ==
    /\ now \in Nat /\ FailInv /\ BlameTypes
    /\ \A p \in Peers :
          /\ IsFiniteSet(AllFailedDials(p)) /\ stats[p].failures = Cardinality(AllFailedDials(p))
          /\ \A c \in Calls : Counted(c, p)

(* A step that dials nobody: no call reaches a peer or forgets that it     *)
(* did.                                                                    *)
LEMMA QuietBlame ==
    ASSUME BlameInv, now' \in Nat, FailInv', dialled' = dialled, stats' = stats,
           \A c \in Calls : /\ pc'[c] = "ok" <=> pc[c] = "ok"
                            /\ pc[c] = "ok" => list'[c] = list[c] /\ pos'[c] = pos[c],
           \A c \in Calls, p \in Peers : Counted(c, p)'
    PROVE  BlameInv'
<1>1. ASSUME NEW p \in Peers, NEW c \in Calls PROVE FailedDials(c, p)' = FailedDials(c, p)
  BY DEF FailedDials, Reached
<1>2. ASSUME NEW p \in Peers PROVE AllFailedDials(p)' = AllFailedDials(p)
  BY <1>1 DEF AllFailedDials
<1> QED BY <1>2 DEF BlameInv, BlameTypes

(* A call that a step leaves where it is.                                  *)
LEMMA SameCounted ==
    ASSUME NEW c, NEW p, Counted(c, p),
           UNCHANGED <<pc[c], list[c], pos[c], fromCache[c], dialled[c]>>
    PROVE  Counted(c, p)'
BY DEF Counted, Behind, FailedDials, Reached

(* A call that goes to another place without dialling.                     *)
LEMMA MovedCounted ==
    ASSUME BlameInv, Shapes', NEW c \in Calls, NEW p \in Peers, dialled' = dialled,
           pc[c] # "ok", pc'[c] # "ok",
           \/ pc[c] = "idle"
           \/ pc[c] \in Looking /\ pc'[c] \in Looking /\ fromCache'[c] = fromCache[c]
           \/ pc[c] \in Looking /\ ~fromCache[c] /\ pc'[c] = "order"
           \/ pc[c] \in Looking /\ fromCache[c] /\ pc'[c] = "try" /\ ~fromCache'[c]
           \/ pc[c] = "order" /\ pc'[c] = "try"
           \/ pc[c] = "try" /\ fromCache[c] /\ pc'[c] \in Looking /\ fromCache'[c]
           \/ /\ pc[c] = "try" /\ pc'[c] = "try" /\ UNCHANGED <<list[c], fromCache[c]>>
              /\ pos'[c] = pos[c] + 1
           \/ pc'[c] \in {"exhausted", "noProviders", "lookupFailed"}
    PROVE  Counted(c, p)'
<1>1. dialled[c][p] \in Nat /\ dialled'[c][p] = dialled[c][p] BY DEF BlameInv, BlameTypes
<1>2. FailedDials(c, p) = dialled[c][p] /\ FailedDials(c, p)' = dialled[c][p]
  BY <1>1 DEF FailedDials, Reached
<1>3. /\ Counted(c, p) /\ fromCache[c] \in BOOLEAN /\ fromCache'[c] \in BOOLEAN
      /\ pc[c] \in Places /\ pos[c] \in Nat
  BY DEF BlameInv, FailInv, Shapes
<1>4. pc[c] = "try" /\ pc'[c] = "try" /\ UNCHANGED <<list[c]>> /\ pos'[c] = pos[c] + 1
         => (Behind(c, p) => Behind(c, p)')
  <2> SUFFICES ASSUME list'[c] = list[c], pos'[c] = pos[c] + 1, Behind(c, p) PROVE Behind(c, p)'
    OBVIOUS
  <2>1. PICK i \in 1..Len(list[c]) : i < pos[c] /\ list[c][i] = p BY DEF Behind
  <2>2. i < pos'[c] BY <1>3, <2>1
  <2> QED BY <2>1, <2>2 DEF Behind
<1>5. dialled[c][p] <= 2 BY <1>2, <1>3 DEF Counted
<1> QED BY <1>1, <1>2, <1>3, <1>4, <1>5 DEF Counted, Looking

(* A dial fails: one more pair, and one more failure of that peer only.    *)
LEMMA DialFailsBlame ==
    ASSUME BlameInv, FailInv', NEW c \in Calls, NEW p \in Peers, DialFails(c, p)
    PROVE  BlameInv'
<1>1. /\ pc[c] = "try" /\ UNCHANGED <<now, pc, list, fromCache>>
      /\ pos[c] <= Len(list[c]) /\ p = list[c][pos[c]]
      /\ dialled' = [dialled EXCEPT ![c][p] = @ + 1]
      /\ stats' = [stats EXCEPT ![p].failures = @ + 1, ![p].lastFailure = now]
      /\ pos' = [pos EXCEPT ![c] = @ + 1]
  BY DEF DialFails, Dials, recordFailure
<1>2. BlameTypes'
  <2>1. dialled' \in [Calls -> [Peers -> Nat]] BY <1>1 DEF BlameInv, BlameTypes
  <2> DEFINE r == [stats[p] EXCEPT !.failures = @ + 1, !.lastFailure = now]
  <2>2. r \in [latency : Nat, failures : Nat, lastFailure : Nat]
    <3> DEFINE t == stats[p]
    <3>1. t \in [latency : Nat, failures : Nat, lastFailure : Nat] /\ now \in Nat
      BY DEF BlameInv, BlameTypes
    <3> HIDE DEF t
    <3>2. t.failures + 1 \in Nat BY <3>1
    <3>3. [t EXCEPT !.failures = t.failures + 1, !.lastFailure = now]
             \in [latency : Nat, failures : Nat, lastFailure : Nat]
      BY <3>1, <3>2
    <3> QED BY <3>3 DEF t
  <2>a. stats' = [stats EXCEPT ![p] = r] BY <1>1 DEF BlameInv, BlameTypes
  <2> HIDE DEF r
  <2>3. stats' \in [Peers -> [latency : Nat, failures : Nat, lastFailure : Nat]]
    BY <2>2, <2>a DEF BlameInv, BlameTypes
  <2> QED BY <2>1, <2>3 DEF BlameTypes
<1>3. ASSUME NEW d \in Calls, NEW q \in Peers, d # c \/ q # p
      PROVE  FailedDials(d, q)' = FailedDials(d, q) /\ dialled'[d][q] = dialled[d][q]
  <2>1. dialled'[d][q] = dialled[d][q] BY <1>1, <1>3 DEF BlameInv, BlameTypes
  <2>2. d # c => pos'[d] = pos[d] BY <1>1 DEF BlameInv, FailInv, Shapes
  <2>3. Reached(d, q)' = Reached(d, q) BY <1>1, <2>2 DEF Reached
  <2> QED BY <2>1, <2>3 DEF FailedDials
<1>4. /\ FailedDials(c, p) = dialled[c][p] /\ dialled[c][p] \in Nat
      /\ FailedDials(c, p)' = dialled[c][p] + 1 /\ dialled'[c][p] = dialled[c][p] + 1
  BY <1>1 DEF BlameInv, BlameTypes, FailedDials, Reached
<1>5. ASSUME NEW d \in Calls, NEW q \in Peers PROVE Counted(d, q)'
  <2>0. Counted(d, q) /\ Counted(c, p) BY DEF BlameInv
  <2>1. CASE d # c
    <3>1. pos'[d] = pos[d] /\ dialled'[d] = dialled[d]
      BY <1>1, <2>1 DEF BlameInv, FailInv, Shapes, BlameTypes
    <3> QED BY <1>1, <2>0, <3>1, SameCounted
  <2>2. /\ pos[c] \in Nat \ {0} /\ pos'[c] = pos[c] + 1 /\ fromCache[c] \in BOOLEAN
        /\ ProperList(list[c]) /\ Len(list[c]) \in Nat
    BY <1>1, LenProperties DEF BlameInv, FailInv, Shapes, CallInv, AtPlace, ProperList, IsSeq
  <2>3. CASE d = c /\ q # p
    <3>1. Behind(c, q) => Behind(c, q)'
      <4> SUFFICES ASSUME Behind(c, q) PROVE Behind(c, q)' OBVIOUS
      <4>1. PICK i \in 1..Len(list[c]) : i < pos[c] /\ list[c][i] = q BY DEF Behind
      <4>2. i < pos'[c] BY <2>2, <4>1
      <4> QED BY <1>1, <4>1, <4>2 DEF Behind
    <3>2. dialled[c][q] \in Nat BY DEF BlameInv, BlameTypes
    <3> QED BY <1>1, <1>3, <2>0, <2>2, <2>3, <3>1, <3>2 DEF Counted, Looking
  <2>4. CASE d = c /\ q = p
    <3>1. ~Behind(c, p)
      <4> SUFFICES ASSUME NEW i \in 1..Len(list[c]), i < pos[c], list[c][i] = p PROVE FALSE
        BY DEF Behind
      <4>1. pos[c] \in 1..Len(list[c]) /\ i # pos[c] BY <1>1, <2>2
      <4> QED BY <1>1, <2>2, <4>1 DEF ProperList
    <3>2. Behind(c, p)'
      <4>1. pos[c] \in 1..Len(list[c]) /\ pos[c] < pos'[c]
        BY <1>1, <2>2
      <4> QED BY <1>1, <4>1 DEF Behind
    <3> QED BY <1>1, <1>4, <2>0, <2>2, <2>4, <3>1, <3>2 DEF Counted, Looking
  <2> QED BY <2>1, <2>3, <2>4
<1>6. ASSUME NEW q \in Peers, q # p
      PROVE  AllFailedDials(q)' = AllFailedDials(q) /\ stats'[q] = stats[q]
  BY <1>1, <1>3, <1>6 DEF AllFailedDials, BlameInv, BlameTypes
<1>7. /\ AllFailedDials(p)' = AllFailedDials(p) \cup {<<c, dialled[c][p] + 1>>}
      /\ <<c, dialled[c][p] + 1>> \notin AllFailedDials(p)
  <2> DEFINE n == dialled[c][p]
  <2>1. n \in Nat /\ 1..(n + 1) = (1..n) \cup {n + 1} /\ n + 1 \notin 1..n BY <1>4
  <2>2. ASSUME NEW x PROVE x \in AllFailedDials(p)' <=> x \in AllFailedDials(p) \cup {<<c, n + 1>>}
    <3>1. x \in AllFailedDials(p)' <=> \E d \in Calls : x \in {d} \X (1..FailedDials(d, p)')
      BY DEF AllFailedDials
    <3>2. x \in AllFailedDials(p) <=> \E d \in Calls : x \in {d} \X (1..FailedDials(d, p))
      BY DEF AllFailedDials
    <3>3. \A d \in Calls \ {c} : FailedDials(d, p)' = FailedDials(d, p) BY <1>3
    <3>4. {c} \X (1..FailedDials(c, p)') = ({c} \X (1..FailedDials(c, p))) \cup {<<c, n + 1>>}
      BY <1>4, <2>1
    <3> HIDE DEF n
    <3> QED BY <3>1, <3>2, <3>3, <3>4
  <2>3. <<c, n + 1>> \notin AllFailedDials(p)
    <3> SUFFICES ASSUME NEW d \in Calls, <<c, n + 1>> \in {d} \X (1..FailedDials(d, p)) PROVE FALSE
      BY DEF AllFailedDials
    <3>1. d = c OBVIOUS
    <3> QED BY <1>4, <2>1, <3>1
  <2> QED BY <2>2, <2>3
<1>8. /\ IsFiniteSet(AllFailedDials(p)')
      /\ Cardinality(AllFailedDials(p)') = Cardinality(AllFailedDials(p)) + 1
  <2>1. IsFiniteSet(AllFailedDials(p)) BY DEF BlameInv
  <2> QED BY <1>7, <2>1, FS_AddElement
<1>9. stats'[p].failures = stats[p].failures + 1
  BY <1>1 DEF BlameInv, BlameTypes
<1>10. ASSUME NEW q \in Peers
       PROVE  IsFiniteSet(AllFailedDials(q)') /\ stats'[q].failures = Cardinality(AllFailedDials(q)')
  <2>1. IsFiniteSet(AllFailedDials(q)) /\ stats[q].failures = Cardinality(AllFailedDials(q))
    BY DEF BlameInv
  <2>2. CASE q = p BY <1>8, <1>9, <2>1, <2>2
  <2>3. CASE q # p BY <1>6, <2>1, <2>3
  <2> QED BY <2>2, <2>3
<1> QED BY <1>1, <1>2, <1>5, <1>10 DEF BlameInv

(* A dial succeeds: it is counted as reached and not as failed.            *)
LEMMA DialOkBlame ==
    ASSUME BlameInv, FailInv', NEW c \in Calls, NEW p \in Peers, DialOk(c, p)
    PROVE  BlameInv'
<1>1. /\ pc[c] = "try" /\ p = list[c][pos[c]] /\ UNCHANGED <<now, list, pos, fromCache>>
      /\ dialled' = [dialled EXCEPT ![c][p] = @ + 1]
      /\ pc' = [pc EXCEPT ![c] = "ok"]
  BY DEF DialOk, Dials
<1>2. PICK lat \in Nat : stats' = [stats EXCEPT ![p].latency = lat]
  BY SmartAssumptions DEF DialOk, recordSuccess
<1>3. BlameTypes' BY <1>1, <1>2 DEF BlameInv, BlameTypes
<1>4. ASSUME NEW q \in Peers PROVE stats'[q].failures = stats[q].failures
  BY <1>2 DEF BlameInv, BlameTypes
<1>5. ASSUME NEW d \in Calls, NEW q \in Peers
      PROVE  FailedDials(d, q)' = FailedDials(d, q) /\ (d # c => dialled'[d] = dialled[d])
  <2>1. pc'[c] = "ok" /\ (d # c => pc'[d] = pc[d]) BY <1>1 DEF BlameInv, FailInv, Shapes
  <2>2. dialled[d][q] \in Nat /\ dialled'[d][q] = IF d = c /\ q = p THEN dialled[d][q] + 1 ELSE dialled[d][q]
    BY <1>1 DEF BlameInv, BlameTypes
  <2>3. d # c => dialled'[d] = dialled[d] BY <1>1 DEF BlameInv, BlameTypes
  <2> QED BY <1>1, <2>1, <2>2, <2>3 DEF FailedDials, Reached
<1>6. ASSUME NEW d \in Calls, NEW q \in Peers PROVE Counted(d, q)'
  <2>1. pc'[c] = "ok" /\ (d # c => pc'[d] = pc[d]) BY <1>1 DEF BlameInv, FailInv, Shapes
  <2>2. Counted(d, q) BY DEF BlameInv
  <2>3. CASE d = c BY <1>5, <2>1, <2>2, <2>3 DEF Counted, Looking
  <2>4. CASE d # c BY <1>1, <1>5, <2>1, <2>2, <2>4, SameCounted
  <2> QED BY <2>3, <2>4
<1>7. ASSUME NEW q \in Peers PROVE AllFailedDials(q)' = AllFailedDials(q)
  BY <1>5 DEF AllFailedDials
<1> QED BY <1>1, <1>3, <1>4, <1>6, <1>7 DEF BlameInv

LEMMA BlameStep == BlameInv /\ AgeInv' /\ [Next]_vars => BlameInv'
<1> SUFFICES ASSUME BlameInv, AgeInv', [Next]_vars PROVE BlameInv' OBVIOUS
<1>0. FailInv' /\ now' \in Nat BY FailStep DEF BlameInv, AgeInv, Times
<1>s. Shapes BY DEF BlameInv, FailInv
<1>t. Shapes' BY <1>0 DEF FailInv
<1>1. ASSUME NEW c \in Calls,
             \/ BeginCached(c) \/ BeginFetch(c) \/ Refetch(c) \/ RegionEmpty(c) \/ NoProviders(c)
             \/ LookupFails(c) \/ Order(c) \/ NoAddress(c) \/ Exhausted(c)
      PROVE  BlameInv'
  <2>1. /\ UNCHANGED <<dialled, stats>> /\ pc[c] # "ok" /\ pc'[c] # "ok"
        /\ \A d \in Calls \ {c} : UNCHANGED <<pc[d], list[d], pos[d], fromCache[d]>>
        /\ \/ pc[c] = "idle"
           \/ pc[c] \in Looking /\ pc'[c] \in Looking /\ fromCache'[c] = fromCache[c]
           \/ pc[c] = "order" /\ pc'[c] = "try"
           \/ pc[c] = "try" /\ fromCache[c] /\ pc'[c] \in Looking /\ fromCache'[c]
           \/ /\ pc[c] = "try" /\ pc'[c] = "try" /\ UNCHANGED <<list[c], fromCache[c]>>
              /\ pos'[c] = pos[c] + 1
           \/ pc'[c] \in {"exhausted", "noProviders", "lookupFailed"}
    BY <1>1, <1>s DEF BeginCached, BeginFetch, Refetch, Fetch, RegionEmpty, NoProviders, LookupFails,
                      Listless, Order, NoAddress, Exhausted, Shapes, Looking, history
  <2>2. ASSUME NEW p \in Peers PROVE Counted(c, p)' BY <1>t, <2>1, MovedCounted
  <2>3. ASSUME NEW d \in Calls, NEW p \in Peers, d # c PROVE Counted(d, p)'
    BY <2>1, <2>3, SameCounted DEF BlameInv
  <2> QED BY <1>0, <2>1, <2>2, <2>3, QuietBlame
<1>2. ASSUME NEW c \in Calls, RegionFound(c) \/ GlobalFound(c) \/ UseConnected(c) PROVE BlameInv'
  <2>1. PICK s : Fetched(c, s) /\ pc[c] \in Looking
    BY <1>2 DEF RegionFound, GlobalFound, UseConnected, Looking
  <2>2. /\ UNCHANGED <<dialled, stats>> /\ pc[c] # "ok" /\ pc'[c] # "ok"
        /\ \A d \in Calls \ {c} : UNCHANGED <<pc[d], list[d], pos[d], fromCache[d]>>
        /\ pc'[c] = (IF fromCache[c] THEN "try" ELSE "order") /\ ~fromCache'[c]
    BY <1>s, <2>1 DEF Fetched, Shapes, AfterFetch, Looking
  <2>3. ASSUME NEW p \in Peers PROVE Counted(c, p)' BY <1>t, <2>1, <2>2, MovedCounted
  <2>4. ASSUME NEW d \in Calls, NEW p \in Peers, d # c PROVE Counted(d, p)'
    BY <2>2, <2>4, SameCounted DEF BlameInv
  <2> QED BY <1>0, <2>2, <2>3, <2>4, QuietBlame
<1>3. CASE Tick \/ UNCHANGED vars \/ \E c \in Calls : Cancel(c) \/ \E p \in Peers : Change(c, p)
  <2>1. UNCHANGED <<dialled, stats, pc, list, pos, fromCache>>
    BY <1>3 DEF Tick, Cancel, Change, vars, callVars, history
  <2>2. ASSUME NEW d \in Calls, NEW p \in Peers PROVE Counted(d, p)'
    BY <2>1, SameCounted DEF BlameInv
  <2> QED BY <1>0, <2>1, <2>2, QuietBlame
<1> QED BY <1>0, <1>1, <1>2, <1>3, DialFailsBlame, DialOkBlame DEF Next, CallStep

(* For any number of calls and peers: the failures counted for a peer are  *)
(* the dials of it that have failed, of which no call has made more than   *)
(* two, so neither a concurrent call nor the second lookup counts twice.   *)
THEOREM BlameIsExact == Spec => []BlameExact
<1>1. Init => BlameInv
  <2> SUFFICES ASSUME Init PROVE BlameInv OBVIOUS
  <2>1. FailInv BY FailInit
  <2>2. BlameTypes /\ now \in Nat BY DEF Init, BlameTypes
  <2>3. ASSUME NEW c \in Calls, NEW p \in Peers PROVE FailedDials(c, p) = 0 /\ dialled[c][p] = 0
    BY DEF Init, FailedDials, Reached
  <2>4. ASSUME NEW p \in Peers PROVE AllFailedDials(p) = {}
    <3>1. \A c \in Calls : 1..FailedDials(c, p) = {} BY <2>3
    <3> QED BY <3>1 DEF AllFailedDials
  <2>5. \A p \in Peers : stats[p].failures = 0 BY DEF Init
  <2> QED BY <2>1, <2>2, <2>3, <2>4, <2>5, FS_EmptySet DEF BlameInv, Counted, Looking
<1>2. BlameInv => BlameExact
  BY DEF BlameInv, Counted, BlameExact
<1> QED BY <1>1, <1>2, BlameStep, AgeInit, AgeStep, PTL DEF Spec

==============================================================================
