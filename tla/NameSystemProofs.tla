--------------------------- MODULE NameSystemProofs ---------------------------
(***************************************************************************)
(* For every set of replicas, daemons and clients, every TTL, every clock   *)
(* and every bound: how old an answer of Resolve can be, and then what the  *)
(* replicas hold.  Unless something is lost, a replica that is behind is    *)
(* still to be sent the newer record, only calls that race take a live name *)
(* over, and the daemons do not all give up in each other's favour.         *)
(***************************************************************************)
EXTENDS NameSystem, TLAPS

\* What the argument needs of the types: records are numbers where time is
\* concerned, and calls publish records.
Types ==
    /\ now \in Nat \ {0}
    /\ store \in [Replicas -> SUBSET Record]
    /\ call \in [Daemons -> Calls]
    /\ cache \in [Clients -> SUBSET Entries]

\* An entry is made at most MaxLookup after its record was found unexpired, and
\* ends at most one TTL later.
Ages ==
    \A c \in Clients : \A e \in cache[c] : e.expiry <= e.rec.timestamp + 2 * e.rec.ttl + MaxLookup

LEMMA ClockType ==
    ASSUME Types, NEW p \in Replicas \cup Clients
    PROVE  Clock(p) \in Nat /\ Clock(p) >= now
BY NameAssumptions DEF Types, Clock

\* Whatever a replica is sent, it holds records.
LEMMA AcceptRecords ==
    ASSUME NEW old \in SUBSET Record, NEW r \in Record
    PROVE  Accept(old, r) \in SUBSET Record
BY DEF Accept

\* GetValue returns records.
LEMMA GetValueRecords ==
    ASSUME Types, NEW S \in SUBSET Replicas, NEW found \in GetValue(S), NEW r \in found
    PROVE  r \in Record
<1>1. DEFINE held == UNION {store[m] : m \in S}
<1>2. held \subseteq Record
  BY DEF Types
<1>3. found = {} \/ \E s \in Select(held) : found = {s}
  BY DEF GetValue
<1> QED
  BY <1>2, <1>3 DEF Select

\* A call that has signed a record is a call.
LEMMA PutIsCall ==
    ASSUME NEW op \in {"Register", "Refresh", "Unregister"}, NEW r \in Record
    PROVE  Put(op, r) \in Calls
BY DEF Put, Calls

LEMMA IdleIsCall == Idle \in Calls
BY DEF Idle, Calls

\* Entering a call leaves every daemon in a call.
LEMMA EnterCalls ==
    ASSUME Types, NEW n \in Daemons, NEW c \in Calls, Enter(n, c)
    PROVE  call' \in [Daemons -> Calls]
<1>1. ASSUME NEW m \in Daemons
      PROVE  [call[m] EXCEPT !.raced = TRUE] \in Calls
  BY <1>1 DEF Types, Calls
<1>2. [c EXCEPT !.raced = (\E k \in Daemons \ {n} : Active(k)) \/ Divided] \in Calls
  BY DEF Calls
<1> QED
  BY <1>1, <1>2, IdleIsCall DEF Enter

LEMMA ReturnCalls ==
    ASSUME Types, NEW n \in Daemons, NEW err \in BOOLEAN, Return(n, err)
    PROVE  call' \in [Daemons -> Calls]
BY IdleIsCall DEF Return, Types

LEMMA InitTypes == Init => Types /\ Ages
<1> SUFFICES ASSUME Init PROVE Types /\ Ages
  OBVIOUS
<1>1. \A r \in InitialRecords : r \in Record
  BY NameAssumptions DEF Record
<1> QED
  BY <1>1, IdleIsCall, NameAssumptions DEF Init, Types, Ages

\* Only Resolve writes the cache, and what it writes is young enough.
LEMMA ResolveAges ==
    ASSUME Types, Ages, NEW c \in Clients, NEW took \in 0..MaxLookup, Resolve(c, took)
    PROVE  Types' /\ Ages'
<1>1. PICK E \in SearchValue : \E r \in Select({s \in E : ~Expired(s, Clock(c) - took)}) :
          cache' = [cache EXCEPT ![c] = {[rec |-> r, expiry |-> Clock(c) + CacheTTL(r.ttl)]}]
  BY DEF Resolve
<1>2. PICK r \in Select({s \in E : ~Expired(s, Clock(c) - took)}) :
          cache' = [cache EXCEPT ![c] = {[rec |-> r, expiry |-> Clock(c) + CacheTTL(r.ttl)]}]
  BY <1>1
<1>3. r \in Record /\ ~Expired(r, Clock(c) - took)
  BY DEF SearchValue, Select, Types
<1>4. Clock(c) \in Nat /\ took \in Nat /\ took <= MaxLookup /\ MaxLookup \in Nat
  BY ClockType, NameAssumptions
<1>5. r.ttl \in Nat /\ r.timestamp \in Nat
  BY <1>3 DEF Record
<1>6. CacheTTL(r.ttl) \in Nat /\ CacheTTL(r.ttl) <= r.ttl
  BY <1>5, NameAssumptions DEF CacheTTL
<1>7. Clock(c) - took <= r.timestamp + r.ttl
  BY <1>3, <1>4, <1>5 DEF Expired
<1>8. Clock(c) + CacheTTL(r.ttl) <= r.timestamp + 2 * r.ttl + MaxLookup
  BY <1>4, <1>5, <1>6, <1>7
<1>9. [rec |-> r, expiry |-> Clock(c) + CacheTTL(r.ttl)] \in Entries
  BY <1>3, <1>4, <1>6 DEF Entries
<1>10. Types'
  BY <1>2, <1>9 DEF Types, Resolve
<1>11. Ages'
  BY <1>2, <1>8 DEF Types, Ages
<1> QED
  BY <1>10, <1>11

\* Every step keeps the types and the ages.
LEMMA StepAges == Types /\ Ages /\ [Next]_vars => Types' /\ Ages'
<1> SUFFICES ASSUME Types, Ages, [Next]_vars PROVE Types' /\ Ages'
  OBVIOUS
<1> USE NameAssumptions
<1>1. ASSUME NEW n \in Daemons, RegisterBegin(n) PROVE Types' /\ Ages'
  <2>1. [Idle EXCEPT !.op = "Register", !.stage = "get", !.time = Clock(n)] \in Calls
    BY ClockType DEF Idle, Calls
  <2> QED
    BY <1>1, <2>1, EnterCalls DEF RegisterBegin, Types, Ages
<1>2. ASSUME NEW n \in Daemons, NEW S \in SUBSET Replicas, RegisterGet(n, S) PROVE Types' /\ Ages'
  <2>1. PICK found \in GetValue(S) :
          \/ call' = [call EXCEPT ![n] =
                [Put("Register", [owner |-> n, addrs |-> TRUE, ttl |-> TTLOf[n], timestamp |-> call[n].time])
                    EXCEPT !.raced = call[n].raced \/ Divided]]
          \/ call' = [call EXCEPT ![n] = Idle]
    BY <1>2 DEF RegisterGet
  <2>2. [owner |-> n, addrs |-> TRUE, ttl |-> TTLOf[n], timestamp |-> call[n].time] \in Record
    BY DEF Record, Types, Calls
  <2>3. [Put("Register", [owner |-> n, addrs |-> TRUE, ttl |-> TTLOf[n], timestamp |-> call[n].time])
            EXCEPT !.raced = call[n].raced \/ Divided] \in Calls
    BY <2>2 DEF Put, Calls, Types
  <2>4. call' \in [Daemons -> Calls]
    BY <2>1, <2>3, IdleIsCall DEF Types
  <2> QED
    BY <1>2, <2>4 DEF RegisterGet, Types, Ages
<1>3. ASSUME NEW n \in Daemons, NEW S \in SUBSET Replicas, Refresh(n, S) PROVE Types' /\ Ages'
  <2>1. PICK found \in GetValue(S) : \E r \in found : r.owner = n /\ Enter(n, Put("Refresh", Renewed(n, r)))
    BY <1>3 DEF Refresh
  <2>2. PICK r \in found : r.owner = n /\ Enter(n, Put("Refresh", Renewed(n, r)))
    BY <2>1
  <2>3. r \in Record
    BY GetValueRecords
  <2>4. Renewed(n, r) \in Record
    BY <2>3, ClockType DEF Renewed, Record
  <2>5. call' \in [Daemons -> Calls]
    BY <2>2, <2>4, PutIsCall, EnterCalls
  <2> QED
    BY <1>3, <2>5 DEF Refresh, Types, Ages
<1>4. ASSUME NEW n \in Daemons, NEW S \in SUBSET Replicas, Unregister(n, S) PROVE Types' /\ Ages'
  <2>1. [owner |-> n, addrs |-> FALSE, ttl |-> 0, timestamp |-> Clock(n)] \in Record
    BY ClockType DEF Record
  <2>2. call' \in [Daemons -> Calls]
    BY <1>4, <2>1, PutIsCall, EnterCalls DEF Unregister
  <2> QED
    BY <1>4, <2>2 DEF Unregister, Types, Ages
<1>5. ASSUME NEW n \in Daemons, PutLocal(n) PROVE Types' /\ Ages'
  <2>1. PICK r \in call[n].rec :
          \/ /\ store' = [store EXCEPT ![n] = {r}]
             /\ call' = [call EXCEPT ![n].stage = "send", ![n].todo = Replicas \ {n}]
          \/ Return(n, TRUE) /\ store' = store
    BY <1>5 DEF PutLocal
  <2>2. r \in Record
    BY DEF Types, Calls
  <2>3. call' \in [Daemons -> Calls]
    <3>1. CASE Return(n, TRUE)
      BY <3>1, ReturnCalls
    <3>2. CASE call' = [call EXCEPT ![n].stage = "send", ![n].todo = Replicas \ {n}]
      <4> DEFINE begun == [call EXCEPT ![n].stage = "send"]
      <4>1. [call[n] EXCEPT !.stage = "send"] \in Calls
        BY DEF Types, Calls
      <4>2. begun \in [Daemons -> Calls]
        BY <4>1 DEF Types
      <4>3. call' = [begun EXCEPT ![n].todo = Replicas \ {n}]
        BY <3>2
      <4>4. [begun[n] EXCEPT !.todo = Replicas \ {n}] \in Calls
        BY <4>2 DEF Calls
      <4> HIDE DEF begun
      <4> QED
        BY <4>2, <4>3, <4>4
    <3> QED
      BY <2>1, <3>1, <3>2
  <2>4. store' \in [Replicas -> SUBSET Record]
    <3>1. n \in Replicas /\ {r} \in SUBSET Record
      BY <2>2
    <3>2. [store EXCEPT ![n] = {r}] \in [Replicas -> SUBSET Record]
      BY <3>1 DEF Types
    <3> QED
      BY <2>1, <3>2 DEF Types
  <2> QED
    BY <1>5, <2>3, <2>4 DEF PutLocal, Types, Ages
<1>6. ASSUME NEW n \in Daemons, PutFails(n) PROVE Types' /\ Ages'
  BY <1>6, ReturnCalls DEF PutFails, Types, Ages
<1>7. ASSUME NEW n \in Daemons, PutReturns(n) PROVE Types' /\ Ages'
  BY <1>7, ReturnCalls DEF PutReturns, Types, Ages
<1>8. ASSUME NEW n \in Daemons, NEW m \in Replicas, Deliver(n, m) PROVE Types' /\ Ages'
  <2>1. PICK r \in call[n].rec : store' = [store EXCEPT ![m] = Accept(@, r)]
    BY <1>8 DEF Deliver
  <2>2. r \in Record
    BY DEF Types, Calls
  <2>3. Accept(store[m], r) \in SUBSET Record
    BY <2>2, AcceptRecords DEF Types
  <2>4. store' \in [Replicas -> SUBSET Record]
    BY <2>1, <2>3 DEF Types
  <2>5. call' \in [Daemons -> Calls]
    BY <1>8 DEF Deliver, Types, Calls
  <2> QED
    BY <1>8, <2>4, <2>5 DEF Deliver, Types, Ages
<1>9. ASSUME NEW n \in Daemons, NEW m \in Replicas, LoseDelivery(n, m) PROVE Types' /\ Ages'
  <2>1. call' \in [Daemons -> Calls]
    BY <1>9 DEF LoseDelivery, Types, Calls
  <2> QED
    BY <1>9, <2>1 DEF LoseDelivery, Types, Ages
<1>10. ASSUME NEW c \in Clients, NEW took \in 0..MaxLookup, Resolve(c, took) PROVE Types' /\ Ages'
  BY <1>10, ResolveAges
<1>11. CASE Tick
  BY <1>11 DEF Tick, Types, Ages
<1>12. ASSUME NEW p \in Replicas, NEW m \in Replicas, Correct(p, m) PROVE Types' /\ Ages'
  <2>1. PICK r \in store[p] : store' = [store EXCEPT ![m] = Accept(@, r)]
    BY <1>12 DEF Correct
  <2>2. Accept(store[m], r) \in SUBSET Record
    BY AcceptRecords DEF Types
  <2>3. store' \in [Replicas -> SUBSET Record]
    BY <2>1, <2>2 DEF Types
  <2> QED
    BY <1>12, <2>3 DEF Correct, Types, Ages
<1>13. ASSUME NEW m \in Replicas, Restart(m) PROVE Types' /\ Ages'
  BY <1>13, IdleIsCall DEF Restart, Types, Ages
<1>14. CASE UNCHANGED vars
  BY <1>14 DEF vars, Types, Ages
<1> QED
  BY <1>1, <1>2, <1>3, <1>4, <1>5, <1>6, <1>7, <1>8, <1>9, <1>10, <1>11, <1>12, <1>13, <1>14 DEF Next

\* Resolve never returns from its cache a record that is older than twice its TTL
\* and the time a lookup takes.
THEOREM AnswersAreBounded == Spec => []AnswerAge
<1>1. Types /\ Ages => AnswerAge
  <2> SUFFICES ASSUME Types, Ages, NEW c \in Clients, NEW e \in cache[c], Clock(c) < e.expiry
               PROVE  Clock(c) <= e.rec.timestamp + 2 * e.rec.ttl + MaxLookup
    BY DEF AnswerAge, CacheHit
  <2>1. e.expiry <= e.rec.timestamp + 2 * e.rec.ttl + MaxLookup
    BY DEF Ages
  <2>2. e.expiry \in Nat /\ e.rec.timestamp \in Nat /\ e.rec.ttl \in Nat
    BY DEF Types, Entries, Record
  <2> QED
    BY <2>1, <2>2, ClockType, NameAssumptions
<1> QED
  BY <1>1, InitTypes, StepAges, PTL DEF Spec

-----------------------------------------------------------------------------
(* What the replicas hold while records are under way, and who may replace  *)
(* whose.                                                                   *)
Sends(k, s) == call[k].stage = "send" /\ s \in call[k].rec

Stored(s) == \E m \in Replicas : s \in store[m]

\* One record a replica and a call; a daemon signs for itself, and after the
\* records that were there before it.
Singles ==
    /\ \A m \in Replicas : \A r, s \in store[m] : r = s
    /\ \A m \in Replicas : \A r \in store[m] : r.owner = Departed <=> r.timestamp = 0
    /\ \A n \in Daemons : \A r, s \in call[n].rec : r = s
    /\ \A n \in Daemons : \A r \in call[n].rec : r.owner = n /\ r.timestamp > 0
    /\ \A n \in Daemons : call[n].stage = "get" => call[n].time > 0

\* A put that is past a replica has left a record there.
Reached ==
    \A k \in Daemons, m \in Replicas :
        call[k].stage = "send" /\ m \notin call[k].todo => store[m] # {}

\* A replica that is behind a record is still to be sent that record.
Lag ==
    \A s \in Record, m \in Replicas : \A x \in store[m] :
        (Stored(s) \/ \E k \in Daemons : Sends(k, s)) /\ x.timestamp < s.timestamp
           => \E k \in Daemons : Sends(k, s) /\ m \in call[k].todo

\* While a replica is empty, a record older than one that is stored is on its
\* way only together with that one.
Behind ==
    \A s \in Record, r \in Record, m \in Replicas, n \in Daemons :
        store[m] = {} /\ Sends(n, r) /\ Stored(s) /\ r.timestamp < s.timestamp
           => \E k \in Daemons : Sends(k, s)

Spread == ~lossy => Reached /\ Lag /\ Behind

\* A call that has noticed no other is the only one.
Alone ==
    \A n \in Daemons : Active(n) /\ ~call[n].raced => \A k \in Daemons \ {n} : ~Active(k)

\* Such a call found the name free, expired or its own, and so it stays.
Entitled ==
    ~lossy => \A n \in Daemons : call[n].stage \in {"put", "send"} /\ ~call[n].raced =>
        \A m \in Replicas : \A r \in store[m] : r.owner = n \/ Expired(r, Clock(n))

Held == \E m \in Replicas : \E r \in store[m] : r.owner \in Daemons

\* Once a daemon has put a record there is one of a daemon's.
Holding ==
    ~lossy => \/ Held
              \/ \A n \in Daemons : outcome[n] \in {"none", Departed} /\ call[n].stage # "send"

NameInv == Types /\ Ages /\ Singles /\ Spread /\ Alone /\ Entitled /\ Holding

-----------------------------------------------------------------------------
\* What a replica does with a record.
LEMMA AcceptIs ==
    ASSUME NEW old \in SUBSET Record, NEW r \in Record
    PROVE  \/ Accept(old, r) = {r} /\ \A x \in old : x.timestamp <= r.timestamp
           \/ Accept(old, r) = old /\ Accept(old, r) # {r} /\ \E x \in old : x.timestamp > r.timestamp
<1>1. \A x \in old : x.timestamp \in Nat BY DEF Record
<1>2. r.timestamp \in Nat BY DEF Record
<1>3. r \in Select(old \cup {r}) <=> \A x \in old : x.timestamp <= r.timestamp
  BY <1>1, <1>2 DEF Select
<1>4. CASE \A x \in old : x.timestamp <= r.timestamp BY <1>3, <1>4 DEF Accept
<1>5. ASSUME NEW x \in old, ~(x.timestamp <= r.timestamp)
      PROVE  Accept(old, r) = old /\ Accept(old, r) # {r} /\ x.timestamp > r.timestamp
  <2>1. x.timestamp > r.timestamp /\ x # r BY <1>1, <1>2, <1>5
  <2>2. Accept(old, r) = old BY <1>3, <1>5 DEF Accept
  <2> QED BY <2>1, <2>2
<1> QED BY <1>4, <1>5

\* Entering a call changes nothing about the others but that they take note.
LEMMA EnterFacts ==
    ASSUME Types, NEW n \in Daemons, NEW c \in Calls, ~Active(n), Enter(n, c)
    PROVE  /\ call'[n].stage = c.stage /\ call'[n].rec = c.rec /\ call'[n].time = c.time
           /\ call'[n].raced <=> (\E k \in Daemons \ {n} : Active(k)) \/ Divided
           /\ \A k \in Daemons \ {n} :
                 /\ call'[k].stage = call[k].stage /\ call'[k].rec = call[k].rec
                 /\ call'[k].todo = call[k].todo /\ call'[k].time = call[k].time
                 /\ Active(k)' <=> Active(k)
                 /\ Active(k) => call'[k].raced
           /\ call[n] = Idle
<1>1. call'[n] = [c EXCEPT !.raced = (\E k \in Daemons \ {n} : Active(k)) \/ Divided]
  BY DEF Enter
<1>2. /\ call'[n].stage = c.stage /\ call'[n].rec = c.rec /\ call'[n].time = c.time
      /\ call'[n].raced <=> (\E k \in Daemons \ {n} : Active(k)) \/ Divided
  BY <1>1 DEF Calls
<1>3. ASSUME NEW k \in Daemons \ {n}
      PROVE  /\ call'[k].stage = call[k].stage /\ call'[k].rec = call[k].rec
             /\ call'[k].todo = call[k].todo /\ call'[k].time = call[k].time
             /\ Active(k)' <=> Active(k)
             /\ Active(k) => call'[k].raced
  <2>1. CASE Active(k)
    <3>1. call'[k] = [call[k] EXCEPT !.raced = TRUE] BY <2>1 DEF Enter
    <3>2. call[k] \in Calls BY DEF Types
    <3>3. call'[k].raced /\ Idle.raced = FALSE BY <3>1, <3>2 DEF Calls, Idle
    <3> QED BY <2>1, <3>1, <3>2, <3>3 DEF Calls, Active
  <2>2. CASE ~Active(k)
    <3>1. call'[k] = Idle BY <2>2 DEF Enter
    <3> QED BY <2>2, <3>1 DEF Active
  <2> QED BY <2>1, <2>2
<1> QED BY <1>2, <1>3 DEF Active

\* The calls that Refresh and Unregister enter.
LEMMA PutFacts ==
    ASSUME NEW op, NEW r
    PROVE  Put(op, r).stage = "put" /\ Put(op, r).rec = {r} /\ Put(op, r).time = 0
BY DEF Put

LEMMA IdleFacts ==
    /\ Idle.stage = "none" /\ Idle.rec = {} /\ Idle.todo = {}
    /\ \A n \in Daemons : call[n].stage # "none" => Active(n)
BY DEF Idle, Active

LEMMA ReturnFacts ==
    ASSUME Types, NEW n \in Daemons, NEW err, Return(n, err)
    PROVE  call'[n] = Idle /\ \A k \in Daemons \ {n} : call'[k] = call[k]
BY DEF Return, Types

\* A put that the own replica takes.
PutTaken(n, r) ==
    /\ r \in call[n].rec /\ call[n].stage = "put"
    /\ Accept(store[n], r) = {r} /\ store' = [store EXCEPT ![n] = {r}]
    /\ call'[n].stage = "send" /\ call'[n].todo = Replicas \ {n}
    /\ call'[n].rec = call[n].rec /\ call'[n].raced = call[n].raced
    /\ \A k \in Daemons \ {n} : call'[k] = call[k]
    /\ lossy' = (lossy \/ Refused(n, r))
    /\ UNCHANGED <<now, outcome>>

PutRefused(n, r) ==
    /\ r \in call[n].rec /\ call[n].stage = "put"
    /\ Accept(store[n], r) # {r} /\ Return(n, TRUE)
    /\ UNCHANGED <<now, store, lossy>>

LEMMA PutLocalFacts ==
    ASSUME Types, NEW n \in Daemons, PutLocal(n)
    PROVE  \E r \in call[n].rec : PutTaken(n, r) \/ PutRefused(n, r)
<1>1. PICK r \in call[n].rec :
          \/ /\ Accept(store[n], r) = {r}
             /\ store' = [store EXCEPT ![n] = {r}]
             /\ call' = [call EXCEPT ![n].stage = "send", ![n].todo = Replicas \ {n}]
             /\ lossy' = (lossy \/ Refused(n, r))
             /\ UNCHANGED <<outcome, tries>>
          \/ /\ Accept(store[n], r) # {r}
             /\ Return(n, TRUE)
             /\ UNCHANGED <<store, lossy>>
  BY DEF PutLocal
<1>2. call[n].stage = "put" /\ now' = now BY DEF PutLocal
<1>3. ASSUME call' = [call EXCEPT ![n].stage = "send", ![n].todo = Replicas \ {n}]
      PROVE  /\ call'[n].stage = "send" /\ call'[n].todo = Replicas \ {n}
             /\ call'[n].rec = call[n].rec /\ call'[n].raced = call[n].raced
             /\ \A k \in Daemons \ {n} : call'[k] = call[k]
  <2> DEFINE begun == [call EXCEPT ![n].stage = "send"]
  <2>1. call' = [begun EXCEPT ![n].todo = Replicas \ {n}] BY <1>3
  <2>2. /\ DOMAIN begun = Daemons /\ begun[n] = [call[n] EXCEPT !.stage = "send"]
        /\ \A k \in Daemons \ {n} : begun[k] = call[k]
    BY DEF Types
  <2> HIDE DEF begun
  <2>3. /\ call'[n] = [begun[n] EXCEPT !.todo = Replicas \ {n}]
        /\ \A k \in Daemons \ {n} : call'[k] = call[k]
    BY <2>1, <2>2
  <2>4. call[n] \in Calls BY DEF Types
  <2>5. /\ call'[n].stage = "send" /\ call'[n].todo = Replicas \ {n}
        /\ call'[n].rec = call[n].rec /\ call'[n].raced = call[n].raced
    BY <2>2, <2>3, <2>4 DEF Calls
  <2> QED BY <2>3, <2>5
<1> QED BY <1>1, <1>2, <1>3 DEF PutTaken, PutRefused

LEMMA DeliverFacts ==
    ASSUME Types, NEW n \in Daemons, NEW m, call' = [call EXCEPT ![n].todo = @ \ {m}]
    PROVE  /\ call'[n].todo = call[n].todo \ {m} /\ call'[n].stage = call[n].stage
           /\ call'[n].rec = call[n].rec /\ call'[n].raced = call[n].raced
           /\ call'[n].time = call[n].time
           /\ \A k \in Daemons \ {n} : call'[k] = call[k]
<1>1. call[n] \in Calls BY DEF Types
<1>2. /\ call'[n] = [call[n] EXCEPT !.todo = call[n].todo \ {m}]
      /\ \A k \in Daemons \ {n} : call'[k] = call[k]
  BY DEF Types
<1> QED BY <1>1, <1>2 DEF Calls

-----------------------------------------------------------------------------
\* Records are copied from call to replica and from replica to replica, and
\* new ones are signed by the daemon that is in the call.
LEMMA SinglesFrom ==
    ASSUME Types, Singles,
           \A m \in Replicas : \/ store'[m] \subseteq store[m]
                               \/ \E p \in Replicas : \E r \in store[p] : store'[m] = {r}
                               \/ \E k \in Daemons : \E r \in call[k].rec : store'[m] = {r},
           \A n \in Daemons : \/ call'[n].rec \subseteq call[n].rec
                              \/ \E r : call'[n].rec = {r} /\ r.owner = n /\ r.timestamp > 0,
           \A n \in Daemons : call'[n].stage = "get" =>
                 \/ call[n].stage = "get" /\ call'[n].time = call[n].time
                 \/ call'[n].time > 0
    PROVE  Singles'
<1>1. Departed \notin Daemons BY NameAssumptions
<1>2. ASSUME NEW k \in Daemons, NEW r \in call[k].rec
      PROVE  r.owner # Departed /\ r.timestamp # 0
  <2>1. r.owner = k /\ r.timestamp > 0 BY DEF Singles
  <2>2. r.timestamp \in Nat BY DEF Types, Calls, Record
  <2> QED BY <1>1, <2>1, <2>2
<1>3. ASSUME NEW m \in Replicas
      PROVE  /\ \A r, s \in store'[m] : r = s
             /\ \A r \in store'[m] : r.owner = Departed <=> r.timestamp = 0
  BY <1>2 DEF Singles
<1>4. ASSUME NEW n \in Daemons
      PROVE  /\ \A r, s \in call'[n].rec : r = s
             /\ \A r \in call'[n].rec : r.owner = n /\ r.timestamp > 0
             /\ call'[n].stage = "get" => call'[n].time > 0
  BY DEF Singles
<1> QED BY <1>3, <1>4 DEF Singles

LEMMA SinglesInit == Init => Singles
<1> SUFFICES ASSUME Init PROVE Singles OBVIOUS
<1>1. \A r \in InitialRecords : r.owner = Departed /\ r.timestamp = 0 BY NameAssumptions
<1>2. \A n \in Daemons : call[n].rec = {} /\ call[n].stage = "none"
  BY IdleFacts DEF Init
<1>3. \A m \in Replicas : store[m] = {} \/ \E r \in InitialRecords : store[m] = {r} BY DEF Init
<1> QED BY <1>1, <1>2, <1>3 DEF Singles

\* Time starts at 1, so what a daemon signs has a timestamp.
LEMMA ClockPositive ==
    ASSUME Types, NEW n \in Daemons
    PROVE  Clock(n) \in Nat /\ Clock(n) > 0
<1>1. n \in Replicas \cup Clients BY NameAssumptions
<1> QED BY <1>1, ClockType DEF Types

LEMMA SinglesStep ==
    ASSUME Types, Ages, Singles, [Next]_vars
    PROVE  Singles'
<1>1. ASSUME store' = store, NEW n \in Daemons,
             \A k \in Daemons \ {n} : /\ call'[k].rec = call[k].rec /\ call'[k].stage = call[k].stage
                                      /\ call'[k].time = call[k].time,
             \/ call'[n].rec \subseteq call[n].rec
             \/ \E r : call'[n].rec = {r} /\ r.owner = n /\ r.timestamp > 0,
             call'[n].stage = "get" => call'[n].time > 0
      PROVE  Singles'
  <2>1. \A m \in Replicas : store'[m] \subseteq store[m] BY <1>1
  <2>2. ASSUME NEW k \in Daemons
        PROVE  /\ \/ call'[k].rec \subseteq call[k].rec
                  \/ \E r : call'[k].rec = {r} /\ r.owner = k /\ r.timestamp > 0
               /\ call'[k].stage = "get" =>
                     \/ call[k].stage = "get" /\ call'[k].time = call[k].time
                     \/ call'[k].time > 0
    BY <1>1
  <2> QED BY <2>1, <2>2, SinglesFrom
<1>2. ASSUME UNCHANGED <<store, call>> PROVE Singles' BY <1>2 DEF Singles
<1>3. ASSUME NEW n \in Daemons, RegisterBegin(n) PROVE Singles'
  <2> DEFINE c == [Idle EXCEPT !.op = "Register", !.stage = "get", !.time = Clock(n)]
  <2>1. c \in Calls /\ c.time = Clock(n) /\ c.rec = {}
    BY ClockPositive DEF Idle, Calls
  <2>2. ~Active(n) /\ Enter(n, c) /\ store' = store BY <1>3 DEF RegisterBegin
  <2> HIDE DEF c
  <2>3. call'[n].rec = {} /\ call'[n].time = Clock(n) BY <2>1, <2>2, EnterFacts
  <2>4. \A k \in Daemons \ {n} : /\ call'[k].rec = call[k].rec /\ call'[k].stage = call[k].stage
                                 /\ call'[k].time = call[k].time
    BY <2>1, <2>2, EnterFacts
  <2> QED BY <1>1, <2>2, <2>3, <2>4, ClockPositive
<1>4. ASSUME NEW n \in Daemons, NEW S \in SUBSET Replicas, RegisterGet(n, S) PROVE Singles'
  <2> DEFINE r == [owner |-> n, addrs |-> TRUE, ttl |-> TTLOf[n], timestamp |-> call[n].time]
             c == [Put("Register", r) EXCEPT !.raced = call[n].raced \/ Divided]
  <2>1. /\ call[n].stage = "get" /\ store' = store
        /\ call' = [call EXCEPT ![n] = c] \/ call' = [call EXCEPT ![n] = Idle]
    BY <1>4 DEF RegisterGet
  <2>2. c.rec = {r} /\ c.stage = "put" /\ r.owner = n /\ r.timestamp = call[n].time BY DEF Put
  <2>3. call[n].time > 0 BY <2>1 DEF Singles
  <2> HIDE DEF r, c
  <2>4. \A k \in Daemons \ {n} : call'[k] = call[k] BY <2>1 DEF Types
  <2>5. call'[n] = c \/ call'[n] = Idle BY <2>1 DEF Types
  <2>6. CASE call'[n] = c
    <3>1. call'[n].rec = {r} /\ r.owner = n /\ r.timestamp > 0 /\ call'[n].stage # "get"
      BY <2>2, <2>3, <2>6
    <3> QED BY <1>1, <2>1, <2>4, <3>1
  <2>7. CASE call'[n] = Idle
    <3>1. call'[n].rec = {} /\ call'[n].stage # "get" BY <2>7, IdleFacts
    <3> QED BY <1>1, <2>1, <2>4, <3>1
  <2> QED BY <2>5, <2>6, <2>7
<1>5. ASSUME NEW n \in Daemons, NEW op \in {"Register", "Refresh", "Unregister"}, NEW r \in Record,
             r.owner = n, r.timestamp = Clock(n), ~Active(n), Enter(n, Put(op, r)), store' = store
      PROVE  Singles'
  <2> DEFINE c == Put(op, r)
  <2>1. c \in Calls BY PutIsCall
  <2>2. c.rec = {r} /\ c.stage = "put" BY PutFacts
  <2>3. Enter(n, c) BY <1>5
  <2> HIDE DEF c
  <2>4. call'[n].rec = {r} /\ call'[n].stage = "put" BY <1>5, <2>1, <2>2, <2>3, EnterFacts
  <2>5. \A k \in Daemons \ {n} : /\ call'[k].rec = call[k].rec /\ call'[k].stage = call[k].stage
                                 /\ call'[k].time = call[k].time
    BY <1>5, <2>1, <2>3, EnterFacts
  <2>6. r.timestamp > 0 BY <1>5, ClockPositive
  <2> QED BY <1>1, <1>5, <2>4, <2>5, <2>6
<1>6. ASSUME NEW n \in Daemons, NEW S \in SUBSET Replicas, Refresh(n, S) PROVE Singles'
  <2>1. PICK found \in GetValue(S) : \E r \in found : r.owner = n /\ Enter(n, Put("Refresh", Renewed(n, r)))
    BY <1>6 DEF Refresh
  <2>2. PICK r \in found : r.owner = n /\ Enter(n, Put("Refresh", Renewed(n, r))) BY <2>1
  <2>3. r \in Record BY GetValueRecords
  <2>4. /\ Renewed(n, r) \in Record /\ Renewed(n, r).owner = n /\ Renewed(n, r).timestamp = Clock(n)
    BY <2>2, <2>3, ClockPositive, NameAssumptions DEF Renewed, Record
  <2> QED BY <1>5, <1>6, <2>2, <2>4 DEF Refresh
<1>7. ASSUME NEW n \in Daemons, NEW S \in SUBSET Replicas, Unregister(n, S) PROVE Singles'
  <2> DEFINE r == [owner |-> n, addrs |-> FALSE, ttl |-> 0, timestamp |-> Clock(n)]
  <2>1. r \in Record /\ r.owner = n /\ r.timestamp = Clock(n) BY ClockPositive DEF Record
  <2>2. ~Active(n) /\ Enter(n, Put("Unregister", r)) /\ store' = store BY <1>7 DEF Unregister
  <2> HIDE DEF r
  <2> QED BY <1>5, <2>1, <2>2
<1>8. ASSUME NEW n \in Daemons, NEW err, Return(n, err), store' = store PROVE Singles'
  <2>1. call'[n].rec = {} /\ call'[n].stage = "none" /\ \A k \in Daemons \ {n} : call'[k] = call[k]
    BY <1>8, ReturnFacts, IdleFacts
  <2> QED BY <1>1, <1>8, <2>1
<1>9. ASSUME NEW n \in Daemons, PutLocal(n) PROVE Singles'
  <2>1. PICK r \in call[n].rec : PutTaken(n, r) \/ PutRefused(n, r) BY <1>9, PutLocalFacts
  <2>2. CASE PutRefused(n, r) BY <1>8, <2>2 DEF PutRefused
  <2>3. CASE PutTaken(n, r)
    <3>1. \A m \in Replicas : store'[m] = store[m] \/ store'[m] = {r} BY <2>3 DEF PutTaken, Types
    <3>2. \A k \in Daemons : call'[k].rec = call[k].rec /\ (call'[k] = call[k] \/ call'[k].stage = "send")
      BY <2>3 DEF PutTaken
    <3>3. \A k \in Daemons : call'[k].stage = "get" => call[k].stage = "get" /\ call'[k].time = call[k].time
      BY <3>2
    <3> QED BY <2>1, <3>1, <3>2, <3>3, SinglesFrom
  <2> QED BY <2>1, <2>2, <2>3
<1>10. ASSUME NEW n \in Daemons, NEW m, call' = [call EXCEPT ![n].todo = @ \ {m}],
              \A p \in Replicas : \/ store'[p] \subseteq store[p]
                                  \/ \E r \in call[n].rec : store'[p] = {r}
       PROVE  Singles'
  <2>1. \A k \in Daemons : /\ call'[k].rec = call[k].rec /\ call'[k].stage = call[k].stage
                           /\ call'[k].time = call[k].time
    BY <1>10, DeliverFacts
  <2> QED BY <1>10, <2>1, SinglesFrom
<1>11. ASSUME NEW n \in Daemons, NEW m \in Replicas, Deliver(n, m) PROVE Singles'
  <2>1. PICK r \in call[n].rec : store' = [store EXCEPT ![m] = Accept(@, r)] BY <1>11 DEF Deliver
  <2>2. r \in Record /\ store[m] \in SUBSET Record BY DEF Types, Calls
  <2>3. Accept(store[m], r) = {r} \/ Accept(store[m], r) = store[m] BY <2>2, AcceptIs
  <2>4. \A p \in Replicas : store'[p] = store[p] \/ store'[p] = {r} BY <2>1, <2>3 DEF Types
  <2> QED BY <1>10, <1>11, <2>1, <2>4 DEF Deliver
<1>12. ASSUME NEW n \in Daemons, NEW m \in Replicas, LoseDelivery(n, m) PROVE Singles'
  BY <1>10, <1>12 DEF LoseDelivery
<1>13. ASSUME NEW p \in Replicas, NEW m \in Replicas, Correct(p, m) PROVE Singles'
  <2>1. PICK r \in store[p] : store' = [store EXCEPT ![m] = Accept(@, r)] BY <1>13 DEF Correct
  <2>2. r \in Record /\ store[m] \in SUBSET Record BY DEF Types
  <2>3. Accept(store[m], r) = {r} \/ Accept(store[m], r) = store[m] BY <2>2, AcceptIs
  <2>4. \A q \in Replicas : store'[q] = store[q] \/ store'[q] = {r} BY <2>1, <2>3 DEF Types
  <2>5. call' = call BY <1>13 DEF Correct
  <2> QED BY <2>1, <2>4, <2>5, SinglesFrom
<1>14. ASSUME NEW m \in Replicas, Restart(m) PROVE Singles'
  <2>1. \A q \in Replicas : store'[q] \subseteq store[q] BY <1>14 DEF Restart, Types
  <2>2. \A n \in Daemons : call'[n] = call[n] \/ call'[n] = Idle BY <1>14 DEF Restart
  <2>3. \A n \in Daemons : /\ call'[n].rec \subseteq call[n].rec
                           /\ call'[n].stage = "get" => call[n].stage = "get" /\ call'[n].time = call[n].time
    BY <2>2, IdleFacts
  <2> QED BY <2>1, <2>3, SinglesFrom
<1>15. ASSUME NEW n \in Daemons, PutFails(n) \/ PutReturns(n) PROVE Singles'
  BY <1>8, <1>15 DEF PutFails, PutReturns
<1>16. ASSUME NEW c \in Clients, NEW took \in 0..MaxLookup, Resolve(c, took) PROVE Singles'
  BY <1>2, <1>16 DEF Resolve
<1>17. CASE Tick \/ UNCHANGED vars BY <1>2, <1>17 DEF Tick, vars
<1> QED
  BY <1>3, <1>4, <1>6, <1>7, <1>9, <1>11, <1>12, <1>13, <1>14, <1>15, <1>16, <1>17 DEF Next

\* How Register, Refresh and Unregister begin.
LEMMA CallBegins ==
    ASSUME Types, NEW n \in Daemons,
           RegisterBegin(n) \/ \E S \in SUBSET Replicas : Refresh(n, S) \/ Unregister(n, S)
    PROVE  /\ \E c \in Calls : c.stage \in {"get", "put"} /\ Enter(n, c)
           /\ ~Active(n) /\ (lossy => lossy') /\ UNCHANGED <<now, store, outcome>>
<1>1. CASE RegisterBegin(n)
  <2> DEFINE c == [Idle EXCEPT !.op = "Register", !.stage = "get", !.time = Clock(n)]
  <2>1. c \in Calls /\ c.stage = "get" BY ClockPositive DEF Idle, Calls
  <2> QED BY <1>1, <2>1 DEF RegisterBegin
<1>2. ASSUME NEW S \in SUBSET Replicas, Refresh(n, S) PROVE \E c \in Calls : c.stage = "put" /\ Enter(n, c)
  <2>1. PICK found \in GetValue(S) : \E r \in found : r.owner = n /\ Enter(n, Put("Refresh", Renewed(n, r)))
    BY <1>2 DEF Refresh
  <2>2. PICK r \in found : r.owner = n /\ Enter(n, Put("Refresh", Renewed(n, r))) BY <2>1
  <2>3. r \in Record BY GetValueRecords
  <2>4. Renewed(n, r) \in Record BY <2>3, ClockPositive, NameAssumptions DEF Renewed, Record
  <2> QED BY <2>2, <2>4, PutIsCall, PutFacts
<1>3. ASSUME NEW S \in SUBSET Replicas, Unregister(n, S)
      PROVE  \E c \in Calls : c.stage = "put" /\ Enter(n, c)
  <2> DEFINE r == [owner |-> n, addrs |-> FALSE, ttl |-> 0, timestamp |-> Clock(n)]
  <2>1. r \in Record BY ClockPositive DEF Record
  <2>2. Enter(n, Put("Unregister", r)) BY <1>3 DEF Unregister
  <2> HIDE DEF r
  <2> QED BY <2>1, <2>2, PutIsCall, PutFacts
<1>4. ASSUME NEW S \in SUBSET Replicas, Refresh(n, S) \/ Unregister(n, S)
      PROVE  ~Active(n) /\ (lossy => lossy') /\ UNCHANGED <<now, store, outcome>>
  BY <1>4 DEF Refresh, Unregister, Heard
<1> QED BY <1>1, <1>2, <1>3, <1>4

\* How Register goes on when GetValue has answered.
LEMMA GetAnswered ==
    ASSUME Types, NEW n \in Daemons, NEW S \in SUBSET Replicas, RegisterGet(n, S)
    PROVE  /\ call[n].stage = "get" /\ UNCHANGED <<now, store>> /\ Heard(S)
           /\ \A k \in Daemons \ {n} : call'[k] = call[k]
           /\ \E found \in GetValue(S) :
                 \/ /\ TakenBy(n, found) = {} /\ outcome' = outcome
                    /\ call'[n].stage = "put"
                    /\ call'[n].raced <=> call[n].raced \/ Divided
                 \/ \E o \in TakenBy(n, found) :
                       call'[n] = Idle /\ outcome' = [outcome EXCEPT ![n] = o]
<1> DEFINE r == [owner |-> n, addrs |-> TRUE, ttl |-> TTLOf[n], timestamp |-> call[n].time]
           c == [Put("Register", r) EXCEPT !.raced = call[n].raced \/ Divided]
<1>1. /\ call[n].stage = "get" /\ UNCHANGED <<now, store>> /\ Heard(S)
      /\ \E found \in GetValue(S) :
            \/ TakenBy(n, found) = {} /\ call' = [call EXCEPT ![n] = c] /\ outcome' = outcome
            \/ \E o \in TakenBy(n, found) :
                  outcome' = [outcome EXCEPT ![n] = o] /\ call' = [call EXCEPT ![n] = Idle]
  BY DEF RegisterGet
<1>2. c.stage = "put" /\ (c.raced <=> call[n].raced \/ Divided) BY DEF Put
<1> HIDE DEF r, c
<1>3. \A d : call' = [call EXCEPT ![n] = d] =>
                call'[n] = d /\ \A k \in Daemons \ {n} : call'[k] = call[k]
  BY DEF Types
<1>4. \A k \in Daemons \ {n} : call'[k] = call[k] BY <1>1, <1>3
<1> QED BY <1>1, <1>2, <1>3, <1>4

-----------------------------------------------------------------------------
\* Steps that store nothing and end no put before it is through.
LEMMA SpreadQuiet ==
    ASSUME Types, Spread, store' = store, lossy => lossy',
           \A k \in Daemons :
              \/ /\ call'[k].stage = "send" <=> call[k].stage = "send"
                 /\ call[k].stage = "send" => call'[k].rec = call[k].rec /\ call'[k].todo = call[k].todo
              \/ call[k].stage = "send" /\ call[k].todo = {} /\ call'[k].stage # "send"
    PROVE  Spread'
<1> SUFFICES ASSUME ~lossy' PROVE Reached' /\ Lag' /\ Behind' BY DEF Spread
<1>1. Reached /\ Lag /\ Behind BY DEF Spread
<1>2. \A k \in Daemons : \A s : Sends(k, s)' => Sends(k, s) /\ call'[k].todo = call[k].todo
  BY DEF Sends
<1>3. \A k \in Daemons : \A s : Sends(k, s) => Sends(k, s)' \/ call[k].todo = {}
  BY DEF Sends
<1>4. \A s : Stored(s)' <=> Stored(s) BY DEF Stored
<1>5. Reached' BY <1>1 DEF Reached
<1>6. Lag'
  <2> SUFFICES ASSUME NEW s \in Record, NEW m \in Replicas, NEW x \in store'[m],
                      (Stored(s) \/ \E k \in Daemons : Sends(k, s))', x.timestamp < s.timestamp
               PROVE  \E k \in Daemons : Sends(k, s)' /\ m \in call'[k].todo
    BY DEF Lag
  <2>1. Stored(s) \/ \E k \in Daemons : Sends(k, s) BY <1>2, <1>4
  <2>2. PICK k \in Daemons : Sends(k, s) /\ m \in call[k].todo BY <1>1, <2>1 DEF Lag
  <2>3. Sends(k, s)' BY <1>3, <2>2
  <2> QED BY <1>2, <2>2, <2>3
<1>7. Behind'
  <2> SUFFICES ASSUME NEW s \in Record, NEW r \in Record, NEW m \in Replicas, NEW n \in Daemons,
                      store'[m] = {}, Sends(n, r)', Stored(s)', r.timestamp < s.timestamp
               PROVE  \E k \in Daemons : Sends(k, s)'
    BY DEF Behind
  <2>1. PICK k \in Daemons : Sends(k, s) BY <1>1, <1>2, <1>4 DEF Behind
  <2>2. call[k].todo # {} BY <1>1, <2>1 DEF Reached, Sends
  <2> QED BY <1>3, <2>1, <2>2
<1> QED BY <1>5, <1>6, <1>7

\* A put begins where the own replica takes the record and is not behind a
\* finished one.
LEMMA SpreadPut ==
    ASSUME Types, Singles, Spread, NEW n \in Daemons, NEW r, PutTaken(n, r)
    PROVE  Spread'
<1> SUFFICES ASSUME ~lossy' PROVE Reached' /\ Lag' /\ Behind' BY DEF Spread
<1>1. ~lossy /\ ~Refused(n, r) BY DEF PutTaken
<1>2. Reached /\ Lag /\ Behind BY <1>1 DEF Spread
<1>3. /\ r \in call[n].rec /\ call[n].rec = {r} /\ call[n].stage = "put"
      /\ r \in Record /\ n \in Replicas /\ store[n] \in SUBSET Record
  BY NameAssumptions DEF PutTaken, Singles, Types, Calls
<1>4. /\ store'[n] = {r} /\ \A m \in Replicas \ {n} : store'[m] = store[m]
  BY <1>3 DEF PutTaken, Types
<1>5. /\ Sends(n, r)' /\ \A m \in Replicas \ {n} : m \in call'[n].todo
      /\ \A s : ~Sends(n, s)
      /\ \A s : Sends(n, s)' => s = r
      /\ \A k \in Daemons \ {n} : \A s : /\ Sends(k, s)' <=> Sends(k, s)
                                         /\ call'[k].todo = call[k].todo
  BY <1>3 DEF PutTaken, Sends
<1>6. \A x \in store[n] : x.timestamp <= r.timestamp
  BY <1>3, AcceptIs DEF PutTaken
<1>7. \A s : Stored(s)' => s = r \/ Stored(s) BY <1>4 DEF Stored
<1>8. \A s \in Record : s.timestamp \in Nat BY DEF Record
<1>9. Reached'
  <2>1. ASSUME NEW k \in Daemons, NEW m \in Replicas, call'[k].stage = "send", m \notin call'[k].todo
        PROVE  store'[m] # {}
    <3>1. CASE m = n BY <1>4, <3>1
    <3>2. CASE m # n
      <4>1. k # n BY <1>5, <2>1, <3>2
      <4>2. call'[k] = call[k] BY <4>1 DEF PutTaken
      <4> QED BY <1>2, <1>4, <2>1, <3>2, <4>2 DEF Reached
    <3> QED BY <3>1, <3>2
  <2> QED BY <2>1 DEF Reached
<1>10. ASSUME NEW s \in Record, Stored(s), r.timestamp < s.timestamp
       PROVE  \E k \in Daemons : Sends(k, s) /\ n \in call[k].todo
  <2>1. s.timestamp > r.timestamp BY <1>3, <1>8, <1>10
  <2>2. PICK k \in Daemons : call[k].stage = "send" /\ call[k].rec = {s} /\ n \in call[k].todo
    BY <1>1, <1>10, <2>1 DEF Refused, Stored
  <2> QED BY <2>2 DEF Sends
<1>11. Lag'
  <2> SUFFICES ASSUME NEW s \in Record, NEW m \in Replicas, NEW x \in store'[m],
                      (Stored(s) \/ \E k \in Daemons : Sends(k, s))', x.timestamp < s.timestamp
               PROVE  \E k \in Daemons : Sends(k, s)' /\ m \in call'[k].todo
    BY DEF Lag
  <2>1. CASE s = r
    <3>1. m # n
      <4>1. m = n => x = r BY <1>4
      <4> QED BY <1>3, <1>8, <2>1, <4>1
    <3> QED BY <1>5, <2>1, <3>1
  <2>2. CASE s # r
    <3>1. Stored(s) \/ \E k \in Daemons : Sends(k, s) BY <1>5, <1>7, <2>2
    <3>2. \E k \in Daemons : Sends(k, s) /\ m \in call[k].todo
      <4>1. CASE m # n
        <5>1. x \in store[m] BY <1>4, <4>1
        <5> QED BY <1>2, <3>1, <5>1 DEF Lag
      <4>2. CASE m = n
        <5>1. x = r BY <1>4, <4>2
        <5>2. CASE Stored(s) BY <1>10, <4>2, <5>1, <5>2
        <5>3. CASE store[n] # {} /\ \E k \in Daemons : Sends(k, s)
          <6>1. PICK y \in store[n] : TRUE BY <5>3
          <6>2. y.timestamp < s.timestamp BY <1>3, <1>6, <1>8, <5>1, <6>1
          <6> QED BY <1>2, <1>3, <4>2, <5>3, <6>1, <6>2 DEF Lag
        <5>4. CASE store[n] = {} /\ \E k \in Daemons : Sends(k, s)
          BY <1>2, <1>3, <4>2, <5>4 DEF Reached, Sends
        <5> QED BY <3>1, <5>2, <5>3, <5>4
      <4> QED BY <4>1, <4>2
    <3> QED BY <1>5, <3>2
  <2> QED BY <2>1, <2>2
<1>12. Behind'
  <2> SUFFICES ASSUME NEW s \in Record, NEW q \in Record, NEW m \in Replicas, NEW k \in Daemons,
                      store'[m] = {}, Sends(k, q)', Stored(s)', q.timestamp < s.timestamp
               PROVE  \E l \in Daemons : Sends(l, s)'
    BY DEF Behind
  <2>1. CASE s = r BY <1>5, <2>1
  <2>2. CASE s # r
    <3>1. Stored(s) /\ m # n /\ store[m] = {} BY <1>4, <1>7, <2>2
    <3>2. CASE k = n
      <4>1. q = r BY <1>5, <3>2
      <4> QED BY <1>5, <1>10, <3>1, <4>1
    <3>3. CASE k # n
      <4>1. Sends(k, q) BY <1>5, <3>3
      <4>2. \E l \in Daemons : Sends(l, s) BY <1>2, <3>1, <4>1 DEF Behind
      <4> QED BY <1>5, <4>2
    <3> QED BY <3>2, <3>3
  <2> QED BY <2>1, <2>2
<1> QED BY <1>9, <1>11, <1>12

\* A record that arrives puts a replica where the senders expect it.
LEMMA SpreadDeliver ==
    ASSUME Types, Singles, Spread, NEW n \in Daemons, NEW p \in Replicas, Deliver(n, p)
    PROVE  Spread'
<1> SUFFICES ASSUME ~lossy' PROVE Reached' /\ Lag' /\ Behind' BY DEF Spread
<1>1. ~lossy BY DEF Deliver
<1>2. Reached /\ Lag /\ Behind BY <1>1 DEF Spread
<1>3. PICK r \in call[n].rec : store' = [store EXCEPT ![p] = Accept(@, r)] BY DEF Deliver
<1>4. /\ call[n].rec = {r} /\ call[n].stage = "send" /\ p \in call[n].todo
      /\ r \in Record /\ store[p] \in SUBSET Record
      /\ call' = [call EXCEPT ![n].todo = @ \ {p}]
  BY DEF Deliver, Singles, Types, Calls
<1>5. /\ store'[p] = Accept(store[p], r) /\ \A m \in Replicas \ {p} : store'[m] = store[m]
  BY <1>3 DEF Types
<1>6. /\ \A k \in Daemons : \A s : Sends(k, s)' <=> Sends(k, s)
      /\ \A k \in Daemons : call'[k].stage = call[k].stage
      /\ \A k \in Daemons \ {n} : call'[k].todo = call[k].todo
      /\ call'[n].todo = call[n].todo \ {p}
  BY <1>4, DeliverFacts DEF Sends
<1>7. Sends(n, r) /\ \A s : Sends(n, s) => s = r BY <1>4 DEF Sends
<1>8. \A s : Stored(s)' => s = r \/ Stored(s)
  BY <1>4, <1>5, AcceptIs DEF Stored
<1>9. \A s \in Record : s.timestamp \in Nat BY DEF Record
<1>10. /\ store'[p] # {} /\ \A x \in store'[p] : x.timestamp >= r.timestamp
       /\ \A x \in store'[p], y \in store[p] : x.timestamp >= y.timestamp
       /\ store[p] = {} => store'[p] = {r}
  <2>1. CASE Accept(store[p], r) = {r} /\ \A x \in store[p] : x.timestamp <= r.timestamp
    BY <1>4, <1>5, <1>9, <2>1
  <2>2. CASE Accept(store[p], r) = store[p] /\ \E x \in store[p] : x.timestamp > r.timestamp
    BY <1>4, <1>5, <1>9, <2>2 DEF Singles
  <2> QED BY <1>4, <2>1, <2>2, AcceptIs
<1>11. Reached'
  <2>1. ASSUME NEW k \in Daemons, NEW m \in Replicas, call'[k].stage = "send", m \notin call'[k].todo
        PROVE  store'[m] # {}
    <3>1. CASE m = p BY <1>10, <3>1
    <3>2. CASE m # p
      <4>1. call[k].stage = "send" /\ m \notin call[k].todo BY <1>6, <2>1, <3>2
      <4> QED BY <1>2, <1>5, <3>2, <4>1 DEF Reached
    <3> QED BY <3>1, <3>2
  <2> QED BY <2>1 DEF Reached
<1>12. Lag'
  <2> SUFFICES ASSUME NEW s \in Record, NEW m \in Replicas, NEW x \in store'[m],
                      (Stored(s) \/ \E k \in Daemons : Sends(k, s))', x.timestamp < s.timestamp
               PROVE  \E k \in Daemons : Sends(k, s)' /\ m \in call'[k].todo
    BY DEF Lag
  <2>1. Stored(s) \/ \E k \in Daemons : Sends(k, s) BY <1>6, <1>7, <1>8
  <2>2. CASE m # p
    <3>1. x \in store[m] BY <1>5, <2>2
    <3>2. PICK k \in Daemons : Sends(k, s) /\ m \in call[k].todo BY <1>2, <2>1, <3>1 DEF Lag
    <3> QED BY <1>6, <2>2, <3>2
  <2>3. CASE m = p
    <3>1. x \in Record
      BY <1>4, <1>5, <2>3, AcceptIs
    <3>2. x.timestamp >= r.timestamp BY <1>10, <2>3
    <3>3. s # r BY <1>4, <1>9, <3>1, <3>2
    <3>4. \E k \in Daemons : Sends(k, s) /\ p \in call[k].todo
      <4>1. CASE store[p] # {}
        <5>1. PICK y \in store[p] : TRUE BY <4>1
        <5>2. y \in Record BY <1>4, <5>1
        <5>3. x.timestamp >= y.timestamp BY <1>10, <2>3
        <5>4. y.timestamp < s.timestamp BY <1>9, <3>1, <5>2, <5>3
        <5> QED BY <1>2, <2>1, <5>1, <5>4 DEF Lag
      <4>2. CASE store[p] = {}
        <5>1. x = r BY <1>10, <2>3, <4>2
        <5>2. \E k \in Daemons : Sends(k, s) BY <1>2, <1>4, <1>7, <2>1, <4>2, <5>1 DEF Behind
        <5> QED BY <1>2, <4>2, <5>2 DEF Reached, Sends
      <4> QED BY <4>1, <4>2
    <3>5. PICK k \in Daemons : Sends(k, s) /\ p \in call[k].todo BY <3>4
    <3>6. k # n BY <1>7, <3>3, <3>5
    <3> QED BY <1>6, <2>3, <3>5, <3>6
  <2> QED BY <2>2, <2>3
<1>13. Behind'
  <2> SUFFICES ASSUME NEW s \in Record, NEW q \in Record, NEW m \in Replicas, NEW k \in Daemons,
                      store'[m] = {}, Sends(k, q)', Stored(s)', q.timestamp < s.timestamp
               PROVE  \E l \in Daemons : Sends(l, s)'
    BY DEF Behind
  <2>1. CASE s = r BY <1>6, <1>7, <2>1
  <2>2. CASE s # r
    <3>1. Stored(s) /\ m # p /\ store[m] = {} BY <1>5, <1>8, <1>10, <2>2
    <3>2. \E l \in Daemons : Sends(l, s) BY <1>2, <1>6, <3>1 DEF Behind
    <3> QED BY <1>6, <3>2
  <2> QED BY <2>1, <2>2
<1> QED BY <1>11, <1>12, <1>13

\* A lookup copies what another replica holds.
LEMMA SpreadCorrect ==
    ASSUME Types, Singles, Spread, NEW q \in Replicas, NEW p \in Replicas, Correct(q, p)
    PROVE  Spread'
<1> SUFFICES ASSUME ~lossy' PROVE Reached' /\ Lag' /\ Behind' BY DEF Spread
<1>1. ~lossy /\ call' = call BY DEF Correct
<1>2. Reached /\ Lag /\ Behind BY <1>1 DEF Spread
<1>3. PICK r \in store[q] : store' = [store EXCEPT ![p] = Accept(@, r)] BY DEF Correct
<1>4. r \in Record /\ store[p] \in SUBSET Record BY DEF Types
<1>5. /\ store'[p] = Accept(store[p], r) /\ \A m \in Replicas \ {p} : store'[m] = store[m]
  BY <1>3 DEF Types
<1>6. \A k \in Daemons : \A s : Sends(k, s)' <=> Sends(k, s) BY <1>1 DEF Sends
<1>7. \A s : Stored(s)' => Stored(s)
  <2>1. Stored(r) BY DEF Stored
  <2>2. \A s \in store'[p] : s = r \/ s \in store[p] BY <1>4, <1>5, AcceptIs
  <2> QED BY <1>5, <2>1, <2>2 DEF Stored
<1>8. \A s \in Record : s.timestamp \in Nat BY DEF Record
<1>9. /\ store'[p] # {}
      /\ \A x \in store'[p], y \in store[p] : x.timestamp >= y.timestamp
      /\ store[p] = {} => store'[p] = {r}
  <2>1. CASE Accept(store[p], r) = {r} /\ \A x \in store[p] : x.timestamp <= r.timestamp
    BY <1>4, <1>5, <1>8, <2>1
  <2>2. CASE Accept(store[p], r) = store[p] /\ \E x \in store[p] : x.timestamp > r.timestamp
    BY <1>4, <1>5, <1>8, <2>2 DEF Singles
  <2> QED BY <1>4, <2>1, <2>2, AcceptIs
<1>10. Reached' BY <1>1, <1>2, <1>5, <1>9 DEF Reached
<1>11. Lag'
  <2> SUFFICES ASSUME NEW s \in Record, NEW m \in Replicas, NEW x \in store'[m],
                      (Stored(s) \/ \E k \in Daemons : Sends(k, s))', x.timestamp < s.timestamp
               PROVE  \E k \in Daemons : Sends(k, s)' /\ m \in call'[k].todo
    BY DEF Lag
  <2>1. Stored(s) \/ \E k \in Daemons : Sends(k, s) BY <1>6, <1>7
  <2>2. \E k \in Daemons : Sends(k, s) /\ m \in call[k].todo
    <3>1. CASE m # p
      <4>1. x \in store[m] BY <1>5, <3>1
      <4> QED BY <1>2, <2>1, <4>1 DEF Lag
    <3>2. CASE m = p /\ store[p] # {}
      <4>1. PICK y \in store[p] : TRUE BY <3>2
      <4>2. y \in Record /\ x \in Record BY <1>4, <1>5, <3>2, <4>1, AcceptIs
      <4>3. x.timestamp >= y.timestamp BY <1>9, <3>2
      <4>4. y.timestamp < s.timestamp BY <1>8, <4>2, <4>3
      <4> QED BY <1>2, <2>1, <3>2, <4>1, <4>4 DEF Lag
    <3>3. CASE m = p /\ store[p] = {}
      <4>1. x = r BY <1>9, <3>3
      <4>2. PICK k \in Daemons : Sends(k, s) /\ q \in call[k].todo
        BY <1>2, <1>3, <2>1, <4>1 DEF Lag
      <4>3. p \in call[k].todo BY <1>2, <3>3, <4>2 DEF Reached, Sends
      <4> QED BY <3>3, <4>2, <4>3
    <3> QED BY <3>1, <3>2, <3>3
  <2> QED BY <1>1, <1>6, <2>2
<1>12. Behind'
  <2> SUFFICES ASSUME NEW s \in Record, NEW u \in Record, NEW m \in Replicas, NEW k \in Daemons,
                      store'[m] = {}, Sends(k, u)', Stored(s)', u.timestamp < s.timestamp
               PROVE  \E l \in Daemons : Sends(l, s)'
    BY DEF Behind
  <2>1. Stored(s) /\ store[m] = {} /\ Sends(k, u) BY <1>5, <1>6, <1>7, <1>9
  <2> QED BY <1>2, <1>6, <2>1 DEF Behind
<1> QED BY <1>10, <1>11, <1>12

LEMMA SpreadStep ==
    ASSUME Types, Ages, Singles, Spread, [Next]_vars
    PROVE  Spread'
<1>1. ASSUME lossy' PROVE Spread' BY <1>1 DEF Spread
<1>2. ASSUME UNCHANGED <<store, call, lossy>> PROVE Spread' BY <1>2, SpreadQuiet
<1>3. ASSUME NEW n \in Daemons,
             RegisterBegin(n) \/ \E S \in SUBSET Replicas : Refresh(n, S) \/ Unregister(n, S)
      PROVE  Spread'
  <2>1. PICK c \in Calls : c.stage \in {"get", "put"} /\ Enter(n, c) BY <1>3, CallBegins
  <2>2. ~Active(n) /\ (lossy => lossy') /\ store' = store BY <1>3, CallBegins
  <2>3. /\ call'[n].stage = c.stage /\ call[n].stage = "none"
        /\ \A k \in Daemons \ {n} : /\ call'[k].stage = call[k].stage /\ call'[k].rec = call[k].rec
                                    /\ call'[k].todo = call[k].todo
    BY <2>1, <2>2, EnterFacts, IdleFacts
  <2>4. ASSUME NEW k \in Daemons
        PROVE  /\ call'[k].stage = "send" <=> call[k].stage = "send"
               /\ call[k].stage = "send" => call'[k].rec = call[k].rec /\ call'[k].todo = call[k].todo
    BY <2>1, <2>3
  <2> QED BY <2>2, <2>4, SpreadQuiet
<1>4. ASSUME NEW n \in Daemons, store' = store, lossy => lossy', call'[n].stage # "send",
             call[n].stage # "send" \/ call[n].todo = {},
             \A k \in Daemons \ {n} : call'[k] = call[k]
      PROVE  Spread'
  <2>1. ASSUME NEW k \in Daemons
        PROVE  \/ /\ call'[k].stage = "send" <=> call[k].stage = "send"
                  /\ call[k].stage = "send" => call'[k].rec = call[k].rec /\ call'[k].todo = call[k].todo
               \/ call[k].stage = "send" /\ call[k].todo = {} /\ call'[k].stage # "send"
    BY <1>4
  <2> QED BY <1>4, <2>1, SpreadQuiet
<1>5. ASSUME NEW n \in Daemons, NEW S \in SUBSET Replicas, RegisterGet(n, S) PROVE Spread'
  <2>1. /\ call[n].stage = "get" /\ store' = store /\ (lossy => lossy')
        /\ \A k \in Daemons \ {n} : call'[k] = call[k]
        /\ call'[n].stage # "send"
    BY <1>5, GetAnswered, IdleFacts DEF Heard
  <2> QED BY <1>4, <2>1
<1>6. ASSUME NEW n \in Daemons, PutLocal(n) PROVE Spread'
  <2>1. PICK r \in call[n].rec : PutTaken(n, r) \/ PutRefused(n, r) BY <1>6, PutLocalFacts
  <2>2. CASE PutTaken(n, r) BY <2>2, SpreadPut
  <2>3. CASE PutRefused(n, r)
    <3>1. /\ call'[n].stage = "none" /\ (\A k \in Daemons \ {n} : call'[k] = call[k])
          /\ call[n].stage = "put" /\ UNCHANGED <<store, lossy>>
      BY <2>3, ReturnFacts, IdleFacts DEF PutRefused
    <3> QED BY <1>4, <3>1
  <2> QED BY <2>1, <2>2, <2>3
<1>7. ASSUME NEW n \in Daemons, PutReturns(n) PROVE Spread'
  <2>1. /\ call'[n].stage = "none" /\ (\A k \in Daemons \ {n} : call'[k] = call[k])
        /\ call[n].todo = {} /\ UNCHANGED <<store, lossy>>
    BY <1>7, ReturnFacts, IdleFacts DEF PutReturns
  <2> QED BY <1>4, <2>1
<1>8. ASSUME NEW n \in Daemons, PutFails(n) PROVE Spread' BY <1>1, <1>8 DEF PutFails
<1>9. ASSUME NEW n \in Daemons, NEW m \in Replicas, LoseDelivery(n, m) PROVE Spread'
  BY <1>1, <1>9 DEF LoseDelivery
<1>10. ASSUME NEW n \in Daemons, NEW m \in Replicas, Deliver(n, m) PROVE Spread'
  BY <1>10, SpreadDeliver
<1>11. ASSUME NEW p \in Replicas, NEW m \in Replicas, Correct(p, m) PROVE Spread'
  BY <1>11, SpreadCorrect
<1>12. ASSUME NEW m \in Replicas, Restart(m) PROVE Spread'
  <2> SUFFICES ASSUME ~lossy' PROVE Reached' /\ Lag' /\ Behind' BY DEF Spread
  <2>1. ~lossy /\ \A n \in Daemons : call[n].stage # "send" BY <1>12 DEF Restart
  <2>2. \A n \in Daemons : call'[n] = call[n] \/ call'[n] = Idle BY <1>12 DEF Restart
  <2>3. \A n \in Daemons : call'[n].stage # "send" BY <2>1, <2>2, IdleFacts
  <2>4. \A p \in Replicas : store'[p] \subseteq store[p] BY <1>12 DEF Restart, Types
  <2>5. \A k \in Daemons : \A s : ~Sends(k, s) /\ ~Sends(k, s)' BY <2>1, <2>3 DEF Sends
  <2>6. \A s : Stored(s)' => Stored(s) BY <2>4 DEF Stored
  <2>7. Lag BY <2>1 DEF Spread
  <2>8. Lag' BY <2>4, <2>5, <2>6, <2>7 DEF Lag
  <2> QED BY <2>3, <2>5, <2>8 DEF Reached, Behind
<1>13. ASSUME NEW c \in Clients, NEW took \in 0..MaxLookup, Resolve(c, took) PROVE Spread'
  BY <1>2, <1>13 DEF Resolve
<1>14. CASE Tick \/ UNCHANGED vars BY <1>2, <1>14 DEF Tick, vars
<1> QED
  BY <1>3, <1>5, <1>6, <1>7, <1>8, <1>9, <1>10, <1>11, <1>12, <1>13, <1>14 DEF Next

LEMMA SpreadInit == Init => Spread
<1> SUFFICES ASSUME Init PROVE Reached /\ Lag /\ Behind BY DEF Spread
<1>1. \A n \in Daemons : call[n].stage = "none" BY IdleFacts DEF Init
<1>2. \A k \in Daemons : \A s : ~Sends(k, s) BY <1>1 DEF Sends
<1>3. \A m \in Replicas, p \in Replicas : store[m] = store[p] BY DEF Init
<1>4. \A m \in Replicas : \A r, s \in store[m] : r = s BY SinglesInit DEF Singles
<1>5. Lag
  <2> SUFFICES ASSUME NEW s \in Record, NEW m \in Replicas, NEW x \in store[m],
                      Stored(s), x.timestamp < s.timestamp
               PROVE  FALSE
    BY <1>2 DEF Lag
  <2>1. x = s BY <1>3, <1>4 DEF Stored
  <2>2. s.timestamp \in Nat BY DEF Record
  <2> QED BY <2>1, <2>2
<1> QED BY <1>1, <1>2, <1>5 DEF Reached, Behind

-----------------------------------------------------------------------------
LEMMA AloneShrinks ==
    ASSUME Alone, \A k \in Daemons : Active(k)' => Active(k) /\ (~call'[k].raced => ~call[k].raced)
    PROVE  Alone'
BY DEF Alone

LEMMA AloneEnter ==
    ASSUME Types, Alone, NEW n \in Daemons, NEW c \in Calls, ~Active(n), Enter(n, c)
    PROVE  Alone'
<1>1. call'[n].raced <=> (\E k \in Daemons \ {n} : Active(k)) \/ Divided BY EnterFacts
<1>2. \A k \in Daemons \ {n} : (Active(k)' <=> Active(k)) /\ (Active(k) => call'[k].raced)
  BY EnterFacts
<1>3. ASSUME NEW j \in Daemons, Active(j)', ~call'[j].raced, NEW k \in Daemons \ {j}
      PROVE  ~Active(k)'
  <2>1. j = n BY <1>2, <1>3
  <2> QED BY <1>1, <1>2, <1>3, <2>1
<1> QED BY <1>3 DEF Alone

LEMMA AloneStep ==
    ASSUME Types, Ages, Alone, [Next]_vars
    PROVE  Alone'
<1>1. ASSUME call' = call PROVE Alone' BY <1>1 DEF Alone, Active
<1>2. ASSUME NEW n \in Daemons, \A k \in Daemons \ {n} : call'[k] = call[k],
             call'[n] = Idle \/ (call[n].stage # "none" /\ (~call'[n].raced => ~call[n].raced))
      PROVE  Alone'
  <2>1. ASSUME NEW k \in Daemons, Active(k)'
        PROVE  Active(k) /\ (~call'[k].raced => ~call[k].raced)
    <3>1. CASE k = n BY <1>2, <2>1, <3>1, IdleFacts DEF Active
    <3>2. CASE k # n
      <4>1. call'[k] = call[k] BY <1>2, <3>2
      <4> QED BY <2>1, <4>1 DEF Active
    <3> QED BY <3>1, <3>2
  <2> QED BY <2>1, AloneShrinks
<1>3. ASSUME NEW n \in Daemons,
             RegisterBegin(n) \/ \E S \in SUBSET Replicas : Refresh(n, S) \/ Unregister(n, S)
      PROVE  Alone'
  <2>1. PICK c \in Calls : Enter(n, c) BY <1>3, CallBegins
  <2>2. ~Active(n) BY <1>3, CallBegins
  <2> QED BY <2>1, <2>2, AloneEnter
<1>4. ASSUME NEW n \in Daemons, NEW S \in SUBSET Replicas, RegisterGet(n, S) PROVE Alone'
  BY <1>2, <1>4, GetAnswered
<1>5. ASSUME NEW n \in Daemons, PutLocal(n) PROVE Alone'
  <2>1. PICK r \in call[n].rec : PutTaken(n, r) \/ PutRefused(n, r) BY <1>5, PutLocalFacts
  <2>2. CASE PutTaken(n, r)
    <3>1. /\ \A k \in Daemons \ {n} : call'[k] = call[k]
          /\ call[n].stage = "put" /\ call'[n].raced = call[n].raced
      BY <2>2 DEF PutTaken
    <3> QED BY <1>2, <3>1
  <2>3. CASE PutRefused(n, r) BY <1>2, <2>3, ReturnFacts DEF PutRefused
  <2> QED BY <2>1, <2>2, <2>3
<1>6. ASSUME NEW n \in Daemons, PutReturns(n) \/ PutFails(n) PROVE Alone'
  BY <1>2, <1>6, ReturnFacts DEF PutReturns, PutFails
<1>7. ASSUME NEW n \in Daemons, NEW m \in Replicas, LoseDelivery(n, m) \/ Deliver(n, m) PROVE Alone'
  <2>1. call[n].stage = "send" /\ call' = [call EXCEPT ![n].todo = @ \ {m}]
    BY <1>7 DEF LoseDelivery, Deliver
  <2>2. call'[n].raced = call[n].raced /\ \A k \in Daemons \ {n} : call'[k] = call[k]
    BY <2>1, DeliverFacts
  <2> QED BY <1>2, <2>1, <2>2
<1>8. ASSUME NEW m \in Replicas, Restart(m) PROVE Alone'
  <2>1. \A n \in Daemons : call'[n] = call[n] \/ call'[n] = Idle BY <1>8 DEF Restart
  <2>2. \A n \in Daemons : Active(n)' => call'[n] = call[n] /\ Active(n) BY <2>1 DEF Active
  <2> QED BY <2>2, AloneShrinks
<1>9. ASSUME NEW p \in Replicas, NEW m \in Replicas, Correct(p, m) PROVE Alone'
  BY <1>1, <1>9 DEF Correct
<1>10. ASSUME NEW c \in Clients, NEW took \in 0..MaxLookup, Resolve(c, took) PROVE Alone'
  BY <1>1, <1>10 DEF Resolve
<1>11. CASE Tick \/ UNCHANGED vars BY <1>1, <1>11 DEF Tick, vars
<1> QED
  BY <1>3, <1>4, <1>5, <1>6, <1>7, <1>8, <1>9, <1>10, <1>11 DEF Next

-----------------------------------------------------------------------------
\* When no put is under way and nobody wrote in the same second, GetValue finds
\* what every replica that has a record has.
LEMMA FoundIsStored ==
    ASSUME Types, Spread, ~lossy, ~Divided, \A k \in Daemons : call[k].stage # "send",
           NEW found \in GetValue(Replicas), NEW m \in Replicas, NEW r \in store[m]
    PROVE  found = {r}
<1> DEFINE held == UNION {store[p] : p \in Replicas}
<1>1. r \in held /\ held \subseteq Record BY DEF Types
<1>2. \E f \in Select(held) : found = {f} BY <1>1 DEF GetValue
<1>3. PICK f \in Select(held) : found = {f} BY <1>2
<1>4. f \in held BY <1>3 DEF Select
<1>5. PICK p \in Replicas : f \in store[p] BY <1>4
<1>6. Stored(r) /\ Stored(f) /\ \A k \in Daemons : \A s : ~Sends(k, s) BY <1>5 DEF Stored, Sends
<1>7. f \in Record /\ r \in Record BY <1>1, <1>4
<1>8. ~(f.timestamp < r.timestamp) /\ ~(r.timestamp < f.timestamp)
  BY <1>5, <1>6, <1>7 DEF Spread, Lag
<1>9. f.timestamp = r.timestamp BY <1>7, <1>8 DEF Record
<1> QED BY <1>3, <1>5, <1>9 DEF Divided

\* What is expired stays so.
LEMMA ExpiredStays ==
    ASSUME NEW r \in Record, NEW t \in Nat, NEW u \in Nat, t <= u, Expired(r, t)
    PROVE  Expired(r, u)
BY DEF Expired, Record

\* A call stays entitled: the replicas get nothing but what they had, and what
\* it puts itself.
LEMMA EntitledKept ==
    ASSUME Types, Types', Entitled, lossy => lossy', now' >= now,
           \A n \in Daemons : call'[n].stage \in {"put", "send"} /\ ~call'[n].raced =>
              /\ call[n].stage \in {"put", "send"} /\ ~call[n].raced
              /\ \A m \in Replicas : \A r \in store'[m] : Stored(r) \/ r.owner = n
    PROVE  Entitled'
<1> SUFFICES ASSUME ~lossy', NEW n \in Daemons, call'[n].stage \in {"put", "send"}, ~call'[n].raced,
                    NEW m \in Replicas, NEW r \in store'[m], r.owner # n
             PROVE  Expired(r, Clock(n)')
  BY DEF Entitled
<1>1. PICK p \in Replicas : r \in store[p] BY DEF Stored
<1>2. Expired(r, Clock(n)) BY <1>1 DEF Entitled
<1>3. r \in Record BY <1>1 DEF Types
<1>4. n \in Replicas \cup Clients BY NameAssumptions
<1>5. Clock(n) \in Nat /\ Clock(n)' \in Nat /\ Clock(n) <= Clock(n)'
  <2>1. Skew[n] \in Nat /\ now \in Nat /\ now' \in Nat BY <1>4, NameAssumptions DEF Types
  <2>2. Clock(n) = now + Skew[n] /\ Clock(n)' = now' + Skew[n] BY DEF Clock
  <2> QED BY <2>1, <2>2
<1> QED BY <1>2, <1>3, <1>5, ExpiredStays

LEMMA EntitledStep ==
    ASSUME Types, Ages, Singles, Spread, Alone, Entitled, [Next]_vars
    PROVE  Entitled'
<1>1. Types' BY StepAges
<1>2. ASSUME lossy' PROVE Entitled' BY <1>2 DEF Entitled
<1>3. now' = now => now' >= now BY DEF Types
<1>4. ASSUME lossy => lossy', now' = now, NEW n \in Daemons,
             \A k \in Daemons \ {n} : call'[k] = call[k],
             \A m \in Replicas : \A r \in store'[m] : Stored(r),
             call'[n].stage \in {"put", "send"} /\ ~call'[n].raced =>
                 call[n].stage \in {"put", "send"} /\ ~call[n].raced
      PROVE  Entitled'
  <2>1. ASSUME NEW k \in Daemons, call'[k].stage \in {"put", "send"}, ~call'[k].raced
        PROVE  call[k].stage \in {"put", "send"} /\ ~call[k].raced
    BY <1>4, <2>1
  <2> QED BY <1>1, <1>3, <1>4, <2>1, EntitledKept
<1>5. \A m \in Replicas : \A r \in store[m] : Stored(r) BY DEF Stored
<1>6. ASSUME UNCHANGED <<store, call, lossy>>, now' >= now PROVE Entitled'
  BY <1>1, <1>5, <1>6, EntitledKept
<1>7. ASSUME NEW n \in Daemons, NEW c \in Calls, ~Active(n), Enter(n, c), UNCHANGED <<now, store>>,
             c.stage \in {"get", "put"}, lossy => lossy',
             ~lossy' /\ c.stage = "put" /\ (\A k \in Daemons : call[k].stage # "send") /\ ~Divided =>
                 \A m \in Replicas : \A r \in store[m] : r.owner = n
      PROVE  Entitled'
  <2> SUFFICES ASSUME ~lossy', NEW k \in Daemons, call'[k].stage \in {"put", "send"}, ~call'[k].raced,
                      NEW m \in Replicas, NEW r \in store'[m], r.owner # k
               PROVE  FALSE
    BY DEF Entitled
  <2>1. k = n
    <3>1. k # n => call'[k].stage = call[k].stage /\ (Active(k) => call'[k].raced)
      BY <1>7, EnterFacts
    <3> QED BY <3>1, IdleFacts
  <2>2. c.stage \in {"put", "send"} /\ ~Divided /\ \A l \in Daemons \ {n} : ~Active(l)
    BY <1>7, <2>1, EnterFacts
  <2>3. \A l \in Daemons : call[l].stage # "send" BY <1>7, <2>2, IdleFacts
  <2> QED BY <1>7, <2>1, <2>2, <2>3
<1>8. ASSUME NEW n \in Daemons, RegisterBegin(n) PROVE Entitled'
  <2> DEFINE c == [Idle EXCEPT !.op = "Register", !.stage = "get", !.time = Clock(n)]
  <2>1. c \in Calls /\ c.stage = "get" BY ClockPositive DEF Idle, Calls
  <2>2. ~Active(n) /\ Enter(n, c) /\ UNCHANGED <<now, store, lossy>> BY <1>8 DEF RegisterBegin
  <2> HIDE DEF c
  <2> QED BY <1>7, <2>1, <2>2
<1>9. ASSUME NEW n \in Daemons, NEW S \in SUBSET Replicas, RegisterGet(n, S) PROVE Entitled'
  <2>1. /\ call[n].stage = "get" /\ UNCHANGED <<now, store>> /\ Heard(S)
        /\ \A k \in Daemons \ {n} : call'[k] = call[k]
    BY <1>9, GetAnswered
  <2>2. PICK found \in GetValue(S) :
          \/ /\ TakenBy(n, found) = {} /\ call'[n].stage = "put"
             /\ call'[n].raced <=> call[n].raced \/ Divided
          \/ call'[n] = Idle
    BY <1>9, GetAnswered
  <2>3. CASE call'[n] = Idle BY <1>4, <1>5, <2>1, <2>3, IdleFacts DEF Heard
  <2>4. CASE /\ TakenBy(n, found) = {} /\ call'[n].stage = "put"
             /\ call'[n].raced <=> call[n].raced \/ Divided
    <3> SUFFICES ASSUME ~lossy', NEW k \in Daemons, call'[k].stage \in {"put", "send"}, ~call'[k].raced,
                        NEW m \in Replicas, NEW r \in store'[m], r.owner # k
                 PROVE  Expired(r, Clock(k)')
      BY DEF Entitled
    <3>1. ~lossy /\ S = Replicas /\ Active(n) BY <2>1, IdleFacts DEF Heard
    <3>2. k = n
      <4>1. k # n => Active(k) /\ ~call[k].raced BY <2>1, IdleFacts
      <4> QED BY <3>1, <4>1 DEF Alone
    <3>3. ~call[n].raced /\ ~Divided BY <2>4, <3>2
    <3>4. \A l \in Daemons : call[l].stage # "send" BY <2>1, <3>1, <3>3, IdleFacts DEF Alone
    <3>5. found = {r} BY <2>1, <3>1, <3>3, <3>4, FoundIsStored
    <3>6. Expired(r, Clock(n)) BY <2>4, <3>2, <3>5 DEF TakenBy
    <3> QED BY <2>1, <3>2, <3>6 DEF Clock
  <2> QED BY <2>2, <2>3, <2>4
<1>10. ASSUME NEW n \in Daemons, NEW S \in SUBSET Replicas, Refresh(n, S) PROVE Entitled'
  <2>1. PICK found \in GetValue(S) : \E r \in found : r.owner = n /\ Enter(n, Put("Refresh", Renewed(n, r)))
    BY <1>10 DEF Refresh
  <2>2. PICK f \in found : f.owner = n /\ Enter(n, Put("Refresh", Renewed(n, f))) BY <2>1
  <2> DEFINE c == Put("Refresh", Renewed(n, f))
  <2>3. Renewed(n, f) \in Record
    <3>1. f \in Record BY GetValueRecords
    <3> QED BY <3>1, ClockPositive, NameAssumptions DEF Renewed, Record
  <2>4. c \in Calls /\ c.stage = "put" BY <2>3, PutIsCall, PutFacts
  <2>5. /\ ~Active(n) /\ Enter(n, c) /\ UNCHANGED <<now, store>> /\ (lossy => lossy')
        /\ ~lossy' => ~lossy /\ S = Replicas
    BY <1>10, <2>2 DEF Refresh, Heard
  <2> HIDE DEF c
  <2>6. ASSUME ~lossy', \A k \in Daemons : call[k].stage # "send", ~Divided,
               NEW m \in Replicas, NEW r \in store[m]
        PROVE  r.owner = n
    <3>1. found = {r} BY <2>1, <2>5, <2>6, FoundIsStored
    <3> QED BY <2>2, <3>1
  <2> QED BY <1>7, <2>4, <2>5, <2>6
<1>11. ASSUME NEW n \in Daemons, NEW S \in SUBSET Replicas, Unregister(n, S) PROVE Entitled'
  <2> DEFINE d == [owner |-> n, addrs |-> FALSE, ttl |-> 0, timestamp |-> Clock(n)]
             c == Put("Unregister", d)
  <2>1. PICK found \in GetValue(S) : (\A r \in found : r.owner = n) /\ Enter(n, c)
    BY <1>11 DEF Unregister
  <2>2. d \in Record BY ClockPositive DEF Record
  <2> HIDE DEF d
  <2>3. c \in Calls /\ c.stage = "put" BY <2>2, PutIsCall, PutFacts
  <2>4. /\ ~Active(n) /\ UNCHANGED <<now, store>> /\ (lossy => lossy')
        /\ ~lossy' => ~lossy /\ S = Replicas
    BY <1>11 DEF Unregister, Heard
  <2> HIDE DEF c
  <2>5. ASSUME ~lossy', \A k \in Daemons : call[k].stage # "send", ~Divided,
               NEW m \in Replicas, NEW r \in store[m]
        PROVE  r.owner = n
    <3>1. found = {r} BY <2>1, <2>4, <2>5, FoundIsStored
    <3> QED BY <2>1, <3>1
  <2> QED BY <1>7, <2>1, <2>3, <2>4, <2>5
<1>12. ASSUME NEW n \in Daemons, NEW p \in Replicas, NEW r \in call[n].rec,
              call[n].stage \in {"put", "send"}, now' = now, lossy => lossy',
              store'[p] \subseteq store[p] \cup {r}, \A m \in Replicas \ {p} : store'[m] = store[m],
              call'[n].raced = call[n].raced, \A k \in Daemons \ {n} : call'[k] = call[k]
       PROVE  Entitled'
  <2>1. r.owner = n BY DEF Singles
  <2>2. ASSUME NEW k \in Daemons, call'[k].stage \in {"put", "send"}, ~call'[k].raced
        PROVE  k = n
    <3>1. k # n => Active(k) /\ ~call[k].raced /\ Active(n) BY <1>12, <2>2, IdleFacts
    <3> QED BY <3>1 DEF Alone
  <2>3. \A m \in Replicas : \A s \in store'[m] : Stored(s) \/ s.owner = n
    BY <1>12, <2>1 DEF Stored
  <2>4. ASSUME NEW k \in Daemons, call'[k].stage \in {"put", "send"}, ~call'[k].raced
        PROVE  /\ call[k].stage \in {"put", "send"} /\ ~call[k].raced
               /\ \A m \in Replicas : \A s \in store'[m] : Stored(s) \/ s.owner = k
    BY <1>12, <2>2, <2>3, <2>4
  <2> QED BY <1>1, <1>3, <1>12, <2>4, EntitledKept
<1>13. ASSUME NEW n \in Daemons, PutLocal(n) PROVE Entitled'
  <2>1. PICK r \in call[n].rec : PutTaken(n, r) \/ PutRefused(n, r) BY <1>13, PutLocalFacts
  <2>2. CASE PutTaken(n, r)
    <3>1. n \in Replicas BY NameAssumptions
    <3>2. store'[n] = {r} /\ \A m \in Replicas \ {n} : store'[m] = store[m]
      BY <2>2, <3>1 DEF PutTaken, Types
    <3> QED BY <1>12, <2>2, <3>1, <3>2 DEF PutTaken
  <2>3. CASE PutRefused(n, r)
    BY <1>4, <1>5, <2>3, ReturnFacts, IdleFacts DEF PutRefused
  <2> QED BY <2>1, <2>2, <2>3
<1>14. ASSUME NEW n \in Daemons, PutReturns(n) PROVE Entitled'
  BY <1>4, <1>5, <1>14, ReturnFacts, IdleFacts DEF PutReturns
<1>15. ASSUME NEW n \in Daemons, PutFails(n) PROVE Entitled' BY <1>2, <1>15 DEF PutFails
<1>16. ASSUME NEW n \in Daemons, NEW m \in Replicas, LoseDelivery(n, m) PROVE Entitled'
  BY <1>2, <1>16 DEF LoseDelivery
<1>17. ASSUME NEW n \in Daemons, NEW p \in Replicas, Deliver(n, p) PROVE Entitled'
  <2>1. PICK r \in call[n].rec : store' = [store EXCEPT ![p] = Accept(@, r)] BY <1>17 DEF Deliver
  <2>2. store'[p] = Accept(store[p], r) /\ \A m \in Replicas \ {p} : store'[m] = store[m]
    BY <2>1 DEF Types
  <2>3. Accept(store[p], r) \subseteq store[p] \cup {r} BY DEF Accept
  <2>4. /\ call[n].stage = "send" /\ call' = [call EXCEPT ![n].todo = @ \ {p}]
        /\ UNCHANGED <<now, lossy>>
    BY <1>17 DEF Deliver
  <2>5. call'[n].raced = call[n].raced /\ \A k \in Daemons \ {n} : call'[k] = call[k]
    BY <2>4, DeliverFacts
  <2> QED BY <1>12, <2>2, <2>3, <2>4, <2>5
<1>18. ASSUME NEW q \in Replicas, NEW p \in Replicas, Correct(q, p) PROVE Entitled'
  <2>1. PICK r \in store[q] : store' = [store EXCEPT ![p] = Accept(@, r)] BY <1>18 DEF Correct
  <2>2. store'[p] = Accept(store[p], r) /\ \A m \in Replicas \ {p} : store'[m] = store[m]
    BY <2>1 DEF Types
  <2>3. \A m \in Replicas : \A s \in store'[m] : Stored(s)
    BY <2>1, <2>2 DEF Accept, Stored
  <2>4. UNCHANGED <<now, call, lossy>> BY <1>18 DEF Correct
  <2> QED BY <1>1, <1>3, <2>3, <2>4, EntitledKept
<1>19. ASSUME NEW p \in Replicas, Restart(p) PROVE Entitled'
  <2>1. \A m \in Replicas : \A s \in store'[m] : Stored(s) BY <1>19 DEF Restart, Types, Stored
  <2>2. \A n \in Daemons : call'[n] = call[n] \/ call'[n] = Idle BY <1>19 DEF Restart
  <2>3. (lossy => lossy') /\ now' = now BY <1>19 DEF Restart
  <2>4. \A n \in Daemons : call'[n].stage \in {"put", "send"} => call'[n] = call[n]
    BY <2>2, IdleFacts
  <2> QED BY <1>1, <1>3, <2>1, <2>3, <2>4, EntitledKept
<1>20. ASSUME NEW c \in Clients, NEW took \in 0..MaxLookup, Resolve(c, took) PROVE Entitled'
  BY <1>3, <1>6, <1>20 DEF Resolve
<1>21. CASE Tick
  <2>1. now' >= now BY <1>21 DEF Tick, Types
  <2> QED BY <1>6, <1>21, <2>1 DEF Tick
<1>22. CASE UNCHANGED vars BY <1>3, <1>6, <1>22 DEF vars
<1> QED
  BY <1>8, <1>9, <1>10, <1>11, <1>13, <1>14, <1>15, <1>16, <1>17, <1>18, <1>19, <1>20, <1>21, <1>22
  DEF Next

-----------------------------------------------------------------------------
\* What is newer than a departed owner's record is a daemon's.
LEMMA DaemonsRecord ==
    ASSUME Types, Singles, NEW m \in Replicas, NEW x \in store[m], x.timestamp # 0
    PROVE  x.owner \in Daemons
<1>1. x \in Record BY DEF Types
<1>2. x.owner # Departed BY DEF Singles
<1> QED BY <1>1, <1>2 DEF Record

LEMMA HoldingStep ==
    ASSUME Types, Ages, Singles, Holding, [Next]_vars
    PROVE  Holding'
<1>1. Types' BY StepAges
<1>2. Singles' BY SinglesStep
<1>3. ASSUME lossy' PROVE Holding' BY <1>3 DEF Holding
<1>4. ASSUME Held' PROVE Holding' BY <1>4 DEF Holding
<1>5. ASSUME store' = store, lossy => lossy',
             ~Held /\ (\A n \in Daemons : outcome[n] \in {"none", Departed} /\ call[n].stage # "send") =>
                Held \/ \A n \in Daemons : outcome'[n] \in {"none", Departed} /\ call'[n].stage # "send"
      PROVE  Holding'
  <2>1. Held' <=> Held BY <1>5 DEF Held
  <2> QED BY <1>5, <2>1 DEF Holding
<1>6. \A n \in Daemons : outcome'[n] = outcome[n] /\ call'[n].stage = call[n].stage
        => (outcome[n] \in {"none", Departed} /\ call[n].stage # "send" =>
              outcome'[n] \in {"none", Departed} /\ call'[n].stage # "send")
  OBVIOUS
<1>7. ASSUME UNCHANGED <<store, call, outcome, lossy>> PROVE Holding' BY <1>5, <1>7
<1>8. ASSUME NEW n \in Daemons,
             RegisterBegin(n) \/ \E S \in SUBSET Replicas : Refresh(n, S) \/ Unregister(n, S)
      PROVE  Holding'
  <2>1. PICK c \in Calls : c.stage \in {"get", "put"} /\ Enter(n, c) BY <1>8, CallBegins
  <2>2. ~Active(n) /\ (lossy => lossy') /\ UNCHANGED <<store, outcome>> BY <1>8, CallBegins
  <2>3. \A k \in Daemons : call'[k].stage = call[k].stage \/ call'[k].stage # "send"
    BY <2>1, <2>2, EnterFacts
  <2> QED BY <1>5, <2>2, <2>3
<1>9. ASSUME NEW n \in Daemons, NEW S \in SUBSET Replicas, RegisterGet(n, S) PROVE Holding'
  <2>1. /\ store' = store /\ (lossy => lossy')
        /\ \A k \in Daemons \ {n} : call'[k] = call[k]
    BY <1>9, GetAnswered DEF Heard
  <2>2. PICK found \in GetValue(S) :
          \/ outcome' = outcome /\ call'[n].stage = "put"
          \/ \E o \in TakenBy(n, found) : call'[n] = Idle /\ outcome' = [outcome EXCEPT ![n] = o]
    BY <1>9, GetAnswered
  <2>3. call'[n].stage # "send" BY <2>2, IdleFacts
  <2>4. CASE outcome' = outcome BY <1>5, <2>1, <2>3, <2>4
  <2>5. ASSUME NEW o \in TakenBy(n, found), outcome' = [outcome EXCEPT ![n] = o]
        PROVE  Holding'
    <3>1. PICK r \in found : r.owner = o BY <2>5 DEF TakenBy
    <3>2. r \in Record BY <3>1, GetValueRecords
    <3>3. Stored(r)
      <4> DEFINE held == UNION {store[p] : p \in S}
      <4>1. found = {} \/ \E s \in Select(held) : found = {s} BY DEF GetValue
      <4>2. r \in held BY <3>1, <4>1 DEF Select
      <4> QED BY <4>2 DEF Stored
    <3>4. o = Departed \/ Held BY <3>1, <3>2, <3>3 DEF Record, Stored, Held
    <3>5. \A k \in Daemons : outcome'[k] = outcome[k] \/ outcome'[k] = o
      <4>1. CASE n \in DOMAIN outcome BY <2>5, <4>1
      <4>2. CASE n \notin DOMAIN outcome BY <2>5, <4>2
      <4> QED BY <4>1, <4>2
    <3> QED BY <1>5, <2>1, <2>3, <3>4, <3>5
  <2> QED BY <2>2, <2>4, <2>5
<1>10. ASSUME NEW n \in Daemons, PutLocal(n) PROVE Holding'
  <2>1. PICK r \in call[n].rec : PutTaken(n, r) \/ PutRefused(n, r) BY <1>10, PutLocalFacts
  <2>2. r.owner = n /\ r.timestamp > 0 /\ r \in Record /\ n \in Replicas /\ store[n] \in SUBSET Record
    BY NameAssumptions DEF Singles, Types, Calls
  <2>3. CASE PutTaken(n, r)
    <3>1. store'[n] = {r} BY <2>2, <2>3 DEF PutTaken, Types
    <3> QED BY <1>4, <2>2, <3>1 DEF Held
  <2>4. CASE PutRefused(n, r)
    <3>1. PICK x \in store[n] : x.timestamp > r.timestamp
      BY <2>2, <2>4, AcceptIs DEF PutRefused
    <3>2. x.timestamp # 0 BY <2>2, <3>1 DEF Record
    <3>3. Held BY <2>2, <3>1, <3>2, DaemonsRecord DEF Held
    <3> QED BY <1>5, <2>4, <3>3 DEF PutRefused
  <2> QED BY <2>1, <2>3, <2>4
<1>11. ASSUME NEW n \in Daemons, PutReturns(n) PROVE Holding'
  BY <1>5, <1>11 DEF PutReturns
<1>12. ASSUME NEW n \in Daemons, PutFails(n) PROVE Holding' BY <1>3, <1>12 DEF PutFails
<1>13. ASSUME NEW n \in Daemons, NEW m \in Replicas, LoseDelivery(n, m) PROVE Holding'
  BY <1>3, <1>13 DEF LoseDelivery
<1>14. ASSUME NEW n \in Daemons, NEW p \in Replicas, Deliver(n, p) PROVE Holding'
  <2>1. PICK r \in call[n].rec : store' = [store EXCEPT ![p] = Accept(@, r)] BY <1>14 DEF Deliver
  <2>2. r.owner = n /\ r.timestamp > 0 /\ r \in Record /\ store[p] \in SUBSET Record
    BY DEF Singles, Types, Calls
  <2>3. store'[p] = Accept(store[p], r) BY <2>1 DEF Types
  <2>4. CASE store'[p] = {r} BY <1>4, <2>2, <2>4 DEF Held
  <2>5. CASE store'[p] # {r}
    <3>1. PICK x \in store'[p] : x.timestamp > r.timestamp BY <2>2, <2>3, <2>5, AcceptIs
    <3>2. x \in Record BY <1>1, <3>1 DEF Types
    <3>3. x.timestamp # 0 BY <2>2, <3>1, <3>2 DEF Record
    <3>4. x.owner # Departed BY <1>2, <3>1, <3>3 DEF Singles
    <3>5. x.owner \in Daemons BY <3>2, <3>4 DEF Record
    <3> QED BY <1>4, <3>1, <3>5 DEF Held
  <2> QED BY <2>4, <2>5
<1>15. ASSUME NEW q \in Replicas, NEW p \in Replicas, Correct(q, p) PROVE Holding'
  <2>1. PICK r \in store[q] : store' = [store EXCEPT ![p] = Accept(@, r)] BY <1>15 DEF Correct
  <2>2. UNCHANGED <<call, outcome, lossy>> BY <1>15 DEF Correct
  <2>3. /\ store'[p] = Accept(store[p], r) /\ (\A m \in Replicas \ {p} : store'[m] = store[m])
        /\ r \in Record /\ store[p] \in SUBSET Record
    BY <2>1 DEF Types
  <2>4. Held => Held'
    <3> SUFFICES ASSUME NEW m \in Replicas, NEW x \in store[m], x.owner \in Daemons PROVE Held'
      BY DEF Held
    <3>1. CASE m # p \/ store'[p] = store[p] BY <2>3, <3>1 DEF Held
    <3>2. CASE m = p /\ store'[p] # store[p]
      <4>1. store'[p] = {r} /\ x.timestamp <= r.timestamp BY <2>3, <3>2, AcceptIs
      <4>2. x \in Record /\ x.owner # Departed BY <2>3, <3>2, NameAssumptions
      <4>3. x.timestamp # 0 BY <4>2 DEF Singles
      <4>4. r.timestamp # 0 BY <2>3, <4>1, <4>2, <4>3 DEF Record
      <4>5. r.owner \in Daemons BY <2>1, <4>4, DaemonsRecord
      <4> QED BY <4>1, <4>5 DEF Held
    <3> QED BY <3>1, <3>2
  <2> QED BY <2>2, <2>4 DEF Holding
<1>16. ASSUME NEW p \in Replicas, Restart(p) PROVE Holding'
  <2> SUFFICES ASSUME ~lossy'
               PROVE  Held' \/ \A n \in Daemons : outcome'[n] \in {"none", Departed} /\ call'[n].stage # "send"
    BY DEF Holding
  <2>1. /\ ~lossy /\ \A r \in store[p] : \E q \in Replicas \ {p} : r \in store[q]
        /\ \A m \in Replicas \ {p} : store'[m] = store[m]
    BY <1>16 DEF Restart, Types
  <2>2. Held => Held' BY <2>1 DEF Held
  <2>3. \A n \in Daemons : call'[n] = call[n] \/ call'[n] = Idle BY <1>16 DEF Restart
  <2>4. \A n \in Daemons : outcome'[n] = outcome[n] \/ outcome'[n] = "none" BY <1>16 DEF Restart
  <2>5. \A n \in Daemons : call[n].stage # "send" => call'[n].stage # "send" BY <2>3, IdleFacts
  <2> QED BY <2>1, <2>2, <2>4, <2>5 DEF Holding
<1>17. ASSUME NEW c \in Clients, NEW took \in 0..MaxLookup, Resolve(c, took) PROVE Holding'
  BY <1>7, <1>17 DEF Resolve
<1>18. CASE Tick \/ UNCHANGED vars BY <1>7, <1>18 DEF Tick, vars
<1> QED
  BY <1>8, <1>9, <1>10, <1>11, <1>12, <1>13, <1>14, <1>15, <1>16, <1>17, <1>18 DEF Next

LEMMA NameInvHolds == Spec => []NameInv
<1>1. Init => NameInv
  <2> SUFFICES ASSUME Init PROVE Alone /\ Entitled /\ Holding
    BY InitTypes, SinglesInit, SpreadInit DEF NameInv
  <2>1. \A n \in Daemons : ~Active(n) /\ call[n].stage = "none" /\ outcome[n] = "none"
    BY IdleFacts DEF Init, Active
  <2> QED BY <2>1 DEF Alone, Entitled, Holding
<1>2. NameInv /\ [Next]_vars => NameInv'
  BY StepAges, SinglesStep, SpreadStep, AloneStep, EntitledStep, HoldingStep DEF NameInv
<1> QED BY <1>1, <1>2, PTL DEF Spec

\* Once no call is under way and unless something was lost, the replicas that
\* hold the name hold records of one second, for any number of replicas, daemons,
\* calls and restarts (Select, PutValue and the corrections of a lookup).
THEOREM ReplicasAlwaysAgree == Spec => []ReplicasAgree
<1>1. NameInv => ReplicasAgree
  <2> SUFFICES ASSUME NameInv, ~lossy, \A n \in Daemons : ~Active(n), NEW m \in Replicas,
                      NEW p \in Replicas, NEW r \in store[m], NEW s \in store[p]
               PROVE  r.timestamp = s.timestamp
    BY DEF ReplicasAgree
  <2>1. \A k \in Daemons : \A x : ~Sends(k, x) BY IdleFacts DEF Sends
  <2>2. Stored(r) /\ Stored(s) /\ r \in Record /\ s \in Record BY DEF Stored, NameInv, Types
  <2>3. ~(r.timestamp < s.timestamp) /\ ~(s.timestamp < r.timestamp)
    BY <2>1, <2>2 DEF NameInv, Spread, Lag
  <2> QED BY <2>2, <2>3 DEF Record
<1> QED BY <1>1, NameInvHolds, PTL

\* The daemons never all give up in each other's favour, however many there are
\* and however they race, fail, retry and restart, unless something was lost.
THEOREM SomeoneAlwaysHolds ==
    ASSUME Daemons # {}
    PROVE  Spec => []SomeoneHolds
<1>1. NameInv => SomeoneHolds
  <2> SUFFICES ASSUME NameInv, ~lossy
               PROVE  \E n \in Daemons : \/ outcome[n] \in {"none", "ok", Departed}
                                         \/ \E m \in Replicas : \E r \in store[m] : r.owner = n
    BY DEF SomeoneHolds
  <2>1. CASE Held BY <2>1 DEF Held
  <2>2. CASE ~Held BY <2>2 DEF NameInv, Holding
  <2> QED BY <2>1, <2>2
<1> QED BY <1>1, NameInvHolds, PTL

\* Two calls one after the other never take a live name over: a replica gives a
\* live record up only for a call that raced, for a record of the same second, or
\* after a loss, whatever the clocks, the TTLs and the restarts (Register,
\* Refresh, Unregister and the validator).
THEOREM LiveNamesAreKept == Spec => TakenOverOnlyByRaces
<1> DEFINE Kept ==
        \A m \in Replicas : \A r \in store[m], s \in store'[m] :
          r.owner # s.owner /\ s.owner \in Daemons /\ ~Expired(r, Clock(s.owner))
          => \/ lossy'
             \/ r.timestamp = s.timestamp
             \/ Active(s.owner) /\ call[s.owner].raced
<1>1. NameInv /\ [Next]_vars => [Kept]_vars
  <2> SUFFICES ASSUME NameInv, Next, NEW m \in Replicas, NEW r \in store[m], NEW s \in store'[m],
                      r.owner # s.owner, s.owner \in Daemons, ~Expired(r, Clock(s.owner)),
                      ~lossy', r.timestamp # s.timestamp
               PROVE  Active(s.owner) /\ call[s.owner].raced
    OBVIOUS
  <2>1. /\ Types /\ Singles /\ Spread /\ Entitled /\ \A x, y \in store[m] : x = y
    BY DEF NameInv, Singles
  <2>2. r \in Record /\ store[m] \in SUBSET Record BY <2>1 DEF Types
  <2>3. store'[m] # store[m] BY <2>1
  <2>4. ASSUME ~lossy, NEW n \in Daemons, s \in call[n].rec, call[n].stage \in {"put", "send"}
        PROVE  Active(s.owner) /\ call[s.owner].raced
    <3>1. s.owner = n BY <2>1, <2>4 DEF Singles
    <3> QED BY <2>1, <2>4, <3>1, IdleFacts DEF Entitled
  <2>5. ASSUME NEW n \in Daemons, PutLocal(n) PROVE Active(s.owner) /\ call[s.owner].raced
    <3>1. PICK x \in call[n].rec : PutTaken(n, x) \/ PutRefused(n, x) BY <2>1, <2>5, PutLocalFacts
    <3>2. PutTaken(n, x) BY <2>3, <3>1 DEF PutRefused
    <3>3. store'[m] = {x} /\ m = n BY <2>1, <2>3, <3>2 DEF PutTaken, Types
    <3> QED BY <2>4, <3>2, <3>3 DEF PutTaken
  <2>6. ASSUME NEW n \in Daemons, NEW p \in Replicas, Deliver(n, p)
        PROVE  Active(s.owner) /\ call[s.owner].raced
    <3>1. PICK x \in call[n].rec : store' = [store EXCEPT ![p] = Accept(@, x)] BY <2>6 DEF Deliver
    <3>2. x \in Record BY <2>1 DEF Types, Calls
    <3>3. store'[m] = {x} BY <2>1, <2>2, <2>3, <3>1, <3>2, AcceptIs DEF Types
    <3> QED BY <2>4, <2>6, <3>3 DEF Deliver
  <2>7. ASSUME NEW q \in Replicas, NEW p \in Replicas, Correct(q, p)
        PROVE  Active(s.owner) /\ call[s.owner].raced
    <3>1. PICK x \in store[q] : store' = [store EXCEPT ![p] = Accept(@, x)] BY <2>7 DEF Correct
    <3>2. x \in Record /\ ~lossy BY <2>1, <2>7 DEF Types, Correct
    <3>3. store'[m] = {x} /\ \A y \in store[m] : y.timestamp <= x.timestamp
      BY <2>1, <2>2, <2>3, <3>1, <3>2, AcceptIs DEF Types
    <3>4. s = x BY <3>3
    <3>5. r.timestamp < s.timestamp BY <2>2, <3>2, <3>3, <3>4 DEF Record
    <3>6. Stored(s) BY <3>1, <3>4 DEF Stored
    <3>7. PICK k \in Daemons : Sends(k, s) BY <2>1, <3>2, <3>4, <3>5, <3>6 DEF Spread, Lag
    <3> QED BY <2>4, <3>2, <3>7 DEF Sends
  <2>8. ASSUME NEW p \in Replicas, Restart(p) PROVE FALSE
    <3>1. store'[m] = store[m] \/ store'[m] = {} BY <2>1, <2>8 DEF Restart, Types
    <3> QED BY <2>3, <3>1
  <2>9. ASSUME store' = store PROVE FALSE BY <2>3, <2>9
  <2>10. ASSUME NEW n \in Daemons, NEW S \in SUBSET Replicas, RegisterGet(n, S) \/ Refresh(n, S) \/ Unregister(n, S)
         PROVE  FALSE
    BY <2>9, <2>10 DEF RegisterGet, Refresh, Unregister
  <2>11. ASSUME NEW n \in Daemons, RegisterBegin(n) \/ PutFails(n) \/ PutReturns(n) PROVE FALSE
    BY <2>9, <2>11 DEF RegisterBegin, PutFails, PutReturns
  <2>12. ASSUME NEW n \in Daemons, NEW p \in Replicas, LoseDelivery(n, p) PROVE FALSE
    BY <2>9, <2>12 DEF LoseDelivery
  <2>13. ASSUME NEW c \in Clients, NEW took \in 0..MaxLookup, Resolve(c, took) PROVE FALSE
    BY <2>9, <2>13 DEF Resolve
  <2>14. CASE Tick BY <2>9, <2>14 DEF Tick
  <2> QED
    BY <2>5, <2>6, <2>7, <2>8, <2>10, <2>11, <2>12, <2>13, <2>14 DEF Next
<1>2. Spec => [][Next]_vars BY DEF Spec
<1> QED BY <1>1, <1>2, NameInvHolds, PTL DEF TakenOverOnlyByRaces
===============================================================================
