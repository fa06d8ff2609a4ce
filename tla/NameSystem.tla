------------------------------ MODULE NameSystem ------------------------------
(***************************************************************************)
(* Names in the DHT (hypernet/services/dns): Register, Refresh, Unregister  *)
(* and Resolve of one name, the validator that decides between records, and *)
(* the daemon's registration loop (node/daemon/run.go). Names are separate  *)
(* keys of the DHT and of the cache, so one name is followed. A daemon's    *)
(* names share only its loop: as long as one of them fails, the others are  *)
(* registered again with it. For a name that the daemon holds that is a new *)
(* put by its owner, which Refresh can make at any time; for a name that    *)
(* was refused it is another try, which the model does not have.            *)
(*                                                                         *)
(* The DHT is a library. Its replicas take a record unless the validator    *)
(* prefers the one they hold, a lookup returns the validator's choice among *)
(* the answers it got and brings lagging replicas up to date, answers and   *)
(* deliveries may be lost, and a replica forgets when its process ends.     *)
(*                                                                         *)
(* Every record is signed by the daemon that makes it, so the model leaves  *)
(* out signatures; addresses count only by whether a record has any.        *)
(***************************************************************************)
EXTENDS Naturals, FiniteSets

CONSTANTS
    Replicas,       \* the processes that store records
    Daemons,        \* those of them that are configured with the name
    Clients,        \* the processes that only resolve it
    Departed,       \* an owner that no longer runs
    InitialRecords, \* what the DHT may hold of it when the daemons start
    TTLOf,          \* a daemon's cfg.DNSTTL, in seconds
    DefaultTTL,     \* what Refresh puts in place of a TTL of 0 (86400)
    Minute,         \* the margin of the cache
    Skew,           \* how far a process's clock is ahead of the slowest one
    MaxAttempts,    \* of the registration loop (25)
    MaxLookup,      \* how long a lookup may take
    MaxTime,        \* bound on the time of a behaviour
    MaxCalls,       \* bound on the calls of Refresh and Unregister
    MaxFaults       \* bound on lost messages and restarts

ASSUME NameAssumptions ==
    /\ Daemons \subseteq Replicas /\ Departed \notin Replicas
    /\ TTLOf \in [Daemons -> Nat \ {0}] /\ DefaultTTL \in Nat \ {0} /\ Minute \in Nat
    /\ Skew \in [Replicas \cup Clients -> Nat] /\ MaxAttempts \in Nat \ {0}
    /\ MaxLookup \in Nat /\ MaxTime \in Nat /\ MaxCalls \in Nat /\ MaxFaults \in Nat
    /\ InitialRecords \subseteq [owner : {Departed}, addrs : BOOLEAN, ttl : Nat, timestamp : {0}]

VARIABLES
    now,     \* the time in seconds
    store,   \* store[m]: what replica m holds, no record or one
    call,    \* call[n]: the call that daemon n's goroutine is in
    outcome, \* outcome[n]: "none" until the registration loop is over, then how it ended
    tries,   \* tries[n]: failed attempts of the loop
    cache,   \* cache[c]: client c's cache entry, none or one
    calls,   \* calls of Refresh and Unregister so far
    faults,  \* messages lost and restarts so far
    lossy    \* history: a message, a stored record or a put was lost

vars == <<now, store, call, outcome, tries, cache, calls, faults, lossy>>

Record == [owner : Daemons \cup {Departed}, addrs : BOOLEAN, ttl : Nat, timestamp : Nat]

Clock(p) == now + Skew[p]

\* Mutant: only deleted records are expired.
ExpiredWhenDeleted(r, t) == r.ttl = 0

Expired(r, t) == r.ttl = 0 \/ t > r.timestamp + r.ttl

(***************************************************************************)
(* The validator, and what the DHT does with it                            *)
(***************************************************************************)

\* Mutant: the first record that parses.
SelectAny(S) == S

\* Select: a record with the largest timestamp; of several, the first one.
Select(S) == {r \in S : \A s \in S : r.timestamp >= s.timestamp}

\* What a replica that holds old (none or one) keeps when it is sent r: Select is
\* called with r in front.
Accept(old, r) == IF r \in Select(old \cup {r}) THEN {r} ELSE old

\* What GetValue may return when the replicas S answer: nothing or one record.
\* Which of two equally old ones depends on who answers first.
GetValue(S) ==
    LET held == UNION {store[m] : m \in S}
    IN  IF held = {} THEN {{}} ELSE {{r} : r \in Select(held)}

\* What SearchValue may send: ever better records, of the replicas that answer.
SearchValue ==
    {E \in SUBSET UNION {store[m] : m \in Replicas} :
        \A r, s \in E : r # s => r.timestamp # s.timestamp}

(***************************************************************************)
(* Calls. stage is "get" before Register's GetValue has answered, "put" until *)
(* PutValue has stored the record locally, "send" while it goes to the        *)
(* replicas in todo. raced is a history variable: another call was under way *)
(* at some time during this one, or GetValue found replicas of one second    *)
(* that differ.                                                             *)
(***************************************************************************)
Idle == [op |-> "none", stage |-> "none", time |-> 0, rec |-> {}, todo |-> {}, raced |-> FALSE]

Active(n) == call[n] # Idle

\* Two owners wrote in the same second: which record a replica ends up with is a
\* matter of arrival.
Divided ==
    \E m, p \in Replicas : \E r \in store[m], s \in store[p] :
        r.timestamp = s.timestamp /\ r # s

Init ==
    /\ now = 1
    /\ store \in {[m \in Replicas |-> R] : R \in {{}} \cup {{r} : r \in InitialRecords}}
    /\ call = [n \in Daemons |-> Idle]
    /\ outcome = [n \in Daemons |-> "none"]
    /\ tries = [n \in Daemons |-> 0]
    /\ cache = [c \in Clients |-> {}]
    /\ calls = 0
    /\ faults = 0
    /\ lossy = FALSE

\* Daemon n is in the call c from now on; calls that overlap take note.
Enter(n, c) ==
    call' = [m \in Daemons |->
        IF m = n THEN [c EXCEPT !.raced = (\E k \in Daemons \ {n} : Active(k)) \/ Divided]
        ELSE IF Active(m) THEN [call[m] EXCEPT !.raced = TRUE]
        ELSE Idle]

\* The call returns. A registration that failed for another reason than the
\* name being taken is tried again, MaxAttempts times in all.
Return(n, err) ==
    /\ call' = [call EXCEPT ![n] = Idle]
    /\ \/ call[n].op # "Register" /\ UNCHANGED <<outcome, tries>>
       \/ /\ call[n].op = "Register" /\ ~err
          /\ outcome' = [outcome EXCEPT ![n] = "ok"]
          /\ UNCHANGED tries
       \/ /\ call[n].op = "Register" /\ err
          /\ tries' = [tries EXCEPT ![n] = @ + 1]
          /\ outcome' = [outcome EXCEPT ![n] = IF tries[n] + 1 = MaxAttempts THEN "failed" ELSE @]

\* GetValue gets an answer from the replicas S.
Heard(S) ==
    IF S = Replicas THEN UNCHANGED <<faults, lossy>>
    ELSE /\ faults < MaxFaults
         /\ faults' = faults + 1
         /\ lossy' = TRUE

Put(op, r) == [op |-> op, stage |-> "put", time |-> 0, rec |-> {r}, todo |-> {}, raced |-> FALSE]

(***************************************************************************)
(* Register: the timestamp is taken before GetValue, the expiry of what it   *)
(* returns is judged after it.                                              *)
(***************************************************************************)
RegisterBegin(n) ==
    /\ outcome[n] = "none" /\ ~Active(n)
    /\ Enter(n, [Idle EXCEPT !.op = "Register", !.stage = "get", !.time = Clock(n)])
    /\ UNCHANGED <<now, store, outcome, tries, cache, calls, faults, lossy>>

\* Mutant: a record found is taken for the own one.
TakenByNobody(n, found) == {}

TakenBy(n, found) == {r.owner : r \in {s \in found : ~Expired(s, Clock(n)) /\ s.owner # n}}

\* Mutant: that the DHT has no record is an error, as it is for Refresh.
RegisterGetNeedsRecord(n, S) ==
    /\ call[n].stage = "get"
    /\ Heard(S)
    /\ \E found \in GetValue(S) : found = {} /\ Return(n, TRUE)
    /\ UNCHANGED <<now, store, cache, calls>>

RegisterGet(n, S) ==
    /\ call[n].stage = "get"
    /\ Heard(S)
    /\ \E found \in GetValue(S) :
          \/ /\ TakenBy(n, found) = {}
             /\ LET r == [owner |-> n, addrs |-> TRUE, ttl |-> TTLOf[n], timestamp |-> call[n].time]
                IN  call' = [call EXCEPT ![n] = [Put("Register", r) EXCEPT !.raced = call[n].raced \/ Divided]]
             /\ UNCHANGED outcome
          \/ \E o \in TakenBy(n, found) :
                /\ outcome' = [outcome EXCEPT ![n] = o]
                /\ call' = [call EXCEPT ![n] = Idle]
    /\ UNCHANGED <<now, store, tries, cache, calls>>

(***************************************************************************)
(* Refresh: keeps the TTL of what GetValue returns, expired or not, and a    *)
(* deleted record gets the default. Without a record of its own the daemon    *)
(* logs an error and nothing changes.                                       *)
(***************************************************************************)
Renewed(n, r) ==
    [r EXCEPT !.addrs = TRUE, !.timestamp = Clock(n),
              !.ttl = IF r.ttl = 0 THEN DefaultTTL ELSE r.ttl]

Refresh(n, S) ==
    /\ outcome[n] # "none" /\ ~Active(n)
    /\ calls < MaxCalls /\ calls' = calls + 1
    /\ Heard(S)
    /\ \E found \in GetValue(S) : \E r \in found :
          r.owner = n /\ Enter(n, Put("Refresh", Renewed(n, r)))
    /\ UNCHANGED <<now, store, outcome, tries, cache>>

(***************************************************************************)
(* Unregister: publishes an empty record unless another owner's is found.    *)
(***************************************************************************)
Unregister(n, S) ==
    /\ outcome[n] # "none" /\ ~Active(n)
    /\ calls < MaxCalls /\ calls' = calls + 1
    /\ Heard(S)
    /\ \E found \in GetValue(S) :
          /\ \A r \in found : r.owner = n
          /\ Enter(n, Put("Unregister", [owner |-> n, addrs |-> FALSE, ttl |-> 0, timestamp |-> Clock(n)]))
    /\ UNCHANGED <<now, store, outcome, tries, cache>>

(***************************************************************************)
(* PutValue: the own replica first, which refuses what is older than it     *)
(* holds; then the others. Their errors are ignored, only a lookup that      *)
(* finds none of them fails the call.                                       *)
(***************************************************************************)
\* A replica holds a newer record than r and n's replica will not be told: the
\* others will refuse r, and PutValue will not say so. (n has restarted, and its
\* clock is behind that of the writer or its Register began before.)
Refused(n, r) ==
    \E m \in Replicas : \E s \in store[m] :
        /\ s.timestamp > r.timestamp
        /\ ~\E k \in Daemons : call[k].stage = "send" /\ call[k].rec = {s} /\ n \in call[k].todo

PutLocal(n) ==
    /\ call[n].stage = "put"
    /\ \E r \in call[n].rec :
          \/ /\ Accept(store[n], r) = {r}
             /\ store' = [store EXCEPT ![n] = {r}]
             /\ call' = [call EXCEPT ![n].stage = "send", ![n].todo = Replicas \ {n}]
             /\ lossy' = (lossy \/ Refused(n, r))
             /\ UNCHANGED <<outcome, tries>>
          \/ /\ Accept(store[n], r) # {r}
             /\ Return(n, TRUE)
             /\ UNCHANGED <<store, lossy>>
    /\ UNCHANGED <<now, cache, calls, faults>>

Deliver(n, m) ==
    /\ call[n].stage = "send" /\ m \in call[n].todo
    /\ \E r \in call[n].rec : store' = [store EXCEPT ![m] = Accept(@, r)]
    /\ call' = [call EXCEPT ![n].todo = @ \ {m}]
    /\ UNCHANGED <<now, outcome, tries, cache, calls, faults, lossy>>

LoseDelivery(n, m) ==
    /\ call[n].stage = "send" /\ m \in call[n].todo
    /\ faults < MaxFaults
    /\ call' = [call EXCEPT ![n].todo = @ \ {m}]
    /\ faults' = faults + 1
    /\ lossy' = TRUE
    /\ UNCHANGED <<now, store, outcome, tries, cache, calls>>

PutFails(n) ==
    /\ call[n].stage = "send" /\ call[n].todo = Replicas \ {n}
    /\ faults < MaxFaults
    /\ Return(n, TRUE)
    /\ faults' = faults + 1
    /\ lossy' = TRUE
    /\ UNCHANGED <<now, store, cache, calls>>

PutReturns(n) ==
    /\ call[n].stage = "send" /\ call[n].todo = {}
    /\ Return(n, FALSE)
    /\ UNCHANGED <<now, store, cache, calls, faults, lossy>>

(***************************************************************************)
(* Resolve. While CacheHit holds it returns the entry's addresses; otherwise *)
(* it looks the name up (CacheBypassKey is for tests). took is how long that *)
(* takes: expiry is judged with the time before the first answer, the cache  *)
(* entry counts from the last. A record whose owner's key cannot be had is   *)
(* skipped, which is the same as not hearing of it.                         *)
(***************************************************************************)
CacheHit(e, t) == t < e.expiry

CacheTTL(ttl) == IF ttl > Minute THEN ttl - Minute ELSE ttl

Resolve(c, took) ==
    /\ took < now
    /\ \A e \in cache[c] : ~CacheHit(e, Clock(c) - took)
    /\ \E E \in SearchValue : \E r \in Select({s \in E : ~Expired(s, Clock(c) - took)}) :
          /\ r.addrs
          /\ cache' = [cache EXCEPT ![c] = {[rec |-> r, expiry |-> Clock(c) + CacheTTL(r.ttl)]}]
    /\ UNCHANGED <<now, store, call, outcome, tries, calls, faults, lossy>>

(***************************************************************************)
(* The surroundings: time, a lookup that corrects a replica, a process that  *)
(* ends and starts again with nothing stored.                               *)
(***************************************************************************)
Tick ==
    /\ now < MaxTime
    /\ now' = now + 1
    /\ UNCHANGED <<store, call, outcome, tries, cache, calls, faults, lossy>>

Correct(p, m) ==
    /\ \E r \in store[p] : r \notin store[m] /\ store' = [store EXCEPT ![m] = Accept(@, r)]
    /\ UNCHANGED <<now, call, outcome, tries, cache, calls, faults, lossy>>

\* Something is lost if a put is being distributed, or if no other replica holds
\* the record.
Restart(m) ==
    /\ faults < MaxFaults
    /\ faults' = faults + 1
    /\ store' = [store EXCEPT ![m] = {}]
    /\ lossy' = (\/ lossy
                 \/ \E n \in Daemons : call[n].stage = "send"
                 \/ \E r \in store[m] : \A p \in Replicas \ {m} : r \notin store[p])
    /\ call' = [n \in Daemons |-> IF n = m THEN Idle ELSE call[n]]
    /\ outcome' = [n \in Daemons |-> IF n = m THEN "none" ELSE outcome[n]]
    /\ tries' = [n \in Daemons |-> IF n = m THEN 0 ELSE tries[n]]
    /\ UNCHANGED <<now, cache, calls>>

Next ==
    \/ \E n \in Daemons :
          \/ RegisterBegin(n)
          \/ \E S \in SUBSET Replicas : RegisterGet(n, S) \/ Refresh(n, S) \/ Unregister(n, S)
          \/ PutLocal(n) \/ PutFails(n) \/ PutReturns(n)
          \/ \E m \in Replicas : Deliver(n, m) \/ LoseDelivery(n, m)
    \/ \E c \in Clients, took \in 0..MaxLookup : Resolve(c, took)
    \/ Tick
    \/ \E m, p \in Replicas : Correct(m, p)
    \/ \E m \in Replicas : Restart(m)

Spec == Init /\ [][Next]_vars

(***************************************************************************)
(* Properties                                                              *)
(***************************************************************************)

Calls ==
    [op : {"none", "Register", "Refresh", "Unregister"}, stage : {"none", "get", "put", "send"},
     time : Nat, rec : SUBSET Record, todo : SUBSET Replicas, raced : BOOLEAN]

Entries == [rec : Record, expiry : Nat]

\* Register's comment: if the name is taken by another node, an error is
\* returned. A replica gives up the record of an owner, while the new owner's
\* clock still calls it live, only for a call that raced with another, because
\* both were written in the same second, or after a message was lost: two calls
\* one after the other never take a live name over, whatever the clocks, the
\* restarts and the retries.
TakenOverOnlyByRaces ==
    [][\A m \in Replicas : \A r \in store[m], s \in store'[m] :
          r.owner # s.owner /\ s.owner \in Daemons /\ ~Expired(r, Clock(s.owner))
          => \/ lossy'
             \/ r.timestamp = s.timestamp
             \/ Active(s.owner) /\ call[s.owner].raced]_vars

\* Select prefers the newer record everywhere: when no call is under way and
\* nothing was lost, the replicas that hold the name hold records of the same
\* second. (Not the same record: two calls in one second leave each replica with
\* the one that came last.)
ReplicasAgree ==
    ~lossy /\ (\A n \in Daemons : ~Active(n)) =>
        \A m, p \in Replicas : \A r \in store[m], s \in store[p] : r.timestamp = s.timestamp

\* The registration loop takes "already registered by another peer" for an answer
\* and never registers again; only Refresh can keep the name alive then, and only
\* for the owner of the record. Daemons that race, fail, retry and restart do not
\* all give up in each other's favour: unless something was lost, one of them is
\* still trying, has registered, was refused because of an owner that has left, or
\* owns a record in the DHT that it will refresh.
SomeoneHolds ==
    ~lossy => \E n \in Daemons :
        \/ outcome[n] \in {"none", "ok", Departed}
        \/ \E m \in Replicas : \E r \in store[m] : r.owner = n

\* Resolve's comment: the result is cached for no longer than the record's TTL.
\* The cache counts from the lookup and not from the record's timestamp, so what
\* it returns may be expired: but the record is never older than twice its TTL
\* and the time that a lookup takes.
AnswerAge ==
    \A c \in Clients : \A e \in cache[c] :
        CacheHit(e, Clock(c)) => Clock(c) <= e.rec.timestamp + 2 * e.rec.ttl + MaxLookup
===============================================================================
