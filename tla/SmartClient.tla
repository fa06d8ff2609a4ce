----------------------------- MODULE SmartClient ------------------------------
(***************************************************************************)
(* The DHT-aware client (hypernet/services/proxy/smartclient): goroutines   *)
(* call DialTCPViaProtocol of one SmartClient for one protocol; every       *)
(* protocol has a cache entry of its own, so one is enough.  A call takes   *)
(* its providers from the cache or from the DHT, orders them by what is     *)
(* known of them and dials one after the other; after a cached list has     *)
(* failed it asks the DHT once more.  Only the sections under mu are        *)
(* atomic: the cache and the statistics change while a call looks up and    *)
(* dials.                                                                  *)
(*                                                                         *)
(* The DHT, the nodes and the targets are the environment.  A lookup        *)
(* answers with some of the announced peers, in any order, or fails.  A     *)
(* dial through a peer succeeds, within LatencyThreshold, if the peer       *)
(* answers and the target of this call answers the peer; otherwise all      *)
(* attempts of DialTCPWithFallback fail (Negotiation, ProxyStream), so a    *)
(* healthy peer fails the calls to a dead target and serves the others at   *)
(* the same time.  Once its context is cancelled a dial may fail at any     *)
(* peer.  NewProxyClient parses the address that buildMultiaddr has just    *)
(* put together and cannot fail on it.                                      *)
(***************************************************************************)
EXTENDS Integers, Sequences, FiniteSets

CONSTANTS
    Calls,          \* calls of DialTCPViaProtocol
    Peers,          \* nodes
    Announced,      \* those with a provider record for the protocol
    Regional,       \* those with a record for the protocol and PreferredRegion
    Connected,      \* those the host may be connected to
    NoAddr,         \* those whose address list is empty
    PreferredRegion,\* whether the field is set
    MaxProviders,   \* bound on the answer of a lookup
    TTL,            \* ProviderCacheTTL
    FailureWindow,  \* how long a failure counts twice (30 minutes)
    Latencies,      \* measured latencies in milliseconds
    MaxLookup,      \* how long a lookup may take
    MaxTime,        \* bound on the time of a behaviour
    MaxChanges      \* bound on the changes of reach and the cancelled calls together

ASSUME SmartAssumptions ==
    /\ Regional \subseteq Announced /\ Announced \subseteq Peers
    /\ Connected \subseteq Peers /\ NoAddr \subseteq Peers /\ PreferredRegion \in BOOLEAN
    /\ MaxProviders \in Nat \ {0} /\ TTL \in Nat \ {0} /\ FailureWindow \in Nat
    /\ Latencies \subseteq Nat /\ MaxLookup \in Nat /\ MaxTime \in Nat
    /\ MaxChanges \in Nat

VARIABLES
    now,        \* the time
    reach,      \* the peers through which the target of a call can be reached
    changes,    \* how often that has changed or a caller has given up
    cache,      \* providerCache: no entry or one
    stats,      \* peerStats
    pc,         \* where a call is
    list,       \* its providers
    pos,        \* the index of the one to try
    asked,      \* when the lookup it waits for began
    age,        \* history: how long before it got its list that was asked for
    fromCache,  \* the flag of the code
    cancelled,  \* the calls whose context is cancelled
    dialled,    \* history: how often a call has dialled a peer
    failing,    \* history: the peers through which it could not, during a call
    given,      \* history: all peers of the lists that a call has got
    lookups     \* history: how often a call has asked the DHT

callVars == <<pc, list, pos, asked, age, fromCache>>
history == <<dialled, failing, given, lookups>>
vars == <<now, reach, changes, cache, stats, callVars, cancelled, history>>

Ends == {"ok", "exhausted", "lookupFailed", "noProviders"}
Looking == {"region", "global"}

Entry == [providers : Seq(Peers), fetchedAt : Nat, asked : Nat]

(* Sequences without repetition over the elements of S.                     *)
Lists(S) == {s \in UNION {[1..n -> S] : n \in 0..Cardinality(S)} :
                \A i, j \in DOMAIN s : i # j => s[i] # s[j]}
Elements(s) == {s[i] : i \in DOMAIN s}

Running(c) == pc[c] \notin {"idle"} \cup Ends

Init ==
    /\ now = 0 /\ reach \in [Calls -> SUBSET (Peers \ NoAddr)] /\ changes = 0
    /\ cache = {}
    /\ stats = [p \in Peers |-> [latency |-> 0, failures |-> 0, lastFailure |-> 0]]
    /\ pc = [c \in Calls |-> "idle"] /\ list = [c \in Calls |-> <<>>]
    /\ pos = [c \in Calls |-> 1]
    /\ asked = [c \in Calls |-> 0] /\ age = [c \in Calls |-> 0] /\ fromCache = [c \in Calls |-> FALSE]
    /\ cancelled = {}
    /\ dialled = [c \in Calls |-> [p \in Peers |-> 0]] /\ failing = [c \in Calls |-> {}]
    /\ given = [c \in Calls |-> {}] /\ lookups = [c \in Calls |-> 0]

-----------------------------------------------------------------------------
(* fetchProviders.                                                         *)

(* A lookup begins: in the region, if one is preferred.                    *)
Fetch(c) ==
    /\ pc' = [pc EXCEPT ![c] = IF PreferredRegion THEN "region" ELSE "global"]
    /\ asked' = [asked EXCEPT ![c] = now]
    /\ lookups' = [lookups EXCEPT ![c] = @ + 1]

(* What the DHT finds among the peers of S; a cancelled lookup is cut off  *)
(* and says nothing of it.                                                 *)
Answers(S) == {s \in Lists(S) : Len(s) <= MaxProviders}

(* What a call that has got its list does next: a first list is ordered, a *)
(* list that was fetched after a cached one failed is tried as it is.      *)
AfterFetch(c) == IF fromCache[c] THEN "try" ELSE "order"

(* The list is kept, with the time at which it is there and not at which   *)
(* it was asked for.                                                       *)
Store(s, t) ==
    cache' = {[providers |-> s, fetchedAt |-> now, asked |-> t]}

(* Both lookups end here; from now on the list is one the call asked for.  *)
Fetched(c, s) ==
    /\ Store(s, asked[c])
    /\ pc' = [pc EXCEPT ![c] = AfterFetch(c)]
    /\ list' = [list EXCEPT ![c] = s] /\ pos' = [pos EXCEPT ![c] = 1]
    /\ age' = [age EXCEPT ![c] = now - asked[c]] /\ asked' = [asked EXCEPT ![c] = 0]
    /\ fromCache' = [fromCache EXCEPT ![c] = FALSE]
    /\ given' = [given EXCEPT ![c] = @ \cup Elements(s)]
    /\ UNCHANGED <<now, reach, changes, stats, cancelled, dialled, failing, lookups>>

(* FindRegionProtocolProviders has answered; nobody in the region means    *)
(* that the call looks everywhere.                                         *)
RegionFound(c) ==
    /\ pc[c] = "region"
    /\ \E s \in Answers(Regional) \ {<<>>} : Fetched(c, s)

RegionEmpty(c) ==
    /\ pc[c] = "region"
    /\ pc' = [pc EXCEPT ![c] = "global"]
    /\ UNCHANGED <<now, reach, changes, cache, stats, list, pos, asked, age, fromCache,
                   cancelled, history>>

(* FindProtocolProviders has answered.                                     *)
GlobalFound(c) ==
    /\ pc[c] = "global"
    /\ \E s \in Answers(Announced) \ {<<>>} : Fetched(c, s)

(* It has found nobody: the peers that the host is connected to and has an *)
(* address of are candidates, all of them.                                 *)
UseConnected(c) ==
    /\ pc[c] = "global"
    /\ \E s \in Lists(Connected \ NoAddr) \ {<<>>} : Fetched(c, s)

(* How a call ends that gets no list: with an error that says so, or, if a *)
(* cached list has failed before, with the error of the last dial of that. *)
Listless(c, error) ==
    /\ pc' = [pc EXCEPT ![c] = IF fromCache[c] THEN "exhausted" ELSE error]
    /\ UNCHANGED <<now, reach, changes, cache, stats, list, pos, asked, age, fromCache,
                   cancelled, history>>

(* Nobody is connected either.                                             *)
NoProviders(c) == pc[c] = "global" /\ Listless(c, "noProviders")

(* Either lookup returns an error, the first of them without a second try. *)
LookupFails(c) == pc[c] \in Looking /\ Listless(c, "lookupFailed")

-----------------------------------------------------------------------------
(* orderProviders.                                                         *)

Score(p) ==
    100 + stats[p].latency
        + stats[p].failures * 50 * (IF now - stats[p].lastFailure < FailureWindow THEN 2 ELSE 1)

(* sort.SliceStable is an insertion sort up to 20 elements: the element at *)
(* i goes to the left as long as Less(j, j - 1), and Less compares the     *)
(* scores that the positions j and j - 1 had before the sort.  So it goes  *)
(* to the start of the strictly descending run of scores around i, and     *)
(* what the sort does is reverse each of these runs where it stands;       *)
(* MCSmartClient checks this against the loop.                             *)
Descending(score, a, b) == \A i \in (a + 1)..b : score[i] < score[i - 1]

RunStart(score, j) ==
    CHOOSE a \in 1..j : Descending(score, a, j) /\ (a > 1 => ~Descending(score, a - 1, a))

RunEnd(score, j) ==
    CHOOSE b \in j..Len(score) :
        Descending(score, j, b) /\ (b < Len(score) => ~Descending(score, b, b + 1))

SliceStable(s, score) ==
    [j \in 1..Len(s) |-> s[RunStart(score, j) + RunEnd(score, j) - j]]

orderProviders(s) == SliceStable(s, [i \in 1..Len(s) |-> Score(s[i])])

-----------------------------------------------------------------------------
(* DialTCPViaProtocol.                                                     *)

(* Mutant of Fresh: an entry never gets too old.                           *)
FreshForever(e) == e.providers # <<>>

Fresh(e) == e.providers # <<>> /\ now - e.fetchedAt <= TTL

(* getCachedProviders finds an entry.                                      *)
BeginCached(c) ==
    /\ pc[c] = "idle"
    /\ \E e \in cache :
          /\ Fresh(e)
          /\ list' = [list EXCEPT ![c] = e.providers]
          /\ age' = [age EXCEPT ![c] = now - e.asked]
    /\ fromCache' = [fromCache EXCEPT ![c] = TRUE]
    /\ pc' = [pc EXCEPT ![c] = "order"]
    /\ failing' = [failing EXCEPT ![c] = Peers \ reach[c]]
    /\ given' = [given EXCEPT ![c] = Elements(list'[c])]
    /\ UNCHANGED <<now, reach, changes, cache, stats, pos, asked, cancelled, dialled, lookups>>

(* It finds none, or an old one.                                           *)
BeginFetch(c) ==
    /\ pc[c] = "idle" /\ \A e \in cache : ~Fresh(e)
    /\ Fetch(c)
    /\ failing' = [failing EXCEPT ![c] = Peers \ reach[c]]
    /\ UNCHANGED <<now, reach, changes, cache, stats, list, pos, age, fromCache,
                   cancelled, dialled, given>>

Order(c) ==
    /\ pc[c] = "order"
    /\ pc' = [pc EXCEPT ![c] = "try"]
    /\ list' = [list EXCEPT ![c] = orderProviders(list[c])]
    /\ UNCHANGED <<now, reach, changes, cache, stats, pos, asked, age, fromCache,
                   cancelled, history>>

(* recordSuccess; lastSuccess is never read.                               *)
recordSuccess(p, lat) == stats' = [stats EXCEPT ![p].latency = lat]

(* recordFailure; nothing ever lowers the count.                           *)
recordFailure(p) ==
    stats' = [stats EXCEPT ![p].failures = @ + 1, ![p].lastFailure = now]

Dials(c, p) ==
    /\ pc[c] = "try" /\ pos[c] <= Len(list[c]) /\ p = list[c][pos[c]] /\ p \notin NoAddr
    /\ dialled' = [dialled EXCEPT ![c][p] = @ + 1]

DialOk(c, p) ==
    /\ Dials(c, p) /\ p \in reach[c]
    /\ \E lat \in Latencies : recordSuccess(p, lat)
    /\ pc' = [pc EXCEPT ![c] = "ok"]
    /\ UNCHANGED <<now, reach, changes, cache, list, pos, asked, age, fromCache,
                   cancelled, failing, given, lookups>>

DialFails(c, p) ==
    /\ Dials(c, p) /\ (p \notin reach[c] \/ c \in cancelled)
    /\ recordFailure(p)
    /\ pos' = [pos EXCEPT ![c] = @ + 1]
    /\ UNCHANGED <<now, reach, changes, cache, pc, list, asked, age, fromCache,
                   cancelled, failing, given, lookups>>

(* Mutant of NoAddress: the peer is blamed for it.                         *)
NoAddressBlamed(c) ==
    /\ pc[c] = "try" /\ pos[c] <= Len(list[c]) /\ list[c][pos[c]] \in NoAddr
    /\ recordFailure(list[c][pos[c]])
    /\ pos' = [pos EXCEPT ![c] = @ + 1]
    /\ UNCHANGED <<now, reach, changes, cache, pc, list, asked, age, fromCache,
                   cancelled, history>>

(* buildMultiaddr fails: the peer is passed over.                          *)
NoAddress(c) ==
    /\ pc[c] = "try" /\ pos[c] <= Len(list[c]) /\ list[c][pos[c]] \in NoAddr
    /\ pos' = [pos EXCEPT ![c] = @ + 1]
    /\ UNCHANGED <<now, reach, changes, cache, stats, pc, list, asked, age, fromCache,
                   cancelled, history>>

(* Mutant of Exhausted: an error after a cached list as well.              *)
ExhaustedAnyList(c) ==
    /\ pc[c] = "try" /\ pos[c] > Len(list[c])
    /\ pc' = [pc EXCEPT ![c] = "exhausted"]
    /\ UNCHANGED <<now, reach, changes, cache, stats, list, pos, asked, age, fromCache,
                   cancelled, history>>

(* All of the list failed.  After a list that the call has looked up that  *)
(* is the end.                                                             *)
Exhausted(c) ==
    /\ pc[c] = "try" /\ pos[c] > Len(list[c]) /\ ~fromCache[c]
    /\ pc' = [pc EXCEPT ![c] = "exhausted"]
    /\ UNCHANGED <<now, reach, changes, cache, stats, list, pos, asked, age, fromCache,
                   cancelled, history>>

(* After a cached one the DHT is asked once more.                          *)
Refetch(c) ==
    /\ pc[c] = "try" /\ pos[c] > Len(list[c]) /\ fromCache[c]
    /\ Fetch(c)
    /\ UNCHANGED <<now, reach, changes, cache, stats, list, pos, age, fromCache,
                   cancelled, dialled, failing, given>>

-----------------------------------------------------------------------------
(* The environment.                                                        *)

(* Time passes; a lookup takes no longer than its context allows.          *)
Tick ==
    /\ now < MaxTime
    /\ \A c \in Calls : pc[c] \in Looking => now - asked[c] < MaxLookup
    /\ now' = now + 1
    /\ UNCHANGED <<reach, changes, cache, stats, callVars, cancelled, history>>

(* A peer starts or stops answering, or the target of a call does for it.  *)
(* Until a call begins that is another first value of reach.               *)
Change(c, p) ==
    /\ changes < MaxChanges /\ changes' = changes + 1 /\ Running(c)
    /\ reach' = [reach EXCEPT ![c] = IF p \in @ THEN @ \ {p} ELSE @ \cup {p}]
    /\ failing' = [failing EXCEPT ![c] = @ \cup (Peers \ reach'[c])]
    /\ UNCHANGED <<now, cache, stats, callVars, cancelled, dialled, given, lookups>>

Cancel(c) ==
    /\ changes < MaxChanges /\ changes' = changes + 1 /\ Running(c) /\ c \notin cancelled
    /\ cancelled' = cancelled \cup {c}
    /\ UNCHANGED <<now, reach, cache, stats, callVars, history>>

CallStep(c) ==
    \/ RegionFound(c) \/ RegionEmpty(c) \/ GlobalFound(c) \/ UseConnected(c)
    \/ NoProviders(c) \/ LookupFails(c) \/ Order(c)
    \/ (\E p \in Peers : DialOk(c, p) \/ DialFails(c, p))
    \/ NoAddress(c) \/ Exhausted(c) \/ Refetch(c)

Next ==
    \/ \E c \in Calls : BeginCached(c) \/ BeginFetch(c) \/ CallStep(c) \/ Cancel(c)
    \/ \E c \in Calls, p \in Peers \ NoAddr : Change(c, p)
    \/ Tick

Spec == Init /\ [][Next]_vars

-----------------------------------------------------------------------------
(* A call that ends with the error of a dial has not failed because of     *)
(* what the cache remembered: it has asked the DHT itself, once.  And it    *)
(* has passed over nobody: each peer of each list that it has got has no    *)
(* address, or was one through which the target could not be reached at     *)
(* some moment of this call, or the caller had cancelled.                   *)
FailureExplained ==
    \A c \in Calls : pc[c] = "exhausted" =>
        /\ lookups[c] = 1 /\ given[c] # {}
        /\ c \in cancelled \/ given[c] \subseteq failing[c] \cup NoAddr

(* A list from the cache was asked for at most TTL before it is used, plus *)
(* the time that lookup took: also when a slower lookup that began earlier *)
(* has replaced a newer list and made the entry look fresh.                *)
ListAge ==
    \A c \in Calls : age[c] <= MaxLookup + (IF fromCache[c] THEN TTL ELSE 0)

(* The dials of a peer by a call that have failed, and those of all calls, *)
(* as pairs of a call and a number.                                        *)
Reached(c, p) == IF pc[c] = "ok" /\ list[c][pos[c]] = p THEN 1 ELSE 0
FailedDials(c, p) == dialled[c][p] - Reached(c, p)
AllFailedDials(p) == UNION {{c} \X (1..FailedDials(c, p)) : c \in Calls}

(* The failures counted for a peer are exactly the dials of it that have   *)
(* failed, whatever the calls did meanwhile, and one call adds at most two, *)
(* one from a cached list and one from the list it asked for after that.    *)
(* Nothing better is true: a call to a dead target blames every healthy     *)
(* peer that it is given, and no later success takes that back.             *)
BlameExact ==
    \A p \in Peers :
        /\ stats[p].failures = Cardinality(AllFailedDials(p))
        /\ \A c \in Calls : FailedDials(c, p) <= 2

-----------------------------------------------------------------------------
(* What the comment on orderProviders says: peers with fewer failures and  *)
(* a smaller latency come first.  The comparison looks its scores up by    *)
(* position while the sort moves the elements, which is right for lists of *)
(* two and wrong for three.                                                *)
OrderFollowsScores ==
    [][\A c \in Calls : pc[c] = "order" /\ pc'[c] = "try" =>
          \A i, j \in DOMAIN list'[c] : i < j => Score(list'[c][i]) <= Score(list'[c][j])]_vars
==============================================================================
