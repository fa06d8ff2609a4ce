---------------------------- MODULE MCNameSystem ----------------------------
(***************************************************************************)
(* Two daemons want the name; a third replica only stores. The clock of b    *)
(* is one second ahead, that of the client two, so that records expire for   *)
(* them early. The DHT is empty, holds a record that is about to expire, or a *)
(* deleted one. b's TTL is above the cache's margin, a's is not.              *)
(***************************************************************************)
EXTENDS NameSystem

Old == {[owner |-> "z", addrs |-> TRUE, ttl |-> 1, timestamp |-> 0],
        [owner |-> "z", addrs |-> FALSE, ttl |-> 0, timestamp |-> 0]}

TTLs == [n \in Daemons |-> IF n = "a" THEN 1 ELSE 2]

Ahead == [p \in Replicas \cup Clients |-> IF p = "b" THEN 1 ELSE IF p = "c" THEN 2 ELSE 0]
=============================================================================
