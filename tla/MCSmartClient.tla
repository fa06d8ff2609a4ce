---------------------------- MODULE MCSmartClient -----------------------------
(***************************************************************************)
(* Two calls, concurrent or one after the other.  Of three peers p is in   *)
(* the preferred region, r is announced but has no address, and q is only  *)
(* connected.  Each call has a target that some of p and q can reach, which *)
(* changes once for one of them, or one caller gives up.                    *)
(***************************************************************************)
EXTENDS SmartClient, TLC

CONSTANTS c1, c2, p, q, r

(* The loops of insertionSort_func.  Inner: the slice when the loop over j *)
(* has started from i and has come down to j.                              *)
InsertionSort(s, score) ==
    LET Swapped(t, j) == [t EXCEPT ![j] = t[j - 1], ![j - 1] = t[j]]
        Less(j) == score[j] < score[j - 1]
        Inner(t, i) ==
            LET from[j \in 1..i] ==
                    IF j = i THEN t
                    ELSE IF \A k \in (j + 1)..i : Less(k) THEN Swapped(from[j + 1], j + 1)
                    ELSE from[j + 1]
            IN  from[1]
        outer[i \in 0..Len(s)] == IF i = 0 THEN s ELSE Inner(outer[i - 1], i)
    IN  outer[Len(s)]

ASSUME SortReversesRuns ==
    \A n \in 0..5 : \A score \in [1..n -> 1..3] :
        SliceStable([i \in 1..n |-> i], score) = InsertionSort([i \in 1..n |-> i], score)

EitherCall == Permutations({c1, c2})
===============================================================================
