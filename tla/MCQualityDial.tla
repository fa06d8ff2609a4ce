---------------------------- MODULE MCQualityDial -----------------------------
(***************************************************************************)
(* Two calls, one after the other or at the same time, of any of the three *)
(* methods and under every policy; three orders, so that a fallback has    *)
(* two retries; a dial is fast or slow.                                    *)
(***************************************************************************)
EXTENDS QualityDial, TLC

CONSTANTS c1, c2

EitherCall == Permutations({c1, c2})
===============================================================================
