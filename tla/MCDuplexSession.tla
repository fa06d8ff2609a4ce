--------------------------- MODULE MCDuplexSession ----------------------------
(***************************************************************************)
(* Every adapter at both ends of one connection, with one Write at each end *)
(* (empty, one that fits a frame, one that does not) and one dummy frame.   *)
(* PaddingConn writes twice, so that something follows the Write that goes  *)
(* out without a frame.                                                     *)
(***************************************************************************)
EXTENDS DuplexSession

WritesOf == [a \in Adapters |-> IF a = "padding" THEN 2 ELSE 1]
===============================================================================
