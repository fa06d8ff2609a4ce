---------------------------- MODULE MCLocalProxy ------------------------------
(***************************************************************************)
(* All six servers; two messages each way, so that one can be in the HTTP  *)
(* reader and one behind it; one error of Accept.                          *)
(***************************************************************************)
EXTENDS LocalProxy
===============================================================================
