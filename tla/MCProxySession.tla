---------------------------- MODULE MCProxySession ----------------------------
(***************************************************************************)
(* A session whose handler and quality loop compete for a channel of one   *)
(* operation, with shutdown, one failed transaction, one crash or panic,   *)
(* and the process that follows.                                           *)
(***************************************************************************)
EXTENDS ProxySession
===============================================================================
