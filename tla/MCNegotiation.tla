---------------------------- MODULE MCNegotiation -----------------------------
(***************************************************************************)
(* Two goroutines dial through one client, one of them with a retry.  The  *)
(* names 1, 2, 3 are vless, vmess and plain.  One node configuration       *)
(* prefers plain to vless, the other has vmess only, which every retry     *)
(* leaves out.                                                             *)
(***************************************************************************)
EXTENDS Negotiation, TLC

CONSTANTS h1, c1, d1, d2

OneHost == [c \in Clients |-> h1]

Shared == d1 :> c1 @@ d2 :> c1

OneRetry == d1 :> 2 @@ d2 :> 1

VlessVmessPlain == <<1, 2, 3>>
Configs == {<<3, 1>>, <<2>>}
===============================================================================
