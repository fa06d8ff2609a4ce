----------------------------- MODULE MCProxyStream -----------------------------
(***************************************************************************)
(* Every pair of protocols that negotiation can leave the two ends with,   *)
(* equal, different and missing tokens, and obfuscation that is off, on,   *)
(* limited, switched off by the node, inverted in the client's             *)
(* configuration, or above the client's maximum at the node.               *)
(***************************************************************************)
EXTENDS ProxyStream

P(pmin, pmax, dmin, dmax) == [pmin |-> pmin, pmax |-> pmax, dmin |-> dmin, dmax |-> dmax]

Off == P(0, 0, 0, 0)

ObfsPairs == {<<Off, Off>>, <<P(1, 3, 0, 1), P(1, 2, 0, 1)>>, <<P(1, 2, 0, 0), Off>>,
              <<P(2, 1, 0, 0), P(1, 2, 0, 0)>>, <<P(0, 1, 0, 0), P(2, 3, 0, 0)>>,
              <<P(0, 0, 0, 1), P(0, 0, 0, 1)>>, <<Off, P(1, 2, 0, 0)>>}

Tokens == {<<"key", "key">>, <<"Text", "Text">>, <<"key", "Text">>, <<"", "key">>, <<"key", "">>, <<"", "">>}

\* An end that has no use for its token has none; DialTCPDirect does not look at
\* the client's protocol.
Relevant(s) == /\ s.mode = "plain" => s.ctok = NoToken
               /\ s.snap \in {"plain", "hysteria2"} => s.stok = NoToken
               /\ s.kind = "DIRECT" => s.mode = "plain"

AllSetups ==
    {s \in {[kind |-> k, mode |-> m, snap |-> p, ctok |-> t[1], stok |-> t[2],
             cobfs |-> o[1], sobfs |-> o[2]] :
               k \in {"TCP", "DIRECT", "UDP"}, m \in Protocols, p \in Protocols,
               t \in Tokens, o \in ObfsPairs} : Relevant(s)}
===============================================================================
