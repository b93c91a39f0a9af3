----------------------------- MODULE MCPeerSync -----------------------------
(***************************************************************************)
(* Instance of PeerSync: one peer, one group and an article that does not  *)
(* come from the peer.                                                     *)
(***************************************************************************)
EXTENDS PeerSync

CONSTANTS peer1, g, a, cert1, cert2

NoPath == [x \in Articles |-> {}]

Plain(rules, c) == [peers |-> rules, cert |-> c]
OneRule(rule)   == Plain([x \in Peers |-> rule], cert1)

\* peer1 exchanges g, or there is nobody and another certificate.
OnlyG  == OneRule({g})
Nobody == Plain([x \in Peers |-> Absent], cert2)
Leaves == {OnlyG, Nobody}
=============================================================================
