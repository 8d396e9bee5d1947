-------------------------- MODULE MCWsConnections --------------------------
(* Three sockets of one IP and session on two replicas, two of them on the *)
(* same one.                                                               *)
EXTENDS WsConnections, TLC

CONSTANTS s1, s2, s3, n1, n2, x1

MCSockets  == {s1, s2, s3}
MCNodes    == {n1, n2}
MCHome     == (s1 :> n1) @@ (s2 :> n2) @@ (s3 :> n2)
MCSessions == {x1}
MCSessionOf == [s \in MCSockets |-> x1]
MCSymmetry == Permutations({s2, s3})
============================================================================
