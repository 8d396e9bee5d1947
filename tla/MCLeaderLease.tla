--------------------------- MODULE MCLeaderLease ---------------------------
(* Two replicas, a lease of two ticks.                                     *)
EXTENDS LeaderLease

CONSTANTS r1, r2

MCReplicas == {r1, r2}
============================================================================
