-------------------------- MODULE MCResourceClaims --------------------------
(* A small instance of ResourceClaims: two agents, one of them with a junk *)
(* TTL in its environment.                                                 *)
EXTENDS ResourceClaims, TLC

CONSTANTS a1, a2, r1

MCAgents == {a1, a2}
MCResources == {r1}
MCEnvTtl == a1 :> 0 @@ a2 :> 2
=============================================================================
