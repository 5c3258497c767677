-------------------------- MODULE MCPoolDiscovery --------------------------
(* Two pools of one pair, on two markets, and one pool of another pair.    *)
EXTENDS PoolDiscovery

CONSTANTS p1, p2, p3

PairsOfPools == p1 :> "ab" @@ p2 :> "ab" @@ p3 :> "cd"

=============================================================================
