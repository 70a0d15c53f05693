---------------------------- MODULE MCRateLimiter ----------------------------
(* Instance of RateLimiter for TLC: four ticks to a millisecond, two seconds to *)
(* a window.                                                                    *)
EXTENDS RateLimiter, TLC

MCTimes == {0, 3999, 8000, 12000}
MCOffsets == {-2001, 0}

Symmetry == Permutations(Req)
=============================================================================
