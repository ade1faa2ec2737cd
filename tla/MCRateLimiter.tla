---------------------------- MODULE MCRateLimiter ---------------------------
(* A small instance of RateLimiter for TLC.                                  *)
EXTENDS RateLimiter, TLC

CONSTANTS k1, k2, k3    \* keys
CONSTANTS g1, g2        \* goroutines

Symmetry == Permutations({k1, k2, k3}) \cup Permutations({g1, g2})
=============================================================================
