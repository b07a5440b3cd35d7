--------------------------- MODULE MCRateLimiter ---------------------------
(* Two callers, a window of two seconds, two ticks to a second.                 *)
EXTENDS RateLimiter, TLC

CONSTANTS c1, c2

CallerSymmetry == Permutations({c1, c2})
=============================================================================
