---------------------------- MODULE MCRateLimiter ----------------------------
(* An instance of RateLimiter in which both limits bind and evictions happen. *)
EXTENDS RateLimiter, TLC

CONSTANTS k1, k2

KeySymmetry == Permutations(Keys)
=============================================================================
