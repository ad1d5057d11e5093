--------------------------- MODULE MCRateLimiter ----------------------------
(* Instances of RateLimiter for TLC.                                       *)
EXTENDS RateLimiter, TLC

\* Clients are interchangeable.
ClientSymmetry == Permutations(Clients)
=============================================================================
