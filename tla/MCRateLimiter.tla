---------------------------- MODULE MCRateLimiter ----------------------------
(* Small instances of RateLimiter for TLC. *)
EXTENDS RateLimiter, TLC

CONSTANTS a1, a2, g1, g2

TwoAddrs == {a1, a2}
TwoCallers == {g1, g2}

\* Addresses are interchangeable, and so are callers.
Symmetry == Permutations(TwoAddrs) \cup Permutations(TwoCallers)
=============================================================================
