--------------------------- MODULE MCRateLimiter ---------------------------
(* Instances of RateLimiter for TLC. *)
EXTENDS RateLimiter, TLC

\* Clients never differ but in name.
Interchangeable == Permutations(Clients)

=============================================================================
