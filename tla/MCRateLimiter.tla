--------------------------- MODULE MCRateLimiter ---------------------------
(* A small instance of RateLimiter for TLC, with the layers around it. *)
EXTENDS RateLimiter, RequestPipeline, TLC

UserSymmetry == Permutations(Users)
=============================================================================
