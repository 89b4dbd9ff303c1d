--------------------------- MODULE MCRateLimiter ---------------------------
(***************************************************************************)
(* Small instances of the rate limiter: requests of one address, with one  *)
(* API key or with two.                                                    *)
(***************************************************************************)
EXTENDS RateLimiter, TLC

CONSTANTS r1, r2, r3, home, k1, k2

ThreeRequests == {r1, r2, r3}
AtHome  == [r \in Requests |-> home]
OneKey  == [r \in Requests |-> k1]
TwoKeys == [r \in Requests |-> IF r = r1 THEN k1 ELSE k2]

AlikeRequests == Permutations(Requests)
=============================================================================
