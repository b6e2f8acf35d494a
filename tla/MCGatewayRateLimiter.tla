------------------------- MODULE MCGatewayRateLimiter -------------------------
(* GatewayRateLimiter for TLC: requests are interchangeable. *)
EXTENDS GatewayRateLimiter, TLC

AnyRequest == Permutations(Requests)
=============================================================================
