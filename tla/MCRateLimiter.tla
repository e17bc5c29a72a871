---------------------------- MODULE MCRateLimiter ----------------------------
(***************************************************************************)
(* A small limiter: 3 events globally, 2 expensive ones, 1 identify, of    *)
(* different prices, so that levels between two tokens occur.              *)
(***************************************************************************)
EXTENDS RateLimiter

MCFull == [b \in Bucket |->
  CASE b = "global" -> 6 [] b = "expensive" -> 6 [] b = "identify" -> 4]
MCCost == [b \in Bucket |->
  CASE b = "global" -> 2 [] b = "expensive" -> 3 [] b = "identify" -> 4]
=============================================================================
