---------------------------- MODULE MCRateLimits ----------------------------
(***************************************************************************)
(* The two limiters of a key, which share nothing: a behaviour is one of   *)
(* the daily limiter or one of the token bucket.                           *)
(***************************************************************************)
EXTENDS DailyLimiter, TokenBucket, TLC

VARIABLE limit \* which of the two it is

LimitsInit == Init /\ BucketInit /\ limit \in {"requests", "tokens"}

LimitsNext ==
  /\ UNCHANGED limit
  /\ \/ limit = "requests" /\ Next /\ UNCHANGED bucketVars
     \/ limit = "tokens" /\ BucketNext /\ UNCHANGED vars

LimitsSpec == LimitsInit /\ [][LimitsNext]_<<vars, bucketVars, limit>>

MCSymmetry == Permutations(Threads) \cup Permutations(Callers)
=============================================================================
