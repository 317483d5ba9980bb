----------------------------- MODULE TokenBucket -----------------------------
(***************************************************************************)
(* The tokens-per-minute limiter of one virtual key: two atomics, tokens   *)
(* and last_refill.  A request checks its estimate, and when its answer is *)
(* complete consumes what it really used.  Both begin with a refill.  A    *)
(* request whose estimate is zero skips the check, and consumes all the    *)
(* same.                                                                   *)
(* Every load, store and compare_exchange is a step of its own; they are   *)
(* taken to be sequentially consistent.  Its names differ from those of    *)
(* DailyLimiter so that RequestProofs can extend both.                     *)
(***************************************************************************)
EXTENDS Integers, FiniteSets

CONSTANTS
  Callers,   \* requests
  PerMinute, \* tokens per minute
  Amounts,   \* tokens a request estimates or uses
  Period,    \* ticks between refills
  MaxTime    \* bound on the clock

ASSUME TokenBucketAssumption ==
  /\ IsFiniteSet(Callers)
  /\ PerMinute \in Nat \ {0}
  /\ Amounts # {} /\ IsFiniteSet(Amounts)
  /\ Amounts \subseteq Nat \ {0} \* zero never reaches the bucket
  /\ Period \in Nat \ {0}
  /\ MaxTime \in Nat

VARIABLES
  now,         \* the wall clock
  tokens,      \* tokens left
  last_refill, \* when they were refilled
  at,          \* where each thread stands in a call
  call,        \* what it calls: check before the answer, consume after it
  amount,      \* the argument of that call
  local,       \* its locals: the clock, last_refill, and tokens as loaded
  taken,       \* history: tokens taken out since the last refill
  unchecked,   \* history: requests under way that skipped the check
  asked,       \* history: tokens that consume was asked to take since then, by
               \* requests that passed the check
  overtaken    \* history: the refill raced with a consume

bucketVars == <<now, tokens, last_refill, at, call, amount, local, taken, unchecked,
                asked, overtaken>>
bucket == <<tokens, last_refill>>
ghosts == <<taken, unchecked, asked, overtaken>>

BucketStage == {"ready", "load_refill", "swap_refill", "refill", "read", "swap_tokens"}

Move(t, stage) == at' = [at EXCEPT ![t] = stage]
Least(a, b)    == IF a < b THEN a ELSE b

Largest == CHOOSE n \in Amounts : \A m \in Amounts : m <= n

Refilling == {t \in Callers : at[t] = "refill"}

BucketInit ==
  /\ now = 0
  /\ tokens = PerMinute
  /\ last_refill = 0
  /\ at = [t \in Callers |-> "ready"]
  /\ call = [t \in Callers |-> "check"]
  /\ amount = [t \in Callers |-> 0]
  /\ local = [t \in Callers |-> [now |-> 0, last |-> 0, tokens |-> 0]]
  /\ taken = 0
  /\ unchecked = {}
  /\ asked = 0
  /\ overtaken = FALSE

Tick ==
  /\ now < MaxTime
  /\ now' = now + 1
  /\ UNCHANGED <<bucket, at, call, amount, local, ghosts>>

\* check_tokens with an estimate of zero (a body without messages) does not
\* reach the bucket; what the answer used is consumed nevertheless.
SkipCheck(t) ==
  /\ at[t] = "ready"
  /\ call[t] = "check"
  /\ call' = [call EXCEPT ![t] = "consume"]
  /\ unchecked' = unchecked \cup {t}
  /\ UNCHANGED <<now, bucket, at, amount, local, taken, asked, overtaken>>

-----------------------------------------------------------------------------
(* refill_if_needed, the first thing check and consume do.                 *)

\* check_tokens with an estimate, or record_tokens with the actual usage.
Begin(t, n) ==
  /\ at[t] = "ready"
  /\ amount' = [amount EXCEPT ![t] = n]
  /\ local' = [local EXCEPT ![t].now = now]
  /\ Move(t, "load_refill")
  /\ UNCHANGED <<now, bucket, call, ghosts>>

LoadRefill(t) ==
  /\ at[t] = "load_refill"
  /\ local' = [local EXCEPT ![t].last = last_refill]
  /\ Move(t, IF local[t].now >= last_refill + Period THEN "swap_refill" ELSE "read")
  /\ UNCHANGED <<now, bucket, call, amount, ghosts>>

SwapRefill(t) ==
  /\ at[t] = "swap_refill"
  /\ \/ /\ last_refill = local[t].last
        /\ last_refill' = local[t].now
        /\ Move(t, "refill")
     \/ /\ last_refill # local[t].last
        /\ UNCHANGED last_refill
        /\ Move(t, "read")
  /\ UNCHANGED <<now, tokens, call, amount, local, ghosts>>

Refill(t) ==
  /\ at[t] = "refill"
  /\ tokens' = PerMinute
  /\ taken' = 0
  /\ asked' = 0
  /\ overtaken' = (Refilling # {t})
  /\ Move(t, "read")
  /\ UNCHANGED <<now, last_refill, call, amount, local, unchecked>>

-----------------------------------------------------------------------------
(* The rest of check and of consume.                                       *)

\* A refused request is over; an admitted one will consume.
Check(t) ==
  /\ at[t] = "read"
  /\ call[t] = "check"
  /\ call' = [call EXCEPT ![t] = IF tokens >= amount[t] THEN "consume" ELSE "check"]
  /\ Move(t, "ready")
  /\ UNCHANGED <<now, bucket, amount, local, ghosts>>

LoadTokens(t) ==
  /\ at[t] = "read"
  /\ call[t] = "consume"
  /\ local' = [local EXCEPT ![t].tokens = tokens]
  /\ Move(t, "swap_tokens")
  /\ UNCHANGED <<now, bucket, call, amount, ghosts>>

\* Fault: a store instead of an exchange.
StoreTokens(t) ==
  LET n == Least(amount[t], local[t].tokens)
  IN  /\ at[t] = "swap_tokens"
      /\ tokens' = local[t].tokens - n
      /\ taken' = taken + n
      /\ asked' = IF t \in unchecked THEN asked ELSE asked + amount[t]
      /\ unchecked' = unchecked \ {t}
      /\ overtaken' = (overtaken \/ Refilling # {})
      /\ call' = [call EXCEPT ![t] = "check"]
      /\ Move(t, "ready")
      /\ UNCHANGED <<now, last_refill, amount, local>>

SwapTokens(t) ==
  LET n == Least(amount[t], local[t].tokens)
  IN  /\ at[t] = "swap_tokens"
      /\ tokens = local[t].tokens
      /\ tokens' = tokens - n
      /\ taken' = taken + n
      /\ asked' = IF t \in unchecked THEN asked ELSE asked + amount[t]
      /\ unchecked' = unchecked \ {t}
      /\ overtaken' = (overtaken \/ Refilling # {})
      /\ call' = [call EXCEPT ![t] = "check"]
      /\ Move(t, "ready")
      /\ UNCHANGED <<now, last_refill, amount, local>>

RetryTokens(t) ==
  /\ at[t] = "swap_tokens"
  /\ tokens # local[t].tokens
  /\ Move(t, "read")
  /\ UNCHANGED <<now, bucket, call, amount, local, ghosts>>

\* The upstream call fails, or used no tokens: nothing is consumed.
Abandon(t) ==
  /\ at[t] = "ready"
  /\ call[t] = "consume"
  /\ call' = [call EXCEPT ![t] = "check"]
  /\ unchecked' = unchecked \ {t}
  /\ UNCHANGED <<now, bucket, at, amount, local, taken, asked, overtaken>>

BucketNext ==
  \/ Tick
  \/ \E t \in Callers :
       \/ \E n \in Amounts : Begin(t, n)
       \/ SkipCheck(t) \/ LoadRefill(t) \/ SwapRefill(t) \/ Refill(t)
       \/ Check(t) \/ LoadTokens(t) \/ SwapTokens(t) \/ RetryTokens(t)
       \/ Abandon(t)

BucketSpec == BucketInit /\ [][BucketNext]_bucketVars

-----------------------------------------------------------------------------
(* Properties.                                                             *)

\* Every variable has its type; consume does not underflow (u32), and the
\* bucket is never fuller than full.
BucketTypeOK ==
  /\ now \in 0..MaxTime
  /\ tokens \in 0..PerMinute
  /\ last_refill \in 0..now
  /\ at \in [Callers -> BucketStage]
  /\ call \in [Callers -> {"check", "consume"}]
  /\ amount \in [Callers -> Amounts \cup {0}]
  /\ local \in [Callers -> [now: 0..MaxTime, last: 0..MaxTime, tokens: 0..PerMinute]]
  /\ taken \in Nat
  /\ unchecked \subseteq Callers
  /\ asked \in Nat
  /\ overtaken \in BOOLEAN

\* Unless the last refill raced with a consume, or another is under way, no
\* token is lost or taken twice by consumers that compete.
TokensAccountedFor ==
  ~overtaken /\ Refilling = {} => tokens + taken = PerMinute

\* A check reserves nothing, so requests that were admitted together may
\* consume more than there is.  But in a window that no refill raced with, the
\* requests that passed a check overdraw it by less than the largest request of
\* each thread, whatever unchecked requests take out in between.  The unchecked
\* ones themselves have no bound: an empty bucket stops none of them.
AdmittedBounded ==
  ~overtaken => asked < PerMinute + Cardinality(Callers) * Largest
=============================================================================
