----------------------------- MODULE RateLimiter -----------------------------
(***************************************************************************)
(* The token bucket rate limiter (core/rate_limit.py).  It stores a bucket *)
(* per key from the first request on, computes the refill when the next    *)
(* one comes, and forgets buckets that were left alone once there are many.*)
(*                                                                         *)
(* Time is counted in ticks, of which a second has Ticks.  Tokens are      *)
(* counted in parts, so that a tick brings RatePerMinute of them; the code *)
(* computes with floating point numbers.                                   *)
(*                                                                         *)
(* This is the limiter that is switched on: one that is not lets every     *)
(* request pass and keeps no buckets.                                      *)
(***************************************************************************)
EXTENDS Python, Integers, FiniteSets

CONSTANTS
  Key,             \* subject, method and path
  RatePerMinute,   \* rate_limit_per_minute
  Burst,           \* rate_limit_burst
  Ttl,             \* ticks after which a bucket may be forgotten
  QuietSize,       \* 2000 in the code: so many buckets are left alone
  Ticks,
  MaxTime          \* bound of the clock

Token == 60 * Ticks

Capacity == Token * (IF Burst > 1 THEN Burst ELSE 1)

ASSUME RateLimiterAssumption ==
  /\ RatePerMinute \in Nat
  /\ Burst \in Int
  /\ Ttl \in Nat
  /\ Ticks \in Nat \ {0}
  /\ QuietSize \in Nat
  /\ MaxTime \in Nat
  /\ None \notin [tokens : Int, last : Int]

(* A bucket left alone for the ttl is full again: so it is with the        *)
(* settings of the code, 120 a minute, 30 at once and 600 seconds.  With a *)
(* rate of 0 it is not: a key that used up its bucket passes again once    *)
(* that was forgotten, and no token bucket promises that.                  *)
IdleBucketsFillUp == Ttl * RatePerMinute >= Capacity

VARIABLES
  bucket,   \* bucket[k]: tokens and when they were counted, or None
  now,      \* time.monotonic
  answer,   \* the decision of this moment: no code reads it
  told      \* told[k]: a second after the time the last 429 named, or None:
            \* no code reads it

limiterVars == <<bucket, now, answer, told>>

Bucket == [tokens : 0 .. Capacity, last : Nat]

Refilled(k) ==
  IF bucket[k] = None THEN Capacity
  ELSE LET tokens == bucket[k].tokens + (now - bucket[k].last) * RatePerMinute
       IN IF tokens > Capacity THEN Capacity ELSE tokens

(* Fault: the denied are told to come again in a second.                   *)
RetryAtOnce(tokens) == 1

(* Whole seconds, rounded down, until a token is there again.              *)
RetryAfter(tokens) ==
  IF RatePerMinute = 0 THEN Ttl \div Ticks
  ELSE LET seconds == (Token - tokens) \div (RatePerMinute * Ticks)
       IN IF seconds > 1 THEN seconds ELSE 1

(* Fault: buckets that were used within the ttl are forgotten, too.        *)
CollectedEarly(b) ==
  IF Cardinality({k \in Key : b[k] # None}) <= QuietSize THEN b
  ELSE [k \in Key |-> IF b[k] # None /\ b[k].last < now THEN None ELSE b[k]]

(* _gc_locked.                                                             *)
Collected(b) ==
  IF Cardinality({k \in Key : b[k] # None}) <= QuietSize THEN b
  ELSE [k \in Key |-> IF b[k] # None /\ b[k].last < now - Ttl THEN None ELSE b[k]]

Allow(k) ==
  /\ Refilled(k) >= Token
  /\ bucket' = Collected([bucket EXCEPT ![k] = [tokens |-> Refilled(k) - Token, last |-> now]])
  /\ answer' = [key |-> k, allowed |-> TRUE]
  /\ told' = [told EXCEPT ![k] = None]
  /\ UNCHANGED now

Deny(k) ==
  /\ Refilled(k) < Token
  /\ bucket' = Collected([bucket EXCEPT ![k] = [tokens |-> Refilled(k), last |-> now]])
  /\ answer' = [key |-> k, allowed |-> FALSE]
  /\ told' = [told EXCEPT ![k] = now + (RetryAfter(Refilled(k)) + 1) * Ticks]
  /\ UNCHANGED now

Tick ==
  /\ now < MaxTime
  /\ now' = now + 1
  /\ answer' = None
  /\ UNCHANGED <<bucket, told>>

(* The buckets live in the memory of the process.                          *)
ForgetAll ==
  /\ bucket' = [k \in Key |-> None]
  /\ answer' = None
  /\ told' = [k \in Key |-> None]
  /\ UNCHANGED now

InitLimiter ==
  /\ bucket = [k \in Key |-> None]
  /\ now = 0
  /\ answer = None
  /\ told = [k \in Key |-> None]

NextLimiter == (\E k \in Key : Allow(k) \/ Deny(k)) \/ Tick \/ ForgetAll

SpecLimiter == InitLimiter /\ [][NextLimiter]_limiterVars

-----------------------------------------------------------------------------
Level == [k \in Key |-> Refilled(k)]

Promised == INSTANCE TokenBucket WITH Rate <- RatePerMinute, level <- Level

(* Lazy refills and forgotten buckets cannot be told from a bucket that is *)
(* refilled all the time and kept for ever: no key passes more often than  *)
(* its capacity and the time allow, none is held up by the requests of     *)
(* others or by its own denials (decide, _gc_locked).  So it is where idle *)
(* buckets fill up.                                                        *)
ImplementsTokenBucket == Promised!Spec

(* Who waits a second longer than the 429 said finds a token, though the   *)
(* time is rounded down to whole seconds, and whatever others did in the   *)
(* meantime (decide).  So it is for every rate but 0: there the 429 names  *)
(* the ttl, and a bucket that is kept never holds a token again.           *)
RetryAfterIsEnough ==
  \A k \in Key : told[k] # None /\ now >= told[k] => Refilled(k) >= Token
=============================================================================
