--------------------------- MODULE Gateway_proofs ---------------------------
(***************************************************************************)
(* Theorems of Gateway and of the rate limiter in it.                      *)
(*                                                                         *)
(* The limiter alone implements a token bucket for every key wherever a    *)
(* bucket left alone for the ttl is full again, and its Retry-After is     *)
(* enough for every rate but 0, whatever the ttl, the bursts, the clock    *)
(* and the set of keys.  Behind the middleware the limiter is the limiter alone, whatever handlers do, and  *)
(* the diagnostics are the newest events of all that were recorded,        *)
(* whatever fails; and the cost report computed from them is the report of *)
(* those events, its sums, counts, breakdowns and matches included.        *)
(***************************************************************************)
EXTENDS Gateway, FiniteSetTheorems, WellFoundedInduction, TLAPS

-----------------------------------------------------------------------------
(* A bucket holds what its capacity allows and was counted in the past.    *)
BucketsOK ==
  /\ bucket \in [Key -> Bucket \cup {None}]
  /\ now \in Nat
  /\ \A k \in Key : bucket[k] # None => bucket[k].last <= now

-----------------------------------------------------------------------------
(* Facts about products, of which the provers know little.                 *)
LEMMA ProductMonotone ==
  ASSUME NEW a \in Int, NEW b \in Int, NEW r \in Nat, a >= b
  PROVE  a * r >= b * r
  OBVIOUS

LEMMA ProductOfSuccessor ==
  ASSUME NEW a \in Int, NEW r \in Int
  PROVE  /\ (a + 1) * r = a * r + r
         /\ (a - 1) * r = a * r - r
         /\ 0 * r = 0
  OBVIOUS

LEMMA ProductInt ==
  ASSUME NEW a \in Int, NEW r \in Int
  PROVE  a * r \in Int
  OBVIOUS

LEMMA ProductNat ==
  ASSUME NEW a \in Nat, NEW r \in Nat
  PROVE  a * r \in Nat
  OBVIOUS

(* A token costs something, and a bucket holds at least one.               *)
LEMMA CapacityFacts ==
  /\ Token \in Nat /\ Token > 0
  /\ Capacity \in Nat /\ Capacity >= Token
<1>1. Token \in Nat /\ Token > 0
  BY RateLimiterAssumption DEF Token
<1>2. CASE Burst > 1
  <2>1. Burst * Token >= 1 * Token
    BY <1>1, <1>2, RateLimiterAssumption, ProductMonotone
  <2>2. Token * Burst = Burst * Token
    BY <1>1, RateLimiterAssumption
  <2> QED
    BY <1>1, <1>2, <2>1, <2>2, RateLimiterAssumption DEF Capacity
<1>3. CASE ~(Burst > 1)
  BY <1>1, <1>3 DEF Capacity
<1> QED
  BY <1>1, <1>2, <1>3

-----------------------------------------------------------------------------
(* What a bucket holds now is between nothing and its capacity.            *)
LEMMA RefilledType ==
  ASSUME BucketsOK, NEW k \in Key
  PROVE  /\ Refilled(k) \in 0 .. Capacity
         /\ bucket[k] = None => Refilled(k) = Capacity
<1>1. CASE bucket[k] = None
  BY <1>1, CapacityFacts DEF Refilled
<1>2. CASE bucket[k] # None
  <2>1. bucket[k] \in Bucket /\ bucket[k].tokens \in 0 .. Capacity /\ bucket[k].last \in Nat
    BY <1>2 DEF BucketsOK, Bucket
  <2>2. now - bucket[k].last \in Nat
    BY <1>2, <2>1 DEF BucketsOK
  <2>3. (now - bucket[k].last) * RatePerMinute \in Nat
    BY <2>2, ProductNat, RateLimiterAssumption
  <2> QED
    BY <1>2, <2>1, <2>3, CapacityFacts DEF Refilled
<1> QED
  BY <1>1, <1>2

(* Collecting forgets nothing that can be told from a full bucket, and no  *)
(* bucket that was used just now.                                          *)
LEMMA CollectedFacts ==
  ASSUME BucketsOK, NEW b \in [Key -> Bucket \cup {None}], NEW k \in Key
  PROVE  /\ Collected(b) \in [Key -> Bucket \cup {None}]
         /\ Collected(b)[k] # b[k] => /\ Collected(b)[k] = None
                                      /\ b[k] # None
                                      /\ b[k].last < now - Ttl
  BY DEF Collected

LEMMA LongLeftAlone ==
  ASSUME BucketsOK, IdleBucketsFillUp,
         NEW k \in Key, bucket[k] # None, bucket[k].last < now - Ttl
  PROVE  Refilled(k) = Capacity
<1>1. bucket[k] \in Bucket /\ bucket[k].tokens \in 0 .. Capacity /\ bucket[k].last \in Nat
  BY DEF BucketsOK, Bucket
<1>2. now - bucket[k].last \in Int /\ now - bucket[k].last >= Ttl
  BY <1>1, RateLimiterAssumption DEF BucketsOK
<1>3. (now - bucket[k].last) * RatePerMinute >= Ttl * RatePerMinute
  BY <1>2, RateLimiterAssumption, ProductMonotone
<1>4. (now - bucket[k].last) * RatePerMinute \in Int /\ Ttl * RatePerMinute \in Int
  BY <1>2, RateLimiterAssumption, ProductInt
<1>5. (now - bucket[k].last) * RatePerMinute >= Capacity
  BY <1>3, <1>4, CapacityFacts DEF IdleBucketsFillUp
<1> QED
  BY <1>1, <1>4, <1>5, CapacityFacts DEF Refilled

(* A decision leaves its own key at the level it was set to and takes      *)
(* nothing from the others; it leaves them as they are where forgotten     *)
(* buckets were full.                                                      *)
LEMMA DecisionLevels ==
  ASSUME BucketsOK, NEW k \in Key, NEW t \in 0 .. Capacity,
         bucket' = Collected([bucket EXCEPT ![k] = [tokens |-> t, last |-> now]]),
         now' = now
  PROVE  /\ BucketsOK'
         /\ Refilled(k)' = t
         /\ \A j \in Key \ {k} : Refilled(j)' \in Int /\ Refilled(j)' >= Refilled(j)
         /\ IdleBucketsFillUp => \A j \in Key \ {k} : Refilled(j)' = Refilled(j)
<1> DEFINE b == [bucket EXCEPT ![k] = [tokens |-> t, last |-> now]]
<1>1. [tokens |-> t, last |-> now] \in Bucket /\ [tokens |-> t, last |-> now] # None
  BY RateLimiterAssumption, CapacityFacts DEF BucketsOK, Bucket
<1>2. b \in [Key -> Bucket \cup {None}]
  BY <1>1 DEF BucketsOK
<1>3. b[k] = [tokens |-> t, last |-> now] /\ \A j \in Key \ {k} : b[j] = bucket[j]
  BY DEF BucketsOK
<1>4. bucket' = Collected(b)
  OBVIOUS
<1> HIDE DEF b
<1>5. bucket'[k] = b[k]
  <2>1. SUFFICES ASSUME bucket'[k] # b[k] PROVE FALSE
    OBVIOUS
  <2>2. b[k].last < now - Ttl
    BY <1>2, <1>4, <2>1, CollectedFacts
  <2> QED
    BY <1>3, <2>2, RateLimiterAssumption DEF BucketsOK
<1>6. ASSUME NEW j \in Key \ {k}
      PROVE  \/ bucket'[j] = bucket[j]
             \/ /\ bucket'[j] = None /\ bucket[j] # None
                /\ bucket[j].last < now - Ttl
  BY <1>2, <1>3, <1>4, CollectedFacts
<1>7. BucketsOK'
  <2>1. bucket' \in [Key -> Bucket \cup {None}]
    BY <1>2, <1>4, CollectedFacts
  <2>2. ASSUME NEW j \in Key, bucket'[j] # None PROVE bucket'[j].last <= now
    <3>1. CASE j = k
      BY <1>3, <1>5, <3>1 DEF BucketsOK
    <3>2. CASE j # k
      BY <1>6, <2>2, <3>2 DEF BucketsOK
    <3> QED
      BY <3>1, <3>2
  <2> QED
    BY <2>1, <2>2 DEF BucketsOK, Bucket
<1>8. Refilled(k)' = t
  <2>1. now - now = 0 /\ 0 * RatePerMinute = 0
    BY RateLimiterAssumption DEF BucketsOK
  <2> QED
    BY <1>1, <1>3, <1>5, <2>1, CapacityFacts DEF Refilled
<1>9. ASSUME NEW j \in Key \ {k}
      PROVE  /\ Refilled(j)' \in Int /\ Refilled(j)' >= Refilled(j)
             /\ IdleBucketsFillUp => Refilled(j)' = Refilled(j)
  <2>1. CASE bucket'[j] = bucket[j]
    <3>1. Refilled(j)' = Refilled(j)
      BY <2>1 DEF Refilled, Capacity, Token
    <3>2. Refilled(j) \in 0 .. Capacity
      BY RefilledType
    <3> QED
      BY <3>1, <3>2, CapacityFacts
  <2>2. CASE bucket'[j] = None /\ bucket[j] # None /\ bucket[j].last < now - Ttl
    <3>1. Refilled(j)' = Capacity
      BY <2>2 DEF Refilled, Capacity, Token
    <3>2. Refilled(j) \in 0 .. Capacity
      BY RefilledType
    <3>3. IdleBucketsFillUp => Refilled(j) = Capacity
      BY <2>2, LongLeftAlone
    <3> QED
      BY <3>1, <3>2, <3>3, CapacityFacts
  <2> QED
    BY <1>6, <2>1, <2>2
<1> QED
  BY <1>7, <1>8, <1>9

-----------------------------------------------------------------------------
(* Every step keeps the buckets in order.                                  *)
LEMMA BucketsStep ==
  ASSUME BucketsOK, [NextLimiter]_limiterVars
  PROVE  BucketsOK'
<1>1. ASSUME NEW k \in Key, Allow(k) PROVE BucketsOK'
  <2>1. Refilled(k) - Token \in 0 .. Capacity
    BY <1>1, RefilledType, CapacityFacts DEF Allow
  <2> QED
    BY <1>1, <2>1, DecisionLevels DEF Allow
<1>2. ASSUME NEW k \in Key, Deny(k) PROVE BucketsOK'
  BY <1>2, RefilledType, DecisionLevels DEF Deny
<1>3. ASSUME Tick PROVE BucketsOK'
  BY <1>3 DEF Tick, BucketsOK, Bucket, Capacity, Token
<1>4. ASSUME ForgetAll PROVE BucketsOK'
  BY <1>4 DEF ForgetAll, BucketsOK
<1>5. ASSUME UNCHANGED limiterVars PROVE BucketsOK'
  BY <1>5 DEF limiterVars, BucketsOK, Bucket, Capacity, Token
<1> QED
  BY <1>1, <1>2, <1>3, <1>4, <1>5 DEF NextLimiter

(* The buckets are in order at all times.                                  *)
THEOREM BucketsInvariant == SpecLimiter => []BucketsOK
<1>1. InitLimiter => BucketsOK
  BY DEF InitLimiter, BucketsOK
<1> QED
  BY <1>1, BucketsStep, PTL DEF SpecLimiter

-----------------------------------------------------------------------------
(* A tick of the clock refills every bucket by as much as the rate says.   *)
LEMMA TickLevels ==
  ASSUME BucketsOK, Tick, NEW k \in Key
  PROVE  Refilled(k)' = IF Refilled(k) + RatePerMinute > Capacity THEN Capacity
                        ELSE Refilled(k) + RatePerMinute
<1>1. Capacity' = Capacity
  BY DEF Capacity, Token
<1>2. CASE bucket[k] = None
  <2>1. Refilled(k) = Capacity
    BY <1>2, RefilledType
  <2>2. Refilled(k)' = Capacity
    BY <1>1, <1>2 DEF Tick, Refilled
  <2> QED
    BY <2>1, <2>2, CapacityFacts, RateLimiterAssumption
<1>3. CASE bucket[k] # None
  <2> DEFINE t == bucket[k].tokens
             d == now - bucket[k].last
             p == d * RatePerMinute
  <2>1. t \in 0 .. Capacity /\ d \in Nat
    BY <1>3 DEF BucketsOK, Bucket
  <2>2. p \in Nat
    BY <2>1, ProductNat, RateLimiterAssumption
  <2>3. (now + 1) - bucket[k].last = d + 1
    BY <1>3 DEF BucketsOK, Bucket
  <2>4. (d + 1) * RatePerMinute = p + RatePerMinute
    BY <2>1, ProductOfSuccessor, RateLimiterAssumption
  <2>5. Refilled(k) = IF t + p > Capacity THEN Capacity ELSE t + p
    BY <1>3 DEF Refilled
  <2>6. Refilled(k)' = IF t + (p + RatePerMinute) > Capacity THEN Capacity
                       ELSE t + (p + RatePerMinute)
    BY <1>1, <1>3, <2>3, <2>4 DEF Tick, Refilled
  <2> HIDE DEF t, d, p
  <2> QED
    BY <2>1, <2>2, <2>5, <2>6, CapacityFacts, RateLimiterAssumption
<1> QED
  BY <1>2, <1>3

(* What a decision says of its own level.                                  *)
LEMMA AllowLevels ==
  ASSUME BucketsOK, IdleBucketsFillUp, NEW k \in Key, Allow(k)
  PROVE  Level' = [Level EXCEPT ![k] = @ - Token]
<1>1. Refilled(k) - Token \in 0 .. Capacity
  BY RefilledType, CapacityFacts DEF Allow
<1>2. /\ Refilled(k)' = Refilled(k) - Token
      /\ \A j \in Key \ {k} : Refilled(j)' = Refilled(j)
  BY <1>1, DecisionLevels DEF Allow
<1> QED
  BY <1>2 DEF Level

LEMMA DenyLevels ==
  ASSUME BucketsOK, IdleBucketsFillUp, NEW k \in Key, Deny(k)
  PROVE  Level' = Level
<1>1. /\ Refilled(k)' = Refilled(k)
      /\ \A j \in Key \ {k} : Refilled(j)' = Refilled(j)
  BY RefilledType, DecisionLevels DEF Deny
<1> QED
  BY <1>1 DEF Level

(* The limiter cannot be told from a bucket for every key that is refilled *)
(* all the time and never forgotten, where a bucket that is forgotten was  *)
(* full (core/rate_limit.py).                                              *)
THEOREM LimiterIsTokenBucket ==
  IdleBucketsFillUp => (SpecLimiter => ImplementsTokenBucket)
<1> SUFFICES ASSUME IdleBucketsFillUp PROVE SpecLimiter => ImplementsTokenBucket
  OBVIOUS
<1>1. InitLimiter => Promised!Init
  <2> SUFFICES ASSUME InitLimiter PROVE Promised!Init
    OBVIOUS
  <2>1. ASSUME NEW k \in Key PROVE Refilled(k) = Capacity
    BY DEF InitLimiter, Refilled
  <2> QED
    BY <2>1 DEF InitLimiter, Promised!Init, Promised!Full, Level
<1>2. BucketsOK /\ [NextLimiter]_limiterVars => [Promised!Next]_<<Level, answer>>
  <2> SUFFICES ASSUME BucketsOK, [NextLimiter]_limiterVars
               PROVE  [Promised!Next]_<<Level, answer>>
    OBVIOUS
  <2>1. ASSUME NEW k \in Key, Allow(k) PROVE Promised!Take(k)
    BY <2>1, AllowLevels DEF Allow, Level, Promised!Take
  <2>2. ASSUME NEW k \in Key, Deny(k) PROVE Promised!Refuse(k)
    BY <2>2, DenyLevels DEF Deny, Level, Promised!Refuse
  <2>3. ASSUME Tick PROVE Promised!Pass
    BY <2>3, TickLevels DEF Tick, Level, Promised!Pass
  <2>4. ASSUME ForgetAll PROVE Promised!Reset
    <3>1. ASSUME NEW k \in Key PROVE Refilled(k)' = Capacity
      BY <2>4 DEF ForgetAll, Refilled, Capacity, Token
    <3> QED
      BY <2>4, <3>1 DEF ForgetAll, Level, Promised!Reset, Promised!Full
  <2>5. ASSUME UNCHANGED limiterVars PROVE UNCHANGED <<Level, answer>>
    BY <2>5 DEF limiterVars, Level, Refilled, Capacity, Token
  <2> QED
    BY <2>1, <2>2, <2>3, <2>4, <2>5 DEF NextLimiter, Promised!Next
<1> QED
  BY <1>1, <1>2, BucketsInvariant, PTL DEF SpecLimiter, ImplementsTokenBucket, Promised!Spec

-----------------------------------------------------------------------------
(* What a denied key waits for: the token is there, or the time that is    *)
(* left brings what it lacks.                                              *)
Waits(k) ==
  \/ Refilled(k) >= Token
  \/ Refilled(k) + (told[k] - now) * RatePerMinute >= Token

WaitsAreEnough ==
  /\ told \in [Key -> Int \cup {None}]
  /\ \A k \in Key : told[k] # None => told[k] \in Int /\ Waits(k)

(* The seconds of a denial, and one for the rest that was rounded away,    *)
(* bring what lacks.                                                       *)
LEMMA SecondsBringAToken ==
  ASSUME RatePerMinute > 0, NEW tokens \in 0 .. Capacity, tokens < Token
  PROVE  /\ (RetryAfter(tokens) + 1) * Ticks \in Int
         /\ tokens + ((RetryAfter(tokens) + 1) * Ticks) * RatePerMinute >= Token
<1>1. RatePerMinute \in Nat \ {0}
  BY RateLimiterAssumption
<1> DEFINE x == Token - tokens
           m == RatePerMinute * Ticks
           s == x \div m
           r == RetryAfter(tokens)
<1>2. x \in Nat
  BY CapacityFacts
<1>3. m \in Nat /\ m > 0
  BY <1>1, RateLimiterAssumption
<1>4. s \in Nat /\ x < (s + 1) * m
  <2> HIDE DEF x, m
  <2>1. s \in Nat /\ x = m * s + (x % m) /\ x % m < m
    BY <1>2, <1>3
  <2>2. (s + 1) * m = s * m + m /\ s * m = m * s /\ s * m \in Int
    BY <1>3, <2>1
  <2> QED
    BY <1>2, <1>3, <2>1, <2>2
<1>5. r \in Nat /\ r >= s
  <2>1. r = IF s > 1 THEN s ELSE 1
    BY <1>1 DEF RetryAfter
  <2> HIDE DEF r, s
  <2> QED
    BY <1>4, <2>1
<1>6. (r + 1) * m >= (s + 1) * m
  <2> HIDE DEF r, s, m
  <2> QED
    BY <1>3, <1>4, <1>5, ProductMonotone
<1>7. ((r + 1) * Ticks) * RatePerMinute = (r + 1) * m
  <2> HIDE DEF r
  <2> QED
    BY <1>1, <1>5, RateLimiterAssumption
<1>8. (r + 1) * Ticks \in Int /\ (r + 1) * m \in Int /\ (s + 1) * m \in Int
  <2> HIDE DEF r, s, m
  <2> QED
    BY <1>3, <1>4, <1>5, RateLimiterAssumption, ProductInt
<1>9. x <= (r + 1) * m
  <2> HIDE DEF x, r, s, m
  <2> QED
    BY <1>2, <1>4, <1>6, <1>8
<1>10. tokens + (r + 1) * m >= Token
  <2> HIDE DEF r, s, m
  <2> QED
    BY <1>8, <1>9, CapacityFacts
<1> QED
  BY <1>7, <1>8, <1>10

(* A decision about one key takes nothing from the waits of the others.    *)
LEMMA OthersWait ==
  ASSUME BucketsOK, WaitsAreEnough, NEW j \in Key,
         Refilled(j)' \in Int, Refilled(j)' >= Refilled(j),
         told'[j] = told[j], now' = now, told'[j] # None
  PROVE  told'[j] \in Int /\ Waits(j)'
<1>1. /\ Refilled(j) \in Int /\ Token \in Nat /\ Token' = Token
      /\ now \in Nat /\ told[j] \in Int /\ Waits(j)
  BY RefilledType, CapacityFacts DEF Token, BucketsOK, WaitsAreEnough
<1>2. (told[j] - now) * RatePerMinute \in Int
  BY <1>1, ProductInt, RateLimiterAssumption
<1>3. /\ told'[j] - now' = told[j] - now
      /\ \/ Refilled(j)' >= Token
         \/ Refilled(j)' + (told[j] - now) * RatePerMinute >= Token
  BY <1>1, <1>2 DEF Waits
<1> QED
  BY <1>1, <1>3 DEF Waits

LEMMA WaitsStep ==
  ASSUME RatePerMinute > 0, BucketsOK, WaitsAreEnough, [NextLimiter]_limiterVars
  PROVE  WaitsAreEnough'
<1>1. ASSUME NEW k \in Key, Allow(k) PROVE WaitsAreEnough'
  <2>1. told' \in [Key -> Int \cup {None}] /\ now' = now /\ told'[k] = None
    BY <1>1 DEF Allow, WaitsAreEnough
  <2>3. Refilled(k) - Token \in 0 .. Capacity
    BY <1>1, RefilledType, CapacityFacts DEF Allow
  <2>2. ASSUME NEW j \in Key, told'[j] # None PROVE told'[j] \in Int /\ Waits(j)'
    <3>1. j # k /\ told'[j] = told[j]
      BY <1>1, <2>1, <2>2 DEF Allow, WaitsAreEnough
    <3>2. Refilled(j)' \in Int /\ Refilled(j)' >= Refilled(j)
      BY <1>1, <2>3, <3>1, DecisionLevels DEF Allow
    <3> QED
      BY <2>1, <2>2, <3>1, <3>2, OthersWait
  <2> QED
    BY <2>1, <2>2 DEF WaitsAreEnough
<1>2. ASSUME NEW k \in Key, Deny(k) PROVE WaitsAreEnough'
  <2> DEFINE w == (RetryAfter(Refilled(k)) + 1) * Ticks
  <2>1. Refilled(k) \in 0 .. Capacity /\ Refilled(k) < Token
    BY <1>2, RefilledType DEF Deny
  <2>2. w \in Int /\ Refilled(k) + w * RatePerMinute >= Token
    BY <2>1, SecondsBringAToken
  <2>3. told' = [told EXCEPT ![k] = now + w] /\ now' = now
    BY <1>2 DEF Deny
  <2> HIDE DEF w
  <2>4. told' \in [Key -> Int \cup {None}] /\ told'[k] = now + w
    BY <2>2, <2>3 DEF WaitsAreEnough, BucketsOK
  <2>5. /\ Refilled(k)' = Refilled(k)
        /\ \A j \in Key \ {k} : Refilled(j)' \in Int /\ Refilled(j)' >= Refilled(j)
    BY <1>2, <2>1, DecisionLevels DEF Deny
  <2>6. Waits(k)'
    <3>1. told'[k] - now' = w
      BY <2>2, <2>3, <2>4 DEF BucketsOK
    <3> QED
      BY <2>2, <2>5, <3>1 DEF Waits, Token
  <2>7. ASSUME NEW j \in Key, told'[j] # None PROVE told'[j] \in Int /\ Waits(j)'
    <3>1. CASE j = k
      BY <2>2, <2>4, <2>6, <3>1 DEF BucketsOK
    <3>2. CASE j # k
      <4>1. told'[j] = told[j]
        BY <2>3, <3>2 DEF WaitsAreEnough
      <4> QED
        BY <2>3, <2>5, <2>7, <3>2, <4>1, OthersWait
    <3> QED
      BY <3>1, <3>2
  <2> QED
    BY <2>4, <2>7 DEF WaitsAreEnough
<1>3. ASSUME Tick PROVE WaitsAreEnough'
  <2>1. told' = told /\ now' = now + 1 /\ now \in Nat
    BY <1>3 DEF Tick, BucketsOK
  <2>2. ASSUME NEW j \in Key, told[j] # None PROVE Waits(j)'
    <3> DEFINE f == Refilled(j)
               d == told[j] - now
               p == d * RatePerMinute
    <3>1. Refilled(j)' = IF f + RatePerMinute > Capacity THEN Capacity ELSE f + RatePerMinute
      BY <1>3, TickLevels
    <3>2. f \in 0 .. Capacity
      BY RefilledType
    <3>3. d \in Int /\ told'[j] - now' = d - 1
      BY <2>1, <2>2 DEF WaitsAreEnough
    <3>4. (d - 1) * RatePerMinute = p - RatePerMinute
      BY <3>3, ProductOfSuccessor, RateLimiterAssumption
    <3>5. p \in Int
      BY <3>3, ProductInt, RateLimiterAssumption
    <3>6. f >= Token \/ f + p >= Token
      BY <2>2 DEF WaitsAreEnough, Waits
    <3>7. Token' = Token
      BY DEF Token
    <3>8. \/ Refilled(j)' >= Token
          \/ Refilled(j)' + (p - RatePerMinute) >= Token
      <4> HIDE DEF f, d, p
      <4> QED
        BY <3>1, <3>2, <3>5, <3>6, CapacityFacts, RateLimiterAssumption
    <3>9. (told'[j] - now') * RatePerMinute = p - RatePerMinute
      BY <3>3, <3>4
    <3> QED
      BY <3>7, <3>8, <3>9 DEF Waits
  <2> QED
    BY <2>1, <2>2 DEF WaitsAreEnough
<1>4. ASSUME ForgetAll PROVE WaitsAreEnough'
  BY <1>4 DEF ForgetAll, WaitsAreEnough
<1>5. ASSUME UNCHANGED limiterVars PROVE WaitsAreEnough'
  BY <1>5 DEF limiterVars, WaitsAreEnough, Waits, Refilled, Capacity, Token
<1> QED
  BY <1>1, <1>2, <1>3, <1>4, <1>5 DEF NextLimiter

(* A request that waits a second longer than the 429 said finds a token,   *)
(* for every rate but 0, whether or not idle buckets fill up (decide).     *)
THEOREM RetryAfterSuffices ==
  RatePerMinute > 0 => (SpecLimiter => []RetryAfterIsEnough)
<1> SUFFICES ASSUME RatePerMinute > 0 PROVE SpecLimiter => []RetryAfterIsEnough
  OBVIOUS
<1>1. InitLimiter => WaitsAreEnough
  BY DEF InitLimiter, WaitsAreEnough
<1>2. BucketsOK /\ WaitsAreEnough => RetryAfterIsEnough
  <2> SUFFICES ASSUME BucketsOK, WaitsAreEnough, NEW k \in Key, told[k] # None, now >= told[k]
               PROVE  Refilled(k) >= Token
    BY DEF RetryAfterIsEnough
  <2>1. told[k] \in Int /\ Waits(k) /\ now \in Nat
    BY DEF WaitsAreEnough, BucketsOK
  <2>2. 0 * RatePerMinute >= (told[k] - now) * RatePerMinute
    BY <2>1, ProductMonotone, RateLimiterAssumption
  <2>3. 0 * RatePerMinute = 0 /\ (told[k] - now) * RatePerMinute \in Int
    BY <2>1, ProductInt, RateLimiterAssumption
  <2> QED
    BY <2>1, <2>2, <2>3, RefilledType, CapacityFacts DEF Waits
<1> QED
  BY <1>1, <1>2, WaitsStep, BucketsInvariant, PTL DEF SpecLimiter

-----------------------------------------------------------------------------
(* A step of the gateway is one of the limiter or leaves it alone.         *)
LEMMA StepOfLimiter == [Next]_vars => [NextLimiter]_limiterVars
<1> SUFFICES ASSUME [Next]_vars PROVE [NextLimiter]_limiterVars
  OBVIOUS
<1>1. ASSUME NEW request \in Request, Arrive(request) PROVE NextLimiter
  BY <1>1, GatewayAssumption DEF Arrive, NextLimiter
<1>2. ASSUME NEW request \in Request, RecordNext(request) PROVE UNCHANGED limiterVars
  BY <1>2 DEF RecordNext
<1>3. ASSUME NEW request \in Request, Raise(request) PROVE UNCHANGED limiterVars
  BY <1>3 DEF Raise
<1>4. ASSUME Tick PROVE NextLimiter
  BY <1>4 DEF NextLimiter
<1>5. ASSUME Restart PROVE NextLimiter
  BY <1>5 DEF Restart, NextLimiter
<1>6. ASSUME UNCHANGED vars PROVE UNCHANGED limiterVars
  BY <1>6 DEF vars
<1> QED
  BY <1>1, <1>2, <1>3, <1>4, <1>5, <1>6 DEF Next

LEMMA SpecOfLimiter == Spec => SpecLimiter
<1>1. Init => InitLimiter
  BY DEF Init
<1> QED
  BY <1>1, StepOfLimiter, PTL DEF Spec, SpecLimiter

(* Authentication, guards, handlers that raise and imports that fail take  *)
(* no token back and give none: of every key, the gateway lets as many     *)
(* requests to its guards as a token bucket does, where a bucket that is   *)
(* forgotten was full (app.py).                                            *)
THEOREM GatewayIsTokenBucket ==
  IdleBucketsFillUp => (Spec => ImplementsTokenBucket)
<1> SUFFICES ASSUME IdleBucketsFillUp PROVE Spec => ImplementsTokenBucket
  OBVIOUS
<1>1. SpecLimiter => ImplementsTokenBucket
  BY LimiterIsTokenBucket
<1> QED
  BY <1>1, SpecOfLimiter, PTL

(* The promise of a 429 holds for the gateway as a whole, for every rate   *)
(* but 0.                                                                  *)
THEOREM GatewayRetryAfter ==
  RatePerMinute > 0 => (Spec => []RetryAfterIsEnough)
<1> SUFFICES ASSUME RatePerMinute > 0 PROVE Spec => []RetryAfterIsEnough
  OBVIOUS
<1>1. SpecLimiter => []RetryAfterIsEnough
  BY RetryAfterSuffices
<1> QED
  BY <1>1, SpecOfLimiter, PTL

-----------------------------------------------------------------------------
(* events are the newest of l, in the opposite order.                      *)
Newest(events, l) ==
  /\ Len(events) = IF Len(l) > MaxEvents THEN MaxEvents ELSE Len(l)
  /\ \A i \in 1 .. Len(events) : events[i] = l[Len(l) + 1 - i]

LogIsKept == Newest(diagnostics, log) /\ Newest(stored, SubSeq(log, 1, durable))

LedgerOK ==
  /\ diagnostics \in Seq(Event) /\ stored \in Seq(Event) /\ log \in Seq(Event)
  /\ durable \in 0 .. Len(log)
  /\ LogIsKept

HandlersOK ==
  /\ added \in [Request -> Nat \cup {None}]
  /\ \A request \in Request : added[request] # None => added[request] < Len(Events(request))

IInv == LedgerOK /\ HandlersOK

LEMMA NewestAdded ==
  ASSUME NEW events \in Seq(Event), NEW l \in Seq(Event), NEW event \in Event,
         Newest(events, l)
  PROVE  /\ Added(events, event) \in Seq(Event)
         /\ Newest(Added(events, event), Append(l, event))
<1> DEFINE all == <<event>> \o events
           n == IF Len(all) > MaxEvents THEN MaxEvents ELSE Len(all)
<1>1. /\ all \in Seq(Event) /\ Len(all) = Len(events) + 1
      /\ all[1] = event
      /\ \A i \in 2 .. Len(all) : all[i] = events[i - 1]
  OBVIOUS
<1>2. /\ Append(l, event) \in Seq(Event) /\ Len(Append(l, event)) = Len(l) + 1
      /\ Append(l, event)[Len(l) + 1] = event
      /\ \A i \in 1 .. Len(l) : Append(l, event)[i] = l[i]
  OBVIOUS
<1>3. n \in 0 .. Len(all) /\ Len(events) \in Nat /\ Len(l) \in Nat
  BY <1>1, GatewayAssumption
<1>4. Added(events, event) = SubSeq(all, 1, n)
  BY DEF Added, Trimmed
<1> HIDE DEF all, n
<1>5. /\ Added(events, event) \in Seq(Event) /\ Len(Added(events, event)) = n
      /\ \A i \in 1 .. n : Added(events, event)[i] = all[i]
  BY <1>1, <1>3, <1>4
<1>6. n = IF Len(l) + 1 > MaxEvents THEN MaxEvents ELSE Len(l) + 1
  BY <1>1, <1>3, GatewayAssumption DEF n, Newest
<1>7. ASSUME NEW i \in 1 .. n
      PROVE  Added(events, event)[i] = Append(l, event)[Len(l) + 1 + 1 - i]
  <2>1. CASE i = 1
    BY <1>1, <1>2, <1>3, <1>5, <2>1
  <2>2. CASE i # 1
    <3>1. i - 1 \in 1 .. Len(events) /\ i \in 2 .. Len(all)
      BY <1>1, <1>3, <2>2
    <3>2. all[i] = l[Len(l) + 1 - (i - 1)]
      BY <1>1, <3>1 DEF Newest
    <3>3. Len(l) + 1 - (i - 1) = Len(l) + 1 + 1 - i /\ Len(l) + 1 + 1 - i \in 1 .. Len(l)
      BY <1>3, <1>6, <2>2, GatewayAssumption
    <3> QED
      BY <1>2, <1>5, <3>2, <3>3
  <2> QED
    BY <2>1, <2>2
<1> QED
  BY <1>2, <1>5, <1>6, <1>7 DEF Newest

(* What the file has seen of the log does not change when it grows.        *)
LEMMA PrefixKept ==
  ASSUME NEW l \in Seq(Event), NEW event \in Event, NEW n \in 0 .. Len(l)
  PROVE  /\ SubSeq(Append(l, event), 1, n) = SubSeq(l, 1, n)
         /\ SubSeq(Append(l, event), 1, Len(l) + 1) = Append(l, event)
<1>1. /\ Append(l, event) \in Seq(Event) /\ Len(Append(l, event)) = Len(l) + 1
      /\ \A i \in 1 .. Len(l) : Append(l, event)[i] = l[i]
  OBVIOUS
<1> QED
  BY <1>1

LEMMA RecordStep ==
  ASSUME IInv, NEW request \in Request, RecordNext(request)
  PROVE  IInv'
<1> DEFINE n == added[request] + 1
           event == Events(request)[n]
<1>1. /\ added[request] \in Nat /\ n \in 1 .. Len(Events(request))
      /\ Events(request) \in Seq(Event)
  BY GatewayAssumption DEF IInv, HandlersOK, RecordNext
<1>2. event \in Event
  BY <1>1
<1>3. diagnostics' = Added(diagnostics, event) /\ log' = Append(log, event)
  BY DEF RecordNext
<1>4. \/ /\ stored' = diagnostics' /\ durable' = Len(log')
         /\ added' = [added EXCEPT ![request] = IF n = Len(Events(request)) THEN None ELSE n]
      \/ /\ stored' = stored /\ durable' = durable
         /\ added' = [added EXCEPT ![request] = None]
  BY DEF RecordNext
<1> HIDE DEF n, event
<1>5. HandlersOK'
  BY <1>1, <1>4 DEF IInv, HandlersOK
<1>6. /\ diagnostics' \in Seq(Event) /\ log' \in Seq(Event) /\ Len(log') = Len(log) + 1
      /\ Newest(diagnostics', log')
  BY <1>2, <1>3, NewestAdded DEF IInv, LedgerOK, LogIsKept
<1>7. /\ SubSeq(log', 1, durable) = SubSeq(log, 1, durable)
      /\ SubSeq(log', 1, Len(log')) = log'
  BY <1>2, <1>3, <1>6, PrefixKept DEF IInv, LedgerOK
<1>8. stored' \in Seq(Event) /\ durable' \in 0 .. Len(log')
  BY <1>4, <1>6 DEF IInv, LedgerOK
<1>9. Newest(stored', SubSeq(log', 1, durable'))
  <2>1. CASE stored' = diagnostics' /\ durable' = Len(log')
    <3>1. SubSeq(log', 1, durable') = log'
      BY <1>7, <2>1
    <3> QED
      BY <1>6, <2>1, <3>1
  <2>2. CASE stored' = stored /\ durable' = durable
    <3>1. SubSeq(log', 1, durable') = SubSeq(log, 1, durable)
      BY <1>7, <2>2
    <3>2. Newest(stored, SubSeq(log, 1, durable))
      BY DEF IInv, LedgerOK, LogIsKept
    <3> QED
      BY <2>2, <3>1, <3>2
  <2> QED
    BY <1>4, <2>1, <2>2
<1>10. LogIsKept'
  BY <1>6, <1>9 DEF LogIsKept, Newest
<1> QED
  BY <1>5, <1>6, <1>8, <1>10 DEF IInv, LedgerOK

LEMMA RestartStep ==
  ASSUME IInv, Restart
  PROVE  IInv'
<1>1. HandlersOK'
  BY DEF Restart, HandlersOK
<1>2. /\ diagnostics' = stored /\ stored' = stored /\ durable' = durable
      /\ log' = SubSeq(log, 1, durable)
  BY DEF Restart, Load
<1>3. log' \in Seq(Event) /\ Len(log') = durable /\ SubSeq(log', 1, durable) = log'
  BY <1>2 DEF IInv, LedgerOK
<1>4. LedgerOK'
  BY <1>2, <1>3 DEF IInv, LedgerOK, LogIsKept, Newest
<1> QED
  BY <1>1, <1>4 DEF IInv

(* A step that records nothing.                                            *)
LEMMA HandlerStep ==
  ASSUME IInv, UNCHANGED ledgerVars, HandlersOK'
  PROVE  IInv'
  BY DEF IInv, LedgerOK, LogIsKept, Newest, ledgerVars

(* The ledger is in order at all times.                                    *)
LEMMA LedgerInvariant == Spec => []IInv
<1>1. Init => IInv
  BY GatewayAssumption DEF Init, IInv, LedgerOK, LogIsKept, Newest, HandlersOK
<1>2. IInv /\ [Next]_vars => IInv'
  <2> SUFFICES ASSUME IInv, [Next]_vars PROVE IInv'
    OBVIOUS
  <2>1. ASSUME NEW request \in Request, Arrive(request) PROVE IInv'
    <3>1. added' = added \/ added' = [added EXCEPT ![request] = 0]
      BY <2>1 DEF Arrive
    <3>2. 0 < Len(Events(request))
      BY GatewayAssumption
    <3>3. HandlersOK'
      BY <3>1, <3>2 DEF IInv, HandlersOK
    <3> QED
      BY <2>1, <3>3, HandlerStep DEF Arrive
  <2>2. ASSUME NEW request \in Request, RecordNext(request) PROVE IInv'
    BY <2>2, RecordStep
  <2>3. ASSUME NEW request \in Request, Raise(request) PROVE IInv'
    <3>1. HandlersOK'
      BY <2>3 DEF Raise, IInv, HandlersOK
    <3> QED
      BY <2>3, <3>1, HandlerStep DEF Raise
  <2>4. ASSUME UNCHANGED <<added, ledgerVars>> PROVE IInv'
    <3>1. HandlersOK'
      BY <2>4 DEF IInv, HandlersOK
    <3> QED
      BY <2>4, <3>1, HandlerStep
  <2>5. ASSUME Restart PROVE IInv'
    BY <2>5, RestartStep
  <2> QED
    BY <2>1, <2>2, <2>3, <2>4, <2>5 DEF Next, vars
<1> QED
  BY <1>1, <1>2, PTL DEF Spec

(* The memory holds the newest events that were recorded, the newest       *)
(* first, and the file those it has seen, through writes that fail,        *)
(* handlers that raise and crashes at any time; so nothing is lost, counted*)
(* twice or put out of order before the report is computed                 *)
(* (InMemoryDiagnosticsRepository).                                        *)
THEOREM DiagnosticsAreTheLog == Spec => []LogIsKept
<1>1. IInv => LogIsKept
  BY DEF IInv, LedgerOK
<1> QED
  BY <1>1, LedgerInvariant, PTL

-----------------------------------------------------------------------------
(* Induction: a set of numbers has a least member, and what holds of the   *)
(* empty set, and of a set if it holds of what is left without any of its  *)
(* members, holds of every finite set.                                     *)
LEMMA LeastNatural ==
  ASSUME NEW S, S \subseteq Nat, S # {}
  PROVE  \E n \in S : \A k \in S : n <= k
<1>1. PICK n \in S : \A k \in S : <<k, n>> \notin OpToRel(<, Nat)
  BY WFMin, NatLessThanWellFounded
<1>2. \A k \in S : ~(k < n)
  BY <1>1 DEF OpToRel
<1> QED
  BY <1>2

LEMMA SubsetInduction ==
  ASSUME NEW S, IsFiniteSet(S), NEW G, {} \in G,
         \A T \in SUBSET S : T # {} /\ (\A x \in T : T \ {x} \in G) => T \in G
  PROVE  \A T \in SUBSET S : T \in G
<1> DEFINE Sizes == {Cardinality(T) : T \in {T \in SUBSET S : T \notin G}}
<1>1. \A T \in SUBSET S : IsFiniteSet(T) /\ Cardinality(T) \in Nat
  BY FS_Subset, FS_CardinalityType
<1>2. SUFFICES ASSUME Sizes # {} PROVE FALSE
  OBVIOUS
<1>3. Sizes \subseteq Nat
  BY <1>1
<1>4. PICK n \in Sizes : \A k \in Sizes : n <= k
  <2> HIDE DEF Sizes
  <2> QED
    BY <1>2, <1>3, LeastNatural
<1>5. PICK T \in SUBSET S : T \notin G /\ Cardinality(T) = n
  OBVIOUS
<1>6. \A x \in T : Cardinality(T \ {x}) = n - 1 /\ T \ {x} \in SUBSET S
  BY <1>1, <1>5, FS_RemoveElement
<1>7. n \in Nat
  BY <1>1, <1>5
<1>8. \A x \in T : T \ {x} \in G
  <2> SUFFICES ASSUME NEW x \in T, T \ {x} \notin G PROVE FALSE
    OBVIOUS
  <2>1. n - 1 \in Sizes
    BY <1>6
  <2> HIDE DEF Sizes
  <2> QED
    BY <1>4, <1>7, <2>1
<1> QED
  BY <1>5, <1>8

-----------------------------------------------------------------------------
(* A sum takes one member after the other: Adds says how, for the subsets  *)
(* of a set of sets.                                                       *)
First(T) == CHOOSE x \in T : TRUE

Step(h, f, T) == IF T = {} THEN 0 ELSE f[First(T)] + h[T \ {First(T)}]

Adds(h, f, S) == h = [T \in SUBSET S |-> Step(h, f, T)]

LEMMA FirstIn == ASSUME NEW T, T # {} PROVE First(T) \in T
  BY DEF First

LEMMA SumExists ==
  ASSUME NEW S, IsFiniteSet(S), NEW f
  PROVE  \E h : Adds(h, f, S)
<1> DEFINE Up(n) == {T \in SUBSET S : Cardinality(T) <= n}
           To(h, n) == h = [T \in Up(n) |-> Step(h, f, T)]
           N == Cardinality(S)
           Bad == {n \in 0 .. N : ~\E h : To(h, n)}
<1>1. \A T \in SUBSET S : IsFiniteSet(T) /\ Cardinality(T) \in Nat /\ Cardinality(T) <= N
  BY FS_Subset, FS_CardinalityType
<1>2. N \in Nat
  BY <1>1
<1>3. 0 \notin Bad
  <2> DEFINE g == [T \in Up(0) |-> 0]
  <2>1. \A T \in Up(0) : T = {}
    BY <1>1, FS_EmptySet
  <2>2. g = [T \in Up(0) |-> Step(g, f, T)]
    BY <2>1 DEF Step
  <2> QED
    BY <2>2
<1>4. ASSUME NEW n \in 1 .. N, n - 1 \notin Bad PROVE n \notin Bad
  <2>1. n - 1 \in 0 .. N
    BY <1>2
  <2>2. PICK h : To(h, n - 1)
    BY <1>4, <2>1
  <2> DEFINE g == [T \in Up(n) |-> Step(h, f, T)]
  <2>3. ASSUME NEW T \in Up(n) PROVE Step(h, f, T) = Step(g, f, T)
    <3>1. CASE T = {}
      BY <3>1 DEF Step
    <3>2. CASE T # {}
      <4> DEFINE U == T \ {First(T)}
      <4>1. First(T) \in T
        BY <3>2, FirstIn
      <4>2. U \in SUBSET S /\ Cardinality(U) = Cardinality(T) - 1
        BY <1>1, <4>1, FS_RemoveElement
      <4>3. U \in Up(n - 1) /\ U \in Up(n)
        BY <1>1, <4>2
      <4> HIDE DEF U, Up
      <4>4. h[U] = Step(h, f, U) /\ g[U] = Step(h, f, U)
        BY <2>2, <4>3
      <4> HIDE DEF g
      <4> QED
        BY <3>2, <4>4 DEF Step, U
    <3> QED
      BY <3>1, <3>2
  <2>4. To(g, n)
    <3> HIDE DEF Up
    <3>1. g = [T \in Up(n) |-> Step(h, f, T)]
      OBVIOUS
    <3>2. [T \in Up(n) |-> Step(h, f, T)] = [T \in Up(n) |-> Step(g, f, T)]
      <4> HIDE DEF g
      <4> QED
        BY <2>3
    <3> HIDE DEF g
    <3> QED
      BY <3>1, <3>2
  <2> HIDE DEF To
  <2> QED
    BY <2>4
<1>5. Bad = {}
  <2> SUFFICES ASSUME Bad # {} PROVE FALSE
    OBVIOUS
  <2>1. PICK n \in Bad : \A k \in Bad : n <= k
    <3>1. Bad \subseteq Nat
      OBVIOUS
    <3> HIDE DEF Bad
    <3> QED
      BY <3>1, LeastNatural
  <2>2. n \in 0 .. N
    OBVIOUS
  <2> HIDE DEF Bad, N
  <2> QED
    BY <1>2, <1>3, <1>4, <2>1, <2>2
<1>6. PICK h : To(h, N)
  <2> HIDE DEF To
  <2> QED
    BY <1>2, <1>5
<1>7. Up(N) = SUBSET S
  BY <1>1
<1> QED
  BY <1>6, <1>7 DEF Adds

LEMMA SumUnfolds ==
  ASSUME NEW S, IsFiniteSet(S), NEW f
  PROVE  \E h : Adds(h, f, S) /\ SumFunctionOnSet(f, S) = h[S]
<1> DEFINE Obeys(h) == h = [T \in SUBSET S |->
                     IF T = {} THEN 0
                     ELSE f[CHOOSE x \in T : TRUE] + h[T \ {CHOOSE x \in T : TRUE}]]
           sum == CHOOSE h : Obeys(h)
<1>1. SumFunctionOnSet(f, S) = sum[S]
  BY DEF SumFunctionOnSet, FoldFunctionOnSet, MapThenFoldSet
<1>2. \A h : Adds(h, f, S) <=> Obeys(h)
  BY DEF Adds, Step, First
<1>3. Adds(sum, f, S)
  <2> HIDE DEF Obeys
  <2> QED
    BY <1>2, SumExists
<1> QED
  BY <1>1, <1>3

(* The order does not matter: any member may be taken last.                *)
LEMMA AddsAny ==
  ASSUME NEW S, IsFiniteSet(S), NEW f, \A x \in S : f[x] \in Int, NEW h, Adds(h, f, S)
  PROVE  \A T \in SUBSET S : /\ h[T] \in Int
                             /\ T = {} => h[T] = 0
                             /\ \A x \in T : h[T] = f[x] + h[T \ {x}]
<1> DEFINE G == {T \in SUBSET S : /\ h[T] \in Int
                                  /\ \A x \in T : /\ h[T \ {x}] \in Int
                                                 /\ h[T] = f[x] + h[T \ {x}]}
<1>1. \A T \in SUBSET S : h[T] = IF T = {} THEN 0 ELSE f[First(T)] + h[T \ {First(T)}]
  BY DEF Adds, Step
<1>2. {} \in G
  <2>1. h[{}] = 0
    BY <1>1
  <2> QED
    BY <2>1
<1>3. ASSUME NEW T \in SUBSET S, T # {}, \A x \in T : T \ {x} \in G PROVE T \in G
  <2> DEFINE c == First(T)
  <2>1. c \in T /\ h[T] = f[c] + h[T \ {c}]
    BY <1>1, <1>3, FirstIn
  <2> HIDE DEF c
  <2>2. T \ {c} \in G /\ h[T \ {c}] \in Int /\ f[c] \in Int
    BY <1>3, <2>1
  <2>3. h[T] \in Int
    BY <2>1, <2>2
  <2>4. ASSUME NEW x \in T, x # c
        PROVE  h[T \ {x}] \in Int /\ h[T] = f[x] + h[T \ {x}]
    <3>1. h[T \ {c}] = f[x] + h[(T \ {c}) \ {x}] /\ T \ {x} \in G
      BY <1>3, <2>2, <2>4
    <3>2. h[T \ {x}] = f[c] + h[(T \ {x}) \ {c}]
      BY <2>1, <2>4, <3>1
    <3>3. (T \ {x}) \ {c} = (T \ {c}) \ {x}
      OBVIOUS
    <3>4. (T \ {c}) \ {x} \in SUBSET S
      OBVIOUS
    <3>5. h[T \ {x}] \in Int /\ f[x] \in Int /\ f[c] \in Int
      BY <2>1, <3>1
    <3> DEFINE a == h[(T \ {c}) \ {x}]
               b == h[T \ {x}]
               d == h[T \ {c}]
    <3>6. /\ h[T] = f[c] + d /\ d = f[x] + a /\ b = f[c] + a
          /\ b \in Int /\ d \in Int /\ f[x] \in Int /\ f[c] \in Int
      BY <2>1, <2>2, <3>1, <3>2, <3>3, <3>5
    <3>7. a \in Int
      BY <2>2, <2>4
    <3> HIDE DEF a, b, d
    <3>8. h[T] = f[x] + b
      BY <3>6, <3>7
    <3> QED
      BY <3>6, <3>8 DEF b
  <2> QED
    BY <2>1, <2>2, <2>3, <2>4
<1>4. \A T \in SUBSET S : T \in G
  <2> HIDE DEF G
  <2> QED
    BY <1>2, <1>3, SubsetInduction
<1> QED
  BY <1>1, <1>4

(* The sum over a part of a set does not depend on the rest.               *)
LEMMA AddsPart ==
  ASSUME NEW S, IsFiniteSet(S), NEW f, \A x \in S : f[x] \in Int, NEW h, Adds(h, f, S),
         NEW P \in SUBSET S
  PROVE  SumFunctionOnSet(f, P) = h[P]
<1>1. IsFiniteSet(P) /\ \A x \in P : f[x] \in Int
  BY FS_Subset
<1>2. PICK g : Adds(g, f, P) /\ SumFunctionOnSet(f, P) = g[P]
  BY <1>1, SumUnfolds
<1> DEFINE G == {T \in SUBSET P : g[T] = h[T]}
<1>4. {} \in G
  <2>1. g[{}] = 0 /\ h[{}] = 0
    BY <1>1, <1>2, AddsAny
  <2> QED
    BY <2>1
<1>5. ASSUME NEW T \in SUBSET P, T # {}, \A x \in T : T \ {x} \in G PROVE T \in G
  <2>1. PICK x \in T : TRUE
    BY <1>5
  <2>2. g[T] = f[x] + g[T \ {x}]
    BY <1>1, <1>2, AddsAny
  <2>3. h[T] = f[x] + h[T \ {x}]
    BY AddsAny
  <2> QED
    BY <1>5, <2>2, <2>3
<1>6. P \in G
  <2> HIDE DEF G
  <2>1. \A T \in SUBSET P : T \in G
    BY <1>1, <1>4, <1>5, SubsetInduction
  <2> QED
    BY <2>1
<1> QED
  BY <1>2, <1>6

(* What a sum is: its type, none, and any member and the rest.             *)
LEMMA SumIs ==
  ASSUME NEW S, IsFiniteSet(S), NEW f, \A x \in S : f[x] \in Int
  PROVE  /\ SumFunctionOnSet(f, S) \in Int
         /\ S = {} => SumFunctionOnSet(f, S) = 0
         /\ \A x \in S : SumFunctionOnSet(f, S) = f[x] + SumFunctionOnSet(f, S \ {x})
<1>1. PICK h : Adds(h, f, S) /\ SumFunctionOnSet(f, S) = h[S]
  BY SumUnfolds
<1>2. \A T \in SUBSET S : SumFunctionOnSet(f, T) = h[T]
  BY <1>1, AddsPart
<1>3. \A T \in SUBSET S : /\ h[T] \in Int
                          /\ T = {} => h[T] = 0
                          /\ \A x \in T : h[T] = f[x] + h[T \ {x}]
  BY <1>1, AddsAny
<1>4. S \in SUBSET S /\ \A x \in S : S \ {x} \in SUBSET S
  OBVIOUS
<1> QED
  BY <1>2, <1>3, <1>4

(* The same numbers have the same sum.                                     *)
LEMMA SumSame ==
  ASSUME NEW S, IsFiniteSet(S), NEW f, NEW g,
         \A x \in S : f[x] \in Int /\ f[x] = g[x]
  PROVE  SumFunctionOnSet(f, S) = SumFunctionOnSet(g, S)
<1>1. PICK h : Adds(h, f, S) /\ SumFunctionOnSet(f, S) = h[S]
  BY SumUnfolds
<1>2. \A T \in SUBSET S : Step(h, f, T) = Step(h, g, T)
  <2> SUFFICES ASSUME NEW T \in SUBSET S PROVE Step(h, f, T) = Step(h, g, T)
    OBVIOUS
  <2>1. T # {} => f[First(T)] = g[First(T)]
    BY FirstIn
  <2> QED
    BY <2>1 DEF Step
<1>3. [T \in SUBSET S |-> Step(h, f, T)] = [T \in SUBSET S |-> Step(h, g, T)]
  BY <1>2
<1>4. Adds(h, g, S)
  BY <1>1, <1>3 DEF Adds
<1>5. S \in SUBSET S /\ \A x \in S : g[x] \in Int
  OBVIOUS
<1>6. SumFunctionOnSet(g, S) = h[S]
  BY <1>4, <1>5, AddsPart
<1> QED
  BY <1>1, <1>6

-----------------------------------------------------------------------------
(* Where nothing is added a sum stays as it is.                            *)
LEMMA SumOfPart ==
  ASSUME NEW S, IsFiniteSet(S), NEW f, \A x \in S : f[x] \in Int,
         NEW P \in SUBSET S, \A x \in S \ P : f[x] = 0
  PROVE  SumFunctionOnSet(f, S) = SumFunctionOnSet(f, P)
<1> DEFINE s(T) == SumFunctionOnSet(f, T)
           G == {T \in SUBSET S : s(T) = s(T \cap P)}
<1>1. \A T \in SUBSET S : IsFiniteSet(T)
  BY FS_Subset
<1>2. \A T \in SUBSET S : /\ s(T) \in Int
                          /\ T = {} => s(T) = 0
                          /\ \A x \in T : s(T) = f[x] + s(T \ {x})
  BY <1>1, SumIs
<1>3. {} \in G
  <2>1. {} \cap P = {}
    OBVIOUS
  <2> QED
    BY <2>1
<1>4. ASSUME NEW T \in SUBSET S, T # {}, \A x \in T : T \ {x} \in G PROVE T \in G
  <2>1. CASE T \subseteq P
    <3>1. T \cap P = T
      BY <2>1
    <3> QED
      BY <3>1
  <2>2. CASE ~(T \subseteq P)
    <3>1. PICK x \in T : x \notin P
      BY <2>2
    <3>2. (T \ {x}) \cap P = T \cap P /\ T \ {x} \in SUBSET S
      BY <3>1
    <3>3. s(T \ {x}) = s((T \ {x}) \cap P)
      BY <1>4
    <3> HIDE DEF s
    <3>4. s(T) = s(T \ {x})
      BY <1>2, <3>1, <3>2
    <3>5. s(T) = s(T \cap P)
      BY <3>2, <3>3, <3>4
    <3> QED
      BY <3>5
  <2> QED
    BY <2>1, <2>2
<1>5. \A T \in SUBSET S : T \in G
  <2> HIDE DEF G
  <2> QED
    BY <1>3, <1>4, SubsetInduction
<1>6. S \in G /\ S \cap P = P
  BY <1>5
<1> QED
  BY <1>6

(* A sum does not depend on the names of what it counts.                   *)
LEMMA SumRenamed ==
  ASSUME NEW S, IsFiniteSet(S), NEW p, \A x, y \in S : p[x] = p[y] => x = y,
         NEW f, NEW g, \A x \in S : g[x] \in Int /\ f[p[x]] = g[x]
  PROVE  SumFunctionOnSet(f, {p[x] : x \in S}) = SumFunctionOnSet(g, S)
<1> DEFINE Im(T) == {p[x] : x \in T}
           s(T) == SumFunctionOnSet(f, Im(T))
           t(T) == SumFunctionOnSet(g, T)
           G == {T \in SUBSET S : s(T) = t(T)}
<1>1. \A T \in SUBSET S : IsFiniteSet(T) /\ IsFiniteSet(Im(T))
  <2> SUFFICES ASSUME NEW T \in SUBSET S PROVE IsFiniteSet(T) /\ IsFiniteSet(Im(T))
    OBVIOUS
  <2>1. IsFiniteSet(T)
    BY FS_Subset
  <2>2. [x \in T |-> p[x]] \in Surjection(T, Im(T))
    BY DEF Surjection
  <2> HIDE DEF Im
  <2> QED
    BY <2>1, <2>2, FS_Surjection
<1>2. \A T \in SUBSET S : t(T) \in Int /\ (T = {} => t(T) = 0) /\ \A x \in T : t(T) = g[x] + t(T \ {x})
  BY <1>1, SumIs
<1>3. \A T \in SUBSET S : (T = {} => s(T) = 0) /\ \A x \in T : s(T) = f[p[x]] + s(T \ {x})
  <2> SUFFICES ASSUME NEW T \in SUBSET S
               PROVE  (T = {} => s(T) = 0) /\ \A x \in T : s(T) = f[p[x]] + s(T \ {x})
    OBVIOUS
  <2> DEFINE I == Im(T)
  <2>1. IsFiniteSet(I) /\ (\A y \in I : f[y] \in Int)
    BY <1>1
  <2>2. (T = {} => I = {}) /\ \A x \in T : p[x] \in I /\ I \ {p[x]} = Im(T \ {x})
    OBVIOUS
  <2>3. s(T) = SumFunctionOnSet(f, I)
    OBVIOUS
  <2> HIDE DEF I
  <2>4. (I = {} => s(T) = 0) /\ \A y \in I : s(T) = f[y] + SumFunctionOnSet(f, I \ {y})
    BY <2>1, <2>3, SumIs
  <2> QED
    BY <2>2, <2>4
<1> HIDE DEF s, t
<1>4. {} \in G
  BY <1>2, <1>3
<1>5. ASSUME NEW T \in SUBSET S, T # {}, \A x \in T : T \ {x} \in G PROVE T \in G
  <2>1. PICK x \in T : TRUE
    BY <1>5
  <2>2. t(T) = g[x] + t(T \ {x}) /\ s(T) = f[p[x]] + s(T \ {x}) /\ s(T \ {x}) = t(T \ {x})
    BY <1>2, <1>3, <1>5
  <2> QED
    BY <2>2
<1>6. \A T \in SUBSET S : T \in G
  <2> HIDE DEF G
  <2> QED
    BY <1>4, <1>5, SubsetInduction
<1>7. S \in G
  BY <1>6
<1> QED
  BY <1>7 DEF s, t

(* Counting is adding ones.                                                *)
LEMMA SumOfOnes ==
  ASSUME NEW S, IsFiniteSet(S), NEW Q \in SUBSET S,
         NEW c, \A x \in S : c[x] = IF x \in Q THEN 1 ELSE 0
  PROVE  SumFunctionOnSet(c, S) = Cardinality(Q)
<1> DEFINE s(T) == SumFunctionOnSet(c, T)
           G == {T \in SUBSET S : s(T) = Cardinality(T \cap Q)}
<1>1. \A T \in SUBSET S : IsFiniteSet(T) /\ IsFiniteSet(T \cap Q)
  BY FS_Subset, FS_Intersection
<1>2. \A T \in SUBSET S : (T = {} => s(T) = 0) /\ \A x \in T : s(T) = c[x] + s(T \ {x})
  <2>1. \A x \in S : c[x] \in Int
    OBVIOUS
  <2> QED
    BY <1>1, <2>1, SumIs
<1> HIDE DEF s
<1>3. {} \in G
  <2>1. Cardinality({} \cap Q) = 0
    <3>1. {} \cap Q = {}
      OBVIOUS
    <3> QED
      BY <3>1, FS_EmptySet
  <2> QED
    BY <1>2, <2>1
<1>4. ASSUME NEW T \in SUBSET S, T # {}, \A x \in T : T \ {x} \in G PROVE T \in G
  <2>1. PICK x \in T : TRUE
    BY <1>4
  <2>2. s(T) = c[x] + s(T \ {x}) /\ s(T \ {x}) = Cardinality((T \ {x}) \cap Q)
    BY <1>2, <1>4
  <2>3. (T \ {x}) \cap Q = (T \cap Q) \ {x}
    OBVIOUS
  <2>4. Cardinality((T \cap Q) \ {x}) = IF x \in T \cap Q THEN Cardinality(T \cap Q) - 1
                                                          ELSE Cardinality(T \cap Q)
    BY <1>1, FS_RemoveElement
  <2>5. Cardinality(T \cap Q) \in Int
    BY <1>1, FS_CardinalityType
  <2>6. s(T) = Cardinality(T \cap Q)
    <3>1. s(T) = c[x] + Cardinality((T \cap Q) \ {x})
      BY <2>2, <2>3
    <3>2. CASE x \in Q
      BY <2>4, <2>5, <3>1, <3>2
    <3>3. CASE x \notin Q
      BY <2>4, <2>5, <3>1, <3>3
    <3> QED
      BY <3>2, <3>3
  <2> QED
    BY <2>6
<1>5. \A T \in SUBSET S : T \in G
  <2> HIDE DEF G
  <2> QED
    BY <1>3, <1>4, SubsetInduction
<1>6. S \in G /\ S \cap Q = Q
  BY <1>5
<1> QED
  BY <1>6 DEF s

(* The sums of the parts that a field tells apart make up the whole.       *)
Values(v, S) == {v[x] : x \in S}

WithValue(v, S, w) == {x \in S : v[x] = w}

LEMMA SumOfParts ==
  ASSUME NEW S, IsFiniteSet(S), NEW f, \A x \in S : f[x] \in Int, NEW v, NEW b,
         \A w \in Values(v, S) : b[w] = SumFunctionOnSet(f, WithValue(v, S, w))
  PROVE  SumFunctionOnSet(b, Values(v, S)) = SumFunctionOnSet(f, S)
<1> DEFINE Vals(T) == {v[x] : x \in T}
           Part(T, w) == {x \in T : v[x] = w}
           s(T) == SumFunctionOnSet(f, T)
           Parts(c, T) == \A w \in Vals(T) : c[w] = s(Part(T, w))
           G == {T \in SUBSET S : \A c : Parts(c, T) => SumFunctionOnSet(c, Vals(T)) = s(T)}
<1>1. \A T \in SUBSET S : IsFiniteSet(T) /\ IsFiniteSet(Vals(T))
  <2> SUFFICES ASSUME NEW T \in SUBSET S PROVE IsFiniteSet(T) /\ IsFiniteSet(Vals(T))
    OBVIOUS
  <2>1. IsFiniteSet(T)
    BY FS_Subset
  <2>2. [x \in T |-> v[x]] \in Surjection(T, Vals(T))
    BY DEF Surjection
  <2> HIDE DEF Vals
  <2> QED
    BY <2>1, <2>2, FS_Surjection
<1>2. \A T \in SUBSET S : s(T) \in Int /\ (T = {} => s(T) = 0) /\ \A x \in T : s(T) = f[x] + s(T \ {x})
  BY <1>1, SumIs
<1> HIDE DEF s
<1>3. {} \in G
  <2>1. \A c : SumFunctionOnSet(c, {}) = 0
    BY FS_EmptySet, SumIs
  <2>2. Vals({}) = {}
    OBVIOUS
  <2> QED
    BY <1>2, <2>1, <2>2
<1>4. ASSUME NEW T \in SUBSET S, T # {}, \A x \in T : T \ {x} \in G PROVE T \in G
  <2> SUFFICES ASSUME NEW c, Parts(c, T) PROVE SumFunctionOnSet(c, Vals(T)) = s(T)
    OBVIOUS
  <2>1. PICK x \in T : TRUE
    BY <1>4
  <2> DEFINE U == T \ {x}
             W == Vals(T)
             d == [w \in W |-> s(Part(U, w))]
             z == v[x]
  <2>2. U \in SUBSET S /\ Vals(U) \subseteq W /\ z \in W
    BY <2>1
  <2>3. Parts(d, U)
    OBVIOUS
  <2>4. SumFunctionOnSet(d, Vals(U)) = s(U)
    <3>1. U \in G
      BY <1>4, <2>1
    <3> HIDE DEF U, d
    <3> QED
      BY <2>3, <3>1
  <2>5. \A w \in W : d[w] \in Int /\ (w \notin Vals(U) => d[w] = 0)
    <3> SUFFICES ASSUME NEW w \in W PROVE d[w] \in Int /\ (w \notin Vals(U) => d[w] = 0)
      OBVIOUS
    <3>1. Part(U, w) \in SUBSET S /\ (w \notin Vals(U) => Part(U, w) = {})
      OBVIOUS
    <3>2. d[w] = s(Part(U, w))
      OBVIOUS
    <3> HIDE DEF d, U, W
    <3> QED
      BY <1>2, <3>1, <3>2
  <2>6. \A w \in W : c[w] = IF w = z THEN f[x] + d[w] ELSE d[w]
    <3> SUFFICES ASSUME NEW w \in W PROVE c[w] = IF w = z THEN f[x] + d[w] ELSE d[w]
      OBVIOUS
    <3>1. c[w] = s(Part(T, w)) /\ d[w] = s(Part(U, w))
      OBVIOUS
    <3>2. CASE w = z
      <4>1. x \in Part(T, w) /\ Part(T, w) \ {x} = Part(U, w) /\ Part(T, w) \in SUBSET S
        BY <2>1, <3>2
      <4>2. s(Part(T, w)) = f[x] + s(Part(T, w) \ {x})
        BY <1>2, <4>1
      <4> QED
        BY <3>1, <3>2, <4>1, <4>2
    <3>3. CASE w # z
      <4>1. Part(T, w) = Part(U, w)
        BY <3>3
      <4> QED
        BY <3>1, <3>3, <4>1
    <3> QED
      BY <3>2, <3>3
  <2>7. IsFiniteSet(W) /\ f[x] \in Int /\ s(T) = f[x] + s(U)
    BY <1>1, <1>2, <2>1
  <2> HIDE DEF d, W, U, z
  <2>8. SumFunctionOnSet(d, W) = s(U)
    BY <2>2, <2>4, <2>5, <2>7, SumOfPart
  <2>9. IsFiniteSet(W \ {z})
    BY <2>7, FS_RemoveElement
  <2>10. SumFunctionOnSet(c, W \ {z}) = SumFunctionOnSet(d, W \ {z})
    <3>1. \A w \in W \ {z} : c[w] \in Int /\ c[w] = d[w]
      BY <2>5, <2>6
    <3> QED
      BY <2>9, <3>1, SumSame
  <2>11. SumFunctionOnSet(d, W) = d[z] + SumFunctionOnSet(d, W \ {z})
    BY <2>2, <2>5, <2>7, SumIs
  <2>12. SumFunctionOnSet(c, W) = c[z] + SumFunctionOnSet(c, W \ {z})
    <3>1. \A w \in W : c[w] \in Int
      BY <2>5, <2>6, <2>7
    <3> QED
      BY <2>2, <2>7, <3>1, SumIs
  <2>13. c[z] = f[x] + d[z] /\ d[z] \in Int
    BY <2>2, <2>5, <2>6
  <2>14. SumFunctionOnSet(d, W \ {z}) \in Int
    BY <2>5, <2>9, SumIs
  <2>15. SumFunctionOnSet(c, W) = s(T)
    BY <2>7, <2>8, <2>10, <2>11, <2>12, <2>13, <2>14
  <2> QED
    BY <2>15 DEF W
<1>5. \A T \in SUBSET S : T \in G
  <2> HIDE DEF G
  <2> QED
    BY <1>3, <1>4, SubsetInduction
<1>6. S \in G /\ Parts(b, S)
  <2>1. S \in G
    BY <1>5
  <2>2. Parts(b, S)
    BY DEF s, Values, WithValue
  <2> QED
    BY <2>1, <2>2
<1> QED
  BY <1>6 DEF s, Values

-----------------------------------------------------------------------------
(* The report.  What a record of a turn or of a bill is.                   *)
LEMMA EventFacts ==
  ASSUME NEW event \in Event
  PROVE  /\ event.code = ChatCode => /\ event.total_tokens \in Int
                                     /\ event.estimated_cost_cents \in Int
                                     /\ event.provider_billed_cost_cents = 0
         /\ event.code = BillingCode => /\ event.total_tokens \in Int
                                        /\ event.estimated_cost_cents = 0
                                        /\ event.provider_billed_cost_cents \in Int
         /\ event.code \in {ChatCode, BillingCode} =>
              <<event.tenant_id, event.session_id, event.provider, event.model>> # None
<1>1. PICK request \in Request : \E i \in DOMAIN Events(request) : event = Events(request)[i]
  BY DEF Event
<1>2. PICK i \in DOMAIN Events(request) : event = Events(request)[i]
  BY <1>1
<1>3. ChatCode # BillingCode
  BY DEF ChatCode, BillingCode
<1>4. CASE request.route = "billing"
  <2>1. Events(request) = [k \in DOMAIN request.records |-> BillingEvent(request.records[k])]
    BY <1>4 DEF Events
  <2>2. i \in DOMAIN request.records /\ event = BillingEvent(request.records[i])
    BY <1>2, <2>1
  <2>3. /\ request.records[i].total_tokens \in Int
        /\ request.records[i].billed_cost_cents \in Int
    BY <1>4, <2>2, GatewayAssumption
  <2>4. /\ event.code = BillingCode /\ event.total_tokens \in Int
        /\ event.estimated_cost_cents = 0 /\ event.provider_billed_cost_cents \in Int
    BY <2>2, <2>3 DEF BillingEvent
  <2> QED
    BY <1>3, <2>4, GatewayAssumption
<1>5. CASE request.route = "chat"
  <2>1. Events(request) = request.events
    BY <1>5 DEF Events
  <2>2. i \in DOMAIN request.events /\ event = request.events[i]
    BY <1>2, <2>1
  <2>3. /\ event.code # BillingCode
        /\ event.code = ChatCode => /\ event.total_tokens \in Int
                                    /\ event.estimated_cost_cents \in Int
                                    /\ event.provider_billed_cost_cents = 0
    BY <1>5, <2>2, GatewayAssumption
  <2> QED
    BY <2>3, GatewayAssumption
<1> QED
  BY <1>4, <1>5, GatewayAssumption

(* The place in the log of an event in memory.                             *)
Place(i) == Len(log) + 1 - i

Told(tenant, code) ==
  {i \in (IF Len(log) > MaxEvents THEN Len(log) - MaxEvents + 1 ELSE 1) .. Len(log) :
     log[i].code = code /\ (tenant = None \/ log[i].tenant_id = tenant)}

LEMMA PlaceIs ==
  ASSUME LedgerOK
  PROVE  /\ IsFiniteSet(DOMAIN diagnostics)
         /\ \A i \in DOMAIN diagnostics : diagnostics[i] = log[Place(i)] /\ diagnostics[i] \in Event
         /\ \A i, k \in DOMAIN diagnostics : Place(i) = Place(k) => i = k
<1>1. /\ diagnostics \in Seq(Event) /\ log \in Seq(Event) /\ Newest(diagnostics, log)
  BY DEF LedgerOK, LogIsKept
<1>2. DOMAIN diagnostics = 1 .. Len(diagnostics) /\ Len(diagnostics) \in Nat /\ Len(log) \in Nat
  BY <1>1
<1>3. IsFiniteSet(DOMAIN diagnostics)
  BY <1>2, FS_Interval
<1>4. \A i \in DOMAIN diagnostics : diagnostics[i] = log[Place(i)] /\ diagnostics[i] \in Event
  BY <1>1, <1>2 DEF Newest, Place
<1>5. \A i, k \in DOMAIN diagnostics : Place(i) = Place(k) => i = k
  BY <1>2 DEF Place
<1> QED
  BY <1>3, <1>4, <1>5

LEMMA QueryTold ==
  ASSUME LedgerOK, NEW tenant, NEW code
  PROVE  /\ Query(diagnostics, tenant, code) \in SUBSET DOMAIN diagnostics
         /\ Told(tenant, code) = {Place(i) : i \in Query(diagnostics, tenant, code)}
<1> DEFINE Q == Query(diagnostics, tenant, code)
           first == IF Len(log) > MaxEvents THEN Len(log) - MaxEvents + 1 ELSE 1
           Is(event) == event.code = code /\ (tenant = None \/ event.tenant_id = tenant)
<1>1. /\ diagnostics \in Seq(Event) /\ log \in Seq(Event)
      /\ Len(diagnostics) = IF Len(log) > MaxEvents THEN MaxEvents ELSE Len(log)
  BY DEF LedgerOK, LogIsKept, Newest
<1>2. DOMAIN diagnostics = 1 .. Len(diagnostics) /\ Len(diagnostics) \in Nat /\ Len(log) \in Nat
  BY <1>1
<1>3. Q = {i \in DOMAIN diagnostics : Is(diagnostics[i])}
  BY DEF Query
<1>4. Told(tenant, code) = {j \in first .. Len(log) : Is(log[j])}
  BY DEF Told
<1>5. \A i \in DOMAIN diagnostics : diagnostics[i] = log[Place(i)]
  BY PlaceIs
<1>6. /\ \A i \in DOMAIN diagnostics : Place(i) \in first .. Len(log)
      /\ \A j \in first .. Len(log) : Place(j) \in DOMAIN diagnostics /\ Place(Place(j)) = j
  BY <1>1, <1>2, GatewayAssumption DEF Place
<1> HIDE DEF first, Is
<1>7. ASSUME NEW j \in Told(tenant, code) PROVE \E i \in Q : j = Place(i)
  <2>1. Place(j) \in DOMAIN diagnostics /\ Place(Place(j)) = j /\ Is(log[j])
    BY <1>4, <1>6
  <2>2. diagnostics[Place(j)] = log[j]
    BY <1>5, <2>1
  <2> QED
    BY <1>3, <2>1, <2>2
<1>8. ASSUME NEW i \in Q PROVE Place(i) \in Told(tenant, code)
  BY <1>3, <1>4, <1>5, <1>6
<1>9. Q \in SUBSET DOMAIN diagnostics
  BY <1>3
<1> QED
  BY <1>7, <1>8, <1>9

(* Hence sums and counts over places in memory are those over places in    *)
(* the log.                                                                *)
LEMMA SumTold ==
  ASSUME LedgerOK, NEW P \in SUBSET DOMAIN diagnostics, NEW field,
         \A i \in P : diagnostics[i][field] \in Int,
         NEW T, T = {Place(i) : i \in P}
  PROVE  Total(diagnostics, P, field) = SumFunction([j \in T |-> log[j][field]])
<1> DEFINE f == [j \in T |-> log[j][field]]
           g == [i \in P |-> diagnostics[i][field]]
           p == [i \in P |-> Place(i)]
<1>1. IsFiniteSet(P)
  BY PlaceIs, FS_Subset
<1>2. \A i \in P : g[i] \in Int /\ f[p[i]] = g[i]
  BY PlaceIs
<1>3. \A i, k \in P : p[i] = p[k] => i = k
  BY PlaceIs
<1>4. T = {p[i] : i \in P}
  OBVIOUS
<1>5. /\ Total(diagnostics, P, field) = SumFunctionOnSet(g, P)
      /\ SumFunction(f) = SumFunctionOnSet(f, T)
  BY DEF Total, SumFunction
<1> HIDE DEF f, g, p
<1>6. SumFunctionOnSet(f, {p[i] : i \in P}) = SumFunctionOnSet(g, P)
  BY <1>1, <1>2, <1>3, SumRenamed
<1> QED
  BY <1>4, <1>5, <1>6 DEF f

LEMMA CountTold ==
  ASSUME LedgerOK, NEW P \in SUBSET DOMAIN diagnostics, NEW T, T = {Place(i) : i \in P}
  PROVE  /\ IsFiniteSet(P) /\ Cardinality(P) \in Nat
         /\ Cardinality(P) = Cardinality(T)
<1>1. IsFiniteSet(P)
  BY PlaceIs, FS_Subset
<1>2. [i \in P |-> Place(i)] \in Bijection(P, T)
  BY PlaceIs DEF Bijection, Injection, Surjection, IsInjective
<1>3. ExistsBijection(P, T)
  BY <1>2 DEF ExistsBijection
<1> QED
  BY <1>1, <1>3, FS_Bijection, FS_CardinalityType

-----------------------------------------------------------------------------
(* What an event adds to a figure of a bucket.                             *)
Figures == {"request_count", "total_tokens", "cache_hits", "provider_usage_records",
            "estimated_usage_records", "provider_billing_records"}

Counted(event, part) ==
  \/ part = "request_count"
  \/ part = "cache_hits" /\ event.cache_hit
  \/ part = "provider_usage_records" /\ event.usage_source = "provider"
  \/ part = "estimated_usage_records" /\ event.usage_source = "estimated"
  \/ part = "provider_billing_records" /\ event.usage_source = "provider_billing"

Weight(event, part) ==
  IF part = "total_tokens" THEN event.total_tokens ELSE IF Counted(event, part) THEN 1 ELSE 0

LEMMA AccumulatedIs ==
  ASSUME NEW events, NEW S, IsFiniteSet(S), \A i \in S : events[i].total_tokens \in Int,
         NEW T \in SUBSET S, NEW part \in Figures
  PROVE  Accumulated(events, T)[part] =
           SumFunctionOnSet([i \in S |-> Weight(events[i], part)], T)
<1> DEFINE f == [i \in S |-> Weight(events[i], part)]
           Q == {i \in T : Counted(events[i], part)}
<1>1. IsFiniteSet(T)
  BY FS_Subset
<1>2. CASE part = "total_tokens"
  <2> DEFINE g == [i \in T |-> events[i]["total_tokens"]]
  <2>1. Accumulated(events, T)[part] = Total(events, T, "total_tokens")
    BY <1>2 DEF Accumulated
  <2>2. Total(events, T, "total_tokens") = SumFunctionOnSet(g, T)
    BY DEF Total, SumFunction
  <2>3. \A i \in T : g[i] \in Int /\ g[i] = f[i]
    BY <1>2 DEF Weight
  <2> HIDE DEF f, g
  <2>4. SumFunctionOnSet(g, T) = SumFunctionOnSet(f, T)
    BY <1>1, <2>3, SumSame
  <2> QED
    BY <2>1, <2>2, <2>4 DEF f
<1>3. CASE part # "total_tokens"
  <2>1. \A i \in T : f[i] = IF i \in Q THEN 1 ELSE 0
    BY <1>3 DEF Weight
  <2>2. Accumulated(events, T)[part] = Cardinality(Q)
    <3>1. CASE part = "request_count"
      <4>1. Q = T
        BY <3>1 DEF Counted
      <4> HIDE DEF Q
      <4> QED
        BY <3>1, <4>1 DEF Accumulated
    <3>2. CASE part = "cache_hits"
      <4>1. Q = {i \in T : events[i].cache_hit}
        BY <3>2 DEF Counted
      <4> HIDE DEF Q
      <4> QED
        BY <3>2, <4>1 DEF Accumulated
    <3>3. CASE part = "provider_usage_records"
      <4>1. Q = {i \in T : events[i].usage_source = "provider"}
        BY <3>3 DEF Counted
      <4> HIDE DEF Q
      <4> QED
        BY <3>3, <4>1 DEF Accumulated
    <3>4. CASE part = "estimated_usage_records"
      <4>1. Q = {i \in T : events[i].usage_source = "estimated"}
        BY <3>4 DEF Counted
      <4> HIDE DEF Q
      <4> QED
        BY <3>4, <4>1 DEF Accumulated
    <3>5. CASE part = "provider_billing_records"
      <4>1. Q = {i \in T : events[i].usage_source = "provider_billing"}
        BY <3>5 DEF Counted
      <4> HIDE DEF Q
      <4> QED
        BY <3>5, <4>1 DEF Accumulated
    <3> QED
      BY <1>3, <3>1, <3>2, <3>3, <3>4, <3>5 DEF Figures
  <2>3. Q \in SUBSET T
    OBVIOUS
  <2> HIDE DEF f, Q
  <2>4. SumFunctionOnSet(f, T) = Cardinality(Q)
    BY <1>1, <2>1, <2>3, SumOfOnes
  <2> QED
    BY <2>2, <2>4 DEF f
<1> QED
  BY <1>2, <1>3

(* The parts of a breakdown make up the whole.                             *)
LEMMA PartsMakeUp ==
  ASSUME NEW events, NEW S, IsFiniteSet(S), \A i \in S : events[i].total_tokens \in Int,
         NEW field, NEW part \in Figures, NEW b, b = Breakdown(events, S, field)
  PROVE  SumFunction([value \in DOMAIN b |-> b[value][part]]) = Accumulated(events, S)[part]
<1> DEFINE f == [i \in S |-> Weight(events[i], part)]
           v == [i \in S |-> events[i][field]]
           V == Values(v, S)
           c == [value \in V |-> b[value][part]]
           Of(w) == WithValue(v, S, w)
<1>1. \A i \in S : f[i] \in Int
  BY DEF Weight
<1>2. V = {events[i][field] : i \in S} /\ \A w : Of(w) = {i \in S : events[i][field] = w}
  BY DEF Values, WithValue
<1>3. b = [value \in V |-> Accumulated(events, Of(value))]
  BY <1>2 DEF Breakdown
<1>4. \A w \in V : Of(w) \in SUBSET S
  BY DEF WithValue
<1> HIDE DEF V, Of
<1>5. DOMAIN b = V /\ \A w \in V : c[w] = Accumulated(events, Of(w))[part]
  BY <1>3
<1> HIDE DEF c
<1>6. \A w \in V : c[w] = SumFunctionOnSet(f, Of(w))
  BY <1>4, <1>5, AccumulatedIs
<1>7. SumFunctionOnSet(c, V) = SumFunctionOnSet(f, S)
  <2> HIDE DEF f, v
  <2> QED
    BY <1>1, <1>6, SumOfParts DEF V, Of
<1>8. Accumulated(events, S)[part] = SumFunctionOnSet(f, S)
  <2>1. S \in SUBSET S
    OBVIOUS
  <2> QED
    BY <2>1, AccumulatedIs
<1>9. SumFunction(c) = SumFunctionOnSet(c, V)
  BY DEF SumFunction, c
<1>10. c = [value \in DOMAIN b |-> b[value][part]]
  BY <1>5 DEF c
<1> QED
  BY <1>7, <1>8, <1>9, <1>10

-----------------------------------------------------------------------------
(* Only what is not zero matters.                                          *)
LEMMA TotalOfPart ==
  ASSUME LedgerOK, NEW Q \in SUBSET DOMAIN diagnostics, NEW P \in SUBSET Q, NEW field,
         \A i \in Q : /\ diagnostics[i][field] \in Int
                      /\ i \notin P => diagnostics[i][field] = 0
  PROVE  Total(diagnostics, Q, field) = Total(diagnostics, P, field)
<1> DEFINE f == [i \in Q |-> diagnostics[i][field]]
           g == [i \in P |-> diagnostics[i][field]]
<1>1. IsFiniteSet(Q) /\ IsFiniteSet(P)
  BY PlaceIs, FS_Subset
<1>2. /\ \A i \in Q : f[i] \in Int
      /\ \A i \in Q \ P : f[i] = 0
      /\ \A i \in P : f[i] \in Int /\ f[i] = g[i]
  OBVIOUS
<1>3. /\ Total(diagnostics, Q, field) = SumFunctionOnSet(f, Q)
      /\ Total(diagnostics, P, field) = SumFunctionOnSet(g, P)
  BY DEF Total, SumFunction
<1> HIDE DEF f, g
<1>4. SumFunctionOnSet(f, Q) = SumFunctionOnSet(f, P)
  BY <1>1, <1>2, SumOfPart
<1>5. SumFunctionOnSet(f, P) = SumFunctionOnSet(g, P)
  BY <1>1, <1>2, SumSame
<1> QED
  BY <1>3, <1>4, <1>5

(* A record of a bill and a turn are matched if they are of the same       *)
(* session, tenant, provider and model.                                    *)
Same(e, d) ==
  /\ e.session_id # None /\ e.session_id = d.session_id
  /\ e.tenant_id = d.tenant_id
  /\ e.provider = d.provider /\ e.model = d.model

LEMMA KeyIs ==
  ASSUME NEW e \in Event, NEW d \in Event,
         e.code \in {ChatCode, BillingCode}, d.code \in {ChatCode, BillingCode}
  PROVE  /\ ReconciliationKey(e) # None /\ ReconciliationKey(e) = ReconciliationKey(d) <=> Same(e, d)
         /\ Same(e, d) <=> Same(d, e)
<1>1. /\ <<e.tenant_id, e.session_id, e.provider, e.model>> # None
      /\ <<d.tenant_id, d.session_id, d.provider, d.model>> # None
  BY EventFacts
<1>2. CASE e.session_id = None
  BY <1>2 DEF ReconciliationKey, Same
<1>3. CASE d.session_id = None
  BY <1>1, <1>3 DEF ReconciliationKey, Same
<1>4. CASE e.session_id # None /\ d.session_id # None
  <2>1. /\ ReconciliationKey(e) = <<e.tenant_id, e.session_id, e.provider, e.model>>
        /\ ReconciliationKey(d) = <<d.tenant_id, d.session_id, d.provider, d.model>>
    BY <1>4 DEF ReconciliationKey
  <2> QED
    BY <1>1, <1>4, <2>1 DEF Same
<1> QED
  BY <1>2, <1>3, <1>4

LEMMA UnmatchedIs ==
  ASSUME NEW events, NEW P, NEW O,
         \A i \in P \cup O : events[i] \in Event /\ events[i].code \in {ChatCode, BillingCode}
  PROVE  Unmatched(events, P, O) = {i \in P : \A k \in O : ~Same(events[i], events[k])}
<1> DEFINE key(i) == ReconciliationKey(events[i])
           keys == {key(k) : k \in O} \ {None}
<1>1. \A i \in P, k \in O : key(i) # None /\ key(i) = key(k) <=> Same(events[i], events[k])
  BY KeyIs
<1>2. Unmatched(events, P, O) = {i \in P : key(i) \notin keys}
  BY DEF Unmatched
<1>3. \A i \in P : key(i) \in keys <=> \E k \in O : key(i) # None /\ key(i) = key(k)
  OBVIOUS
<1> HIDE DEF key, keys
<1> QED
  BY <1>1, <1>2, <1>3

-----------------------------------------------------------------------------
(* The figures of the report are those of the log.                         *)
LEMMA ReportIs ==
  ASSUME LedgerOK, NEW tenant
  PROVE  LET chat == Told(tenant, ChatCode)
             billing == Told(tenant, BillingCode)
             report == CostSummary(diagnostics, tenant)
             sum(places, field) == SumFunction([i \in places |-> log[i][field]])
             match(i, j) == /\ log[i].session_id # None /\ log[i].session_id = log[j].session_id
                            /\ log[i].tenant_id = log[j].tenant_id
                            /\ log[i].provider = log[j].provider /\ log[i].model = log[j].model
             parts(breakdown, part) ==
               SumFunction([value \in DOMAIN breakdown |-> breakdown[value][part]])
         IN /\ report.total.request_count = Cardinality(chat \cup billing)
            /\ report.total.total_tokens = sum(chat \cup billing, "total_tokens")
            /\ report.total.reconciliation.variance_cents =
                 sum(billing, "provider_billed_cost_cents") - sum(chat, "estimated_cost_cents")
            /\ \A breakdown \in {report.by_provider, report.by_route, report.by_model},
                  part \in {"request_count", "total_tokens", "cache_hits", "provider_usage_records",
                            "estimated_usage_records", "provider_billing_records"} :
                 parts(breakdown, part) = report.total[part]
            /\ report.usage.usage_variance_tokens =
                 sum(billing, "total_tokens") - sum(chat, "total_tokens")
            /\ report.usage.matched_record_count =
                 Cardinality({j \in billing : \E i \in chat : match(i, j)})
            /\ report.usage.matched_record_count + report.usage.unmatched_provider_record_count =
                 Cardinality(billing)
            /\ report.usage.unmatched_runtime_record_count =
                 Cardinality({i \in chat : \A j \in billing : ~match(i, j)})
<1> DEFINE C == Query(diagnostics, tenant, ChatCode)
           B == Query(diagnostics, tenant, BillingCode)
           A == C \cup B
           chat == Told(tenant, ChatCode)
           billing == Told(tenant, BillingCode)
           report == CostSummary(diagnostics, tenant)
           sum(places, field) == SumFunction([i \in places |-> log[i][field]])
           match(i, j) == /\ log[i].session_id # None /\ log[i].session_id = log[j].session_id
                          /\ log[i].tenant_id = log[j].tenant_id
                          /\ log[i].provider = log[j].provider /\ log[i].model = log[j].model
<1>1. /\ C \in SUBSET DOMAIN diagnostics /\ chat = {Place(i) : i \in C}
      /\ B \in SUBSET DOMAIN diagnostics /\ billing = {Place(i) : i \in B}
  BY QueryTold
<1>2. /\ \A i \in C : diagnostics[i].code = ChatCode
      /\ \A i \in B : diagnostics[i].code = BillingCode
  BY DEF Query
<1>3. \A i \in DOMAIN diagnostics : diagnostics[i] = log[Place(i)] /\ diagnostics[i] \in Event
  BY PlaceIs
<1>4. /\ report.total = Accumulated(diagnostics, A)
      /\ report.usage = UsageReconciliation(diagnostics, C, B)
      /\ report.by_provider = Breakdown(diagnostics, A, "provider")
      /\ report.by_route = Breakdown(diagnostics, A, "route")
      /\ report.by_model = Breakdown(diagnostics, A, "model")
  BY DEF CostSummary
<1> HIDE DEF C, B, chat, billing, report
<1>5. A \in SUBSET DOMAIN diagnostics /\ chat \cup billing = {Place(i) : i \in A}
  BY <1>1
<1>6. /\ \A i \in C : /\ diagnostics[i]["total_tokens"] \in Int
                      /\ diagnostics[i]["estimated_cost_cents"] \in Int
                      /\ diagnostics[i]["provider_billed_cost_cents"] = 0
      /\ \A i \in B : /\ diagnostics[i]["total_tokens"] \in Int
                      /\ diagnostics[i]["estimated_cost_cents"] = 0
                      /\ diagnostics[i]["provider_billed_cost_cents"] \in Int
  BY <1>1, <1>2, <1>3, EventFacts
<1>7. \A i \in A : diagnostics[i] \in Event /\ diagnostics[i].code \in {ChatCode, BillingCode}
  BY <1>1, <1>2, <1>3
<1> HIDE DEF A
<1>8. \A i \in A : /\ diagnostics[i]["total_tokens"] \in Int
                   /\ diagnostics[i]["estimated_cost_cents"] \in Int
                   /\ diagnostics[i]["provider_billed_cost_cents"] \in Int
                   /\ i \notin C => diagnostics[i]["estimated_cost_cents"] = 0
                   /\ i \notin B => diagnostics[i]["provider_billed_cost_cents"] = 0
  BY <1>6 DEF A
<1>9. C \in SUBSET A /\ B \in SUBSET A
  BY DEF A
<1>10. report.total.request_count = Cardinality(chat \cup billing)
  <2>1. report.total.request_count = Cardinality(A)
    BY <1>4 DEF Accumulated
  <2> QED
    BY <1>5, <2>1, CountTold
<1>11. report.total.total_tokens = sum(chat \cup billing, "total_tokens")
  <2>1. report.total.total_tokens = Total(diagnostics, A, "total_tokens")
    BY <1>4 DEF Accumulated
  <2>2. Total(diagnostics, A, "total_tokens") = sum(chat \cup billing, "total_tokens")
    BY <1>5, <1>8, SumTold
  <2> QED
    BY <2>1, <2>2
<1>12. report.total.reconciliation.variance_cents =
         sum(billing, "provider_billed_cost_cents") - sum(chat, "estimated_cost_cents")
  <2>1. report.total.reconciliation.variance_cents =
          Total(diagnostics, A, "provider_billed_cost_cents")
            - Total(diagnostics, A, "estimated_cost_cents")
    BY <1>4 DEF Accumulated, CostReconciliation
  <2>2. Total(diagnostics, A, "provider_billed_cost_cents") =
          Total(diagnostics, B, "provider_billed_cost_cents")
    BY <1>5, <1>8, <1>9, TotalOfPart
  <2>3. Total(diagnostics, A, "estimated_cost_cents") = Total(diagnostics, C, "estimated_cost_cents")
    BY <1>5, <1>8, <1>9, TotalOfPart
  <2>4. Total(diagnostics, B, "provider_billed_cost_cents") = sum(billing, "provider_billed_cost_cents")
    BY <1>1, <1>6, SumTold
  <2>5. Total(diagnostics, C, "estimated_cost_cents") = sum(chat, "estimated_cost_cents")
    BY <1>1, <1>6, SumTold
  <2> HIDE DEF sum
  <2> QED
    BY <2>1, <2>2, <2>3, <2>4, <2>5
<1>13. ASSUME NEW part \in Figures,
              NEW b \in {report.by_provider, report.by_route, report.by_model}
       PROVE  SumFunction([value \in DOMAIN b |-> b[value][part]]) = report.total[part]
  <2>1. IsFiniteSet(A) /\ \A i \in A : diagnostics[i].total_tokens \in Int
    BY <1>5, <1>8, PlaceIs, FS_Subset
  <2>2. PICK field : b = Breakdown(diagnostics, A, field)
    BY <1>4
  <2>3. SumFunction([value \in DOMAIN b |-> b[value][part]]) = Accumulated(diagnostics, A)[part]
    BY <2>1, <2>2, PartsMakeUp
  <2> QED
    BY <1>4, <2>3
<1>14. report.usage.usage_variance_tokens = sum(billing, "total_tokens") - sum(chat, "total_tokens")
  <2>1. report.usage.usage_variance_tokens =
          Total(diagnostics, B, "total_tokens") - Total(diagnostics, C, "total_tokens")
    BY <1>4 DEF UsageReconciliation
  <2>2. Total(diagnostics, B, "total_tokens") = sum(billing, "total_tokens")
    BY <1>1, <1>6, SumTold
  <2>3. Total(diagnostics, C, "total_tokens") = sum(chat, "total_tokens")
    BY <1>1, <1>6, SumTold
  <2> HIDE DEF sum
  <2> QED
    BY <2>1, <2>2, <2>3
<1> DEFINE U == Unmatched(diagnostics, B, C)
           W == Unmatched(diagnostics, C, B)
           matched == {j \in billing : \E i \in chat : match(i, j)}
           unmatched == {i \in chat : \A j \in billing : ~match(i, j)}
<1>15. /\ U = {j \in B : \A i \in C : ~Same(diagnostics[j], diagnostics[i])}
       /\ W = {i \in C : \A j \in B : ~Same(diagnostics[i], diagnostics[j])}
  <2>1. \A i \in B \cup C : diagnostics[i] \in Event /\ diagnostics[i].code \in {ChatCode, BillingCode}
    BY <1>7 DEF A
  <2> QED
    BY <2>1, UnmatchedIs
<1>16. \A i \in C, j \in B :
         /\ Same(diagnostics[j], diagnostics[i]) <=> Same(log[Place(i)], log[Place(j)])
         /\ Same(diagnostics[i], diagnostics[j]) <=> Same(log[Place(i)], log[Place(j)])
  <2> SUFFICES ASSUME NEW i \in C, NEW j \in B
               PROVE  /\ Same(diagnostics[j], diagnostics[i]) <=> Same(diagnostics[i], diagnostics[j])
                      /\ diagnostics[i] = log[Place(i)] /\ diagnostics[j] = log[Place(j)]
    OBVIOUS
  <2> QED
    BY <1>1, <1>2, <1>3, KeyIs
<1> HIDE DEF U, W
<1>17. \A i, j : match(i, j) <=> Same(log[i], log[j])
  BY DEF Same
<1> HIDE DEF match
<1>18. matched = {Place(j) : j \in B \ U}
  BY <1>17, <1>1, <1>15, <1>16
<1>19. unmatched = {Place(i) : i \in W}
  <2>1. ASSUME NEW i \in C PROVE Place(i) \in unmatched <=> i \in W
    <3>1. Place(i) \in unmatched <=> \A j \in B : ~Same(log[Place(i)], log[Place(j)])
      BY <1>17, <1>1
    <3> QED
      BY <1>15, <1>16, <3>1
  <2>2. unmatched \in SUBSET {Place(i) : i \in C} /\ W \in SUBSET C
    BY <1>1, <1>15
  <2> HIDE DEF unmatched
  <2> QED
    BY <2>1, <2>2
<1> HIDE DEF matched, unmatched
<1>20. /\ IsFiniteSet(B) /\ Cardinality(B) \in Nat /\ Cardinality(B) = Cardinality(billing)
       /\ IsFiniteSet(U) /\ Cardinality(U) \in Nat
       /\ Cardinality(B \ U) = Cardinality(matched)
       /\ Cardinality(W) = Cardinality(unmatched)
  <2>1. /\ B \ U \in SUBSET DOMAIN diagnostics /\ W \in SUBSET DOMAIN diagnostics
        /\ U \in SUBSET DOMAIN diagnostics
    BY <1>1, <1>15
  <2> QED
    BY <1>1, <1>18, <1>19, <2>1, CountTold
<1>21. Cardinality(B \ U) = Cardinality(B) - Cardinality(U)
  <2>1. B \cap U = U
    BY <1>15
  <2>2. Cardinality(B \ U) = Cardinality(B) - Cardinality(B \cap U)
    BY <1>20, FS_Difference
  <2> QED
    BY <2>1, <2>2
<1>22. /\ report.usage.matched_record_count = Cardinality(B) - Cardinality(U)
       /\ report.usage.unmatched_provider_record_count = Cardinality(U)
       /\ report.usage.unmatched_runtime_record_count = Cardinality(W)
  BY <1>4 DEF UsageReconciliation, U, W
<1>23. /\ report.usage.matched_record_count = Cardinality(matched)
       /\ report.usage.matched_record_count + report.usage.unmatched_provider_record_count =
            Cardinality(billing)
       /\ report.usage.unmatched_runtime_record_count = Cardinality(unmatched)
  BY <1>20, <1>21, <1>22
<1>24. \A breakdown \in {report.by_provider, report.by_route, report.by_model}, part \in Figures :
         SumFunction([value \in DOMAIN breakdown |-> breakdown[value][part]]) = report.total[part]
  BY <1>13
<1> HIDE DEF sum
<1> QED
  BY <1>10, <1>11, <1>12, <1>14, <1>23, <1>24, Zenon
     DEF chat, billing, report, matched, unmatched, sum, match, Figures

(* The cost report tells of the newest events and of nothing else, in the  *)
(* whole and in its parts, for every log, number of events kept and import *)
(* (get_cost_summary).                                                     *)
THEOREM ReportIsTheLog == Spec => []ReportsFollowTheLog
<1>1. IInv => ReportsFollowTheLog
  <2> SUFFICES ASSUME IInv PROVE ReportsFollowTheLog
    OBVIOUS
  <2>1. LedgerOK
    BY DEF IInv
  <2> QED
    BY <2>1, ReportIs, Zenon DEF ReportsFollowTheLog, Told
<1> QED
  BY <1>1, LedgerInvariant, PTL
=============================================================================
