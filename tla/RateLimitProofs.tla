-------------------------- MODULE RateLimitProofs --------------------------
(***************************************************************************)
(* Theorems about RateLimit for every set of addresses, capacity, rate and *)
(* lifetime of a bucket under RateLimitAssumption.  A bucket that is       *)
(* refilled when it is used, and forgotten when it must be full, is worth  *)
(* at every moment exactly what the ideal bucket of its address holds.     *)
(***************************************************************************)
EXTENDS RateLimit, TLAPS

\* What a bucket is worth if it is used now.
Worth(b) == Capped(b.level + b.unused * Refill)

\* What a tick makes of a bucket.
OlderBucket(b) == [b EXCEPT !.unused = IF @ > TTL THEN @ ELSE @ + 1]

\* Exactly the credit of the ideal bucket; nothing is owed to who has none.
WorthInv ==
  /\ credit \in [Address -> 0 .. Burst]
  /\ \A c \in Address : credit[c] = IF c \in DOMAIN buckets THEN Worth(buckets[c]) ELSE Burst

LimiterInv == RateLimitTypeOK /\ WorthInv

LEMMA Products ==
  ASSUME NEW a \in Nat, NEW b \in Nat
  PROVE  /\ a * Refill \in Nat
         /\ (a + 1) * Refill = a * Refill + Refill
         /\ a <= b => a * Refill <= b * Refill
  BY RateLimitAssumption, Z3

\* The level of a bucket stays within its capacity, and an untouched bucket of
\* the age at which it is forgotten is full.
LEMMA BucketIsFull ==
  ASSUME NEW b \in Bucket
  PROVE  /\ Worth(b) \in 0 .. Burst
         /\ b.unused > TTL => Worth(b) = Burst
<1>1. b.level \in Nat /\ b.unused \in Nat /\ TTL \in Nat /\ Burst \in Nat
  BY RateLimitAssumption DEF Bucket
<1>2. b.unused * Refill \in Nat /\ TTL * Refill \in Nat /\ TTL * Refill >= Burst
      /\ (TTL <= b.unused => TTL * Refill <= b.unused * Refill)
  BY <1>1, Products, RateLimitAssumption
<1> QED
  BY <1>1, <1>2 DEF Worth, Capped

LEMMA CappedAdds ==
  ASSUME NEW n \in Nat
  PROVE  Capped(Capped(n) + Refill) = Capped(n + Refill)
  BY RateLimitAssumption DEF Capped

\* A tick adds to the worth of a bucket what it adds to the ideal one.
LEMMA TickAddsRefill ==
  ASSUME NEW b \in Bucket
  PROVE  OlderBucket(b) \in Bucket /\ Worth(OlderBucket(b)) = Capped(Worth(b) + Refill)
<1> DEFINE age == IF b.unused > TTL THEN b.unused ELSE b.unused + 1
<1>1. /\ b.level \in Nat /\ b.unused \in Nat /\ b.unused <= TTL + 1
      /\ TTL \in Nat /\ Burst \in Nat /\ Refill \in Nat
  BY RateLimitAssumption DEF Bucket
<1>2. age \in 0 .. TTL + 1
  BY <1>1
<1>3. OlderBucket(b) = [b EXCEPT !.unused = age]
  BY DEF OlderBucket
<1>4. OlderBucket(b) \in Bucket /\ OlderBucket(b).level = b.level /\ OlderBucket(b).unused = age
  BY <1>2, <1>3 DEF Bucket
<1>5. CASE b.unused > TTL
  <2>1. Worth(OlderBucket(b)) = Burst /\ Worth(b) = Burst
    BY <1>4, <1>5, BucketIsFull
  <2> QED
    BY <1>1, <1>4, <2>1 DEF Capped
<1>6. CASE ~(b.unused > TTL)
  <2> DEFINE back == b.unused * Refill
  <2>1. back \in Nat /\ (b.unused + 1) * Refill = back + Refill
    BY <1>1, Products
  <2>2. Worth(OlderBucket(b)) = Capped(b.level + (back + Refill)) /\ Worth(b) = Capped(b.level + back)
    BY <1>4, <1>6, <2>1 DEF Worth
  <2> HIDE DEF back
  <2>3. b.level + back \in Nat /\ b.level + (back + Refill) = (b.level + back) + Refill
    BY <1>1, <2>1
  <2> QED
    BY <1>4, <2>2, <2>3, CappedAdds
<1> QED
  BY <1>4, <1>5, <1>6

\* A request takes a token if the bucket is worth one, and nothing otherwise.
LEMMA RequestTakesAToken ==
  ASSUME NEW b \in Bucket
  PROVE  /\ Taken(b) \in Bucket
         /\ Worth(Taken(b)) = IF Allowed(b) THEN Worth(b) - Cost ELSE Worth(b)
         /\ Allowed(b) <=> Worth(b) >= Cost
<1> DEFINE level == Capped(b.level + b.unused * Refill)
<1>1. level \in 0 .. Burst /\ Worth(b) = level
  BY BucketIsFull DEF Worth
<1>2. Taken(b) = [level |-> IF level >= Cost THEN level - Cost ELSE level, unused |-> 0]
      /\ (Allowed(b) <=> level >= Cost)
  BY DEF Taken, Allowed
<1> HIDE DEF level
<1>3. Cost \in Nat /\ Burst \in Nat /\ TTL \in Nat /\ Refill \in Nat
  BY RateLimitAssumption
<1>4. Taken(b) \in Bucket /\ Taken(b).level \in 0 .. Burst /\ Taken(b).unused = 0
      /\ Taken(b).level = IF level >= Cost THEN level - Cost ELSE level
  BY <1>1, <1>2, <1>3 DEF Bucket
<1>5. 0 * Refill = 0
  BY <1>3
<1>6. Worth(Taken(b)) = Taken(b).level
  BY <1>3, <1>4, <1>5 DEF Worth, Capped
<1> QED
  BY <1>1, <1>2, <1>4, <1>6

-----------------------------------------------------------------------------
LEMMA EmptyTable == DOMAIN <<>> = {}
  OBVIOUS

LEMMA LimiterStart == LimiterInit => LimiterInv
  BY EmptyTable, RateLimitAssumption DEF LimiterInit, LimiterInv, RateLimitTypeOK, WorthInv

\* The buckets a collection leaves, and the full ones it has dropped.
LEMMA CollectedKeepsWorth ==
  ASSUME LimiterInv
  PROVE  /\ DOMAIN Collected \subseteq Address
         /\ \A c \in DOMAIN Collected : Collected[c] \in Bucket
         /\ \A c \in Address : credit[c] = IF c \in DOMAIN Collected THEN Worth(Collected[c])
                                                                     ELSE Burst
<1>1. CASE gcWait < TTL
  BY <1>1 DEF Collected, LimiterInv, RateLimitTypeOK, WorthInv
<1>2. CASE ~(gcWait < TTL)
  <2> DEFINE young == {d \in DOMAIN buckets : buckets[d].unused <= TTL}
  <2>1. Collected = [c \in young |-> buckets[c]]
    BY <1>2 DEF Collected
  <2>2. ASSUME NEW c \in Address, c \in DOMAIN buckets, c \notin young
        PROVE  Worth(buckets[c]) = Burst
    <3>1. buckets[c] \in Bucket /\ ~(buckets[c].unused <= TTL)
      BY <2>2 DEF LimiterInv, RateLimitTypeOK
    <3>2. buckets[c].unused > TTL
      BY <3>1, RateLimitAssumption DEF Bucket
    <3> QED
      BY <3>1, <3>2, BucketIsFull
  <2> QED
    BY <2>1, <2>2 DEF LimiterInv, RateLimitTypeOK, WorthInv
<1> QED
  BY <1>1, <1>2

\* What Allow does to the address that asks, and that it leaves the others alone.
LEMMA AllowTakesAToken ==
  ASSUME LimiterInv, NEW c \in Address, Allow(c)
  PROVE  LimiterInv' /\ credit'[c] = IF credit[c] >= Cost THEN credit[c] - Cost ELSE credit[c]
<1> DEFINE b == IF c \in DOMAIN Collected THEN Collected[c] ELSE [level |-> Burst, unused |-> 0]
<1>1. /\ buckets' = [d \in DOMAIN Collected \cup {c} |-> IF d = c THEN Taken(b) ELSE Collected[d]]
      /\ gcWait' = IF gcWait < TTL THEN gcWait ELSE 0
      /\ credit' = [credit EXCEPT ![c] = IF Allowed(b) THEN @ - Cost ELSE @]
  BY DEF Allow
<1>2. b \in Bucket /\ Worth(b) = credit[c]
  <2>1. CASE c \in DOMAIN Collected
    BY <2>1, CollectedKeepsWorth
  <2>2. CASE c \notin DOMAIN Collected
    <3>1. b = [level |-> Burst, unused |-> 0] /\ credit[c] = Burst
      BY <2>2, CollectedKeepsWorth
    <3>2. 0 * Refill = 0 /\ Burst \in Nat /\ TTL \in Nat
      BY RateLimitAssumption
    <3>3. b \in Bucket /\ b.level = Burst /\ b.unused = 0
      BY <3>1, <3>2 DEF Bucket
    <3> QED
      BY <3>1, <3>2, <3>3 DEF Worth, Capped
  <2> QED
    BY <2>1, <2>2
<1> HIDE DEF b
<1>3. /\ Taken(b) \in Bucket
      /\ Worth(Taken(b)) = IF credit[c] >= Cost THEN credit[c] - Cost ELSE credit[c]
      /\ Allowed(b) <=> credit[c] >= Cost
  BY <1>2, RequestTakesAToken
<1>4. credit' = [credit EXCEPT ![c] = Worth(Taken(b))] /\ credit \in [Address -> 0 .. Burst]
  BY <1>1, <1>3 DEF LimiterInv, WorthInv
<1>5. Worth(Taken(b)) \in 0 .. Burst
  BY <1>3, BucketIsFull
<1>6. RateLimitTypeOK'
  <2>1. gcWait' \in 0 .. TTL
    BY <1>1, RateLimitAssumption DEF LimiterInv, RateLimitTypeOK
  <2> QED
    BY <1>1, <1>3, <2>1, CollectedKeepsWorth DEF RateLimitTypeOK
<1>7. WorthInv'
  BY <1>1, <1>4, <1>5, CollectedKeepsWorth DEF WorthInv
<1> QED
  BY <1>3, <1>4, <1>6, <1>7 DEF LimiterInv

LEMMA TickKeepsLimiterInv == LimiterInv /\ LimiterTick => LimiterInv'
<1> SUFFICES ASSUME LimiterInv, LimiterTick PROVE LimiterInv'
  OBVIOUS
<1>1. /\ buckets' = [c \in DOMAIN buckets |-> OlderBucket(buckets[c])]
      /\ gcWait' = IF gcWait < TTL THEN gcWait + 1 ELSE gcWait
      /\ credit' = [c \in Address |-> Capped(credit[c] + Refill)]
  BY DEF LimiterTick, OlderBucket
<1>2. \A c \in DOMAIN buckets : OlderBucket(buckets[c]) \in Bucket
        /\ Worth(OlderBucket(buckets[c])) = Capped(Worth(buckets[c]) + Refill)
  BY TickAddsRefill DEF LimiterInv, RateLimitTypeOK
<1>3. RateLimitTypeOK'
  <2>1. gcWait' \in 0 .. TTL
    BY <1>1, RateLimitAssumption DEF LimiterInv, RateLimitTypeOK
  <2> QED
    BY <1>1, <1>2, <2>1 DEF LimiterInv, RateLimitTypeOK
<1>4. WorthInv'
  <2>1. \A n \in 0 .. Burst : Capped(n + Refill) \in 0 .. Burst
    BY RateLimitAssumption DEF Capped
  <2>2. credit' \in [Address -> 0 .. Burst]
    BY <1>1, <2>1 DEF LimiterInv, WorthInv
  <2>3. Capped(Burst + Refill) = Burst
    BY RateLimitAssumption DEF Capped
  <2> QED
    BY <1>1, <1>2, <2>2, <2>3 DEF LimiterInv, WorthInv
<1> QED
  BY <1>3, <1>4 DEF LimiterInv

LEMMA LimiterStep == LimiterInv /\ [LimiterNext]_limiterVars => LimiterInv'
<1> SUFFICES ASSUME LimiterInv, [LimiterNext]_limiterVars PROVE LimiterInv'
  OBVIOUS
<1>1. ASSUME NEW c \in Address, Allow(c) PROVE LimiterInv'
  BY <1>1, AllowTakesAToken
<1>2. CASE LimiterTick
  BY <1>2, TickKeepsLimiterInv
<1>3. CASE LimiterRestart
  BY <1>3, EmptyTable, RateLimitAssumption
  DEF LimiterRestart, LimiterInv, RateLimitTypeOK, WorthInv
<1>4. CASE UNCHANGED limiterVars
  BY <1>4 DEF limiterVars, LimiterInv, RateLimitTypeOK, WorthInv
<1> QED
  BY <1>1, <1>2, <1>3, <1>4 DEF LimiterNext

LEMMA LimiterInvariant == LimiterSpec => []LimiterInv
  BY LimiterStart, LimiterStep, PTL DEF LimiterSpec

-----------------------------------------------------------------------------
(* The theorems.                                                           *)

\* The buckets and the time of the collection keep their types.
THEOREM LimiterTypeCorrect == LimiterSpec => []RateLimitTypeOK
<1>1. LimiterInv => RateLimitTypeOK
  BY DEF LimiterInv
<1> QED
  BY <1>1, LimiterInvariant, PTL

\* Whatever the burst, the rate and the lifetime of a bucket, as long as a bucket
\* is full before it is forgotten: an address gets no more requests through than
\* an ideal bucket would let through.
THEOREM TheRateIsKept == LimiterSpec => []RateIsKept
<1>1. LimiterInv => RateIsKept
  <2> SUFFICES ASSUME LimiterInv, NEW c \in Address PROVE credit[c] >= 0
    BY DEF RateIsKept
  <2>1. credit[c] \in 0 .. Burst
    BY DEF LimiterInv, WorthInv
  <2> QED
    BY <2>1, RateLimitAssumption
<1> QED
  BY <1>1, LimiterInvariant, PTL

\* And no fewer: who has kept to the rate is let in.
THEOREM NobodyIsRefusedUnduly == LimiterSpec => NoUndueRefusal
<1> DEFINE Step == \A c \in Address : Allow(c) /\ credit[c] >= Cost => credit'[c] = credit[c] - Cost
<1>1. LimiterInv => Step
  BY AllowTakesAToken
<1> QED
  BY <1>1, LimiterInvariant, PTL DEF LimiterSpec, NoUndueRefusal
=============================================================================
