----------------------------- MODULE RateLimit -----------------------------
(***************************************************************************)
(* The token bucket per client address that stands in front of the login   *)
(* and setup routes and of every request with an Authorization header      *)
(* (backend/internal/ratelimit).  Allow holds the limiter's mutex and is   *)
(* one step.  A bucket is brought up to date only when it is used, and is  *)
(* forgotten when it has not been used for long; the properties compare it *)
(* with a bucket that is refilled at every moment and never forgotten.     *)
(*                                                                         *)
(* Time is counted in ticks and a token in Cost parts, so that the floats  *)
(* of the code become whole numbers.                                       *)
(***************************************************************************)
EXTENDS Integers

CONSTANTS
  Address,   \* client addresses
  Burst,     \* capacity of a bucket, in parts
  Cost,      \* parts in a token: what a request takes
  Refill,    \* parts that come back per tick
  TTL        \* ticks after which an unused bucket is forgotten

\* A bucket is full again by the time it is forgotten.  So with the settings
\* main.go starts from; LOGIN_RATE_PER_MINUTE and LOGIN_RATE_BURST can be set
\* so that it is not.
ASSUME RateLimitAssumption ==
  /\ Cost \in Nat \ {0} /\ Refill \in Nat \ {0} /\ TTL \in Nat \ {0} /\ Burst \in Nat
  /\ Burst >= Cost /\ TTL * Refill >= Burst

VARIABLES
  buckets,   \* a function on the addresses with a bucket
  gcWait,    \* ticks since the last collection
  credit     \* history: the level of the ideal bucket of every address

limiterVars == <<buckets, gcWait, credit>>

Bucket == [level: 0 .. Burst, unused: 0 .. TTL + 1]

RateLimitTypeOK ==
  /\ DOMAIN buckets \subseteq Address
  /\ \A c \in DOMAIN buckets : buckets[c] \in Bucket
  /\ gcWait \in 0 .. TTL

LimiterInit ==
  /\ buckets = <<>>
  /\ gcWait = TTL
  /\ credit = [c \in Address |-> Burst]

Capped(n) == IF n > Burst THEN Burst ELSE n

\* Faulty variant: a collection drops every bucket.
Collected_All == IF gcWait < TTL THEN buckets ELSE <<>>

\* gcLocked, at most once in a TTL.
Collected ==
  IF gcWait < TTL THEN buckets
  ELSE [c \in {d \in DOMAIN buckets : buckets[d].unused <= TTL} |-> buckets[c]]

\* Faulty variant: a refused request forgets what came back since the last one.
Taken_LoseRefill(b) ==
  LET level == Capped(b.level + b.unused * Refill)
  IN [level |-> IF level >= Cost THEN level - Cost ELSE b.level, unused |-> 0]

\* What a request leaves in a bucket.
Taken(b) ==
  LET level == Capped(b.level + b.unused * Refill)
  IN [level |-> IF level >= Cost THEN level - Cost ELSE level, unused |-> 0]

Allowed(b) == Capped(b.level + b.unused * Refill) >= Cost

\* Allow, and the answer 429 of Middleware when it says no.
Allow(c) ==
  LET b == IF c \in DOMAIN Collected THEN Collected[c] ELSE [level |-> Burst, unused |-> 0]
  IN /\ buckets' = [d \in DOMAIN Collected \cup {c} |-> IF d = c THEN Taken(b) ELSE Collected[d]]
     /\ gcWait' = IF gcWait < TTL THEN gcWait ELSE 0
     /\ credit' = [credit EXCEPT ![c] = IF Allowed(b) THEN @ - Cost ELSE @]

LimiterTick ==
  /\ buckets' = [c \in DOMAIN buckets |->
       [buckets[c] EXCEPT !.unused = IF @ > TTL THEN @ ELSE @ + 1]]
  /\ gcWait' = IF gcWait < TTL THEN gcWait + 1 ELSE gcWait
  /\ credit' = [c \in Address |-> Capped(credit[c] + Refill)]

\* The buckets do not outlive the process; neither does the promise.
LimiterRestart ==
  /\ buckets' = <<>>
  /\ gcWait' = TTL
  /\ credit' = [c \in Address |-> Burst]

LimiterNext == (\E c \in Address : Allow(c)) \/ LimiterTick \/ LimiterRestart

LimiterSpec == LimiterInit /\ [][LimiterNext]_limiterVars

-----------------------------------------------------------------------------
(* Properties.                                                             *)

\* Between two restarts and over any stretch of time an address gets no more
\* through than a full bucket and what came back meanwhile: neither the refill
\* on demand nor the forgetting of buckets gives any more (ratelimit.go:56-96).
RateIsKept == \A c \in Address : credit[c] >= 0

\* Nobody is refused who kept to the rate: refusals themselves cost nothing.
NoUndueRefusal ==
  [][\A c \in Address : Allow(c) /\ credit[c] >= Cost => credit'[c] = credit[c] - Cost]_limiterVars
=============================================================================
