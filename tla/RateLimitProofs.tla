---------------------------- MODULE RateLimitProofs ---------------------------
(***************************************************************************)
(* Proofs about ratelimit.Limiter, for any callers, policies, delays and   *)
(* number of buckets: requests share one live bucket, and in every window  *)
(* of time the limiter grants at most a burst and the sustained rate.      *)
(*                                                                         *)
(* The argument is an account of the watched store: what it granted since  *)
(* the window began and what its bucket still holds are covered by one     *)
(* burst and the rate up to the bucket's own time, which stale clock       *)
(* values never turn back.  A bucket may be dropped because, left alone    *)
(* for MaxAge, it would have filled up.                                    *)
(***************************************************************************)
EXTENDS RateLimit, FiniteSetTheorems, TLAPS

\* Idle buckets outlive the requests that may still use them.
Outlives == 2 * MaxDelay <= MaxAge

\* An idle bucket would be full before Redis or the cleanup drops it, even for a
\* request that read the clock MaxDelay ago.
FullBeforeDropped ==
    /\ TopBurst * Cost <= TopRate * (MaxAge - MaxDelay)
    /\ TopBurst * Cost <= TopRate * (MaxAge + 1 - 2 * MaxDelay)

Bucket == [rate : Nat, burst : Nat, tokens : Nat, at : Int]

TypeOK ==
    /\ clock \in Nat /\ window \in Nat /\ granted \in Nat
    /\ heap \in [1..MaxBuckets -> Bucket]
    /\ created \in 0..MaxBuckets /\ entry \in 0..created
    /\ lastSeen \in Nat /\ expiry \in Nat
    /\ redis \in [tokens : Nat, at : Int]
    /\ pc \in [Callers -> {"idle", "redis", "lookup", "allow"}]
    /\ now \in [Callers -> Nat]
    /\ policy \in [Callers -> Policies]
    /\ bucket \in [Callers -> 0..MaxBuckets]

\* A request under way read the clock at most MaxDelay ago.
ClockReads ==
    /\ window <= clock
    /\ \A c \in Callers : pc[c] # "idle" => now[c] <= clock /\ clock <= now[c] + MaxDelay

\* A request about to draw has the live bucket, whose lastSeen is not much older
\* than any clock value the bucket has seen or will see from such a request.
LiveBucket ==
    /\ \A c \in Callers : pc[c] = "allow" =>
          entry # 0 /\ bucket[c] = entry /\ now[c] <= lastSeen + MaxDelay
    /\ entry # 0 =>
          /\ heap[entry].at \in 0..clock
          /\ heap[entry].at <= lastSeen + MaxDelay

SharedInv == TypeOK /\ ClockReads /\ LiveBucket

\* A bucket with time at that granted n requests in the window from w on: these
\* and its tokens are covered by a burst and the sustained rate up to its time.
\* One that is older than the window has granted nothing in it.
CoveredBy(n, w, tokens, at) ==
    /\ at < w - MaxDelay => n = 0
    /\ at >= w - MaxDelay =>
          n * Cost + tokens <= TopBurst * Cost + TopRate * (at - w + MaxDelay)

Covered(b) == CoveredBy(granted, window, b.tokens, b.at)

\* Without a bucket there is room for the burst of a new one.
RoomForBurst == granted * Cost <= TopRate * (clock - window)

\* The live bucket is within the policies and pays for what it granted.
MemoryAccount ==
    /\ entry # 0 =>
          /\ heap[entry].rate <= TopRate
          /\ heap[entry].burst <= TopBurst
          /\ heap[entry].tokens <= TopBurst * Cost
    /\ watched = "memory" => IF entry = 0 THEN RoomForBurst ELSE Covered(heap[entry])

\* So does the hash, which lives for MaxAge after the last request.
RedisAccount ==
    /\ redis # NoHash =>
          /\ redis.at \in 0..clock
          /\ redis.at + MaxAge <= expiry
          /\ redis.tokens <= TopBurst * Cost
    /\ watched = "redis" => IF redis = NoHash THEN RoomForBurst ELSE Covered(redis)

RateInv == SharedInv /\ MemoryAccount /\ RedisAccount

USE RateLimitAssumption DEF RateLimitAssumption
-------------------------------------------------------------------------------
(* One live bucket.                                                        *)

\* Buckets are made of policies and keep their types.
LEMMA NewBucketType ==
  ASSUME NEW p \in Policies, NEW t \in Nat
  PROVE  /\ newTokenBucket(p, t) \in Bucket /\ newTokenBucket(p, t).at = t
         /\ newTokenBucket(p, t).tokens = p.burst * Cost
  <1>1. p.burst * Cost \in Nat
    <2>1. \A x, y \in Nat : x * y \in Nat
      OBVIOUS
    <2> QED
      BY <2>1
  <1> QED
    BY <1>1 DEF newTokenBucket, Bucket

LEMMA BucketTypes ==
  ASSUME NEW b \in Bucket, NEW p \in Policies, NEW t \in Nat
  PROVE  /\ refilled(b, t) \in Bucket /\ refilled(b, t).at = Larger(b.at, t)
         /\ ReconfigureAt(b, p, t) \in Bucket
         /\ ReconfigureAt(b, p, t).at = Larger(b.at, t)
         /\ taken(b) \in Bucket /\ taken(b).at = b.at
  <1>1. \A x, y \in Nat : x * y \in Nat
    OBVIOUS
  <1>2. p.rate \in Nat /\ p.burst \in Nat /\ p.burst * Cost \in Nat
    BY <1>1
  <1>3. refilled(b, t) \in Bucket /\ refilled(b, t).at = Larger(b.at, t)
    <2>1. Larger(b.at, t) \in Int /\ Larger(b.at, t) - b.at \in Nat
      BY DEF Larger, Bucket
    <2>2. b.burst * Cost \in Nat /\ b.rate * (Larger(b.at, t) - b.at) \in Nat
      BY <1>1, <2>1 DEF Bucket
    <2>3. Smaller(b.burst * Cost, b.tokens + b.rate * (Larger(b.at, t) - b.at)) \in Nat
      BY <2>2 DEF Smaller, Bucket
    <2> QED
      BY <2>1, <2>3, Zenon DEF refilled, Bucket
  <1>4. ReconfigureAt(b, p, t) \in Bucket /\ ReconfigureAt(b, p, t).at = Larger(b.at, t)
    <2>1. Smaller(refilled(b, t).tokens, p.burst * Cost) \in Nat
      BY <1>2, <1>3 DEF Smaller, Bucket
    <2> QED
      BY <1>2, <1>3, <2>1 DEF ReconfigureAt, Bucket
  <1>5. taken(b) \in Bucket /\ taken(b).at = b.at
    BY DEF taken, allowed, Bucket
  <1> QED
    BY <1>3, <1>4, <1>5

\* So does the hash in Redis.
LEMMA HashTypes ==
  ASSUME NEW h \in [tokens : Nat, at : Int], NEW p \in Policies, NEW t \in Nat
  PROVE  /\ scripted(h, p, t) \in [tokens : Nat, at : Int]
         /\ scripted(h, p, t).at = IF h.at = -1 THEN t ELSE Larger(h.at, t)
         /\ taken(h) \in [tokens : Nat, at : Int] /\ taken(h).at = h.at
  <1>1. \A x, y \in Nat : x * y \in Nat
    OBVIOUS
  <1>2. p.rate \in Nat /\ p.burst \in Nat /\ p.burst * Cost \in Nat
    BY <1>1
  <1>3. CASE h.at < t
    <2>1. (t - h.at) * p.rate \in Nat
      BY <1>1, <1>2, <1>3
    <2>2. Smaller(p.burst * Cost, h.tokens + (t - h.at) * p.rate) \in Nat
      BY <1>2, <2>1 DEF Smaller
    <2>3. h.at # -1 => scripted(h, p, t) =
            [tokens |-> Smaller(p.burst * Cost, h.tokens + (t - h.at) * p.rate), at |-> t]
      BY <1>3 DEF scripted
    <2>4. h.at = -1 => scripted(h, p, t) = [tokens |-> p.burst * Cost, at |-> t]
      BY DEF scripted
    <2> QED
      BY <1>2, <1>3, <2>2, <2>3, <2>4 DEF Larger, taken, allowed
  <1>4. CASE h.at >= t
    <2>1. scripted(h, p, t) = h
      BY <1>4 DEF scripted
    <2> QED
      BY <1>4, <2>1 DEF Larger, taken, allowed
  <1> QED
    BY <1>3, <1>4

\* What the script leaves in Redis.
LEMMA ScriptTypes ==
  ASSUME TypeOK, NEW c \in Callers, Script(c)
  PROVE  /\ redis' \in [tokens : Nat, at : Int] /\ expiry' \in Nat
         /\ redis'.at = IF redis.at = -1 THEN now[c] ELSE Larger(redis.at, now[c])
  <1>1. redis \in [tokens : Nat, at : Int] /\ policy[c] \in Policies /\ now[c] \in Nat
    BY DEF TypeOK
  <1>2. PICK h \in [tokens : Nat, at : Int] :
           /\ h = scripted(redis, policy[c], now[c])
           /\ h.at = IF redis.at = -1 THEN now[c] ELSE Larger(redis.at, now[c])
    BY <1>1, HashTypes
  <1>3. redis' = taken(h) /\ expiry' = clock + MaxAge
    BY <1>2 DEF Script
  <1>4. taken(h) \in [tokens : Nat, at : Int] /\ taken(h).at = h.at
    BY <1>1, HashTypes
  <1> QED
    BY <1>2, <1>3, <1>4 DEF TypeOK

LEMMA InitShared == Init => SharedInv
  <1> SUFFICES ASSUME Init PROVE SharedInv
    OBVIOUS
  <1>1. AnyPolicy \in Policies
    BY DEF AnyPolicy
  <1>2. TypeOK
    BY <1>1 DEF Init, TypeOK, Bucket, NoBucket, NoHash
  <1> QED
    BY <1>2 DEF Init, SharedInv, ClockReads, LiveBucket

\* A call that returns leaves its locals empty.
LEMMA ReturnTypes ==
  ASSUME TypeOK, NEW c \in Callers, Return(c)
  PROVE  /\ pc' \in [Callers -> {"idle", "redis", "lookup", "allow"}]
         /\ now' \in [Callers -> Nat]
         /\ policy' \in [Callers -> Policies]
         /\ bucket' \in [Callers -> 0..MaxBuckets]
         /\ pc'[c] = "idle"
         /\ \A d \in Callers \ {c} :
               pc'[d] = pc[d] /\ now'[d] = now[d] /\ bucket'[d] = bucket[d]
  <1>1. AnyPolicy \in Policies
    BY DEF AnyPolicy
  <1> QED
    BY <1>1 DEF TypeOK, Return

LEMMA ArriveShared ==
  ASSUME SharedInv, NEW c \in Callers, NEW p \in Policies, Arrive(c, p)
  PROVE  SharedInv'
  <1>1. TypeOK'
    BY DEF SharedInv, TypeOK, Arrive, memory, fixed
  <1>2. ClockReads'
    BY DEF SharedInv, TypeOK, ClockReads, Arrive
  <1>3. LiveBucket'
    BY DEF SharedInv, TypeOK, LiveBucket, Arrive, memory
  <1> QED
    BY <1>1, <1>2, <1>3 DEF SharedInv

LEMMA RedisAnswersShared ==
  ASSUME SharedInv, NEW c \in Callers, RedisAnswers(c)
  PROVE  SharedInv'
  <1>1. redis' \in [tokens : Nat, at : Int] /\ expiry' \in Nat
    BY ScriptTypes DEF SharedInv, RedisAnswers
  <1>2. granted' \in Nat
    BY DEF SharedInv, TypeOK, RedisAnswers, Count
  <1>3. TypeOK'
    BY <1>1, <1>2, ReturnTypes DEF SharedInv, TypeOK, RedisAnswers, memory
  <1>4. ClockReads'
    BY ReturnTypes DEF SharedInv, ClockReads, RedisAnswers
  <1>5. LiveBucket'
    BY ReturnTypes DEF SharedInv, LiveBucket, RedisAnswers, memory
  <1> QED
    BY <1>3, <1>4, <1>5 DEF SharedInv

LEMMA RedisFailsShared ==
  ASSUME SharedInv, NEW c \in Callers, NEW ran \in BOOLEAN, RedisFails(c, ran)
  PROVE  SharedInv'
  <1>1. redis' \in [tokens : Nat, at : Int] /\ expiry' \in Nat
    BY ScriptTypes DEF SharedInv, TypeOK, RedisFails
  <1>2. TypeOK'
    BY <1>1 DEF SharedInv, TypeOK, RedisFails, memory
  <1>3. ClockReads'
    BY DEF SharedInv, TypeOK, ClockReads, RedisFails
  <1>4. LiveBucket'
    BY DEF SharedInv, TypeOK, LiveBucket, RedisFails, memory
  <1> QED
    BY <1>2, <1>3, <1>4 DEF SharedInv

LEMMA LookupShared ==
  ASSUME SharedInv, NEW c \in Callers, Lookup(c)
  PROVE  SharedInv'
  <1>1. now[c] \in Nat /\ now[c] <= clock /\ clock <= now[c] + MaxDelay
    BY DEF SharedInv, TypeOK, ClockReads, Lookup
  <1>2. policy[c] \in Policies
    BY DEF SharedInv, TypeOK
  <1>3. CASE entry = 0
    <2>1. /\ created < MaxBuckets /\ created' = created + 1 /\ entry' = created + 1
          /\ heap' = [heap EXCEPT ![created + 1] = newTokenBucket(policy[c], now[c])]
      BY <1>3 DEF Lookup
    <2>2. entry' \in 1..MaxBuckets
      BY <2>1 DEF SharedInv, TypeOK
    <2>3. heap' \in [1..MaxBuckets -> Bucket] /\ heap'[entry'].at = now[c]
      <3> DEFINE b == newTokenBucket(policy[c], now[c])
      <3>1. b \in Bucket /\ b.at = now[c]
        BY <1>1, <1>2, NewBucketType
      <3> HIDE DEF b
      <3> QED
        <4>1. heap' = [heap EXCEPT ![entry'] = b]
          BY <2>1 DEF b
        <4> QED
          BY <2>2, <3>1, <4>1 DEF SharedInv, TypeOK
    <2>4. TypeOK'
      BY <1>1, <2>1, <2>2, <2>3 DEF SharedInv, TypeOK, Lookup, fixed
    <2>5. ClockReads'
      BY DEF SharedInv, TypeOK, ClockReads, Lookup
    <2>6. LiveBucket'
      BY <1>1, <1>3, <2>2, <2>3 DEF SharedInv, TypeOK, LiveBucket, Lookup
    <2> QED
      BY <2>4, <2>5, <2>6 DEF SharedInv
  <1>4. CASE entry # 0
    <2>1. /\ created' = created /\ entry' = entry /\ entry \in 1..MaxBuckets
          /\ \/ heap' = heap
             \/ heap' = [heap EXCEPT ![entry] = ReconfigureAt(@, policy[c], now[c])]
      BY <1>4 DEF SharedInv, TypeOK, Lookup
    <2>2. /\ heap' \in [1..MaxBuckets -> Bucket]
          /\ heap'[entry].at \in {heap[entry].at, Larger(heap[entry].at, now[c])}
      <3>1. heap[entry] \in Bucket
        BY <2>1 DEF SharedInv, TypeOK
      <3>2. /\ ReconfigureAt(heap[entry], policy[c], now[c]) \in Bucket
            /\ ReconfigureAt(heap[entry], policy[c], now[c]).at
                 = Larger(heap[entry].at, now[c])
        BY <1>1, <1>2, <3>1, BucketTypes, Zenon
      <3> QED
        BY <2>1, <3>2 DEF SharedInv, TypeOK
    <2>3. heap'[entry].at \in 0..clock
      BY <1>1, <1>4, <2>2 DEF SharedInv, LiveBucket, Larger
    <2>4. TypeOK'
      BY <1>1, <2>1, <2>2 DEF SharedInv, TypeOK, Lookup, fixed
    <2>5. ClockReads'
      BY DEF SharedInv, TypeOK, ClockReads, Lookup
    <2>6. LiveBucket'
      <3>1. \A d \in Callers : pc[d] = "allow" => now[d] <= now[c] + MaxDelay
        BY <1>1 DEF SharedInv, TypeOK, ClockReads
      <3>2. heap'[entry].at <= now[c] + MaxDelay
        BY <1>1, <2>3 DEF SharedInv, TypeOK
      <3> QED
        BY <1>1, <1>4, <2>1, <2>3, <3>1, <3>2, SMTT(20)
        DEF SharedInv, TypeOK, LiveBucket, Lookup
    <2> QED
      BY <2>4, <2>5, <2>6 DEF SharedInv
  <1> QED
    BY <1>3, <1>4

LEMMA AllowAtShared ==
  ASSUME SharedInv, NEW c \in Callers, AllowAt(c)
  PROVE  SharedInv'
  <1>1. /\ entry \in 1..MaxBuckets /\ bucket[c] = entry
        /\ now[c] \in Nat /\ now[c] <= clock /\ now[c] <= lastSeen + MaxDelay
    BY DEF SharedInv, TypeOK, ClockReads, LiveBucket, AllowAt
  <1>2. AnyPolicy \in Policies
    BY DEF AnyPolicy
  <1>3. heap' = [heap EXCEPT ![entry] = taken(refilled(heap[entry], now[c]))]
    BY <1>1 DEF AllowAt
  <1>4. /\ heap' \in [1..MaxBuckets -> Bucket]
        /\ heap'[entry].at = Larger(heap[entry].at, now[c])
    <2>1. heap[entry] \in Bucket
      BY <1>1 DEF SharedInv, TypeOK
    <2>2. PICK b \in Bucket : /\ b = refilled(heap[entry], now[c])
                              /\ b.at = Larger(heap[entry].at, now[c])
      BY <1>1, <1>2, <2>1, BucketTypes, Zenon
    <2>3. taken(b) \in Bucket /\ taken(b).at = b.at
      BY <1>1, <1>2, BucketTypes
    <2> QED
      BY <1>1, <1>3, <2>2, <2>3 DEF SharedInv, TypeOK
  <1>5. granted' \in Nat
    BY DEF SharedInv, TypeOK, AllowAt, Count
  <1>6. TypeOK'
    BY <1>4, <1>5, ReturnTypes, SMTT(20) DEF SharedInv, TypeOK, AllowAt
  <1>7. ClockReads'
    BY ReturnTypes DEF SharedInv, ClockReads, AllowAt
  <1>8. LiveBucket'
    BY <1>1, <1>4, ReturnTypes, SMTT(20) DEF SharedInv, TypeOK, LiveBucket, AllowAt, Larger
  <1> QED
    BY <1>6, <1>7, <1>8 DEF SharedInv

\* The cleanup does not drop a bucket that somebody is about to draw on.
LEMMA CleanupShared ==
  ASSUME Outlives, SharedInv, Cleanup
  PROVE  SharedInv'
  <1>1. \A c \in Callers : pc[c] # "allow"
    <2> SUFFICES ASSUME NEW c \in Callers, pc[c] = "allow" PROVE FALSE
      OBVIOUS
    <2>1. /\ now[c] \in Nat /\ now[c] <= lastSeen + MaxDelay
          /\ clock <= now[c] + MaxDelay /\ lastSeen < clock - MaxAge
      BY DEF SharedInv, TypeOK, ClockReads, LiveBucket, Cleanup, stale
    <2> QED
      BY <2>1 DEF Outlives, SharedInv, TypeOK
  <1>2. TypeOK'
    BY DEF SharedInv, TypeOK, Cleanup, locals, fixed
  <1>3. ClockReads'
    BY DEF SharedInv, ClockReads, Cleanup, locals
  <1>4. LiveBucket'
    BY <1>1 DEF LiveBucket, Cleanup, locals
  <1> QED
    BY <1>2, <1>3, <1>4 DEF SharedInv

LEMMA TimeShared ==
  ASSUME SharedInv, Expire \/ Tick \/ Observe \/ UNCHANGED vars
  PROVE  SharedInv'
  <1>1. TypeOK'
    <2> USE DEF SharedInv, TypeOK
    <2>1. CASE Expire
      BY <2>1 DEF Expire, NoHash, memory, locals
    <2>2. CASE Tick
      BY <2>2 DEF Tick, memory, locals
    <2>3. CASE Observe
      BY <2>3 DEF Observe, memory, locals
    <2>4. CASE UNCHANGED vars
      BY <2>4 DEF vars, memory, locals
    <2> QED
      BY <2>1, <2>2, <2>3, <2>4, SMTT(20)
  <1>2. ClockReads'
    BY DEF SharedInv, TypeOK, ClockReads, Expire, Tick, Observe, vars, locals
  <1>3. LiveBucket'
    <2>1. UNCHANGED <<memory, locals>>
      BY DEF Expire, Tick, Observe, vars, memory, locals
    <2>2. clock' \in {clock, clock + 1}
      BY DEF Expire, Tick, Observe, vars
    <2> QED
      BY <2>1, <2>2 DEF SharedInv, TypeOK, LiveBucket, memory, locals
  <1> QED
    BY <1>1, <1>2, <1>3 DEF SharedInv

LEMMA NextShared ==
  ASSUME Outlives
  PROVE  SharedInv /\ [Next]_vars => SharedInv'
  BY ArriveShared, RedisAnswersShared, RedisFailsShared, LookupShared,
     AllowAtShared, CleanupShared, TimeShared
  DEF Next

\* Nobody draws on an evicted bucket beside its successor.
THEOREM BucketIsShared ==
  ASSUME Outlives
  PROVE  Spec => []OneLiveBucket
  <1>1. SharedInv => OneLiveBucket
    BY DEF SharedInv, LiveBucket, OneLiveBucket
  <1> QED
    BY <1>1, InitShared, NextShared, PTL DEF Spec
-------------------------------------------------------------------------------
(* The policies have a largest rate and burst.                             *)

\* Every nonempty set of naturals has a least element.
LEMMA LeastNatural ==
  ASSUME NEW T, T \subseteq Nat, T # {}
  PROVE  \E x \in T : \A y \in T : x <= y
  <1> DEFINE R == {ss \in Nat \X Nat : ss[1] < ss[2]}
  <1>1. IsWellFoundedOn(R, Nat)
    BY NatLessThanWellFounded, Zenon DEF OpToRel
  <1>2. \A x, y \in Nat : x < y => <<x, y>> \in R
    OBVIOUS
  <1> HIDE DEF R
  <1>3. PICK x \in T : \A y \in T : ~(<<y, x>> \in R)
    BY <1>1, WFMin, Zenon
  <1>4. \A y \in T : ~(y < x)
    BY <1>2, <1>3, Zenon
  <1>5. \A y \in T : x <= y
    BY <1>4
  <1> QED
    BY <1>5

\* A finite set of naturals is bounded: along an enumeration of it there is no
\* first place where the bounds end.
LEMMA FiniteIsBounded ==
  ASSUME NEW S, IsFiniteSet(S), S \subseteq Nat
  PROVE  \E b \in Nat : \A x \in S : x <= b
  <1>0. PICK n \in Nat : ExistsBijection(1..n, S)
    BY FS_CardinalityType
  <1>1. PICK f \in [1..n -> S] : \A x \in S : \E i \in 1..n : f[i] = x
    BY <1>0 DEF ExistsBijection, Bijection, Surjection
  <1> DEFINE Bounded(k) == \E b \in Nat : \A i \in 1..k : f[i] <= b
             T == {k \in 0..n : ~Bounded(k)}
  <1>2. Bounded(0)
    <2>1. 0 \in Nat /\ \A i \in 1..0 : f[i] <= 0
      OBVIOUS
    <2> QED
      BY <2>1
  <1>3. ASSUME NEW k \in 1..n, Bounded(k - 1) PROVE Bounded(k)
    <2>1. PICK b \in Nat : \A i \in 1..(k - 1) : f[i] <= b
      BY <1>3
    <2>2. \A i \in 1..n : f[i] \in Nat
      BY <1>1, Zenon
    <2>3. PICK y \in Nat : y = f[k]
      BY <2>2
    <2>4. ASSUME NEW i \in 1..k PROVE f[i] <= b + y
      <3>1. f[i] \in Nat
        BY <2>2
      <3>2. CASE i = k
        BY <2>3, <3>2
      <3>3. CASE i # k
        <4>1. i \in 1..(k - 1)
          BY <3>3
        <4>2. f[i] <= b
          BY <2>1, <4>1
        <4> QED
          BY <3>1, <4>2
      <3> QED
        BY <3>2, <3>3
    <2>5. b + y \in Nat
      OBVIOUS
    <2> QED
      BY <2>4, <2>5
  <1> HIDE DEF Bounded
  <1>4. T = {}
    <2> SUFFICES ASSUME T # {} PROVE FALSE
      OBVIOUS
    <2>1. T \subseteq Nat
      OBVIOUS
    <2>2. PICK k \in T : \A j \in T : k <= j
      BY <2>1, LeastNatural, Zenon
    <2>3. k \in 1..n /\ ~Bounded(k)
      BY <1>2, <2>2
    <2>4. k - 1 \in 0..n /\ ~(k <= k - 1)
      BY <2>3
    <2>5. Bounded(k - 1)
      BY <2>2, <2>4
    <2> QED
      BY <1>3, <2>3, <2>5
  <1>5. Bounded(n)
    BY <1>4
  <1> QED
    BY <1>1, <1>5, Zenon DEF Bounded

LEMMA MaxOverIsMax ==
  ASSUME NEW S, IsFiniteSet(S), S \subseteq Nat, S # {}
  PROVE  MaxOver(S) \in S /\ \A y \in S : y <= MaxOver(S)
  <1>1. PICK b \in Nat : \A x \in S : x <= b
    BY FiniteIsBounded, Zenon
  <1> DEFINE T == {b - x : x \in S}
  <1>2. T \subseteq Nat /\ T # {}
    <2>1. \A x \in S : b - x \in Nat
      BY <1>1
    <2> QED
      BY <2>1, Zenon
  <1>3. PICK d \in T : \A e \in T : d <= e
    BY <1>2, LeastNatural, Zenon
  <1>4. PICK x \in S : d = b - x
    OBVIOUS
  <1>5. ASSUME NEW y \in S PROVE y <= x
    <2>1. b - y \in T
      OBVIOUS
    <2>2. b - x <= b - y
      BY <1>3, <1>4, <2>1, Zenon
    <2> QED
      BY <2>2
  <1> QED
    BY <1>5, Zenon DEF MaxOver

LEMMA TopIsTop ==
  /\ TopRate \in Nat /\ TopBurst \in Nat \ {0}
  /\ \A p \in Policies : p.rate <= TopRate /\ p.burst <= TopBurst
  <1>0. /\ [p \in Policies |-> p.rate]
             \in Surjection(Policies, {p.rate : p \in Policies})
        /\ [p \in Policies |-> p.burst]
             \in Surjection(Policies, {p.burst : p \in Policies})
    BY DEF Surjection
  <1>1. /\ IsFiniteSet({p.rate : p \in Policies})
        /\ IsFiniteSet({p.burst : p \in Policies})
    BY <1>0, FS_Surjection
  <1>2. /\ TopRate \in {p.rate : p \in Policies}
        /\ \A y \in {p.rate : p \in Policies} : y <= TopRate
    BY <1>1, MaxOverIsMax, Zenon DEF TopRate
  <1>3. /\ TopBurst \in {p.burst : p \in Policies}
        /\ \A y \in {p.burst : p \in Policies} : y <= TopBurst
    BY <1>1, MaxOverIsMax, Zenon DEF TopBurst
  <1> QED
    BY <1>2, <1>3
-------------------------------------------------------------------------------
(* Arithmetic of the account.                                              *)

LEMMA Distribute == \A a, x, y \in Int : a * (x + y) = a * x + a * y
  OBVIOUS

LEMMA OneMore == \A a, x \in Int : (a + 1) * x = a * x + x
  OBVIOUS

LEMMA Products ==
  /\ \A x, y \in Int : x * y \in Int
  /\ \A x, y \in Nat : x * y \in Nat
  OBVIOUS

LEMMA Monotone ==
  ASSUME NEW a \in Int, NEW b \in Int, NEW d \in Nat, a <= b
  PROVE  a * d <= b * d /\ d * a <= d * b
  OBVIOUS

\* Refilling at a rate within the policies keeps the account.
LEMMA RefillIsCovered ==
  ASSUME NEW n \in Nat, NEW w \in Nat, NEW tokens \in Nat, NEW at \in Int,
         CoveredBy(n, w, tokens, at),
         NEW t \in Int, t >= w - MaxDelay, NEW r \in Nat, r <= TopRate,
         NEW left \in Nat, left <= TopBurst * Cost,
         left <= tokens + r * (Larger(at, t) - at)
  PROVE  CoveredBy(n, w, left, Larger(at, t)) /\ Larger(at, t) >= w - MaxDelay
  <1>1. PICK x \in Int : x = Larger(at, t)
    BY DEF Larger
  <1>2. x >= at /\ x >= w - MaxDelay
    BY <1>1 DEF Larger
  <1>3. PICK u \in Int : u = w - MaxDelay
    OBVIOUS
  <1>4. x - w + MaxDelay = (x - at) + (at - u) /\ at - w + MaxDelay = at - u
    BY <1>3
  <1>5. /\ TopRate \in Nat /\ TopBurst * Cost \in Nat /\ n * Cost \in Nat
        /\ TopRate * (x - w + MaxDelay) \in Int /\ TopRate * (at - u) \in Int
        /\ r * (x - at) \in Int /\ TopRate * (x - at) \in Int
    BY <1>2, <1>3, TopIsTop, Products
  <1>6. CASE at >= u
    <2>1. n * Cost + tokens <= TopBurst * Cost + TopRate * (at - u)
      BY <1>3, <1>4, <1>6 DEF CoveredBy
    <2>2. r * (x - at) <= TopRate * (x - at)
      BY <1>2, <1>5, Monotone
    <2>3. TopRate * (x - w + MaxDelay) = TopRate * (x - at) + TopRate * (at - u)
      BY <1>3, <1>4, <1>5, Distribute
    <2>4. n * Cost + left <= TopBurst * Cost + TopRate * (x - w + MaxDelay)
      BY <1>1, <1>5, <2>1, <2>2, <2>3
    <2> QED
      BY <1>1, <1>2, <2>4 DEF CoveredBy
  <1>7. CASE at < u
    <2>1. n = 0 /\ n * Cost = 0
      BY <1>3, <1>7 DEF CoveredBy
    <2>2. x - w + MaxDelay \in Nat
      BY <1>2
    <2>3. TopRate * (x - w + MaxDelay) \in Nat
      BY <1>5, <2>2, Products
    <2> QED
      BY <1>1, <1>2, <1>5, <2>1, <2>3 DEF CoveredBy
  <1> QED
    BY <1>3, <1>6, <1>7

\* Tokens that are lost do no harm.
LEMMA FewerAreCovered ==
  ASSUME NEW n \in Nat, NEW w \in Nat, NEW tokens \in Nat, NEW at \in Int,
         CoveredBy(n, w, tokens, at), NEW left \in Nat, left <= tokens
  PROVE  CoveredBy(n, w, left, at)
  <1>1. /\ TopBurst * Cost \in Int /\ n * Cost \in Int
        /\ TopRate * (at - w + MaxDelay) \in Int
    BY TopIsTop, Products
  <1> QED
    BY <1>1 DEF CoveredBy

\* A request that is granted is paid for.
LEMMA GrantIsCovered ==
  ASSUME NEW n \in Nat, NEW w \in Nat, NEW tokens \in Nat, NEW at \in Int,
         CoveredBy(n, w, tokens, at), at >= w - MaxDelay, tokens >= Cost
  PROVE  CoveredBy(n + 1, w, tokens - Cost, at)
  <1>1. /\ TopBurst * Cost \in Int /\ n * Cost \in Int
        /\ TopRate * (at - w + MaxDelay) \in Int
    BY TopIsTop, Products
  <1>2. (n + 1) * Cost = n * Cost + Cost
    BY OneMore
  <1> QED
    BY <1>1, <1>2 DEF CoveredBy

\* A new bucket starts full where there is room for its burst.
LEMMA NewIsCovered ==
  ASSUME NEW n \in Nat, NEW w \in Nat, NEW x \in Nat, w <= x,
         n * Cost <= TopRate * (x - w),
         NEW t \in Int, x <= t + MaxDelay, NEW tokens \in Nat, tokens <= TopBurst * Cost
  PROVE  CoveredBy(n, w, tokens, t) /\ t >= w - MaxDelay
  <1>1. /\ TopRate \in Nat /\ TopBurst * Cost \in Int /\ n * Cost \in Int
        /\ TopRate * (t - w + MaxDelay) \in Int /\ TopRate * (x - w) \in Int
    BY TopIsTop, Products
  <1>2. TopRate * (x - w) <= TopRate * (t - w + MaxDelay)
    <2>1. x - w \in Int /\ t - w + MaxDelay \in Int /\ x - w <= t - w + MaxDelay
      OBVIOUS
    <2> QED
      BY <1>1, <2>1, Monotone
  <1> QED
    BY <1>1, <1>2 DEF CoveredBy

\* A bucket that is dropped after the time to fill up leaves room for a burst.
LEMMA DropLeavesRoom ==
  ASSUME NEW n \in Nat, NEW w \in Nat, NEW tokens \in Nat, NEW at \in Int,
         CoveredBy(n, w, tokens, at), NEW x \in Nat, w <= x,
         NEW d \in Int, TopBurst * Cost <= TopRate * d, at + MaxDelay + d <= x
  PROVE  n * Cost <= TopRate * (x - w)
  <1>1. /\ TopRate \in Nat /\ TopBurst * Cost \in Nat /\ n * Cost \in Int
        /\ TopRate * d \in Int /\ TopRate * (at - w + MaxDelay) \in Int
    BY TopIsTop, Products
  <1>2. TopRate * (x - w) \in Nat
    <2>1. x - w \in Nat
      OBVIOUS
    <2> QED
      BY <1>1, <2>1, Products
  <1>3. CASE at >= w - MaxDelay
    <2>1. n * Cost <= TopRate * d + TopRate * (at - w + MaxDelay)
      BY <1>1, <1>3 DEF CoveredBy
    <2>2. TopRate * (d + (at - w + MaxDelay)) = TopRate * d + TopRate * (at - w + MaxDelay)
      BY <1>1, Distribute
    <2>3. TopRate * (d + (at - w + MaxDelay)) <= TopRate * (x - w)
      <3>1. d + (at - w + MaxDelay) <= x - w
        OBVIOUS
      <3> QED
        BY <1>1, <3>1, Monotone
    <2> QED
      BY <1>1, <1>2, <2>1, <2>2, <2>3
  <1>4. CASE at < w - MaxDelay
    BY <1>2, <1>4 DEF CoveredBy
  <1> QED
    BY <1>3, <1>4
-------------------------------------------------------------------------------
(* What the operations on a bucket do to its account.                      *)

LEMMA RefilledIsCovered ==
  ASSUME NEW n \in Nat, NEW w \in Nat, NEW b \in Bucket,
         b.rate <= TopRate, b.burst <= TopBurst,
         NEW t \in Nat, t >= w - MaxDelay
  PROVE  /\ refilled(b, t) \in Bucket
         /\ refilled(b, t).rate = b.rate /\ refilled(b, t).burst = b.burst
         /\ refilled(b, t).tokens <= TopBurst * Cost
         /\ CoveredBy(n, w, b.tokens, b.at) =>
               /\ CoveredBy(n, w, refilled(b, t).tokens, refilled(b, t).at)
               /\ refilled(b, t).at >= w - MaxDelay
  <1>1. PICK p \in Policies : TRUE
    OBVIOUS
  <1>2. refilled(b, t) \in Bucket /\ refilled(b, t).at = Larger(b.at, t)
    BY <1>1, BucketTypes
  <1>3. /\ refilled(b, t).rate = b.rate /\ refilled(b, t).burst = b.burst
        /\ refilled(b, t).tokens
             = Smaller(b.burst * Cost, b.tokens + b.rate * (Larger(b.at, t) - b.at))
    BY DEF refilled, Bucket
  <1>4. /\ b.burst \in Nat /\ b.rate \in Nat /\ b.tokens \in Nat /\ b.at \in Int
        /\ b.burst * Cost \in Int /\ TopBurst * Cost \in Int
        /\ b.rate * (Larger(b.at, t) - b.at) \in Int
    BY TopIsTop, Products DEF Bucket, Larger
  <1>5. b.burst * Cost <= TopBurst * Cost
    BY <1>4, TopIsTop, Monotone
  <1>6. PICK left \in Nat : left = refilled(b, t).tokens
    BY <1>2 DEF Bucket
  <1>7. /\ left <= TopBurst * Cost
        /\ left <= b.tokens + b.rate * (Larger(b.at, t) - b.at)
    BY <1>3, <1>4, <1>5, <1>6 DEF Smaller
  <1>8. ASSUME CoveredBy(n, w, b.tokens, b.at)
        PROVE  CoveredBy(n, w, left, Larger(b.at, t)) /\ Larger(b.at, t) >= w - MaxDelay
    BY <1>4, <1>7, <1>8, RefillIsCovered, SMTT(20)
  <1> QED
    BY <1>2, <1>3, <1>6, <1>7, <1>8

\* A caller cannot reset its allowance by toggling policies.
LEMMA ReconfiguredIsCovered ==
  ASSUME NEW n \in Nat, NEW w \in Nat, NEW b \in Bucket,
         b.rate <= TopRate, b.burst <= TopBurst,
         NEW p \in Policies, NEW t \in Nat, t >= w - MaxDelay
  PROVE  /\ ReconfigureAt(b, p, t).rate <= TopRate
         /\ ReconfigureAt(b, p, t).burst <= TopBurst
         /\ ReconfigureAt(b, p, t).tokens <= TopBurst * Cost
         /\ CoveredBy(n, w, b.tokens, b.at) =>
               CoveredBy(n, w, ReconfigureAt(b, p, t).tokens, ReconfigureAt(b, p, t).at)
  <1>1. PICK r \in Bucket :
           /\ r = refilled(b, t) /\ r.tokens <= TopBurst * Cost
           /\ CoveredBy(n, w, b.tokens, b.at) => CoveredBy(n, w, r.tokens, r.at)
    BY RefilledIsCovered
  <1>2. r.tokens \in Nat /\ r.at \in Int /\ p.burst * Cost \in Nat /\ TopBurst * Cost \in Int
    BY TopIsTop, Products DEF Bucket
  <1>3. PICK left \in Nat : left = Smaller(r.tokens, p.burst * Cost) /\ left <= r.tokens
    BY <1>2 DEF Smaller
  <1>4. ReconfigureAt(b, p, t)
          = [rate |-> p.rate, burst |-> p.burst, at |-> r.at, tokens |-> left]
    BY <1>1, <1>3 DEF ReconfigureAt
  <1>5. CoveredBy(n, w, b.tokens, b.at) => CoveredBy(n, w, left, r.at)
    BY <1>1, <1>2, <1>3, FewerAreCovered
  <1> QED
    BY <1>1, <1>2, <1>3, <1>4, <1>5, TopIsTop

\* The script's hash is a bucket with the policy of the request.
LEMMA ScriptedIsCovered ==
  ASSUME NEW n \in Nat, NEW w \in Nat, NEW h \in [tokens : Nat, at : Int],
         h.at # -1, h.tokens <= TopBurst * Cost,
         NEW p \in Policies, NEW t \in Nat, t >= w - MaxDelay
  PROVE  /\ scripted(h, p, t).tokens <= TopBurst * Cost
         /\ CoveredBy(n, w, h.tokens, h.at) =>
               /\ CoveredBy(n, w, scripted(h, p, t).tokens, scripted(h, p, t).at)
               /\ scripted(h, p, t).at >= w - MaxDelay
  <1>1. CASE h.at >= t
    <2>1. scripted(h, p, t) = h
      BY <1>1 DEF scripted
    <2> QED
      BY <1>1, <2>1
  <1>2. CASE h.at < t
    <2>1. scripted(h, p, t) =
            [tokens |-> Smaller(p.burst * Cost, h.tokens + (t - h.at) * p.rate), at |-> t]
      BY <1>2 DEF scripted
    <2>2. /\ p.rate \in Nat /\ p.rate <= TopRate /\ p.burst \in Nat /\ p.burst <= TopBurst
          /\ t - h.at \in Nat
      BY <1>2, TopIsTop
    <2>3. /\ p.burst * Cost \in Nat /\ TopBurst * Cost \in Int
          /\ (t - h.at) * p.rate \in Nat /\ p.burst * Cost <= TopBurst * Cost
          /\ (t - h.at) * p.rate = p.rate * (t - h.at)
      <3>1. \A x, y \in Int : x * y = y * x
        OBVIOUS
      <3> QED
        BY <2>2, <3>1, TopIsTop, Products, Monotone
    <2>4. PICK left \in Nat :
             /\ left = Smaller(p.burst * Cost, h.tokens + (t - h.at) * p.rate)
             /\ left <= p.burst * Cost /\ left <= h.tokens + (t - h.at) * p.rate
      BY <2>3 DEF Smaller
    <2>5. Larger(h.at, t) = t
      BY <1>2 DEF Larger
    <2>6. left <= TopBurst * Cost /\ left <= h.tokens + p.rate * (Larger(h.at, t) - h.at)
      BY <2>3, <2>4, <2>5
    <2>7. scripted(h, p, t).tokens = left /\ scripted(h, p, t).at = Larger(h.at, t)
      BY <2>1, <2>4, <2>5
    <2>8. ASSUME CoveredBy(n, w, h.tokens, h.at)
          PROVE  CoveredBy(n, w, left, Larger(h.at, t)) /\ Larger(h.at, t) >= w - MaxDelay
      <3>1. h.tokens \in Nat /\ h.at \in Int /\ t \in Int
        OBVIOUS
      <3> QED
        BY Zenon, <2>2, <2>4, <2>6, <2>8, <3>1, RefillIsCovered
    <2> QED
      BY <2>6, <2>7, <2>8
  <1> QED
    BY <1>1, <1>2

\* Drawing on a bucket, whether or not its grant is counted.
LEMMA TakenIsCovered ==
  ASSUME NEW n \in Nat, NEW w \in Nat, NEW b \in Bucket \cup [tokens : Nat, at : Int],
         NEW ok \in BOOLEAN, ok => allowed(b), b.at >= w - MaxDelay,
         CoveredBy(n, w, b.tokens, b.at)
  PROVE  CoveredBy(IF ok THEN n + 1 ELSE n, w, taken(b).tokens, taken(b).at)
  <1>1. b.tokens \in Nat /\ b.at \in Int
    BY DEF Bucket
  <1>2. CASE allowed(b)
    <2>1. taken(b).tokens = b.tokens - Cost /\ taken(b).at = b.at /\ b.tokens >= Cost
      BY <1>2 DEF taken, allowed, Bucket
    <2>2. b.tokens - Cost \in Nat /\ b.tokens - Cost <= b.tokens
      BY <1>1, <2>1
    <2> QED
      BY <1>1, <2>1, <2>2, GrantIsCovered, FewerAreCovered
  <1>3. CASE ~allowed(b)
    BY <1>3 DEF taken
  <1> QED
    BY <1>2, <1>3

LEMMA TakenKeeps ==
  ASSUME NEW b \in Bucket \cup [tokens : Nat, at : Int]
  PROVE  /\ taken(b).tokens \in Nat /\ taken(b).tokens <= b.tokens /\ taken(b).at = b.at
         /\ b \in Bucket => taken(b).rate = b.rate /\ taken(b).burst = b.burst
  BY DEF taken, allowed, Bucket
-------------------------------------------------------------------------------
(* The account is kept.                                                    *)

\* A request under way did not read the clock long before the window.
LEMMA ReadInWindow ==
  ASSUME SharedInv, NEW c \in Callers, pc[c] # "idle"
  PROVE  /\ now[c] \in Nat /\ policy[c] \in Policies
         /\ now[c] >= window - MaxDelay /\ now[c] <= clock
         /\ window <= clock /\ clock <= now[c] + MaxDelay
  BY DEF SharedInv, TypeOK, ClockReads

LEMMA InitRate == Init => RateInv
  <1> SUFFICES ASSUME Init PROVE RateInv
    OBVIOUS
  <1>1. clock - window = 0 /\ granted * Cost = 0 /\ TopRate * 0 = 0
    BY TopIsTop DEF Init
  <1>2. RoomForBurst
    BY <1>1 DEF RoomForBurst
  <1>3. entry = 0 /\ redis = NoHash
    BY DEF Init
  <1> QED
    BY <1>2, <1>3, InitShared DEF RateInv, MemoryAccount, RedisAccount

\* What a step leaves alone stays covered.
LEMMA MemoryKept ==
  ASSUME MemoryAccount, heap' = heap, entry' = entry, clock' = clock,
         window' = window, watched' = watched, watched = "memory" => granted' = granted
  PROVE  MemoryAccount'
  BY DEF MemoryAccount, RoomForBurst, Covered, CoveredBy

LEMMA RedisKept ==
  ASSUME RedisAccount, redis' = redis, expiry' = expiry, clock' = clock,
         window' = window, watched' = watched, watched = "redis" => granted' = granted
  PROVE  RedisAccount'
  BY DEF RedisAccount, RoomForBurst, Covered, CoveredBy

LEMMA ArriveRate ==
  ASSUME RateInv, NEW c \in Callers, NEW p \in Policies, Arrive(c, p)
  PROVE  RateInv'
  BY ArriveShared, MemoryKept, RedisKept, Zenon DEF RateInv, Arrive, memory, fixed

\* The script keeps Redis's account, its answer being counted or lost.
LEMMA ScriptRate ==
  ASSUME SharedInv, RedisAccount, NEW c \in Callers, pc[c] = "redis", Script(c),
         clock' = clock, window' = window, watched' = watched,
         NEW ok \in BOOLEAN, ok => allowed(scripted(redis, policy[c], now[c])),
         watched = "redis" => granted' = IF ok THEN granted + 1 ELSE granted
  PROVE  RedisAccount'
  <1>1. /\ now[c] \in Nat /\ policy[c] \in Policies /\ now[c] >= window - MaxDelay
        /\ now[c] <= clock /\ window <= clock /\ clock <= now[c] + MaxDelay
    BY ReadInWindow
  <1>2. /\ granted \in Nat /\ window \in Nat /\ clock \in Nat
        /\ redis \in [tokens : Nat, at : Int]
    BY DEF SharedInv, TypeOK
  <1>3. PICK h \in [tokens : Nat, at : Int] :
           /\ h = scripted(redis, policy[c], now[c])
           /\ h.at = IF redis.at = -1 THEN now[c] ELSE Larger(redis.at, now[c])
    BY <1>1, <1>2, HashTypes, SMTT(20)
  <1>4. /\ redis' = taken(h) /\ expiry' = clock + MaxAge /\ redis'.at = h.at
        /\ redis'.tokens \in Nat /\ redis'.tokens <= h.tokens
    BY <1>3, TakenKeeps DEF Script
  <1>5. redis = NoHash <=> redis.at = -1
    BY <1>2 DEF RedisAccount, NoHash
  <1>6. h.at \in 0..clock
    BY <1>1, <1>2, <1>3, <1>5 DEF RedisAccount, Larger
  <1>7. redis' # NoHash
    BY <1>4, <1>6 DEF NoHash
  <1>8. /\ h.tokens <= TopBurst * Cost
        /\ watched = "redis" =>
              CoveredBy(granted, window, h.tokens, h.at) /\ h.at >= window - MaxDelay
    <2>1. CASE redis = NoHash
      <3>1. h.tokens = policy[c].burst * Cost /\ h.at = now[c]
        BY <1>3, <1>5, <2>1, SMTT(20) DEF scripted
      <3>2. h.tokens <= TopBurst * Cost
        BY <1>1, <3>1, TopIsTop, Monotone, SMTT(20)
      <3>3. watched = "redis" => granted * Cost <= TopRate * (clock - window)
        BY <2>1, SMTT(20) DEF RedisAccount, RoomForBurst
      <3> QED
        BY <1>1, <1>2, <3>1, <3>2, <3>3, NewIsCovered, Zenon
    <2>2. CASE redis # NoHash
      <3>1. redis.tokens <= TopBurst * Cost /\ redis.at # -1
        BY <1>5, <2>2 DEF RedisAccount
      <3>2. watched = "redis" => CoveredBy(granted, window, redis.tokens, redis.at)
        BY <2>2 DEF RedisAccount, Covered
      <3> QED
        BY <1>1, <1>2, <1>3, <3>1, <3>2, ScriptedIsCovered, SMTT(20)
    <2> QED
      BY <2>1, <2>2
  <1>9. watched = "redis" =>
           CoveredBy(IF ok THEN granted + 1 ELSE granted, window, taken(h).tokens, taken(h).at)
    BY <1>2, <1>3, <1>8, TakenIsCovered, Zenon
  <1>10. redis'.tokens <= TopBurst * Cost
    <2>1. TopBurst * Cost \in Int /\ h.tokens \in Nat
      BY TopIsTop, Products
    <2>2. PICK top \in Int : top = TopBurst * Cost
      BY <2>1
    <2>3. h.tokens <= top
      BY <1>8, <2>2
    <2>4. redis'.tokens <= top
      BY <1>4, <2>1, <2>3
    <2> QED
      BY <2>2, <2>4
  <1>11. watched' = "redis" => Covered(redis)'
    BY <1>4, <1>9 DEF Covered
  <1>12. redis'.at \in 0..clock' /\ redis'.at + MaxAge <= expiry'
    BY <1>2, <1>4, <1>6
  <1> QED
    BY <1>7, <1>10, <1>11, <1>12, SMTT(20) DEF RedisAccount

LEMMA RedisAnswersRate ==
  ASSUME RateInv, NEW c \in Callers, RedisAnswers(c)
  PROVE  RateInv'
  <1>1. SharedInv'
    BY RedisAnswersShared, SMTT(20) DEF RateInv
  <1>2. MemoryAccount'
    BY MemoryKept, SMTT(20) DEF RateInv, RedisAnswers, Count, memory, fixed
  <1>3. RedisAccount'
    <2>1. PICK ok \in BOOLEAN : ok <=> allowed(scripted(redis, policy[c], now[c]))
      BY Zenon DEF allowed
    <2>2. watched = "redis" => granted' = IF ok THEN granted + 1 ELSE granted
      BY <2>1 DEF RedisAnswers, Count
    <2> QED
      BY <2>1, <2>2, ScriptRate DEF RateInv, RedisAnswers, fixed
  <1> QED
    BY <1>1, <1>2, <1>3 DEF RateInv

LEMMA RedisFailsRate ==
  ASSUME RateInv, NEW c \in Callers, NEW ran \in BOOLEAN, RedisFails(c, ran)
  PROVE  RateInv'
  <1>1. SharedInv'
    BY RedisFailsShared DEF RateInv
  <1>2. MemoryAccount'
    BY MemoryKept DEF RateInv, RedisFails, memory, fixed
  <1>3. CASE ran
    BY <1>1, <1>2, <1>3, ScriptRate, Zenon DEF RateInv, RedisFails, fixed
  <1>4. CASE ~ran
    BY <1>1, <1>2, <1>4, RedisKept DEF RateInv, RedisFails, fixed
  <1> QED
    BY <1>3, <1>4

LEMMA LookupRate ==
  ASSUME RateInv, NEW c \in Callers, Lookup(c)
  PROVE  RateInv'
  <1>1. SharedInv'
    BY LookupShared DEF RateInv
  <1>2. RedisAccount'
    BY RedisKept DEF RateInv, Lookup, fixed
  <1>3. /\ now[c] \in Nat /\ policy[c] \in Policies /\ now[c] >= window - MaxDelay
        /\ now[c] <= clock /\ window <= clock /\ clock <= now[c] + MaxDelay
    BY ReadInWindow DEF RateInv, Lookup
  <1>4. /\ granted \in Nat /\ window \in Nat /\ clock \in Nat
        /\ heap \in [1..MaxBuckets -> Bucket]
        /\ created \in 0..MaxBuckets /\ entry \in 0..MaxBuckets
    BY DEF RateInv, SharedInv, TypeOK
  <1>5. window' = window /\ granted' = granted /\ watched' = watched
    BY DEF Lookup, fixed
  <1>6. CASE entry = 0
    <2>1. /\ created < MaxBuckets /\ entry' = created + 1
          /\ heap' = [heap EXCEPT ![created + 1] = newTokenBucket(policy[c], now[c])]
      BY <1>6 DEF Lookup
    <2>2. entry' # 0 /\ heap'[entry'] = newTokenBucket(policy[c], now[c])
      BY <1>4, <2>1
    <2>3. /\ heap'[entry'].rate = policy[c].rate /\ heap'[entry'].burst = policy[c].burst
          /\ heap'[entry'].tokens = policy[c].burst * Cost /\ heap'[entry'].at = now[c]
      BY <2>2 DEF newTokenBucket
    <2>4. heap'[entry'].tokens \in Nat /\ heap'[entry'].tokens <= TopBurst * Cost
      BY <1>3, <2>3, TopIsTop, Monotone, Products
    <2>5. watched = "memory" => granted * Cost <= TopRate * (clock - window)
      BY <1>6 DEF RateInv, MemoryAccount, RoomForBurst
    <2>6. watched = "memory" =>
             CoveredBy(granted, window, heap'[entry'].tokens, heap'[entry'].at)
      <3>1. PICK tokens \in Nat : tokens = heap'[entry'].tokens
        BY <2>4
      <3>2. tokens <= TopBurst * Cost
        BY <2>4, <3>1
      <3>3. now[c] \in Int
        BY <1>3
      <3>4. CASE watched = "memory"
        <4>1. granted * Cost <= TopRate * (clock - window)
          BY <2>5, <3>4
        <4>2. CoveredBy(granted, window, tokens, now[c])
          BY Zenon, <1>3, <1>4, <3>2, <3>3, <4>1, NewIsCovered
        <4> QED
          BY <2>3, <3>1, <4>2
      <3> QED
        BY <3>4
    <2>7. MemoryAccount'
      BY <1>3, <1>5, <2>2, <2>3, <2>4, <2>6, TopIsTop, SMTT(20) DEF MemoryAccount, Covered
    <2> QED
      BY <1>1, <1>2, <2>7, SMTT(20) DEF RateInv
  <1>7. CASE entry # 0
    <2>1. /\ entry' = entry /\ entry \in 1..MaxBuckets /\ heap[entry] \in Bucket
          /\ \/ heap' = heap
             \/ heap' = [heap EXCEPT ![entry] = ReconfigureAt(@, policy[c], now[c])]
      BY <1>4, <1>7 DEF Lookup
    <2>2. CASE heap' = heap
      BY <1>1, <1>2, <2>1, <2>2, MemoryKept DEF RateInv, Lookup, fixed
    <2>3. CASE heap' = [heap EXCEPT ![entry] = ReconfigureAt(@, policy[c], now[c])]
      <3>1. heap'[entry'] = ReconfigureAt(heap[entry], policy[c], now[c])
        BY <1>4, <2>1, <2>3
      <3>2. /\ heap[entry].rate <= TopRate /\ heap[entry].burst <= TopBurst
            /\ watched = "memory" =>
                  CoveredBy(granted, window, heap[entry].tokens, heap[entry].at)
        BY <1>7 DEF RateInv, MemoryAccount, Covered
      <3>3. /\ heap'[entry'].rate <= TopRate /\ heap'[entry'].burst <= TopBurst
            /\ heap'[entry'].tokens <= TopBurst * Cost
            /\ watched = "memory" =>
                  CoveredBy(granted, window, heap'[entry'].tokens, heap'[entry'].at)
        <4>1. LET b == ReconfigureAt(heap[entry], policy[c], now[c])
              IN  /\ b.rate <= TopRate /\ b.burst <= TopBurst
                  /\ b.tokens <= TopBurst * Cost
                  /\ CoveredBy(granted, window, heap[entry].tokens, heap[entry].at) =>
                        CoveredBy(granted, window, b.tokens, b.at)
          BY Zenon, <1>3, <1>4, <2>1, <3>2, ReconfiguredIsCovered
        <4> QED
          BY <3>1, <3>2, <4>1
      <3>4. MemoryAccount'
        BY <1>5, <1>7, <2>1, <3>3 DEF MemoryAccount, Covered
      <3> QED
        BY <1>1, <1>2, <3>4 DEF RateInv
    <2> QED
      BY <2>1, <2>2, <2>3
  <1> QED
    BY <1>6, <1>7

LEMMA AllowAtRate ==
  ASSUME RateInv, NEW c \in Callers, AllowAt(c)
  PROVE  RateInv'
  <1>1. SharedInv'
    BY AllowAtShared DEF RateInv
  <1>2. RedisAccount'
    BY RedisKept DEF RateInv, AllowAt, Count, fixed
  <1>3. now[c] \in Nat /\ now[c] >= window - MaxDelay
    BY ReadInWindow DEF RateInv, AllowAt
  <1>4. /\ granted \in Nat /\ window \in Nat /\ entry \in 1..MaxBuckets
        /\ heap \in [1..MaxBuckets -> Bucket] /\ heap[entry] \in Bucket
        /\ bucket[c] = entry
    BY DEF RateInv, SharedInv, TypeOK, LiveBucket, AllowAt
  <1>5. window' = window /\ watched' = watched /\ entry' = entry
    BY DEF AllowAt, fixed
  <1>6. /\ heap[entry].rate <= TopRate /\ heap[entry].burst <= TopBurst
        /\ watched = "memory" =>
              CoveredBy(granted, window, heap[entry].tokens, heap[entry].at)
    BY <1>4 DEF RateInv, MemoryAccount, Covered
  <1>7. PICK b \in Bucket :
           /\ b = refilled(heap[entry], now[c])
           /\ b.rate <= TopRate /\ b.burst <= TopBurst /\ b.tokens <= TopBurst * Cost
           /\ watched = "memory" =>
                 CoveredBy(granted, window, b.tokens, b.at) /\ b.at >= window - MaxDelay
    BY <1>3, <1>4, <1>6, RefilledIsCovered, SMTT(20)
  <1>8. PICK ok \in BOOLEAN : ok <=> allowed(b)
    BY Zenon DEF allowed
  <1>9. /\ heap'[entry'] = taken(b)
        /\ watched = "memory" => granted' = IF ok THEN granted + 1 ELSE granted
    BY <1>4, <1>5, <1>7, <1>8, SMTT(20) DEF AllowAt, Count
  <1>10. /\ heap'[entry'].rate <= TopRate /\ heap'[entry'].burst <= TopBurst
         /\ heap'[entry'].tokens <= TopBurst * Cost
    <2>1. TopBurst * Cost \in Int /\ b.tokens \in Nat
      BY TopIsTop, Products DEF Bucket
    <2>2. /\ taken(b).tokens \in Nat /\ taken(b).tokens <= b.tokens
          /\ taken(b).rate = b.rate /\ taken(b).burst = b.burst
      BY TakenKeeps
    <2>3. taken(b).tokens <= TopBurst * Cost
      BY <1>7, <2>1, <2>2
    <2> QED
      BY <1>7, <1>9, <2>2, <2>3
  <1>11. watched = "memory" =>
            CoveredBy(IF ok THEN granted + 1 ELSE granted, window,
                      taken(b).tokens, taken(b).at)
    BY <1>4, <1>7, <1>8, TakenIsCovered
  <1>12. MemoryAccount'
    BY <1>4, <1>5, <1>9, <1>10, <1>11 DEF MemoryAccount, Covered
  <1> QED
    BY <1>1, <1>2, <1>12 DEF RateInv

\* Enough to fill up implies enough to outlive.
LEMMA FullOutlives == FullBeforeDropped => Outlives
  <1> SUFFICES ASSUME FullBeforeDropped, ~Outlives PROVE FALSE
    OBVIOUS
  <1>1. TopBurst * Cost \in Nat \ {0}
    <2>1. \A x, y \in Nat \ {0} : x * y \in Nat \ {0}
      OBVIOUS
    <2> QED
      BY <2>1, TopIsTop
  <1>2. PICK d \in Int : d = MaxAge + 1 - 2 * MaxDelay
    OBVIOUS
  <1>3. d <= 0
    BY <1>2 DEF Outlives
  <1>4. TopRate * d <= TopRate * 0 /\ TopRate * 0 = 0 /\ TopRate * d \in Int
    BY <1>3, TopIsTop, Monotone, Products
  <1> QED
    BY <1>1, <1>2, <1>4 DEF FullBeforeDropped

LEMMA CleanupRate ==
  ASSUME FullBeforeDropped, RateInv, Cleanup
  PROVE  RateInv'
  <1>1. SharedInv'
    BY CleanupShared, FullOutlives DEF RateInv
  <1>2. RedisAccount'
    BY RedisKept DEF RateInv, Cleanup, fixed
  <1>3. /\ granted \in Nat /\ window \in Nat /\ clock \in Nat /\ window <= clock
        /\ entry \in 1..MaxBuckets /\ heap[entry] \in Bucket /\ lastSeen \in Nat
        /\ heap[entry].at <= lastSeen + MaxDelay /\ lastSeen < clock - MaxAge
    BY DEF RateInv, SharedInv, TypeOK, ClockReads, LiveBucket, Cleanup, stale
  <1>4. PICK tokens \in Nat, at \in Int :
           tokens = heap[entry].tokens /\ at = heap[entry].at
    BY <1>3 DEF Bucket
  <1>5. PICK d \in Int : d = MaxAge + 1 - 2 * MaxDelay
    OBVIOUS
  <1>6. at + MaxDelay + d <= clock
    BY <1>3, <1>4, <1>5
  <1>7. ASSUME watched = "memory" PROVE RoomForBurst
    <2>1. CoveredBy(granted, window, tokens, at)
      BY <1>3, <1>4, <1>7 DEF RateInv, MemoryAccount, Covered
    <2>2. TopBurst * Cost <= TopRate * d
      BY <1>5 DEF FullBeforeDropped
    <2> QED
      BY <1>3, <1>6, <2>1, <2>2, DropLeavesRoom DEF RoomForBurst
  <1>8. MemoryAccount'
    BY <1>7 DEF MemoryAccount, RoomForBurst, Cleanup, fixed
  <1> QED
    BY <1>1, <1>2, <1>8 DEF RateInv

LEMMA ExpireRate ==
  ASSUME FullBeforeDropped, RateInv, Expire
  PROVE  RateInv'
  <1>1. SharedInv'
    BY TimeShared DEF RateInv
  <1>2. MemoryAccount'
    BY MemoryKept DEF RateInv, Expire, memory, fixed
  <1>3. /\ granted \in Nat /\ window \in Nat /\ clock \in Nat /\ window <= clock
        /\ redis.tokens \in Nat /\ redis.at \in Int /\ expiry \in Nat
        /\ redis.at + MaxAge <= expiry /\ expiry <= clock
    BY DEF RateInv, SharedInv, TypeOK, ClockReads, RedisAccount, Expire
  <1>4. PICK d \in Int : d = MaxAge - MaxDelay
    OBVIOUS
  <1>5. redis.at + MaxDelay + d <= clock
    BY <1>3, <1>4
  <1>6. ASSUME watched = "redis" PROVE RoomForBurst
    <2>1. CoveredBy(granted, window, redis.tokens, redis.at)
      BY <1>6 DEF RateInv, RedisAccount, Covered, Expire
    <2>2. TopBurst * Cost <= TopRate * d
      BY <1>4 DEF FullBeforeDropped
    <2> QED
      BY <1>3, <1>5, <2>1, <2>2, DropLeavesRoom DEF RoomForBurst
  <1>7. RedisAccount'
    BY <1>6 DEF RedisAccount, RoomForBurst, Expire, fixed
  <1> QED
    BY <1>1, <1>2, <1>7 DEF RateInv

LEMMA TickRate ==
  ASSUME RateInv, Tick
  PROVE  RateInv'
  <1>1. SharedInv'
    BY TimeShared DEF RateInv
  <1>2. granted \in Nat /\ window \in Nat /\ clock \in Nat
    BY DEF RateInv, SharedInv, TypeOK
  <1>3. /\ clock' = clock + 1 /\ window' = window /\ granted' = granted
        /\ watched' = watched /\ heap' = heap /\ entry' = entry
        /\ redis' = redis /\ expiry' = expiry
    BY DEF Tick, memory, fixed
  <1>4. RoomForBurst => RoomForBurst'
    <2>1. TopRate * (clock - window) <= TopRate * ((clock + 1) - window)
      <3>1. /\ clock - window \in Int /\ (clock + 1) - window \in Int
            /\ clock - window <= (clock + 1) - window
        BY <1>2
      <3> QED
        BY <3>1, TopIsTop, Monotone
    <2>2. /\ granted * Cost \in Int /\ TopRate * (clock - window) \in Int
          /\ TopRate * ((clock + 1) - window) \in Int
      BY <1>2, TopIsTop, Products
    <2>3. granted * Cost <= TopRate * (clock - window)
             => granted * Cost <= TopRate * ((clock + 1) - window)
      BY <2>1, <2>2
    <2>4. RoomForBurst' <=> granted * Cost <= TopRate * ((clock + 1) - window)
      BY <1>3, Zenon DEF RoomForBurst
    <2>5. RoomForBurst <=> granted * Cost <= TopRate * (clock - window)
      BY DEF RoomForBurst
    <2> QED
      BY <2>3, <2>4, <2>5, Zenon
  <1>5. MemoryAccount'
    BY <1>3, <1>4 DEF RateInv, MemoryAccount, Covered
  <1>6. RedisAccount'
    BY <1>2, <1>3, <1>4 DEF RateInv, RedisAccount, Covered
  <1> QED
    BY <1>1, <1>5, <1>6 DEF RateInv

LEMMA ObserveRate ==
  ASSUME RateInv, Observe
  PROVE  RateInv'
  <1>1. SharedInv'
    BY TimeShared DEF RateInv
  <1>2. clock \in Nat /\ heap \in [1..MaxBuckets -> Bucket] /\ entry \in 0..MaxBuckets
    BY DEF RateInv, SharedInv, TypeOK
  <1>3. /\ clock' = clock /\ window' = clock /\ granted' = 0
        /\ watched' = watched /\ heap' = heap /\ entry' = entry
        /\ redis' = redis /\ expiry' = expiry
    BY DEF Observe, memory, fixed
  <1>4. RoomForBurst'
    <2>1. clock - clock = 0 /\ 0 * Cost = 0 /\ TopRate * 0 = 0
      BY <1>2, TopIsTop
    <2> QED
      BY <1>3, <2>1 DEF RoomForBurst
  <1>5. ASSUME NEW tokens \in Nat, NEW at \in Int, tokens <= TopBurst * Cost
        PROVE  CoveredBy(0, clock, tokens, at)
    <2>1. 0 * Cost = 0 /\ TopBurst * Cost \in Int
      BY TopIsTop, Products
    <2>2. at >= clock - MaxDelay => TopRate * (at - clock + MaxDelay) \in Nat
      <3>1. at >= clock - MaxDelay => at - clock + MaxDelay \in Nat
        BY <1>2
      <3> QED
        BY <3>1, TopIsTop, Products
    <2> QED
      BY <1>2, <1>5, <2>1, <2>2 DEF CoveredBy
  <1>6. MemoryAccount'
    <2>1. entry # 0 => heap[entry].tokens \in Nat /\ heap[entry].at \in Int
      BY <1>2 DEF Bucket
    <2> QED
      BY <1>3, <1>4, <1>5, <2>1 DEF RateInv, MemoryAccount, Covered
  <1>7. RedisAccount'
    <2>1. redis.tokens \in Nat /\ redis.at \in Int
      BY DEF RateInv, SharedInv, TypeOK
    <2> QED
      BY <1>3, <1>4, <1>5, <2>1 DEF RateInv, RedisAccount, Covered
  <1> QED
    BY <1>1, <1>6, <1>7 DEF RateInv

LEMMA StutterRate ==
  ASSUME RateInv, UNCHANGED vars
  PROVE  RateInv'
  BY TimeShared, MemoryKept, RedisKept DEF RateInv, vars, memory, fixed

LEMMA NextRate ==
  ASSUME FullBeforeDropped
  PROVE  RateInv /\ [Next]_vars => RateInv'
  BY ArriveRate, RedisAnswersRate, RedisFailsRate, LookupRate, AllowAtRate,
     CleanupRate, ExpireRate, TickRate, ObserveRate, StutterRate, SMTT(20)
  DEF Next

\* Stores are watched one at a time.
LEMMA WatchedStore ==
  /\ Init => watched \in {"memory", "redis"}
  /\ watched \in {"memory", "redis"} /\ [Next]_vars => watched' \in {"memory", "redis"}
  BY DEF Init, Next, Arrive, RedisAnswers, RedisFails, Lookup, AllowAt, Cleanup,
         Expire, Tick, Observe, vars, fixed

\* The account stays within the budget.
LEMMA AccountWithinBudget ==
  ASSUME RateInv, watched \in {"memory", "redis"}
  PROVE  RateBound
  <1>1. granted \in Nat /\ window \in Nat /\ clock \in Nat /\ window <= clock
    BY DEF RateInv, SharedInv, TypeOK, ClockReads
  <1>2. /\ TopRate \in Nat /\ TopBurst * Cost \in Nat /\ granted * Cost \in Nat
        /\ TopRate * (clock - window) \in Int
    BY <1>1, TopIsTop, Products
  <1>3. clock - window + MaxDelay \in Nat /\ TopRate * (clock - window + MaxDelay) \in Nat
    <2>1. clock - window + MaxDelay \in Nat
      BY <1>1
    <2> QED
      BY <1>2, <2>1, Products
  <1>4. CASE RoomForBurst
    <2>1. TopRate * (clock - window) <= TopRate * (clock - window + MaxDelay)
      <3>1. clock - window \in Int /\ clock - window <= clock - window + MaxDelay
        BY <1>1
      <3> QED
        BY <1>2, <1>3, <3>1, Monotone
    <2> QED
      BY <1>2, <1>3, <1>4, <2>1 DEF RoomForBurst, RateBound, Budget
  <1>5. ASSUME NEW tokens \in Nat, NEW at \in Int, at <= clock,
               CoveredBy(granted, window, tokens, at)
        PROVE  RateBound
    <2>1. CASE at < window - MaxDelay
      BY <1>2, <1>3, <1>5, <2>1 DEF CoveredBy, RateBound, Budget
    <2>2. CASE at >= window - MaxDelay
      <3>1. TopRate * (at - window + MaxDelay) <= TopRate * (clock - window + MaxDelay)
        <4>1. /\ at - window + MaxDelay \in Int
              /\ at - window + MaxDelay <= clock - window + MaxDelay
          BY <1>1, <1>5
        <4> QED
          BY <1>2, <1>3, <4>1, Monotone
      <3>2. TopRate * (at - window + MaxDelay) \in Int
        BY <1>1, <1>2, Products
      <3> QED
        BY <1>2, <1>3, <1>5, <2>2, <3>1, <3>2 DEF CoveredBy, RateBound, Budget
    <2> QED
      BY <1>1, <2>1, <2>2
  <1>6. entry # 0 => /\ heap[entry].tokens \in Nat /\ heap[entry].at \in Int
                     /\ heap[entry].at <= clock
    BY SMTT(20) DEF RateInv, SharedInv, TypeOK, LiveBucket, Bucket
  <1>7. redis # NoHash => redis.tokens \in Nat /\ redis.at \in Int /\ redis.at <= clock
    BY DEF RateInv, SharedInv, TypeOK, RedisAccount
  <1>8. CASE watched = "memory"
    BY <1>4, <1>5, <1>6, <1>8 DEF RateInv, MemoryAccount, Covered
  <1>9. CASE watched = "redis"
    BY <1>4, <1>5, <1>7, <1>9 DEF RateInv, RedisAccount, Covered
  <1> QED
    BY <1>8, <1>9

\* In every window of time a store grants at most one burst and the sustained
\* rate, provided an idle bucket fills up before Redis or the cleanup goroutine
\* drops it.
THEOREM RateIsBounded ==
  ASSUME FullBeforeDropped
  PROVE  Spec => []RateBound
  <1> DEFINE Inv == RateInv /\ watched \in {"memory", "redis"}
  <1>1. Init => Inv
    BY InitRate, WatchedStore
  <1>2. Inv /\ [Next]_vars => Inv'
    BY NextRate, WatchedStore
  <1>3. Inv => RateBound
    BY AccountWithinBudget
  <1> QED
    BY <1>1, <1>2, <1>3, PTL DEF Spec
===============================================================================
