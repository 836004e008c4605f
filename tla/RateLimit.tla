------------------------------- MODULE RateLimit ------------------------------
(***************************************************************************)
(* ratelimit.Limiter (ratelimit/ratelimit.go, ratelimit/redis.go): the     *)
(* requests of one identity in one scope, each with the policy PolicyFunc  *)
(* chose for it, against the bucket in Redis if there is one and the       *)
(* in-memory bucket otherwise or when Redis fails, with the background     *)
(* cleanup that evicts idle in-memory buckets.                             *)
(*                                                                         *)
(* Tokens are counted in fractions: a request costs Cost units, a policy   *)
(* adds policy.rate units per time unit up to policy.burst * Cost.  A      *)
(* request reads the clock once and uses that value in every later step,   *)
(* so buckets see clock values out of order.                               *)
(***************************************************************************)
EXTENDS Integers, FiniteSets

CONSTANTS Callers,       \* goroutines that handle requests
          Policies,      \* records [rate, burst] a request may have
          Cost,          \* units per request
          MaxAge,        \* idle time after which a bucket is dropped
          MaxDelay,      \* bound: time a request spends in the limiter
          MaxTime,       \* bound on the clock
          MaxBuckets     \* bound on the in-memory buckets ever created

ASSUME RateLimitAssumption ==
    /\ Cost \in Nat \ {0} /\ MaxAge \in Nat \ {0}
    /\ MaxDelay \in Nat /\ MaxTime \in Nat /\ MaxBuckets \in Nat \ {0}
    /\ Policies # {} /\ IsFiniteSet(Policies)
    /\ \A p \in Policies : p.rate \in Nat \ {0} /\ p.burst \in Nat \ {0}

VARIABLES
    useRedis,   \* whether RedisClient is set
    clock,
    heap,       \* heap[i]: the i-th tokenBucket created in memory
    created,    \* number of them
    entry,      \* the bucket l.entries holds for the key, 0 if none
    lastSeen,   \* entry.lastSeen
    redis,      \* the bucket in Redis
    expiry,     \* when Redis drops it
    pc, now, policy, bucket,    \* locals of the callers
    watched,    \* history: the store whose grants are counted
    window,     \* history: when the observation of its grants began
    granted     \* history: requests it granted since then

memory == <<heap, created, entry, lastSeen>>
locals == <<pc, now, policy, bucket>>
fixed == <<useRedis, watched>>
vars == <<fixed, clock, memory, redis, expiry, locals, window, granted>>

Smaller(a, b) == IF a < b THEN a ELSE b
Larger(a, b) == IF a < b THEN b ELSE a

\* A bucket: the unused ones have at = -1.
NoBucket == [rate |-> 0, burst |-> 0, tokens |-> 0, at |-> -1]

AnyPolicy == CHOOSE p \in Policies : TRUE

newTokenBucket(p, t) ==
    [rate |-> p.rate, burst |-> p.burst, tokens |-> p.burst * Cost, at |-> t]

\* Tokens and time after refilling up to t, a past t counting as no time.
refilled(b, t) ==
    [b EXCEPT !.tokens = Smaller(b.burst * Cost, @ + b.rate * (Larger(b.at, t) - b.at)),
              !.at = Larger(@, t)]

\* Mutant: a changed policy makes a new bucket.
ReconfigureAt_Fresh(b, p, t) == newTokenBucket(p, t)

ReconfigureAt(b, p, t) ==
    LET r == refilled(b, t)
    IN  [rate |-> p.rate, burst |-> p.burst, at |-> r.at,
         tokens |-> Smaller(r.tokens, p.burst * Cost)]

\* AllowAt: whether the request is allowed, and the bucket afterwards.
allowed(b) == b.tokens >= Cost
taken(b) == IF allowed(b) THEN [b EXCEPT !.tokens = @ - Cost] ELSE b

\* The script's hash for policy p at time t: a missing key starts full, and the
\* refill, which is due only when time has passed, is capped by p's burst.
scripted(h, p, t) ==
    CASE h.at = -1 -> [tokens |-> p.burst * Cost, at |-> t]
      [] h.at >= t /\ h.at # -1 -> h
      [] h.at < t /\ h.at # -1 ->
            [tokens |-> Smaller(p.burst * Cost, h.tokens + (t - h.at) * p.rate),
             at |-> t]

NoHash == [tokens |-> 0, at |-> -1]

Init ==
    /\ clock = 0
    /\ heap = [i \in 1..MaxBuckets |-> NoBucket]
    /\ created = 0 /\ entry = 0 /\ lastSeen = 0
    /\ redis = NoHash /\ expiry = 0
    /\ pc = [c \in Callers |-> "idle"]
    /\ now = [c \in Callers |-> 0]
    /\ policy = [c \in Callers |-> AnyPolicy]
    /\ bucket = [c \in Callers |-> 0]
    /\ useRedis \in BOOLEAN
    /\ watched \in IF useRedis THEN {"memory", "redis"} ELSE {"memory"}
    /\ window = 0 /\ granted = 0

\* A request the watched store granted is counted (history only).
Count(store, ok) == granted' = IF ok /\ store = watched THEN granted + 1 ELSE granted

Return(c) ==
    /\ pc' = [pc EXCEPT ![c] = "idle"]
    /\ now' = [now EXCEPT ![c] = 0]
    /\ policy' = [policy EXCEPT ![c] = AnyPolicy]
    /\ bucket' = [bucket EXCEPT ![c] = 0]
-------------------------------------------------------------------------------
\* allowWithRetry reads the clock.
Arrive(c, p) ==
    /\ pc[c] = "idle"
    /\ now' = [now EXCEPT ![c] = clock]
    /\ policy' = [policy EXCEPT ![c] = p]
    /\ pc' = [pc EXCEPT ![c] = IF useRedis THEN "redis" ELSE "lookup"]
    /\ UNCHANGED <<clock, memory, redis, expiry, bucket, window, granted, fixed>>

\* The script runs in one step and renews the key's time to live.
Script(c) ==
    LET h == scripted(redis, policy[c], now[c])
    IN  /\ redis' = taken(h)
        /\ expiry' = clock + MaxAge

RedisAnswers(c) ==
    /\ pc[c] = "redis"
    /\ Script(c)
    /\ Count("redis", allowed(scripted(redis, policy[c], now[c])))
    /\ Return(c)
    /\ UNCHANGED <<clock, memory, window, fixed>>

\* The call fails, before or after the script ran, or its answer is malformed.
RedisFails(c, ran) ==
    /\ pc[c] = "redis"
    /\ IF ran THEN Script(c) ELSE UNCHANGED <<redis, expiry>>
    /\ pc' = [pc EXCEPT ![c] = "lookup"]
    /\ UNCHANGED <<clock, memory, now, policy, bucket, window, granted, fixed>>

\* allowLocal, under l.mu: find, create or reconfigure the bucket.
Lookup(c) ==
    /\ pc[c] = "lookup"
    /\ LET p == policy[c]
       IN  IF entry = 0
           THEN /\ created < MaxBuckets
                /\ created' = created + 1
                /\ entry' = created + 1
                /\ heap' = [heap EXCEPT ![created + 1] = newTokenBucket(p, now[c])]
           ELSE /\ heap' = IF heap[entry].rate # p.rate \/ heap[entry].burst # p.burst
                           THEN [heap EXCEPT ![entry] = ReconfigureAt(@, p, now[c])]
                           ELSE heap
                /\ UNCHANGED <<created, entry>>
    /\ lastSeen' = now[c]
    /\ bucket' = [bucket EXCEPT ![c] = entry']
    /\ pc' = [pc EXCEPT ![c] = "allow"]
    /\ UNCHANGED <<clock, redis, expiry, now, policy, window, granted, fixed>>

\* AllowAt on the bucket found, which may have been evicted meanwhile.
AllowAt(c) ==
    /\ pc[c] = "allow"
    /\ LET b == refilled(heap[bucket[c]], now[c])
       IN  /\ heap' = [heap EXCEPT ![bucket[c]] = taken(b)]
           /\ Count("memory", allowed(b))
    /\ Return(c)
    /\ UNCHANGED <<clock, created, entry, lastSeen, redis, expiry, window, fixed>>

\* Mutant: the cutoff is the present time.
stale_NoAge == lastSeen < clock

stale == lastSeen < clock - MaxAge

\* One round of the cleanup goroutine.
Cleanup ==
    /\ entry # 0 /\ stale
    /\ entry' = 0 /\ lastSeen' = 0
    /\ UNCHANGED <<clock, heap, created, redis, expiry, locals, window, granted, fixed>>

Expire ==
    /\ redis # NoHash /\ clock >= expiry
    /\ redis' = NoHash /\ expiry' = 0
    /\ UNCHANGED <<clock, memory, locals, window, granted, fixed>>

Tick ==
    /\ clock < MaxTime
    /\ \A c \in Callers : pc[c] # "idle" => clock - now[c] < MaxDelay
    /\ redis # NoHash => clock < expiry
    /\ clock' = clock + 1
    /\ UNCHANGED <<memory, redis, expiry, locals, window, granted, fixed>>

\* The observation starts over at the present moment (history only).
Observe ==
    /\ window = 0 /\ clock > 0
    /\ window' = clock /\ granted' = 0
    /\ UNCHANGED <<clock, memory, redis, expiry, locals, fixed>>

Next ==
    \/ \E c \in Callers :
          \/ \E p \in Policies : Arrive(c, p)
          \/ RedisAnswers(c)
          \/ \E ran \in BOOLEAN : RedisFails(c, ran)
          \/ Lookup(c) \/ AllowAt(c)
    \/ Cleanup \/ Expire \/ Tick \/ Observe

Spec == Init /\ [][Next]_vars
-------------------------------------------------------------------------------
MaxOver(S) == CHOOSE x \in S : \A y \in S : y <= x
TopRate == MaxOver({p.rate : p \in Policies})
TopBurst == MaxOver({p.burst : p \in Policies})

\* What the policies admit in a window: one burst and the sustained rate, over
\* the window and the delay of requests that read the clock before it.
Budget == TopBurst * Cost + TopRate * (clock - window + MaxDelay)

\* In every window of time the in-memory limiter grants at most one burst and
\* the sustained rate (Config), although buckets see stale clock values, are
\* reconfigured by other requests' policies ("a caller cannot reset its
\* allowance by toggling") and are evicted while requests hold them.  The same
\* holds of Redis, whose key expires and whose answers get lost.
RateBound == granted * Cost <= Budget

\* Requests that found a bucket share it: nobody draws on a bucket that was
\* evicted while somebody else draws on its successor.
OneLiveBucket ==
    \A c \in Callers : pc[c] = "allow" => bucket[c] = entry
===============================================================================
