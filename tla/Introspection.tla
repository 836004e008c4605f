----------------------------- MODULE Introspection ----------------------------
(***************************************************************************)
(* identityclient.Client.IntrospectProto (identityclient/client.go):        *)
(* concurrent callers verify bearer tokens at the identity service, which   *)
(* may be unavailable and may revoke a token at any time; the last active   *)
(* answer is cached for TTL and used only when the service cannot be asked. *)
(*                                                                         *)
(* Time is relative: left is the time until a cache entry expires (-1 once  *)
(* it has), age[c] the time since c looked into the cache, since[t] the     *)
(* time since t was revoked.                                                *)
(***************************************************************************)
EXTENDS LRU

CONSTANTS Callers, Tokens, NoToken,
          TTL,        \* cacheTTL
          Timeout     \* requestTimeout; bound on the duration of a call

ASSUME IntrospectionAssumption ==
    /\ NoToken \notin Tokens
    /\ TTL \in Nat \ {0} /\ Timeout \in Nat

VARIABLES
    cache,      \* c.introspection: a sequence of [key, left]
    since,      \* since[t]: -1 while t is active
    pc, token, age,
    hasCached,  \* hasCached[c]: the lookup of c found an entry
    reply,      \* reply[c]: what the service answered c
    result,     \* result[c]: what the last call of c returned
    recent      \* history: keys by last use, those pushed out included

Replies == {"active", "inactive", "invalid", "unavailable"}

locals == <<pc, token, age, hasCached, reply>>
vars == <<cache, since, locals, result, recent>>

\* What a caller may be told about a token that was revoked this long ago.
Staleness == TTL + 2 * Timeout
Forget(seq, S) == Subsequence(seq, {i \in DOMAIN seq : seq[i] \notin S})
Touch(seq, t) == <<t>> \o Forget(seq, {t})

Init ==
    /\ cache = <<>>
    /\ since = [t \in Tokens |-> -1]
    /\ pc = [c \in Callers |-> "idle"]
    /\ token = [c \in Callers |-> NoToken]
    /\ age = [c \in Callers |-> 0]
    /\ hasCached = [c \in Callers |-> FALSE]
    /\ reply = [c \in Callers |-> "none"]
    /\ result = [c \in Callers |-> "none"]
    /\ recent = <<>>

Expired(e) == e.left < 0

\* Mutant: an expired entry is returned.
cachedIntrospection_Expired(t) == t \in Keys(cache)

\* Whether the cache has an answer for t.
cachedIntrospection(t) == t \in Keys(cache) /\ ~Expired(Entry(cache, t))
-------------------------------------------------------------------------------
\* The lookup: a hit is promoted, an expired entry deleted.
Start(c, t) ==
    /\ pc[c] = "idle"
    /\ hasCached' = [hasCached EXCEPT ![c] = cachedIntrospection(t)]
    /\ cache' = IF cachedIntrospection(t) THEN Get(cache, t) ELSE Delete(cache, t)
    /\ recent' = IF cachedIntrospection(t) THEN Touch(recent, t)
                 ELSE IF t \in Keys(cache) THEN Forget(recent, {t}) ELSE recent
    /\ pc' = [pc EXCEPT ![c] = "request"]
    /\ token' = [token EXCEPT ![c] = t]
    /\ result' = [result EXCEPT ![c] = "none"]
    /\ UNCHANGED <<since, age, reply>>

\* The service says what the token is, rejects the request with a 4xx status, or
\* cannot be asked: a timeout, a 5xx, 408 or 429 status, or an answer that cannot
\* be read or decoded.
Serve(c, r) ==
    /\ pc[c] = "request"
    /\ r = "active" => since[token[c]] = -1
    /\ r = "inactive" => since[token[c]] # -1
    /\ reply' = [reply EXCEPT ![c] = r]
    /\ pc' = [pc EXCEPT ![c] = "answered"]
    /\ UNCHANGED <<cache, since, token, age, hasCached, result, recent>>

Return(c, r) ==
    /\ pc' = [pc EXCEPT ![c] = "idle"]
    /\ token' = [token EXCEPT ![c] = NoToken]
    /\ age' = [age EXCEPT ![c] = 0]
    /\ hasCached' = [hasCached EXCEPT ![c] = FALSE]
    /\ reply' = [reply EXCEPT ![c] = "none"]
    /\ result' = [result EXCEPT ![c] = r]
    /\ UNCHANGED since

\* storeIntrospection prunes and puts; the entry's time starts now.
Accept(c) ==
    /\ pc[c] = "answered" /\ reply[c] = "active"
    /\ LET kept == DeleteFunc(cache, {e \in Entries(cache) : Expired(e)})
       IN  /\ cache' = Put(kept, [key |-> token[c], left |-> TTL])
           /\ recent' = Touch(Forget(recent, Keys(cache) \ Keys(kept)), token[c])
    /\ Return(c, "ok")

\* A 4xx status or an inactive token evicts the entry.
Refuse(c) ==
    /\ pc[c] = "answered" /\ reply[c] \in {"inactive", "invalid"}
    /\ cache' = Delete(cache, token[c])
    /\ recent' = IF token[c] \in Keys(cache) THEN Forget(recent, {token[c]}) ELSE recent
    /\ Return(c, reply[c])

\* Without an answer the entry found by the lookup decides.
FallBack(c) ==
    /\ pc[c] = "answered" /\ reply[c] = "unavailable"
    /\ Return(c, IF hasCached[c] THEN "ok" ELSE "unavailable")
    /\ UNCHANGED <<cache, recent>>

Revoke(t) ==
    /\ since[t] = -1
    /\ since' = [since EXCEPT ![t] = 0]
    /\ UNCHANGED <<cache, locals, result, recent>>

Tick ==
    /\ \A c \in Callers : pc[c] # "idle" => age[c] < Timeout
    /\ age' = [c \in Callers |-> IF pc[c] = "idle" THEN 0 ELSE age[c] + 1]
    /\ cache' = [i \in DOMAIN cache |->
                    [cache[i] EXCEPT !.left = IF @ >= 0 THEN @ - 1 ELSE @]]
    /\ since' = [t \in Tokens |-> IF since[t] \in 0..Staleness
                                  THEN since[t] + 1 ELSE since[t]]
    /\ UNCHANGED <<pc, token, hasCached, reply, result, recent>>

Next ==
    \/ \E c \in Callers :
          \/ \E t \in Tokens : Start(c, t)
          \/ \E r \in Replies : Serve(c, r)
          \/ Accept(c) \/ Refuse(c) \/ FallBack(c)
    \/ \E t \in Tokens : Revoke(t)
    \/ Tick

Spec == Init /\ [][Next]_vars
-------------------------------------------------------------------------------
\* A revoked token is accepted for at most TTL and the time of two calls: the
\* one that cached the answer and the one that fell back on it.  Neither
\* concurrent stores nor late evictions prolong this.
BoundedStaleness ==
    [][\A c \in Callers :
          pc[c] = "answered" /\ pc'[c] = "idle" /\ result'[c] = "ok"
          => since[token[c]] <= Staleness]_vars

\* The keys kept are the most recently used ones: whatever was pushed out to
\* make room was used less recently than everything that stayed.
MostRecentKept ==
    /\ Len(cache) <= MaxSize /\ Len(cache) <= Len(recent)
    /\ \A i \in DOMAIN cache : cache[i].key = recent[i]
===============================================================================
