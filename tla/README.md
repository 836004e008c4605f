# Verification of service-runtime

TLA+ models of the stateful parts of `service-runtime`, the Go library of
building blocks (resilience, messaging, idempotency, limits, identity, health,
startup) that services link in.  The library has no process of its own: its
behaviour is what many goroutines of a service do to shared state in memory, in
a database, in a directory, in Redis and in NATS.  The models keep that control
flow, every early return and error path included, and abstract payloads, names,
wording and logging.

## The system and its models

| Part | Source | Modules | Status |
|---|---|---|---|
| Circuit breaker | `resilience/breaker.go` | `BreakerOps`, `Breaker`, `BreakerProofs` | modelled, proved |
| Downstream calls | `downstream/downstream.go` | `Downstream`, over `BreakerOps` | modelled |
| Retry | `resilience/retry.go` | the attempt loop of `ReliablePublisher` | partly |
| Reliable publisher, dead letters | `natsbus/reliable.go` | `ReliablePublisher`, abstract `Outbox`, `BusProofs` | modelled, proved |
| Envelope formats, publisher | `natsbus/natsbus.go` | `Envelope`, `Consumer`, `BusProofs` | partly, proved |
| Trace propagation | `natsbus/propagation.go` | `Propagation`, `Consumer`, `BusProofs` | modelled, proved |
| Consumer | `natsbus/consumer.go` | `Consumer`, `BusProofs` | modelled, proved |
| Idempotency middleware, store | `idempotency/idempotency.go` | `Idempotency`, `IdempotencyProofs` | modelled, proved |
| Change journal | `changejournal/changejournal.go` | `ChangeJournal`, over `Idempotency`, `IdempotencyProofs` | partly, proved |
| Rate limiter | `ratelimit/ratelimit.go`, `redis.go` | `RateLimit`, `RateLimitProofs` | modelled, proved |
| Identity client | `identityclient/client.go` | `LRU`, `Introspection`, `ServiceTokens`, `IdentityProofs` | modelled, proved |
| Health checker | `health/health.go` | `Health`, `LifecycleProofs` | modelled, proved |
| HTTP server, lifecycle, tracing | `startup/http.go`, `lifecycle.go`, `tracing.go` | `Startup`, `LifecycleProofs` | modelled, proved |
| Background tasks | `async/async.go` | `Startup`, `LifecycleProofs` | partly, proved |
| Postgres open, migrations, startup retry | `postgres/open.go`, `migrate/migrate.go`, `startup/retry.go` | `Database` | partly |
| Agent hook | `agenthook/*.go` | `AgentHook`, `AgentHookProofs` | modelled, proved |
| Feature flags | `featureflags/file_store.go` | `FeatureFlags`, `FeatureFlagsProofs` | modelled, proved |
| Authentication middleware | `authmw/*.go` | | not modelled |
| mTLS, HTTP toolkit and clients, pool and Redis open helpers, metrics, logging, errors, test helpers, generated code | `mtls`, `httpkit`, `httpclient`, `pgxpoolutil`, `redisutil`, `observability`, `rterrors`, `testutil`, `gen` | | no state machine of their own |

`PROJECT.json` lists every part with its files, maps every definition to the
lines it models, and lists the hazards with the properties that would catch
them.

Where parts interact, the models are composed.  `BreakerOps` holds the breaker's
critical sections as functions of its record: `Breaker` runs them from the callers
of `Execute` and of `Downstream`, and `ReliablePublisher` runs the same ones around
`Retry` and `PublishMsg`, for publishes and replays that share one breaker.
`ChangeJournal` is the handler behind `Idempotency` and may commit with it or on its
own.  `Introspection` and `ServiceTokens` run the operators of `LRU`.  `Consumer`
decodes what `Envelope` encodes and finds the trace that `Propagation` wrote.
`Startup` runs the server, the lifecycle, tracing, the requests being served and
the background runner those use; `Database` runs `startup.Do` around the open, ping,
migration and init of one handle.

## Conventions

* One action is one critical section, one call to an external service, or one
  step between two points at which another goroutine can interfere.  A value
  read before an unlock and used after it is a local variable of the caller.
* Time is discrete, and relative where only differences matter ("time left",
  "age"), so that the state space is finite without a bound on the clock.
  Durations are compared exactly as the code compares them (`>=`, `After`).
* External parties (NATS server and client library, Postgres, Redis, the
  identity, governance and approvals services, the file system, the clock) are
  modelled from how the code uses them, with the failures it handles: lost
  acknowledgements, ambiguous commits, late and missing answers.
* History variables are never read by a guard.
* An operator with an underscore and a suffix (`after_NoDiscard`) is a faulty
  variant of the definition after it.  Each property has one that breaks it.

## The modules

**BreakerOps, Breaker.**  `breaker` is the struct; `openedAt` is the time elapsed
since, counted up to `ResetTimeout`.  `Admit` and `Reject` are `before`, `Finish`
is the return of the function followed by `after`, `Panic` the unwinding that
skips `after`, `CallState` and `CallReset` the public methods.  `current` and
`leaked` remember which calls belong to the present half-open period.

**Downstream.**  `CallOp` is what `downstream.CallOp` makes of the result of `Do` for a
client in each failure mode: an error, or the zero value without one.  A failure
mode that is neither constant counts as fail-closed, as in the code.

**ReliablePublisher, Outbox.**  A thread is the goroutine of one `Publish` or the
holder of `replayMu`.  Its steps are `before`, each `PublishMsg` (acknowledged,
failed, or stored with the acknowledgement lost), `after`, then for a failed
publish the stamping, writing and renaming of the dead letter, the counter and
the gauge; for a replay the listing of a batch and per record publish, remove and
count.  `Close`, `CloseConnection`, `Crash` and `Restart` (which scans the
directory) interleave with all of them.  `Outbox` is what callers are promised:
a message is delivered during its call or from a durable queue and leaves the
queue only when delivered, and the answers are true.

**Idempotency.**  Requests with one key in one scope and the one row they share.
`Arrive` reads the clock and takes the cleanup gate; `Cleanup`, `BeginFound`,
`BeginAbsent`, `Insert`, `InsertLoses`, `BeginFails` (which may have committed)
are the store's statements; `Handle`, `Abort`, `Complete`, `CompleteFails` the
execution; `Crash` empties the process.  `Timely` is the assumption that requests
end within their TTL; without it the first finding below appears.

**ChangeJournal.**  The handler of such a request calls `WriteMutation` on a
transaction or on a bare connection: `MarshalFails`, `InsertAuditEntry`,
`InsertChangeJournal`, `InsertFails` (applied or not) and, in a transaction, `Commit`.
Its answer is stored by `Completed` and replayed by `Idempotency`.  `audit` and
`journal` count the rows written under the present row of the key and start over
when the row is deleted; `unknown` remembers a failure that was applied.

**RateLimit.**  Requests of one identity: the policy of each, the Redis script and
its lost answers, the in-memory lookup with `ReconfigureAt`, the later `AllowAt`
outside the lock, the cleanup and the key's expiry.  Tokens are exact fractions
(`Cost` units per request).  `window` and `granted` count what a store granted in an
arbitrary window.

**LRU, Introspection.**  `LRU` is the list with its front first, one element per key of
the map; `Subsequence` is what a walk that removes elements leaves.  `Start` looks into the cache, `Serve` is the service's
answer, `Accept`, `Refuse` and `FallBack` are the three ways `IntrospectProto`
ends.  Tokens are revoked at any time.  `recent` orders keys by last use,
independently of the cache.

**ServiceTokens.**  The other half of the same client: `ResolveServiceToken` looks for a
token by its normalised scopes under the lock, `IssueServiceToken` and `IssueFails`
are the request outside of it, `StoreToken` puts the token over whatever is cached by
then.  Scopes are names with or without blanks around them; the list is sent as it was
passed, and the service grants any lifetime, whatever ttl was asked for.  `given` is what
the last call returned and for which list it had been issued.

**FeatureFlags.**  `Check` and `Claim` are the two looks of `refreshIfNeeded`, the second
under the lock; `Stat`, `Compare`, `Read`, `Store` and `ReloadFails` are `reload`, which
holds no lock over the file; `Write` and `WriteEnds` replace the file at once or in
place, possibly within one tick of its modification time.  `EnabledFor` is the rollout
rule.

**Health.**  `Direct` is `Check`; `Miss`, `Lock`, `Snapshot`, `Result` and `Finish`
are `CachedCheck` with its second look under the lock, the checks run in parallel
and the report stored for a TTL; `Add` may come at any time and dependencies flip.

**Startup.**  `Start`/`StartFails`, `ServeFails`, `CloseElsewhere`, `Stop` feed the
`select` of `RunHTTPServer` (`ListenFailed`, `ServerClosed`, `Done`); `Drained` is
`Server.Shutdown`, `Expire` the end of the context of a shutdown, `RunHook` one step of
`Lifecycle.Shutdown`, called by the server or by an owner with a context of its own.
`InitTracing` is `OpenExporter` and then `EnableTracingFromEnv`, which replaces the global
provider and registers the hook that undoes it, or `InitFails`, which closes the exporter
again.  The hook of a tracer does not reach the exporter once its context is done
(`flushed`).  `cut` are handlers whose connection somebody else's `Server.Close` has closed: a
drain does not wait for them.  `TryGo` and `TaskEnds` are the bounded runner.

**Database.**  One call of `Open`, `OpenAndInit` or `OpenAndMigrate`: attempts,
pings, migrations and init, with the state of the single handle.

**AgentHook.**  One run: a bad command line, every early denial, the governance
evaluation, the approval request, the polling loop with its deadline, and the exit
code, which depends on whether the denial can be written (`stdout`).  The approvals
service decides in stages while the hook polls.  Reading the standard input is taken to
end, and to take no time.

**Envelope, Propagation, Consumer.**  `Envelope` gives the three wire formats and the
detection of the format from headers and first bytes.  `Propagation` gives what the
publisher writes of its trace into envelope and headers, and what the receiver
reads, with and without a global propagator.  `Consumer` is a queue group on a durable
consumer: `Subscribe`, `Deliver`, `Handle`, `Finish` (ack, nak, or either lost),
`Redeliver`, `Drain`, `Delete` (the vendored client deletes a consumer it created
when its subscription has drained), `closeConnection` and a crash (`Exit`).

## The runs

| Run | Properties | What it shows |
|---|---|---|
| `breaker` | `FailureRunMatchesState`, `ProbeBudget`, `OpenWindow`, `WedgedUntilReset`, `DegradedEnds` | Late, failing and panicking calls leave counters and windows right. A half-open period whose slots were all lost to panics ends only by `Reset` or an older call; otherwise the clients that share the breaker get real results for good after recovery, and none is left with zero values. |
| `publisher` | `DuplicatesAreAmbiguous`, `CountAccounting`, `OutboxSpec`, `Delivery` | The publisher implements `Outbox`: what `Publish` answered stays true across crashes. Duplicates come only from unknowable outcomes; the file counter does not drift; once failures stop, every dead letter is replayed and removed. |
| `idempotency_timely` | `ReplayMatchesRequest`, `OneChangePerKey`, `StoredAnswerIsTrue`, `KeyOutlivesTTL`, `PendingIsResolved` | Timely requests write their change at most once, in a transaction with its audit entry or not at all; the answer replayed tells what was written; no key is stuck or deleted early. |
| `idempotency_slow` | `ReplayMatchesRequest`, violated | Finding 1. |
| `ratelimit` | `RateBound`, `OneLiveBucket` | No window grants more than a burst and the rate, whatever the toggling, staleness, fallback and eviction. |
| `introspection` | `MostRecentKept`, `TokenServes`, `BoundedStaleness` | A revoked token is accepted at most TTL and two call times longer; the cache evicts the least recently used; a service token was issued for the scopes asked for and has not run out in the cache, whoever stored it over which other. |
| `featureflags` | `NothingMissed`, `RolloutWidens`, `Convergence` | No race of reloads with a writer leaves a modification time that hides the file; a widening rollout loses nobody; the store arrives at the last version. |
| `health` | `HealthyIsRecent`, `MissingWereOvertaken`, `RunsAreSpaced`, `ProbesReturn` | A cached report vouches for what it covers; runs are a TTL apart; every probe returns. |
| `startup` | `TokensAreTasks`, `HooksRunOnce`, `TracingIsUndone`, `HooksFollowDrain`, `DrainRunsHooks`, `StopEndsServer` | Hooks run once, failing ones included, those of `RunHTTPServer` after its drain; tracing is undone in the order it was set up, and an exporter stays open only where it is reported or an owner's context ran out; a stop ends the server. |
| `database` | `HandleIsUsable`, violated | Finding 2. |
| `agenthook` | `FailsClosed`, `WaitIsBounded`, `DecisionInTimeCounts`, `HookExits` | The hook exits with 0 only if the tool was allowed or approved, and with 1, which does not block, only for a bad command line or a denial it cannot write; the wait is bounded; a decision in time is seen. |
| `consumer` | `PassedIsHandledOrPending`, `FormatsAgree`, `TraceArrives`, `GroupDelivery` | At-least-once handling while the durable consumer exists; every format is recognised; the span context arrives whatever the propagators. |

### Findings

1. `Complete` (`idempotency/idempotency.go:288`) updates the row by scope and key
   only.  A handler that outlives its TTL can store its response in the row of a
   later request with another body, which is then replayed for that body.
2. `migrate.Run` closes its runner (`migrate/migrate.go:217`), and the vendored
   driver closes the caller's `*sql.DB` with it: `OpenAndMigrate` hands a closed
   handle to `init` and returns it.  The test of this path replaces the
   migrations by a stub.

### Other behaviour worth knowing

These follow from the models; the properties above are stated so as to allow
them.

* `HalfOpenMax`, documented as the "max concurrent probes" (`breaker.go:42`), bounds
  the probes of a whole half-open period; a probe admitted in one period may
  decide a later one (`breaker.go:183`).
* The gauge of dead letters may show the older of two values (`reliable.go:266`); no
  property is about it.
* Eviction refills a depleted bucket (`ratelimit.go:250`): `RateBound` needs a
  `MaxAge` of at least the time a full refill and a delayed request take
  (`FullBeforeDropped` in `RateLimitProofs`), which the configuration does not
  enforce.  With rate 1, burst 3, two units per request and a `MaxAge` of 2 it fails.
* An active answer in flight is cached after another caller was told that the
  token is inactive (`identityclient/client.go:289`).
* A check added during a run is missing from the cached report for a TTL
  (`health.go:136`).
* `RunHTTPServer` returns without running hooks when somebody else closed the server
  (`http.go:114`); after a listen failure hooks run without `Server.Shutdown`; a
  listen error is dropped when the stop signal wins the `select`.
* The member that created a durable consumer deletes it for its queue group when
  its drain completes (`consumer.go:156`).
* An approval that expired with "approved" as its latest decision lets the tool run
  (`agenthook/run.go:302`); nothing in the repository says otherwise.
* Only exit code 2 blocks a tool.  A bad command line (`agenthook/run.go:111`) and a denial
  that cannot be written to the standard output (`agenthook/run.go:365`) exit with 1.
* JSON payloads of unregistered types cannot be decoded (`natsbus.go:543`).
* `DefaultScope`, documented as derived "from the authenticated actor ID"
  (`idempotency.go:156`), uses the organization: actors of one organization share keys,
  as the requests of the model do.
* `WriteMutation` writes "in a single transaction" (`changejournal.go:147`) only if the
  `DBTX` it is given is one (`changejournal.go:83`); on a bare connection a failure of
  the second insert leaves the audit entry alone.
* The hook of a tracer that `Shutdown` gets to when its context is done returns an error
  and leaves the exporter open (`tracing.go:148`); the previous provider is put back.
* `Server.Shutdown` does not wait for handlers whose connections a `Server.Close` has closed,
  so hooks may run under them; an owner that calls `Lifecycle.Shutdown` itself does not wait
  for handlers at all.
* Two callers of `Shutdown` that share the hooks may undo tracing out of order and
  leave a provider that was shut down as the global one (`lifecycle.go:52`).
* A flag file replaced within the resolution of its modification time is not read
  again (`file_store.go:177`).  A percentage of zero means everybody
  (`file_store.go:232`).
* A cached service token is found by its scopes, not by its lifetime
  (`identityclient/client.go:370`): a caller may get one with less time than it asked for.
  A token whose lifetime is below ten seconds is issued anew on every call, and one that
  comes back late replaces a better one even if it has expired by then.
* Baggage, unlike the span context, is lost unless both ends have a propagator
  (`propagation.go:188`).

### Bounds

| Run | Bounds, and why they reach the interesting cases |
|---|---|
| `breaker` | 3 callers, one in each failure mode, threshold 2, 2 slots, timeout 2: two probes of one period and a call of an earlier one at once, a partial run of failures, an open window in mid-course. |
| `publisher` | 2 messages and the replayer share a breaker with threshold 1; 2 attempts, batches of 2 and one crash: a message stored by an attempt that failed, replayed across a restart. |
| `idempotency_*` | 3 requests, two alike and one different, TTL 2: an execution, a competitor and a cleaner, each with its own clock value. Clients repeat requests, so histories are unbounded; handlers write through a transaction or a connection. |
| `ratelimit` | 2 requests, 2 policies, clock up to 4, 2 buckets: a toggle, an eviction and a refill in one behaviour, with a request between lookup and `AllowAt` at every step; that it never holds an evicted bucket is `OneLiveBucket`. |
| `introspection` | 2 callers, 3 tokens for 2 entries, TTL 1, timeout 1: eviction, expiry and revocation during a call. For service tokens, two spellings of two sets of scopes and lifetimes of zero, below the margin and above it: a token that expires on its way, and one that is replaced by a worse one. |
| `featureflags` | 2 readers, 4 versions along a ramp, poll interval 2, calls of up to 2: a reload that time passes in, one that is overtaken by a newer one, two versions with one modification time. |
| `health` | 2 probes, 2 checks, TTL 2, timeout 1: two probes that miss together, a check added during a run. |
| `startup` | 3 hooks, two of them tracers, 1 client, 2 tasks for 1 token: a hook registered during shutdown, a rejected task, tracing that fails after the exporter was opened, a context that runs out between two hooks. |
| `agenthook` | timeouts 1, 2 and 5, poll interval 2, two decisions: several polls, a last poll astride the deadline. |
| `consumer` | 2 members, 2 messages, 3 starts: a member that crashes with a message, and one that comes back. `FormatsAgree` and `TraceArrives` cover all envelopes, formats and propagators. |

Deadlock is checked except where the system really ends (a server that has
stopped, a hook that has exited, all messages published, the clock's bound in
`ratelimit`).  Symmetry is used only in runs without liveness properties.

### Fairness

Goroutines that can take a step eventually do, and time passes (weak fairness);
calls return because the code gives them a timeout.  Nobody is obliged to call
`Reset` or `State`, or to stop a server.  Beyond that:

* `DegradedEnds`, `Delivery`, `PendingIsResolved` and `Convergence` suppose that the dependency recovers
  (`healthy`), and that calls, lookups, the replay ticker and clients keep coming, which is
  what the respective loops do.
* `Health` has strong fairness for the lock: Go's mutex does not starve a waiter.
* `Consumer`, for `GroupDelivery`, has strong fairness for redelivery to some member and for a handler that
  succeeds once in infinitely many tries: the server redelivers what is not
  acknowledged, and a handler that always fails has no delivery to promise.

## Proofs

`tlapm` checks these theorems for every value of the constants that satisfies the
named `ASSUME` of the component's module, which TLC evaluates on the instance of
the run.  Conditions that only some results need are named in the
`ASSUME` of the theorem; the instances of the passing runs satisfy them.  Every
inductive invariant was model-checked before it was proved.

| Theorem | Property | Condition |
|---|---|---|
| `TypeCorrect`, `FailureRuns`, `ProbeAccounting` | types, `FailureRunMatchesState`, `ProbeBudget` | |
| `OpenWindowKept`, `WedgedWithoutReset` | `OpenWindow`, `WedgedUntilReset` | |
| `CountNeverDrifts`, `DuplicatesExplained` | `CountAccounting`, `DuplicatesAreAmbiguous` | |
| `PublisherImplementsOutbox` | `OutboxSpec` | |
| `RowOwnership`, `SingleExecution`, `FaithfulReplay` | ownership of the row, `ReplayMatchesRequest` | `Timely` |
| `KeysOutliveTTL` | `KeyOutlivesTTL` | |
| `HandlersRefineMiddleware` | `ChangeJournal` implements `Idempotency` | |
| `ChangeWrittenOnce`, `ReplayTellsTheTruth` | `OneChangePerKey`, `StoredAnswerIsTrue` | `Timely` |
| `BucketIsShared` | `OneLiveBucket` | `Outlives` |
| `RateIsBounded` | `RateBound` | `FullBeforeDropped` |
| `ReportsAreRecent`, `ReportsAreComplete`, `DependenciesAreSpared` | `HealthyIsRecent`, `MissingWereOvertaken`, `RunsAreSpaced` | |
| `CapacityIsKept`, `HooksWaitForHandlers` | `TokensAreTasks`, `HooksFollowDrain` | |
| `EveryHookOnce`, `TracersAreUndone` | `HooksRunOnce`, `TracingIsUndone` | |
| `ToolRunsOnlyIfAllowed`, `AgentWaitIsBounded`, `NoDecisionOverlooked` | `FailsClosed`, `WaitIsBounded`, `DecisionInTimeCounts` | |
| `NoVersionIsMissed` | `NothingMissed` | |
| `RolloutNeverShrinks` | `RolloutWidens` | `Widening` |
| `ClientMostRecentKept`, `ClientTokenServes`, `ClientBoundedStaleness` | `MostRecentKept`, `TokenServes`, `BoundedStaleness` | |
| `ConsumerAtLeastOnce` | `PassedIsHandledOrPending` | |
| `ConsumerFormatsAgree`, `ConsumerTraceArrives` | `FormatsAgree`, `TraceArrives` | |

With them every invariant, action property and refinement that a passing run checks
is proved as well.

`BreakerProofs` (any finite set of callers; positive threshold, timeout and slots,
which `withDefaults` ensures).  The inductive invariant `IInv` joins the type invariant,
`FailureRunMatchesState` (without which the failure counter could leave its type) and
`ProbeBudget`, and adds that outside a half-open period there are neither current
probes nor leaked slots, since otherwise a new period would not start with an exact
count.  Two lemmas about the critical sections alone (`SectionTypes`, `SectionRuns`)
carry the data; one lemma per kind of step carries the counting, by cardinalities of
finite sets.  The two action properties follow from `IInv`: if every slot of a period
has leaked, `ProbeBudget` leaves no running probe of it that could end it.

`BusProofs`, first part (the publisher: any finite set of messages; any attempts, batch size and
number of crashes).  `IInv` says who can be where (`Places`), that files belong to
messages whose `Publish` has saved them (`FilesAreSaved`), that the replayer's batch is
on disk but for the record just removed (`BatchIsListed`), and what a thread knows
(`WhatIsKnown`): a message it published is in the stream, one it saved is there or has
its file.  `UnsentIfPending` is what makes `DuplicatesAreAmbiguous` inductive: a message
that may be sent again has no copy in the stream unless its outcome was ambiguous.
The refinement takes the steps of the publisher one by one to a step of `Outbox` or to
a stutter; `WhatIsKnown` is what lets a record be removed.

`BusProofs`, second part (the consumer group: any members, number of messages and starts,
and every format, propagator and set of envelopes).  `ConsumerInv` is
`PassedIsHandledOrPending`, with the types of the positions (`Positions`) and the fact that
only what can be decoded is handled (`Publication`).  The rest is about operators.
`TrimmedJSON` and `TrimmedProto` say what the format detection sees of the first bytes, also
where the length that follows the tag looks like white space or a brace; `ReadSent` that every
format is read back as it was written, up to what it cannot hold (`Sent`); `PublishedFacts`
and `TraceIsExtracted` what the publisher writes of its trace and what the receiver finds,
for each pair of propagators.  `FormatsAgree` and `TraceArrives` follow for all envelopes.

`IdempotencyProofs` (any set of requests and hash, any positive TTL and interval).
That a running request owns the row is not inductive: a stale cleanup could delete
it.  `IInv` therefore adds `RowOutlivesOwner` (the row of a running request has exactly
the time left that the request has), `RowIsConsistent` (a stored response has the
hash stored beside it) and `FreshOutside`.  All this needs requests that end within their
TTL (`Timely`).  `KeysOutliveTTL` does not: it rests on an invariant of its own (`Clocks`), that no
clock value is from the future, so that a stale one only makes cleanup more reluctant.
`ChangeJournal` needs no new argument for the middleware: `HandlersRefineMiddleware` takes
each step of the handler to a step of the middleware or to a stutter, so that `IInv` holds
there too, and `ChangeInv` adds what was written at each point of a handler that owns the
row.

`RateLimitProofs` (any callers, buckets and delays, any nonempty finite set of policies).
`SharedInv`: the bucket a request holds is the live one, because a bucket that somebody
is about to draw on was seen too recently to be dropped.  `RateInv` is an account: what
the watched store granted since the window began, and what its bucket holds, are
covered by one burst and the rate up to the bucket's own time, which stale clock
values never turn back.  A store without a bucket has room for a burst, because the
bucket that was dropped would have been full by then.

`LifecycleProofs`, first part (the health checker: any probes and checks, positive TTL).  `IInv` adds to the properties that the
holder of `cacheMu` is the only cached run and holds it without a report (`OneRun`), what
is known of a run under way (`RunSoFar`), and that between a report and the next run
more than the TTL has passed or a check was added (`Spaced`).

`LifecycleProofs`, second part (any hooks, tracers, clients and tasks, positive capacity).  Three
invariants that do not need each other.  `RunnerInv` counts tokens.  `DrainInv`: no
handler starts once the server is closed, so whoever is in flight when `RunHTTPServer` runs
hooks was there when the drain gave up, or is cut off.  `HookInv`: every caller of `Shutdown`
takes the hooks once, and the provider that a hook brings back was registered before it
(`Ordered`), so one caller, who runs them from the end, shuts it down later (`UndoIsSafe`);
an exporter is opened before its hook is known and closed by nobody else, so the open
ones are those whose hook is still to come, waits, or came too late (`ExportersAreKnown`).

`IdentityProofs` (any callers and tokens, any positive capacity, TTL and margin, any timeout
and lists of scopes).  The invariant has a part for each cache.  `Listed` says of the list of
introspections and the history of uses beside it that there is one element per key and
that the keys of the list are the first of the history (`Leads`); one element per key is
what makes pruning remove the same keys from both.  Its lemmas are about `Subsequence`: ranks
number the positions that are kept, so what is kept of a beginning is a beginning.  `Recent`
bounds how long ago a token can have been revoked that an entry still vouches for, and
`CallsOK` the same for a lookup and for an answer in the hands of a caller; a step that answers
"ok" holds one of the two.  `TokenInv` says that a cached service token was sent for a list
that names the scopes of its key, whatever the lifetime it was granted, and that an issued
one has lost no more than the time of its call.

`AgentHookProofs` (any positive timeouts).  `IInv` bounds the clock at each point of `Execute`
(`Clock`), and how long ago the approval can have been decided without the hook
knowing (`Unnoticed`); a lookup that found the approval finished is still right when it
returns (`ReplyIsFinal`).

`FeatureFlagsProofs` (any goroutines, versions, poll interval and durations).  `FileInv`:
what a reload is about to store is the file, or carries a modification time older than
the file's, whatever other reloads and writers do.  `RolloutInv`: the last check is at
least as recent as every reload under way (`CheckIsRecent`), so whoever finds another
one due knows that the first has taken a poll interval; otherwise there is one reload,
and what it has read is not older than what is held (`OneReload`).  `Widening` speaks of
neighbouring versions and of whom they reach; `RaisingWidens` shows that turning a flag
on or raising its percentage is enough for it.

Only model-checked:

* all liveness properties (`DegradedEnds`, `Delivery`, `PendingIsResolved`, `Convergence`,
  `ProbesReturn`, `DrainRunsHooks`, `StopEndsServer`, `HookExits`, `GroupDelivery`): fairness and `ENABLED` are
  out of the prover's reach;
* the findings: their runs show a violation, which needs no theorem.

## Not modelled

* `authmw` decides each request from the answer of a verifier or validator that the
  service supplies.  It keeps nothing between requests, and nothing in the library
  joins it to the identity client, so there is no interleaving to explore.
* `pgxpoolutil` and `redisutil` run the loop of `startup.Do`, which `Database` has, around
  a pool of their own, its ping and its close on failure.
* The conversions of the change journal between its records and protobuf, and
  the defaults of its options, are left out: the model has no payload.
* `Connect` and the creation of the stream are calls to the NATS library at start-up.
* The content type of an envelope is left out of `Envelope`.  The formats do not agree on it
  (`natsbus.go:465`), and `FormatsAgree` says nothing of it; a JSON payload in the header format
  (`natsbus.go:637`) comes only from producers other than this publisher.
* Metrics, logging, tracing attributes, error texts, configuration parsing, HTTP
  helpers and TLS set-up have no state that a property is about.
* Backoff durations are left out: no guard depends on them.  Floating-point rounding
  of tokens is left out.
* The hash that places a subject in a rollout bucket is left out: subjects are their
  buckets.
* The durability of a renamed file across a power failure is taken for granted;
  a crash of the process is modelled.
* `RunHTTPServer`'s return without hooks after a foreign close (`http.go:114`) and the
  deletion of a durable consumer under its group (`consumer.go:120`) are in the models;
  the properties are stated so as to allow them.
