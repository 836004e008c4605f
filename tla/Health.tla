-------------------------------- MODULE Health --------------------------------
(***************************************************************************)
(* health.Checker (health/health.go): readiness probes run the registered  *)
(* checks, directly (Handler) or through the cached report (CachedHandler), *)
(* while checks are still being added and dependencies come and go.         *)
(*                                                                         *)
(* Time is relative: cached.left is the time until cacheUntil (-1 if there  *)
(* is no cached report or it has expired), age[p] the time since p took its *)
(* snapshot, and sinceRun the time since the last cached run began.         *)
(***************************************************************************)
EXTENDS Integers, FiniteSets

CONSTANTS Probes, NoProbe, Checks,
          TTL,        \* how long a report is reused
          Timeout     \* bound on a run: checks honour their context

ASSUME HealthAssumption ==
    /\ NoProbe \notin Probes
    /\ TTL \in Nat \ {0} /\ Timeout \in Nat

VARIABLES
    checks,     \* the registered checks
    cached,     \* cachedReport and cacheUntil
    holder,     \* who holds cacheMu
    pc, kind, age,
    snapshot,   \* snapshot[p]: the checks p runs
    pending,    \* pending[p]: those that have not returned
    failed,     \* failed[p]: one of them returned an error
    up,         \* the dependencies that can be reached
    sinceRun,   \* time since the last cached run began
    seenUp,     \* history: what could be reached at some time since then
    added,      \* history: whether a check was added since then
    overtaken   \* history: checks added while that run was under way

run == <<snapshot, pending, failed>>
history == <<seenUp, added, overtaken>>
healthVars == <<checks, cached, holder, pc, kind, age, run, up, sinceRun, history>>

NoReport == [covers |-> {}, healthy |-> FALSE, left |-> -1]
Horizon == TTL + Timeout + 1

HealthInit ==
    /\ checks = {} /\ cached = NoReport /\ holder = NoProbe
    /\ pc = [p \in Probes |-> "idle"]
    /\ kind = [p \in Probes |-> "cached"]
    /\ age = [p \in Probes |-> 0]
    /\ snapshot = [p \in Probes |-> {}]
    /\ pending = [p \in Probes |-> {}]
    /\ failed = [p \in Probes |-> FALSE]
    /\ up = Checks
    /\ sinceRun = Horizon /\ seenUp = Checks /\ added = FALSE /\ overtaken = {}

\* The cached probe past cacheMu.
Running == {p \in Probes : pc[p] \in {"check", "run"} /\ kind[p] = "cached"}

\* cached: whether there is a report to reuse.
hasCached == cached.left >= 0
-------------------------------------------------------------------------------
\* What the history keeps of an addition.
Joined(x) ==
    /\ added' = TRUE
    /\ overtaken' = IF \E p \in Running : pc[p] = "run" THEN overtaken \cup {x} ELSE overtaken

\* Mutant: the cached report survives.
Add_KeepsReport(x) ==
    /\ x \notin checks
    /\ checks' = checks \cup {x}
    /\ Joined(x)
    /\ UNCHANGED <<cached, holder, pc, kind, age, run, up, sinceRun, seenUp>>

\* Add drops the cached report.
Add(x) ==
    /\ x \notin checks
    /\ checks' = checks \cup {x}
    /\ cached' = NoReport
    /\ Joined(x)
    /\ UNCHANGED <<holder, pc, kind, age, run, up, sinceRun, seenUp>>

\* Handler: Check without the cache.
Direct(p) ==
    /\ pc[p] = "idle"
    /\ pc' = [pc EXCEPT ![p] = "check"]
    /\ kind' = [kind EXCEPT ![p] = "direct"]
    /\ UNCHANGED <<checks, cached, holder, age, run, up, sinceRun, history>>

\* CachedCheck finds no report (with one it returns it and nothing changes).
Miss(p) ==
    /\ pc[p] = "idle" /\ ~hasCached
    /\ pc' = [pc EXCEPT ![p] = "wait"]
    /\ UNCHANGED <<checks, cached, holder, kind, age, run, up, sinceRun, history>>

\* Mutant: no second look at the cache.
Lock_NoSecondLook(p) ==
    /\ pc[p] = "wait" /\ holder = NoProbe
    /\ holder' = p
    /\ pc' = [pc EXCEPT ![p] = "check"]
    /\ UNCHANGED <<checks, cached, kind, age, run, up, sinceRun, history>>

\* Mutant: the return after the second look keeps cacheMu.
Lock_Kept(p) ==
    /\ pc[p] = "wait" /\ holder = NoProbe
    /\ holder' = p
    /\ pc' = [pc EXCEPT ![p] = IF hasCached THEN "idle" ELSE "check"]
    /\ UNCHANGED <<checks, cached, kind, age, run, up, sinceRun, history>>

\* cacheMu is free: look again, and return the report somebody else stored.
Lock(p) ==
    /\ pc[p] = "wait" /\ holder = NoProbe
    /\ holder' = IF hasCached THEN NoProbe ELSE p
    /\ pc' = [pc EXCEPT ![p] = IF hasCached THEN "idle" ELSE "check"]
    /\ UNCHANGED <<checks, cached, kind, age, run, up, sinceRun, history>>

\* Check copies the checks and starts one goroutine for each.
Snapshot(p) ==
    /\ pc[p] = "check"
    /\ snapshot' = [snapshot EXCEPT ![p] = checks]
    /\ pending' = [pending EXCEPT ![p] = checks]
    /\ failed' = [failed EXCEPT ![p] = FALSE]
    /\ age' = [age EXCEPT ![p] = 0]
    /\ pc' = [pc EXCEPT ![p] = "run"]
    /\ IF kind[p] = "cached"
       THEN sinceRun' = 0 /\ seenUp' = up /\ added' = FALSE /\ overtaken' = {}
       ELSE UNCHANGED <<sinceRun, history>>
    /\ UNCHANGED <<checks, cached, holder, kind, up>>

\* A check returns: an error also when it timed out.
Result(p, x, ok) ==
    /\ pc[p] = "run" /\ x \in pending[p]
    /\ ok => x \in up
    /\ pending' = [pending EXCEPT ![p] = @ \ {x}]
    /\ failed' = [failed EXCEPT ![p] = @ \/ ~ok]
    /\ UNCHANGED <<checks, cached, holder, pc, kind, age, snapshot, up, sinceRun, history>>

\* Mutant: errors are recorded and not counted.
Report_AnyHealthy(p) ==
    [covers |-> snapshot[p], healthy |-> TRUE, left |-> TTL]

Report(p) == [covers |-> snapshot[p], healthy |-> ~failed[p], left |-> TTL]

\* wg.Wait returns; CachedCheck stores the report and releases cacheMu.
Finish(p) ==
    /\ pc[p] = "run" /\ pending[p] = {}
    /\ IF kind[p] = "cached"
       THEN cached' = Report(p) /\ holder' = NoProbe
       ELSE UNCHANGED <<cached, holder>>
    /\ pc' = [pc EXCEPT ![p] = "idle"]
    /\ age' = [age EXCEPT ![p] = 0]
    /\ snapshot' = [snapshot EXCEPT ![p] = {}]
    /\ failed' = [failed EXCEPT ![p] = FALSE]
    /\ kind' = [kind EXCEPT ![p] = "cached"]
    /\ UNCHANGED <<checks, pending, up, sinceRun, history>>

Flip(x) ==
    /\ up' = IF x \in up THEN up \ {x} ELSE up \cup {x}
    /\ seenUp' = seenUp \cup up'
    /\ UNCHANGED <<checks, cached, holder, pc, kind, age, run, sinceRun, added, overtaken>>

Tick ==
    /\ \A p \in Probes : pc[p] = "run" => age[p] < Timeout
    /\ age' = [p \in Probes |-> IF pc[p] = "run" THEN age[p] + 1 ELSE 0]
    /\ cached' = IF hasCached THEN [cached EXCEPT !.left = @ - 1] ELSE cached
    /\ sinceRun' = IF sinceRun < Horizon THEN sinceRun + 1 ELSE sinceRun
    /\ UNCHANGED <<checks, holder, pc, kind, run, up, history>>

Step(p) ==
    \/ Snapshot(p)
    \/ \E x \in Checks, ok \in BOOLEAN : Result(p, x, ok)
    \/ Finish(p)

HealthNext ==
    \/ \E x \in Checks : Add(x) \/ Flip(x)
    \/ \E p \in Probes : Direct(p) \/ Miss(p) \/ Lock(p) \/ Step(p)
    \/ Tick

HealthSpec == HealthInit /\ [][HealthNext]_healthVars

\* Goroutines run, checks return (they honour the context's timeout), and
\* sync.Mutex does not starve a waiter.
HealthFairSpec ==
    /\ HealthSpec
    /\ \A p \in Probes : WF_healthVars(Step(p)) /\ SF_healthVars(Lock(p))
-------------------------------------------------------------------------------
\* A cached healthy report vouches for its checks: each of them was reachable
\* at some time since the run behind the report began, and that was no longer
\* ago than one run and the part of TTL that has passed.
HealthyIsRecent ==
    hasCached =>
        /\ sinceRun <= Timeout + TTL - cached.left
        /\ cached.healthy => cached.covers \subseteq seenUp

\* "Report is the aggregate result of all registered checks": a check is missing
\* from a cached report only if it was added while the run behind the report was
\* under way; a report stored before is dropped, a run begun after includes it.
MissingWereOvertaken == hasCached => checks \ cached.covers \subseteq overtaken

\* "DefaultCacheTTL avoids hammering dependencies on every /readyz probe":
\* unless a check was added in between, a cached run begins more than TTL after
\* the one before it, however many probes found the report expired together.
RunsAreSpaced ==
    [][\A p \in Probes : Snapshot(p) /\ kind[p] = "cached" => sinceRun > TTL \/ added]_healthVars

\* A probe that has to wait is answered, although others run checks meanwhile.
ProbesReturn == \A p \in Probes : pc[p] # "idle" ~> pc[p] = "idle"
===============================================================================
