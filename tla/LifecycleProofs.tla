---------------------------- MODULE LifecycleProofs ----------------------------
(***************************************************************************)
(* Proofs about the life of a service.                                     *)
(*                                                                         *)
(* Of RunHTTPServer, Lifecycle, InitTracing and async.Runner, for any hooks, *)
(* tracers, clients, tasks and capacity: three inductive invariants that do *)
(* not need each other, of the runner, of the server that drains, and of the *)
(* hooks with the tracers they shut down.                                  *)
(*                                                                         *)
(* Of the health checker's cached report, for any number of probes and     *)
(* checks and any TTL: what a report vouches for, which checks it may lack, *)
(* and how often runs begin.                                               *)
(***************************************************************************)
EXTENDS Startup, Health, FiniteSetTheorems, TLAPS
--------------------------------------------------------------------------------
(* The health checker.                                                     *)

TypeOK ==
    /\ checks \subseteq Checks
    /\ cached \in [covers : SUBSET Checks, healthy : BOOLEAN, left : -1..TTL]
    /\ holder \in Probes \union {NoProbe}
    /\ pc \in [Probes -> {"idle", "wait", "check", "run"}]
    /\ kind \in [Probes -> {"cached", "direct"}]
    /\ age \in [Probes -> 0..Timeout]
    /\ snapshot \in [Probes -> SUBSET Checks]
    /\ pending \in [Probes -> SUBSET Checks]
    /\ failed \in [Probes -> BOOLEAN]
    /\ up \subseteq Checks /\ seenUp \subseteq Checks
    /\ sinceRun \in 0..Horizon
    /\ added \in BOOLEAN

\* cacheMu admits one cached run, and while it is held there is no report:
\* the holder looked again, and only the holder stores one.
OneRun ==
    /\ \A p \in Probes : p \in Running <=> holder = p
    /\ \A p \in Probes : pc[p] \in {"idle", "wait"} => kind[p] = "cached"
    /\ holder # NoProbe => ~hasCached

\* What is known of a cached run under way.
RunSoFar ==
    \A p \in Probes : pc[p] = "run" /\ kind[p] = "cached" =>
        /\ sinceRun = age[p]
        /\ ~failed[p] => snapshot[p] \ pending[p] \subseteq seenUp
        /\ checks \ snapshot[p] \subseteq overtaken

\* A report is as old as the part of its TTL that has passed, and between a
\* report and the next run more than the TTL has passed or a check was added.
Spaced ==
    /\ hasCached => sinceRun >= TTL - cached.left
    /\ hasCached \/ (\E p \in Running : pc[p] = "run") \/ sinceRun > TTL \/ added

IInv ==
    /\ TypeOK /\ OneRun /\ RunSoFar /\ Spaced
    /\ up \subseteq seenUp
    /\ HealthyIsRecent /\ MissingWereOvertaken

USE HealthAssumption DEF HealthAssumption
-------------------------------------------------------------------------------
\* Before the first probe there is no report and nothing is missing from one.
LEMMA InitIInv == HealthInit => IInv
  <1> SUFFICES ASSUME HealthInit PROVE IInv
    OBVIOUS
  <1>1. TypeOK
    <2>1. cached \in [covers : SUBSET Checks, healthy : BOOLEAN, left : -1..TTL]
      BY DEF HealthInit, NoReport
    <2>2. failed \in [Probes -> BOOLEAN] /\ added \in BOOLEAN
      BY Zenon DEF HealthInit
    <2> QED
      BY <2>1, <2>2 DEF HealthInit, TypeOK, Horizon
  <1>2. OneRun /\ RunSoFar
    BY DEF HealthInit, OneRun, RunSoFar, Running
  <1>3. Spaced
    BY DEF HealthInit, Spaced, NoReport, Horizon
  <1>4. up \subseteq seenUp /\ HealthyIsRecent /\ MissingWereOvertaken
    BY DEF HealthInit, HealthyIsRecent, MissingWereOvertaken, hasCached, NoReport
  <1> QED
    BY <1>1, <1>2, <1>3, <1>4 DEF IInv

\* A new check drops the report, and overtakes the run under way.
LEMMA AddIInv ==
  ASSUME IInv, NEW x \in Checks, Add(x)
  PROVE  IInv'
  <1>1. TypeOK'
    BY DEF IInv, TypeOK, Add, Joined, NoReport, run
  <1>2. OneRun'
    BY DEF IInv, OneRun, Running, hasCached, Add, NoReport
  <1>3. RunSoFar'
    BY DEF IInv, Running, RunSoFar, Add, Joined, run
  <1>4. Spaced'
    BY DEF Spaced, hasCached, Add, Joined, NoReport
  <1>5. up' \subseteq seenUp'
    BY DEF IInv, Add
  <1>6. HealthyIsRecent'
    BY DEF HealthyIsRecent, hasCached, Add, NoReport
  <1>7. MissingWereOvertaken'
    BY DEF MissingWereOvertaken, hasCached, Add, NoReport
  <1> QED
    BY <1>1, <1>2, <1>3, <1>4, <1>5, <1>6, <1>7 DEF IInv

\* A dependency that comes or goes leaves the reports alone.
LEMMA FlipIInv ==
  ASSUME IInv, NEW x \in Checks, Flip(x)
  PROVE  IInv'
  <1>1. TypeOK'
    BY DEF IInv, TypeOK, Flip, run
  <1>2. OneRun'
    BY DEF IInv, OneRun, Running, hasCached, Flip
  <1>3. RunSoFar'
    BY DEF IInv, RunSoFar, Flip, run
  <1>4. Spaced'
    BY DEF IInv, Running, Spaced, hasCached, Flip
  <1>5. up' \subseteq seenUp'
    BY DEF Flip
  <1>6. HealthyIsRecent'
    BY DEF IInv, HealthyIsRecent, hasCached, Flip
  <1>7. MissingWereOvertaken'
    BY DEF IInv, MissingWereOvertaken, hasCached, Flip
  <1> QED
    BY <1>1, <1>2, <1>3, <1>4, <1>5, <1>6, <1>7 DEF IInv

\* A probe without the cache takes no part in it.
LEMMA DirectIInv ==
  ASSUME IInv, NEW p \in Probes, Direct(p)
  PROVE  IInv'
  <1>1. TypeOK'
    BY DEF IInv, TypeOK, Direct, run, history
  <1>2. OneRun'
    BY DEF IInv, TypeOK, OneRun, Running, hasCached, Direct
  <1>3. RunSoFar'
    BY DEF IInv, RunSoFar, Direct, run, history
  <1>4. Spaced'
    BY DEF IInv, Running, Spaced, hasCached, Direct, history
  <1>5. up' \subseteq seenUp'
    BY DEF IInv, Direct, history
  <1>6. HealthyIsRecent'
    BY DEF IInv, HealthyIsRecent, hasCached, Direct, history
  <1>7. MissingWereOvertaken'
    BY DEF IInv, MissingWereOvertaken, hasCached, Direct, history
  <1> QED
    BY <1>1, <1>2, <1>3, <1>4, <1>5, <1>6, <1>7 DEF IInv

\* A probe that finds no report waits for cacheMu.
LEMMA MissIInv ==
  ASSUME IInv, NEW p \in Probes, Miss(p)
  PROVE  IInv'
  <1>1. TypeOK'
    BY DEF IInv, TypeOK, Miss, run, history
  <1>2. OneRun'
    BY DEF IInv, OneRun, Running, hasCached, Miss
  <1>3. RunSoFar'
    BY DEF IInv, RunSoFar, Miss, run, history
  <1>4. Spaced'
    BY DEF IInv, Running, Spaced, hasCached, Miss, history
  <1>5. up' \subseteq seenUp'
    BY DEF IInv, Miss, history
  <1>6. HealthyIsRecent'
    BY DEF HealthyIsRecent, hasCached, Miss
  <1>7. MissingWereOvertaken'
    BY DEF MissingWereOvertaken, hasCached, Miss
  <1> QED
    BY <1>1, <1>2, <1>3, <1>4, <1>5, <1>6, <1>7 DEF IInv

\* The probe that gets cacheMu runs the checks only if there is still no report.
LEMMA LockIInv ==
  ASSUME IInv, NEW p \in Probes, Lock(p)
  PROVE  IInv'
  <1>1. TypeOK'
    BY DEF IInv, TypeOK, Lock, run, history
  <1>2. OneRun'
    BY DEF IInv, TypeOK, OneRun, Running, hasCached, Lock
  <1>3. RunSoFar'
    BY DEF IInv, OneRun, Running, RunSoFar, Lock
  <1>4. Spaced'
    BY DEF IInv, Running, Spaced, hasCached, Lock, history
  <1>5. up' \subseteq seenUp'
    BY DEF IInv, Lock, history
  <1>6. HealthyIsRecent'
    BY DEF IInv, HealthyIsRecent, hasCached, Lock, history
  <1>7. MissingWereOvertaken'
    BY DEF IInv, MissingWereOvertaken, hasCached, Lock, history
  <1> QED
    BY <1>1, <1>2, <1>3, <1>4, <1>5, <1>6, <1>7 DEF IInv

\* A run begins with the checks registered at that moment.
LEMMA SnapshotIInv ==
  ASSUME IInv, NEW p \in Probes, Snapshot(p)
  PROVE  IInv'
  <1>1. TypeOK'
    <2>1. failed' \in [Probes -> BOOLEAN]
      BY DEF IInv, TypeOK, Snapshot
    <2>2. added' \in BOOLEAN
      BY Zenon DEF IInv, TypeOK, Snapshot, history
    <2>3. sinceRun' \in 0..Horizon /\ seenUp' \subseteq Checks
      BY DEF IInv, TypeOK, Snapshot, history, Horizon
    <2> QED
      BY <2>2, <2>3 DEF IInv, TypeOK, Snapshot
  <1>2. OneRun'
    BY DEF IInv, OneRun, Running, hasCached, Snapshot
  <1>3. RunSoFar'
    BY DEF IInv, TypeOK, OneRun, Running, RunSoFar, Snapshot, history
  <1>4. Spaced'
    BY DEF IInv, TypeOK, OneRun, Running, Spaced, hasCached, Snapshot, history
  <1>5. up' \subseteq seenUp'
    BY DEF IInv, Snapshot, history
  <1>6. HealthyIsRecent'
    BY DEF IInv, OneRun, Running, HealthyIsRecent, hasCached, Snapshot, history
  <1>7. MissingWereOvertaken'
    BY DEF IInv, OneRun, Running, MissingWereOvertaken, hasCached, Snapshot,
           history
  <1> QED
    BY <1>1, <1>2, <1>3, <1>4, <1>5, <1>6, <1>7 DEF IInv

\* A check that succeeds was reachable when it did.
LEMMA ResultIInv ==
  ASSUME IInv, NEW p \in Probes, NEW x \in Checks, NEW ok \in BOOLEAN, Result(p, x, ok)
  PROVE  IInv'
  <1>1. TypeOK'
    BY DEF IInv, TypeOK, Result, history
  <1>2. OneRun'
    BY DEF IInv, OneRun, Running, hasCached, Result
  <1>3. RunSoFar'
    <2>1. /\ UNCHANGED <<pc, kind, sinceRun, age, snapshot, seenUp, checks, overtaken>>
          /\ RunSoFar /\ up \subseteq seenUp
      BY DEF IInv, Result, history
    <2>2. /\ ~failed'[p] => ~failed[p] /\ x \in up
          /\ pending'[p] = pending[p] \ {x}
      BY Zenon DEF IInv, TypeOK, Result
    <2>3. \A q \in Probes \ {p} : failed'[q] = failed[q] /\ pending'[q] = pending[q]
      BY DEF IInv, TypeOK, Result
    <2> QED
      BY <2>1, <2>2, <2>3 DEF RunSoFar
  <1>4. Spaced'
    BY DEF IInv, Running, Spaced, hasCached, Result, history
  <1>5. up' \subseteq seenUp'
    BY DEF IInv, Result, history
  <1>6. HealthyIsRecent'
    BY DEF IInv, HealthyIsRecent, hasCached, Result, history
  <1>7. MissingWereOvertaken'
    BY DEF IInv, MissingWereOvertaken, hasCached, Result, history
  <1> QED
    BY <1>1, <1>2, <1>3, <1>4, <1>5, <1>6, <1>7 DEF IInv

\* A report covers the checks of its run and says whether one of them failed.
LEMMA ReportOf ==
  ASSUME NEW p \in Probes
  PROVE  \E ok \in BOOLEAN :
            /\ ok <=> ~failed[p]
            /\ Report(p) = [covers |-> snapshot[p], healthy |-> ok, left |-> TTL]
  <1> DEFINE ok == ~failed[p]
  <1>1. ok \in BOOLEAN /\ (ok <=> ~failed[p])
    OBVIOUS
  <1>2. Report(p) = [covers |-> snapshot[p], healthy |-> ok, left |-> TTL]
    BY Zenon DEF Report
  <1> HIDE DEF ok
  <1> QED
    BY <1>1, <1>2

\* The report stored is as old as its run.
LEMMA FinishIInv ==
  ASSUME IInv, NEW p \in Probes, Finish(p)
  PROVE  IInv'
  <1>1. TypeOK'
    <2>1. failed' \in [Probes -> BOOLEAN]
      BY DEF IInv, TypeOK, Finish
    <2>2. cached' \in [covers : SUBSET Checks, healthy : BOOLEAN, left : -1..TTL]
      <3>1. snapshot[p] \in SUBSET Checks /\ TTL \in -1..TTL
        BY DEF IInv, TypeOK
      <3>2. cached' \in {cached, Report(p)}
        BY DEF Finish
      <3> QED
        BY <3>2, ReportOf DEF IInv, TypeOK
    <2> QED
      BY <2>2 DEF IInv, TypeOK, Finish, history
  <1>2. OneRun'
    BY DEF IInv, TypeOK, OneRun, Running, hasCached, Finish
  <1>3. RunSoFar'
    BY DEF IInv, TypeOK, RunSoFar, Finish, history
  <1>4. Spaced'
    BY DEF IInv, TypeOK, Running, Spaced, hasCached, Finish, Report, history
  <1>5. up' \subseteq seenUp'
    BY DEF IInv, Finish, history
  <1>6. HealthyIsRecent'
    <2>1. CASE kind[p] # "cached"
      BY <2>1 DEF IInv, HealthyIsRecent, hasCached, Finish, history
    <2>2. CASE kind[p] = "cached"
      <3>1. /\ sinceRun = age[p] /\ age[p] \in 0..Timeout
            /\ ~failed[p] => snapshot[p] \subseteq seenUp
        BY <2>2 DEF IInv, TypeOK, RunSoFar, Finish
      <3>2. /\ cached'.covers = snapshot[p] /\ cached'.left = TTL
            /\ cached'.healthy => ~failed[p]
        <4>1. cached' = Report(p)
          BY <2>2 DEF Finish
        <4>2. PICK good \in BOOLEAN :
                /\ good <=> ~failed[p]
                /\ Report(p) = [covers |-> snapshot[p], healthy |-> good, left |-> TTL]
          BY ReportOf
        <4> QED
          BY <4>1, <4>2
      <3>3. sinceRun' = sinceRun /\ seenUp' = seenUp
        BY DEF Finish, history
      <3> QED
        BY <3>1, <3>2, <3>3 DEF HealthyIsRecent
    <2> QED
      BY <2>1, <2>2
  <1>7. MissingWereOvertaken'
    BY DEF IInv, RunSoFar, MissingWereOvertaken, hasCached, Finish, Report,
           history
  <1> QED
    BY <1>1, <1>2, <1>3, <1>4, <1>5, <1>6, <1>7 DEF IInv

\* Time brings the report and the run behind it equally far.
LEMMA TickIInv ==
  ASSUME IInv, Tick
  PROVE  IInv'
  <1>1. TypeOK'
    BY DEF IInv, TypeOK, Tick, run, history, Horizon, hasCached
  <1>2. OneRun'
    BY DEF IInv, OneRun, Running, hasCached, Tick
  <1>3. RunSoFar'
    BY DEF IInv, TypeOK, RunSoFar, Tick, run, history, Horizon
  <1>4. Spaced'
    BY DEF IInv, TypeOK, Running, Spaced, hasCached, Tick, history, Horizon
  <1>5. up' \subseteq seenUp'
    BY DEF IInv, Tick, history
  <1>6. HealthyIsRecent'
    BY DEF IInv, TypeOK, HealthyIsRecent, hasCached, Tick, history
  <1>7. MissingWereOvertaken'
    BY DEF IInv, MissingWereOvertaken, hasCached, Tick, history
  <1> QED
    BY <1>1, <1>2, <1>3, <1>4, <1>5, <1>6, <1>7 DEF IInv

\* Every step of a probe, a check and the environment preserves the invariant.
LEMMA NextIInv ==
  ASSUME IInv, [HealthNext]_healthVars
  PROVE  IInv'
  <1>1. ASSUME NEW x \in Checks, Add(x) \/ Flip(x) PROVE IInv'
    BY <1>1, AddIInv, FlipIInv
  <1>2. ASSUME NEW p \in Probes, Direct(p) \/ Miss(p) \/ Lock(p) \/ Step(p) PROVE IInv'
    BY <1>2, DirectIInv, MissIInv, LockIInv, SnapshotIInv, ResultIInv,
       FinishIInv
    DEF Step
  <1>3. CASE Tick
    BY <1>3, TickIInv
  <1>4. CASE UNCHANGED healthVars
    BY <1>4
    DEF healthVars, run, history, IInv, TypeOK, OneRun, Running, RunSoFar, Spaced,
        HealthyIsRecent, MissingWereOvertaken, hasCached
  <1> QED
    BY <1>1, <1>2, <1>3, <1>4 DEF HealthNext

\* The invariant holds throughout.
LEMMA Invariant == HealthSpec => []IInv
  <1>1. IInv /\ [HealthNext]_healthVars => IInv'
    BY NextIInv
  <1> QED
    BY InitIInv, <1>1, PTL DEF HealthSpec

\* A cached report is no older than one run and the part of the TTL that has
\* passed, and a healthy one covers only checks that were reachable since.
THEOREM ReportsAreRecent == HealthSpec => []HealthyIsRecent
  <1>1. IInv => HealthyIsRecent
    BY DEF IInv
  <1> QED
    BY Invariant, <1>1, PTL

\* A check is missing from a cached report only if Add overtook the run behind
\* the report.
THEOREM ReportsAreComplete == HealthSpec => []MissingWereOvertaken
  <1>1. IInv => MissingWereOvertaken
    BY DEF IInv
  <1> QED
    BY Invariant, <1>1, PTL

\* However many probes find the report expired together, CachedCheck begins
\* runs more than TTL apart, unless a check was added in between.
THEOREM DependenciesAreSpared == HealthSpec => RunsAreSpaced
  <1>1. IInv =>
          [\A p \in Probes :
              Snapshot(p) /\ kind[p] = "cached" => sinceRun > TTL \/ added]_healthVars
    <2> SUFFICES ASSUME IInv, NEW p \in Probes, Snapshot(p), kind[p] = "cached"
                 PROVE  sinceRun > TTL \/ added
      OBVIOUS
    <2>1. pc[p] = "check" /\ p \in Running
      BY DEF Snapshot, Running
    <2>2. holder = p /\ ~hasCached
      BY <2>1 DEF IInv, OneRun
    <2>3. ~ \E q \in Running : pc[q] = "run"
      BY <2>1 DEF IInv, OneRun, Running
    <2> QED
      BY <2>2, <2>3 DEF IInv, Spaced
  <1> QED
    BY Invariant, <1>1, PTL DEF RunsAreSpaced
--------------------------------------------------------------------------------
(* The server, its hooks and the runner.                                   *)

\* The tokens are those of the tasks, of which there are finitely many.
RunnerInv == IsFiniteSet(tasks) /\ TokensAreTasks

\* No handler starts once the server is closed, so whoever is in flight when the
\* hooks run was there when the drain gave up.
DrainInv ==
    /\ main = "drain" => serving = "closed" /\ connected = {}
    /\ main = "hooks" =>
          \/ "listen" \in errs
          \/ /\ serving = "closed" /\ connected = {}
             /\ ~(inflight \subseteq cut) => expired["main"] /\ "shutdown" \in errs

Executors == {ran[i].by : i \in DOMAIN ran}

HooksTypeOK ==
    /\ hooks \in Seq(Hooks) /\ order \in Seq(Hooks)
    /\ todo \in [Callers -> Seq(Hooks)]
    /\ ran \in Seq([hook : Hooks, by : Callers, late : BOOLEAN])
    /\ expired \in [Callers -> BOOLEAN]
    /\ opening \in Tracers \union {NoTracer}
    /\ provider \in Tracers \union {NoTracer}
    /\ previous \in [Tracers -> Tracers \union {NoTracer}]

\* Each caller of Shutdown takes the hooks once and runs none before it does.
TakenOnce ==
    /\ main \in {"start", "select", "drain"} =>
          todo["main"] = <<>> /\ "main" \notin Executors
    /\ owner = "idle" => todo["owner"] = <<>> /\ "owner" \notin Executors

\* A provider is known from its registration on, and RunHTTPServer's is not there
\* before RunHTTPServer starts.
ProvidersAreRegistered ==
    /\ provider \in Registered \union {NoTracer}
    /\ \A h \in Tracers : previous[h] \in Registered \union {NoTracer}
    /\ main = "start" => Tracing \notin Registered

\* InitTracing opens an exporter before its hook is known.  An open exporter will be
\* closed, or its hook ran too late, which RunHTTPServer has noted if it was the one.
ExportersAreKnown ==
    /\ opening # NoTracer => main = "start" /\ opening \notin Registered
    /\ exporters = ((Registered \intersect Tracers) \ Executed) \union TooLate
                      \union ({opening} \ {NoTracer})
    /\ \A i \in DOMAIN ran : ran[i].hook \in Tracers /\ ran[i].late =>
          ran[i].by = "owner" \/ "hook" \in errs

\* The provider that a hook brings back was registered before it, so among hooks
\* taken together it is shut down later.
Ordered(q, before) ==
    \A i, j \in DOMAIN q :
        i <= j /\ q[i] \in Tracers => before[q[i]] # q[j]

\* As long as one caller runs the hooks, neither the provider nor one that its
\* hooks bring back has been shut down.
UndoIsSafe ==
    \A s \in Callers : Executors \subseteq {s} =>
        /\ provider \notin Executed
        /\ \A h \in Range(todo[s]) \intersect Tracers : previous[h] \notin Executed

HookInv ==
    /\ HooksTypeOK /\ TakenOnce /\ ProvidersAreRegistered
    /\ Ordered(hooks, previous) /\ \A s \in Callers : Ordered(todo[s], previous)
    /\ IsFiniteSet(Registered) /\ HooksRunOnce
    /\ ExportersAreKnown /\ UndoIsSafe

HIDE HealthAssumption DEF HealthAssumption
USE StartupAssumption DEF StartupAssumption
-------------------------------------------------------------------------------
(* The runner.                                                             *)

\* A new runner has no tasks.
LEMMA InitRunner == Init => RunnerInv
  BY FS_EmptySet DEF Init, RunnerInv, TokensAreTasks

\* Every step keeps tokens and tasks together.
LEMMA NextRunner == RunnerInv /\ [Next]_vars => RunnerInv'
  <1> SUFFICES ASSUME RunnerInv, [Next]_vars PROVE RunnerInv'
    OBVIOUS
  <1> USE DEF RunnerInv, TokensAreTasks
  <1>1. ASSUME NEW t \in Tasks, TryGo(t) PROVE RunnerInv'
    <2>1. tasks' = tasks \union {t} /\ t \notin tasks
      BY <1>1 DEF TryGo
    <2>2. IsFiniteSet(tasks') /\ Cardinality(tasks') = Cardinality(tasks) + 1
      BY <2>1, FS_AddElement
    <2>3. Cardinality(tasks) \in Nat
      BY FS_CardinalityType
    <2> QED
      BY <1>1, <2>2, <2>3 DEF TryGo
  <1>2. ASSUME NEW t \in Tasks, NEW panicked \in BOOLEAN, TaskEnds(t, panicked)
        PROVE  RunnerInv'
    <2>1. tasks' = tasks \ {t} /\ t \in tasks
      BY <1>2 DEF TaskEnds
    <2>2. IsFiniteSet(tasks') /\ Cardinality(tasks') = Cardinality(tasks) - 1
      BY <2>1, FS_RemoveElement
    <2>3. Cardinality(tasks) \in Nat
      BY FS_CardinalityType
    <2> QED
      BY <1>2, <2>2, <2>3 DEF TaskEnds, released
  <1>3. CASE UNCHANGED async
    BY <1>3 DEF async
  <1>4. CASE Main
    BY <1>3, <1>4
    DEF Main, OpenExporter, EnableTracing, InitFails, Start, StartFails, ListenFailed,
        ServerClosed, Done, Drained, Return, RunHook, work
  <1>5. CASE ServeFails \/ Stop \/ OwnerShutdown
    BY <1>3, <1>5 DEF ServeFails, Stop, OwnerShutdown, work
  <1>6. ASSUME NEW abruptly, NEW s, CloseElsewhere(abruptly) \/ Expire(s) PROVE RunnerInv'
    BY <1>3, <1>6 DEF CloseElsewhere, Expire, work
  <1> QED
    BY <1>1, <1>2, <1>3, <1>4, <1>5, <1>6
    DEF Next, Register, RunHook, Request, Respond, work, vars

\* No panic, rejection or interleaving wears the capacity of the runner down, and
\* it is never exceeded.
THEOREM CapacityIsKept == Spec => []TokensAreTasks
  <1>1. RunnerInv => TokensAreTasks
    BY DEF RunnerInv
  <1> QED
    BY <1>1, InitRunner, NextRunner, PTL DEF Spec
-------------------------------------------------------------------------------
(* The server.                                                             *)

\* Before the start nothing drains.
LEMMA InitDrain == Init => DrainInv
  BY DEF Init, DrainInv

\* Every step keeps what the drain has achieved.
LEMMA NextDrain == DrainInv /\ [Next]_vars => DrainInv'
  <1> SUFFICES ASSUME DrainInv, [Next]_vars PROVE DrainInv'
    OBVIOUS
  <1> USE DEF DrainInv
  <1>1. CASE Main
    <2>1. ASSUME NEW enabled \in BOOLEAN, Start(enabled) PROVE DrainInv'
      BY <2>1 DEF Start
    <2>2. CASE InitFails \/ StartFails \/ ServerClosed \/ Return
      BY <2>2 DEF InitFails, StartFails, ServerClosed, Return
    <2>3. CASE ListenFailed
      BY <2>3 DEF ListenFailed
    <2>4. CASE Done
      BY <2>4 DEF Done, close
    <2>5. CASE Drained
      BY <2>5 DEF Drained, drained, server
    <2>6. ASSUME NEW ok \in BOOLEAN, RunHook("main", ok) PROVE DrainInv'
      BY <2>6 DEF RunHook, server
    <2>7. ASSUME NEW h \in Tracers, OpenExporter(h) \/ EnableTracing(h) PROVE DrainInv'
      BY <2>7 DEF OpenExporter, EnableTracing, server
    <2> QED
      BY <1>1, <2>1, <2>2, <2>3, <2>4, <2>5, <2>6, <2>7 DEF Main
  <1>2. CASE ServeFails \/ Stop \/ OwnerShutdown
    BY <1>2 DEF ServeFails, Stop, OwnerShutdown, server
  <1>3. ASSUME NEW ok \in BOOLEAN, RunHook("owner", ok) PROVE DrainInv'
    BY <1>3 DEF RunHook, server
  <1>4. ASSUME NEW c \in Clients, Request(c) \/ Respond(c) PROVE DrainInv'
    BY <1>4 DEF Request, Respond
  <1>5. ASSUME NEW h, Register(h) PROVE DrainInv'
    BY <1>5 DEF Register, server
  <1>6. ASSUME NEW t, TryGo(t) \/ \E panicked \in BOOLEAN : TaskEnds(t, panicked)
        PROVE  DrainInv'
    BY <1>6 DEF TryGo, TaskEnds, server
  <1>7. ASSUME NEW abruptly \in BOOLEAN, CloseElsewhere(abruptly) PROVE DrainInv'
    BY <1>7 DEF CloseElsewhere, close
  <1>8. ASSUME NEW s \in Callers, Expire(s) PROVE DrainInv'
    <2>1. expired' = [expired EXCEPT ![s] = TRUE] /\ UNCHANGED <<main, errs, server>>
      BY <1>8 DEF Expire
    <2>2. expired["main"] => expired'["main"]
      BY <2>1
    <2> QED
      BY <2>1, <2>2 DEF server
  <1>9. CASE UNCHANGED vars
    BY <1>9 DEF vars, server
  <1> QED
    BY <1>1, <1>2, <1>3, <1>4, <1>5, <1>6, <1>7, <1>8, <1>9 DEF Next

\* After a signal no hook of RunHTTPServer's runs under a handler, unless the
\* timeout gave the handler up and RunHTTPServer says so, or somebody else's
\* Server.Close had cut its connection.
THEOREM HooksWaitForHandlers == Spec => []HooksFollowDrain
  <1>1. DrainInv => HooksFollowDrain
    BY DEF DrainInv, HooksFollowDrain
  <1> QED
    BY <1>1, InitDrain, NextDrain, PTL DEF Spec
-------------------------------------------------------------------------------
(* Facts about sequences of hooks.                                         *)

\* What Append returns.
LEMMA AppendFacts ==
  ASSUME NEW S, NEW q \in Seq(S), NEW x \in S
  PROVE  /\ Append(q, x) \in Seq(S)
         /\ Len(Append(q, x)) = Len(q) + 1
         /\ Range(Append(q, x)) = Range(q) \union {x}
         /\ DOMAIN Append(q, x) = DOMAIN q \union {Len(q) + 1}
         /\ Append(q, x)[Len(q) + 1] = x
         /\ \A i \in DOMAIN q : Append(q, x)[i] = q[i] /\ i < Len(q) + 1
  <1>1. /\ Append(q, x) \in Seq(S)
        /\ Len(Append(q, x)) = Len(q) + 1
        /\ Append(q, x)[Len(q) + 1] = x
        /\ \A i \in DOMAIN q : Append(q, x)[i] = q[i] /\ i < Len(q) + 1
    OBVIOUS
  <1>2. DOMAIN Append(q, x) = DOMAIN q \union {Len(q) + 1}
    BY <1>1
  <1>3. Range(Append(q, x)) = Range(q) \union {x}
    BY <1>1, <1>2 DEF Range
  <1> QED
    BY <1>1, <1>2, <1>3

\* The hook that runs next, and those below it.
LEMMA BelowFacts ==
  ASSUME NEW S, NEW q \in Seq(S), q # <<>>
  PROVE  /\ below(q) \in Seq(S) /\ last(q) \in S
         /\ Len(below(q)) = Len(q) - 1
         /\ Range(q) = Range(below(q)) \union {last(q)}
         /\ Len(q) \in DOMAIN q
         /\ \A i \in DOMAIN below(q) : i \in DOMAIN q /\ i <= Len(q) /\ below(q)[i] = q[i]
  <1>1. Len(q) \in Nat /\ Len(q) > 0
    OBVIOUS
  <1>2. /\ below(q) \in Seq(S)
        /\ Len(below(q)) = Len(q) - 1
        /\ \A i \in 1..(Len(q) - 1) : below(q)[i] = q[i]
    <2>1. \A n \in 0..Len(q) :
             /\ SubSeq(q, 1, n) \in Seq(S) /\ Len(SubSeq(q, 1, n)) = n
             /\ \A i \in 1..n : SubSeq(q, 1, n)[i] = q[i]
      OBVIOUS
    <2>2. Len(q) - 1 \in 0..Len(q)
      BY <1>1
    <2> QED
      BY <2>1, <2>2, Zenon DEF below
  <1>3. DOMAIN below(q) = 1..(Len(q) - 1) /\ DOMAIN q = 1..Len(q)
    BY <1>2
  <1>4. DOMAIN q = DOMAIN below(q) \union {Len(q)}
    BY <1>1, <1>3
  <1>5. Range(q) = Range(below(q)) \union {last(q)}
    BY <1>2, <1>3, <1>4 DEF Range, last
  <1> QED
    BY <1>1, <1>2, <1>3, <1>5 DEF last

\* The order survives a further registration: no tracer brings back the new hook,
\* and those registered already bring back what they did.
LEMMA OrderedAppend ==
  ASSUME NEW q \in Seq(Hooks), NEW h \in Hooks, NEW before, NEW after,
         Ordered(q, before),
         \A g \in Tracers : after[g] # h,
         \A i \in DOMAIN q : q[i] \in Tracers => after[q[i]] = before[q[i]]
  PROVE  Ordered(Append(q, h), after)
  <1> DEFINE r == Append(q, h)
  <1>1. /\ DOMAIN r = DOMAIN q \union {Len(q) + 1}
        /\ r[Len(q) + 1] = h
        /\ \A i \in DOMAIN q : r[i] = q[i] /\ i < Len(q) + 1
    BY AppendFacts
  <1> HIDE DEF r
  <1>2. DOMAIN q \subseteq Nat /\ Len(q) \in Nat
    OBVIOUS
  <1>3. SUFFICES ASSUME NEW i \in DOMAIN r, NEW j \in DOMAIN r, i <= j,
                        r[i] \in Tracers
                 PROVE  after[r[i]] # r[j]
    BY DEF Ordered, r
  <1>4. CASE j = Len(q) + 1
    BY <1>1, <1>3, <1>4
  <1>5. CASE j \in DOMAIN q
    <2>1. i \in DOMAIN q
      BY <1>1, <1>2, <1>3, <1>5
    <2>2. before[q[i]] # q[j]
      BY <1>1, <1>3, <1>5, <2>1 DEF Ordered
    <2> QED
      BY <1>1, <1>3, <1>5, <2>1, <2>2
  <1> QED
    BY <1>1, <1>3, <1>4, <1>5

\* The order holds of no hooks and of the lower part of the hooks.
LEMMA OrderedBelow ==
  ASSUME NEW q, NEW r, NEW before, Ordered(q, before),
         \A i \in DOMAIN r : i \in DOMAIN q /\ r[i] = q[i]
  PROVE  Ordered(r, before)
  <1> SUFFICES ASSUME NEW i \in DOMAIN r, NEW j \in DOMAIN r, i <= j, r[i] \in Tracers
               PROVE  before[r[i]] # r[j]
    BY DEF Ordered
  <1> QED
    BY DEF Ordered

\* No hooks are ordered.
LEMMA OrderedEmpty ==
  ASSUME NEW before
  PROVE  Ordered(<<>>, before)
  BY SMTT(20) DEF Ordered

\* A hook that runs moves to the executed ones, its caller to the executors.
LEMMA RanFacts ==
  ASSUME HooksTypeOK, NEW h \in Hooks, NEW s \in Callers,
         ran' = Append(ran, [hook |-> h, by |-> s, late |-> expired[s]])
  PROVE  /\ ran' \in Seq([hook : Hooks, by : Callers, late : BOOLEAN])
         /\ Len(ran') = Len(ran) + 1
         /\ Executed' = Executed \union {h}
         /\ Executors' = Executors \union {s}
         /\ TooLate' = IF h \in Tracers /\ expired[s] THEN TooLate \union {h} ELSE TooLate
         /\ \A i \in DOMAIN ran' :
               \/ i \in DOMAIN ran /\ ran'[i] = ran[i]
               \/ ran'[i].by = s /\ ran'[i].late = expired[s] /\ ran'[i].hook = h
  <1> DEFINE R == [hook : Hooks, by : Callers, late : BOOLEAN]
             x == [hook |-> h, by |-> s, late |-> expired[s]]
  <1>1. x \in R /\ x.hook = h /\ x.by = s /\ x.late = expired[s]
    BY DEF HooksTypeOK
  <1>2. ran \in Seq(R) /\ ran' = Append(ran, x)
    BY DEF HooksTypeOK
  <1> HIDE DEF R, x
  <1>3. /\ ran' \in Seq(R) /\ Len(ran') = Len(ran) + 1
        /\ DOMAIN ran' = DOMAIN ran \union {Len(ran) + 1}
        /\ ran'[Len(ran) + 1] = x
        /\ \A i \in DOMAIN ran : ran'[i] = ran[i]
    BY <1>1, <1>2, AppendFacts
  <1>4. TooLate' = IF h \in Tracers /\ expired[s] THEN TooLate \union {h} ELSE TooLate
    BY <1>1, <1>3 DEF TooLate
  <1>5. \A i \in DOMAIN ran' :
           \/ i \in DOMAIN ran /\ ran'[i] = ran[i]
           \/ ran'[i].by = s /\ ran'[i].late = expired[s] /\ ran'[i].hook = h
    BY <1>1, <1>3
  <1> QED
    BY <1>1, <1>3, <1>4, <1>5 DEF Executed, Executors, R

\* A sequence has no more elements than positions.
LEMMA ImageSize ==
  ASSUME NEW n \in Nat, NEW T, NEW f \in [1..n -> T], \A t \in T : \E i \in 1..n : f[i] = t
  PROVE  IsFiniteSet(T) /\ Cardinality(T) \in Nat /\ Cardinality(T) <= n
  <1>1. IsFiniteSet(1..n) /\ Cardinality(1..n) = n
    BY FS_Interval
  <1>2. f \in Surjection(1..n, T)
    BY DEF Surjection
  <1>3. IsFiniteSet(T) /\ Cardinality(T) <= n
    BY <1>1, <1>2, FS_Surjection
  <1> QED
    BY <1>3, FS_CardinalityType

\* The sizes of four sets bound that of their union.
LEMMA UnionSize ==
  ASSUME NEW A, NEW B, NEW C, NEW D,
         IsFiniteSet(A), IsFiniteSet(B), IsFiniteSet(C), IsFiniteSet(D)
  PROVE  Cardinality(A \union B \union C \union D)
            <= Cardinality(A) + Cardinality(B) + Cardinality(C) + Cardinality(D)
  <1>1. ASSUME NEW S, NEW T, IsFiniteSet(S), IsFiniteSet(T)
        PROVE  /\ IsFiniteSet(S \union T)
               /\ Cardinality(S \union T) <= Cardinality(S) + Cardinality(T)
               /\ Cardinality(S) \in Nat /\ Cardinality(T) \in Nat
               /\ Cardinality(S \union T) \in Nat
    <2>1. IsFiniteSet(S \union T) /\ IsFiniteSet(S \intersect T)
      BY <1>1, FS_Union, FS_Intersection, Zenon
    <2>2. /\ Cardinality(S) \in Nat /\ Cardinality(T) \in Nat
          /\ Cardinality(S \intersect T) \in Nat /\ Cardinality(S \union T) \in Nat
      BY <1>1, <2>1, FS_CardinalityType
    <2>3. Cardinality(S \union T)
             = Cardinality(S) + Cardinality(T) - Cardinality(S \intersect T)
      BY <1>1, FS_Union
    <2> QED
      BY <2>1, <2>2, <2>3
  <1> DEFINE AB == A \union B
             ABC == AB \union C
  <1>2. IsFiniteSet(AB) /\ Cardinality(AB) <= Cardinality(A) + Cardinality(B)
        /\ Cardinality(A) \in Nat /\ Cardinality(B) \in Nat /\ Cardinality(AB) \in Nat
    BY <1>1
  <1> HIDE DEF AB
  <1>3. IsFiniteSet(ABC) /\ Cardinality(ABC) <= Cardinality(AB) + Cardinality(C)
        /\ Cardinality(C) \in Nat /\ Cardinality(ABC) \in Nat
    BY <1>1, <1>2
  <1> HIDE DEF ABC
  <1>4. Cardinality(ABC \union D) <= Cardinality(ABC) + Cardinality(D)
        /\ Cardinality(D) \in Nat /\ Cardinality(ABC \union D) \in Nat
    BY <1>1, <1>3
  <1>5. Cardinality(ABC \union D)
           <= Cardinality(A) + Cardinality(B) + Cardinality(C) + Cardinality(D)
    BY <1>2, <1>3, <1>4
  <1> QED
    BY <1>5 DEF AB, ABC
-------------------------------------------------------------------------------
(* The hooks.                                                              *)

\* Before the start no hook is registered.
LEMMA InitHook == Init => HookInv
  <1> SUFFICES ASSUME Init PROVE HookInv
    OBVIOUS
  <1>1. /\ Executed = {} /\ Executors = {} /\ Registered = {} /\ Waiting = {}
        /\ TooLate = {}
    BY DEF Init, Executed, Executors, TooLate, Registered, Waiting, Range, Callers
  <1>2. HooksTypeOK
    BY DEF Init, HooksTypeOK
  <1>3. HooksRunOnce /\ IsFiniteSet(Registered)
    BY <1>1, FS_EmptySet DEF Init, HooksRunOnce, Callers
  <1>4. Ordered(hooks, previous) /\ \A s \in Callers : Ordered(todo[s], previous)
    BY OrderedEmpty DEF Init
  <1> QED
    BY <1>1, <1>2, <1>3, <1>4
    DEF Init, HookInv, TakenOnce, ProvidersAreRegistered, ExportersAreKnown, UndoIsSafe,
        Callers

\* OnShutdown adds a hook that is nowhere yet.
LEMMA Registers ==
  ASSUME HookInv, NEW h \in Hooks, OnShutdown(h), UNCHANGED <<todo, ran>>
  PROVE  /\ Registered' = Registered \union {h}
         /\ h \notin Registered \union Waiting \union Executed
         /\ Executed' = Executed /\ Executors' = Executors /\ TooLate' = TooLate
         /\ IsFiniteSet(Registered)' /\ HooksRunOnce'
         /\ hooks' \in Seq(Hooks) /\ order' \in Seq(Hooks)
  <1>1. /\ hooks' \in Seq(Hooks) /\ order' \in Seq(Hooks)
        /\ Len(hooks') = Len(hooks) + 1
        /\ Range(hooks') = Range(hooks) \union {h}
        /\ Registered' = Registered \union {h}
    <2>1. /\ hooks \in Seq(Hooks) /\ hooks' = Append(hooks, h)
          /\ order \in Seq(Hooks) /\ order' = Append(order, h)
      BY DEF HookInv, HooksTypeOK, OnShutdown
    <2> QED
      BY <2>1, AppendFacts DEF Registered
  <1>2. h \notin Registered \union Waiting \union Executed
    BY DEF OnShutdown, HookInv, HooksRunOnce
  <1>3. Executed' = Executed /\ Executors' = Executors /\ TooLate' = TooLate
    BY DEF Executed, Executors, TooLate
  <1>4. /\ IsFiniteSet(Registered)'
        /\ Cardinality(Registered') = Cardinality(Registered) + 1
    BY <1>1, <1>2, FS_AddElement DEF HookInv
  <1>5. Registered' = Waiting' \union Executed'
    BY <1>1, <1>3 DEF HookInv, HooksRunOnce, Waiting
  <1>6. /\ Len(hooks) \in Nat /\ Len(ran) \in Nat
        /\ Len(todo["main"]) \in Nat /\ Len(todo["owner"]) \in Nat
    BY DEF HookInv, HooksTypeOK, Callers
  <1>7. PICK a \in Nat, b \in Nat, c \in Nat, d \in Nat :
           /\ a = Len(hooks) /\ b = Len(todo["main"])
           /\ c = Len(todo["owner"]) /\ d = Len(ran)
    BY <1>6
  <1>8. Cardinality(Registered') =
           Len(hooks') + Len(todo'["main"]) + Len(todo'["owner"]) + Len(ran')
    <2>1. Cardinality(Registered) = a + b + c + d
      BY <1>7, Zenon DEF HookInv, HooksRunOnce
    <2>2. Cardinality(Registered') = (a + 1) + b + c + d
      BY <1>4, <2>1
    <2> QED
      BY <1>1, <1>7, <2>2, Zenon
  <1>9. HooksRunOnce'
    BY <1>5, <1>8 DEF HooksRunOnce
  <1> QED
    BY <1>1, <1>2, <1>3, <1>4, <1>9

\* A hook that is not a tracer's is registered.
LEMMA RegisterHook ==
  ASSUME HookInv, NEW h \in Hooks \ Tracers, Register(h)
  PROVE  HookInv'
  <1>1. OnShutdown(h) /\ UNCHANGED <<todo, ran, main, owner, expired, errs, tracing>>
    BY DEF Register, work
  <1>2. /\ Registered' = Registered \union {h}
        /\ h \notin Registered \union Waiting \union Executed
        /\ Executed' = Executed /\ Executors' = Executors /\ TooLate' = TooLate
        /\ IsFiniteSet(Registered)' /\ HooksRunOnce'
        /\ hooks' \in Seq(Hooks) /\ order' \in Seq(Hooks)
    BY <1>1, Registers
  <1>3. HooksTypeOK' /\ TakenOnce' /\ ProvidersAreRegistered'
    BY <1>1, <1>2
    DEF HookInv, HooksTypeOK, TakenOnce, ProvidersAreRegistered, tracing
  <1>4. Ordered(hooks, previous)'
    <2>1. \A g \in Tracers : previous[g] # h
      BY <1>2, Zenon DEF HookInv, ProvidersAreRegistered
    <2>2. /\ hooks \in Seq(Hooks) /\ hooks' = Append(hooks, h)
          /\ previous' = previous /\ Ordered(hooks, previous)
      BY <1>1 DEF HookInv, HooksTypeOK, OnShutdown, tracing
    <2> QED
      BY <2>1, <2>2, OrderedAppend
  <1>5. \A s \in Callers : Ordered(todo[s], previous)'
    BY <1>1 DEF HookInv, tracing
  <1>6. ExportersAreKnown'
    <2>1. opening # h
      BY SMTT(20) DEF HookInv, HooksTypeOK
    <2> QED
      BY <1>1, <1>2, <2>1, Zenon DEF HookInv, ExportersAreKnown, tracing
  <1>7. UndoIsSafe'
    BY <1>1, <1>2 DEF HookInv, UndoIsSafe, tracing
  <1> QED
    BY <1>2, <1>3, <1>4, <1>5, <1>6, <1>7 DEF HookInv

\* Tracing is enabled: the hook of the new provider remembers the present one.
LEMMA EnableHook ==
  ASSUME HookInv, NEW h \in Tracers, EnableTracingFromEnv(h),
         UNCHANGED <<todo, ran, owner, expired, errs>>, main = "start",
         main' = "select" \/ (main' = "start" /\ h # Tracing)
  PROVE  HookInv'
  <1>1. OnShutdown(h) /\ h \in Hooks
    BY DEF EnableTracingFromEnv
  <1>2. /\ Registered' = Registered \union {h}
        /\ h \notin Registered \union Waiting \union Executed
        /\ Executed' = Executed /\ Executors' = Executors /\ TooLate' = TooLate
        /\ IsFiniteSet(Registered)' /\ HooksRunOnce'
        /\ hooks' \in Seq(Hooks) /\ order' \in Seq(Hooks)
    BY <1>1, Registers
  <1>3. /\ provider' = h /\ provider # h
        /\ previous' \in [Tracers -> Tracers \union {NoTracer}]
        /\ previous'[h] = provider
        /\ \A g \in Tracers \ {h} : previous'[g] = previous[g]
        /\ \A g \in Tracers : previous'[g] # h
    BY <1>2
    DEF EnableTracingFromEnv, HookInv, HooksTypeOK, ProvidersAreRegistered
  <1>4. HooksTypeOK' /\ TakenOnce' /\ ProvidersAreRegistered'
    <2>1. opening' \in Tracers \union {NoTracer}
      BY DEF EnableTracingFromEnv
    <2> QED
      BY <1>2, <1>3, <2>1, Zenon
      DEF HookInv, HooksTypeOK, TakenOnce, ProvidersAreRegistered
  <1>5. Ordered(hooks, previous)'
    <2>1. \A i \in DOMAIN hooks : hooks[i] # h
      BY <1>2 DEF Waiting, Range
    <2>2. /\ hooks \in Seq(Hooks) /\ hooks' = Append(hooks, h)
          /\ Ordered(hooks, previous)
      BY <1>1 DEF HookInv, HooksTypeOK, OnShutdown
    <2>3. \A i \in DOMAIN hooks :
             hooks[i] \in Tracers => previous'[hooks[i]] = previous[hooks[i]]
      BY <1>3, <2>1
    <2> QED
      BY <1>1, <1>3, <2>2, <2>3, OrderedAppend
  <1>6. \A s \in Callers : Ordered(todo[s], previous)'
    <2>1. \A s \in Callers : \A i \in DOMAIN todo[s] : todo[s][i] # h
      BY <1>2 DEF Waiting, Range, Callers
    <2>2. todo' = todo /\ \A s \in Callers : Ordered(todo[s], previous)
      BY DEF HookInv, EnableTracingFromEnv
    <2>3. SUFFICES ASSUME NEW s \in Callers, NEW i \in DOMAIN todo[s],
                          NEW j \in DOMAIN todo[s], i <= j, todo[s][i] \in Tracers
                   PROVE  previous'[todo[s][i]] # todo[s][j]
      BY <2>2 DEF Ordered
    <2>4. previous[todo[s][i]] # todo[s][j]
      BY <2>2, <2>3, SMTT(20) DEF Ordered
    <2> QED
      BY <1>3, <2>1, <2>3, <2>4
  <1>7. ExportersAreKnown'
    <2>1. /\ opening = h /\ opening' = NoTracer /\ exporters' = exporters
          /\ ran' = ran /\ errs' = errs
      BY DEF EnableTracingFromEnv
    <2> QED
      BY <1>2, <2>1 DEF HookInv, ExportersAreKnown
  <1>8. UndoIsSafe'
    <2>1. \A s \in Callers : h \notin Range(todo[s])
      BY <1>2 DEF Waiting, Callers
    <2> QED
      BY <1>2, <1>3, <2>1, Zenon DEF HookInv, UndoIsSafe
  <1> QED
    BY <1>2, <1>4, <1>5, <1>6, <1>7, <1>8 DEF HookInv

\* What the history has of a hook that ran.
LEMMA RanRecords ==
  ASSUME HookInv, NEW i \in DOMAIN ran
  PROVE  ran[i] \in [hook : Hooks, by : Callers, late : BOOLEAN]
  <1>1. \A S, q : q \in Seq(S) => \A j \in DOMAIN q : q[j] \in S
    OBVIOUS
  <1> QED
    BY <1>1, Zenon DEF HookInv, HooksTypeOK

\* Shutdown takes the hooks: they change hands.
LEMMA TakeHooks ==
  ASSUME HookInv, NEW s \in Callers, take(s),
         todo[s] = <<>>, s \notin Executors, UNCHANGED <<order, ran, expired, tracing>>,
         \/ s = "main" /\ main # "start" /\ main' = "hooks" /\ owner' = owner
         \/ s = "owner" /\ owner' = "called" /\ main' = main /\ errs' = errs
  PROVE  HookInv'
  <1>1. /\ Registered' = Registered /\ Executed' = Executed /\ Executors' = Executors
        /\ TooLate' = TooLate
    BY DEF Registered, Executed, Executors, TooLate
  <1>2. /\ hooks' = <<>> /\ todo' \in [Callers -> Seq(Hooks)] /\ todo'[s] = hooks
        /\ \A r \in Callers \ {s} : todo'[r] = todo[r]
    BY DEF take, HookInv, HooksTypeOK
  <1>3. HooksTypeOK' /\ TakenOnce' /\ ProvidersAreRegistered'
    BY <1>1, <1>2, SMTT(20)
    DEF HookInv, HooksTypeOK, TakenOnce, ProvidersAreRegistered, Callers, tracing
  <1>4. Ordered(hooks, previous)' /\ \A r \in Callers : Ordered(todo[r], previous)'
    <2>1. /\ previous' = previous
          /\ Ordered(hooks, previous) /\ \A r \in Callers : Ordered(todo[r], previous)
      BY Zenon DEF HookInv, tracing
    <2> QED
      BY <1>2, <2>1, OrderedEmpty, SMTT(20)
  <1>5. HooksRunOnce'
    <2>1. Waiting' = Waiting
      BY <1>2 DEF Waiting, Range, Callers
    <2>2. Len(hooks') = 0 /\ Len(todo[s]) = 0 /\ Len(hooks) \in Nat
      BY <1>2 DEF HookInv, HooksTypeOK
    <2>3. Len(todo["main"]) \in Nat /\ Len(todo["owner"]) \in Nat
      BY DEF HookInv, HooksTypeOK, Callers
    <2>4. Len(hooks') + Len(todo'["main"]) + Len(todo'["owner"])
            = Len(hooks) + Len(todo["main"]) + Len(todo["owner"])
      <3>1. PICK a \in Nat, b \in Nat, c \in Nat :
               a = Len(hooks) /\ b = Len(todo["main"]) /\ c = Len(todo["owner"])
        BY <2>2, <2>3
      <3>2. 0 + a + c = a + 0 + c /\ 0 + b + a = a + b + 0
        OBVIOUS
      <3>3. CASE s = "main"
        <4>1. Len(todo'["main"]) = a /\ Len(todo'["owner"]) = c /\ b = 0
          BY <1>2, <2>2, <3>1, <3>3 DEF Callers
        <4> QED
          BY <2>2, <3>1, <3>2, <4>1, Zenon
      <3>4. CASE s = "owner"
        <4>1. Len(todo'["main"]) = b /\ Len(todo'["owner"]) = a /\ c = 0
          BY <1>2, <2>2, <3>1, <3>4, SMTT(20) DEF Callers
        <4> QED
          BY <2>2, <3>1, <3>2, <4>1, Zenon
      <3> QED
        BY <3>3, <3>4, Zenon DEF Callers
    <2> QED
      BY <1>1, <2>1, <2>4, Zenon DEF HookInv, HooksRunOnce
  <1>6. UndoIsSafe'
    <2>1. ASSUME Executors \subseteq {s} PROVE Executed = {}
      <3>1. \A i \in DOMAIN ran : ran[i].by \in Executors
        BY DEF Executors
      <3>2. DOMAIN ran = {}
        BY <2>1, <3>1, Zenon
      <3> QED
        BY <3>2 DEF Executed
    <2> QED
      BY <1>1, <1>2, <2>1, SMTT(20) DEF HookInv, UndoIsSafe, tracing
  <1>7. ExportersAreKnown'
    <2>1. ASSUME NEW i \in DOMAIN ran, ran[i].hook \in Tracers, ran[i].late
          PROVE  ran[i].by = "owner" \/ "hook" \in errs'
      <3>1. ran[i].by \in Executors
        BY Zenon DEF Executors
      <3>2. ran[i].by = "owner" \/ "hook" \in errs
        BY <2>1, Zenon DEF HookInv, ExportersAreKnown
      <3>3. ran[i].by \in Callers
        <4>1. ran[i] \in [hook : Hooks, by : Callers, late : BOOLEAN]
          BY RanRecords
        <4> QED
          BY <4>1, Zenon
      <3> QED
        BY <3>1, <3>2, <3>3 DEF Callers
    <2> QED
      BY <1>1, <2>1, SMTT(20) DEF HookInv, ExportersAreKnown, tracing
  <1> QED
    BY <1>1, <1>3, <1>4, <1>5, <1>6, <1>7, SMTT(20) DEF HookInv, tracing

\* What a caller of Shutdown has left has not run: there are not enough hooks for
\* one to be among those that have and those that wait.
LEMMA NotYetRun ==
  ASSUME HookInv, NEW s \in Callers, todo[s] # <<>>
  PROVE  last(todo[s]) \notin Executed
  <1> SUFFICES ASSUME last(todo[s]) \in Executed
               PROVE  FALSE
    OBVIOUS
  <1> DEFINE q == below(todo[s])
             o == CHOOSE t \in Callers : t # s
  <1>1. /\ o \in Callers /\ o # s
        /\ hooks \in Seq(Hooks) /\ todo[s] \in Seq(Hooks) /\ todo[o] \in Seq(Hooks)
    BY Zenon DEF HookInv, HooksTypeOK, Callers
  <1>2. /\ q \in Seq(Hooks) /\ Len(q) = Len(todo[s]) - 1
        /\ Range(todo[s]) = Range(q) \union {last(todo[s])}
    BY <1>1, BelowFacts
  <1> HIDE DEF q, o
  <1>3. ASSUME NEW r \in Seq(Hooks)
        PROVE  /\ IsFiniteSet(Range(r)) /\ Cardinality(Range(r)) \in Nat
               /\ Len(r) \in Nat /\ Cardinality(Range(r)) <= Len(r)
    <2>1. /\ Len(r) \in Nat /\ r \in [1..Len(r) -> Range(r)]
          /\ \A t \in Range(r) : \E i \in 1..Len(r) : r[i] = t
      BY DEF Range
    <2> QED
      BY <2>1, ImageSize, Zenon
  <1>4. /\ IsFiniteSet(Executed) /\ Cardinality(Executed) \in Nat
        /\ Len(ran) \in Nat /\ Cardinality(Executed) <= Len(ran)
    <2> DEFINE f == [i \in 1..Len(ran) |-> ran[i].hook]
    <2>1. Len(ran) \in Nat /\ DOMAIN ran = 1..Len(ran)
      BY DEF HookInv, HooksTypeOK
    <2>2. f \in [1..Len(ran) -> Executed] /\ \A t \in Executed : \E i \in 1..Len(ran) : f[i] = t
      BY <2>1 DEF Executed
    <2> HIDE DEF f
    <2> QED
      BY <2>1, <2>2, ImageSize, Zenon
  <1>5. Registered = Range(hooks) \union Range(q) \union Range(todo[o]) \union Executed
    <2>1. Registered = Range(hooks) \union Range(todo[s]) \union Range(todo[o]) \union Executed
      BY <1>1 DEF HookInv, HooksRunOnce, Waiting, Callers
    <2> QED
      BY <1>2, <2>1, Zenon
  <1>6. Cardinality(Registered) = Len(hooks) + Len(todo[s]) + Len(todo[o]) + Len(ran)
    <2>1. Cardinality(Registered) =
             Len(hooks) + Len(todo["main"]) + Len(todo["owner"]) + Len(ran)
      BY Zenon DEF HookInv, HooksRunOnce
    <2>2. Len(hooks) \in Nat /\ Len(todo["main"]) \in Nat /\ Len(todo["owner"]) \in Nat
      BY <1>3 DEF HookInv, HooksTypeOK, Callers
    <2>3. (s = "main" /\ o = "owner") \/ (s = "owner" /\ o = "main")
      BY <1>1 DEF Callers
    <2>4. PICK a \in Nat, b \in Nat, c \in Nat, d \in Nat :
             /\ a = Len(hooks) /\ b = Len(todo["main"])
             /\ c = Len(todo["owner"]) /\ d = Len(ran)
      BY <1>4, <2>2, Zenon
    <2>5. a + b + c + d = a + c + b + d
      OBVIOUS
    <2> QED
      BY <2>1, <2>3, <2>4, <2>5, Zenon
  <1>7. Cardinality(Registered)
           <= Cardinality(Range(hooks)) + Cardinality(Range(q)) + Cardinality(Range(todo[o]))
                 + Cardinality(Executed)
    BY <1>1, <1>2, <1>3, <1>4, <1>5, UnionSize, Zenon
  <1>8. PICK a \in Nat, b \in Nat, c \in Nat, d \in Nat :
           /\ a = Len(hooks) /\ b = Len(q) /\ c = Len(todo[o]) /\ d = Len(ran)
    BY <1>1, <1>2, <1>3, <1>4, Zenon
  <1>9. Cardinality(Registered) <= a + b + c + d
    <2>1. PICK w \in Nat, x \in Nat, y \in Nat, z \in Nat :
             /\ w = Cardinality(Range(hooks)) /\ x = Cardinality(Range(q))
             /\ y = Cardinality(Range(todo[o])) /\ z = Cardinality(Executed)
      BY <1>1, <1>2, <1>3, <1>4, Zenon
    <2>2. w <= a /\ x <= b /\ y <= c /\ z <= d
      BY <1>1, <1>2, <1>3, <1>4, <1>8, <2>1, Zenon
    <2>3. Cardinality(Registered) <= w + x + y + z
      BY <1>7, <2>1, Zenon
    <2>4. Cardinality(Registered) \in Nat
      BY FS_CardinalityType, Zenon DEF HookInv
    <2> QED
      BY <2>2, <2>3, <2>4
  <1>10. Len(todo[s]) = b + 1
    BY <1>1, <1>2, <1>3, <1>8
  <1>11. Cardinality(Registered) = a + (b + 1) + c + d
    BY <1>6, <1>8, <1>10
  <1> QED
    BY <1>9, <1>11

\* A hook runs: the last one that its caller has left.
LEMMA RunHookKeeps ==
  ASSUME HookInv, NEW s \in Callers, NEW ok \in BOOLEAN, RunHook(s, ok)
  PROVE  HookInv'
  <1> DEFINE h == last(todo[s])
  <1>1. /\ todo[s] \in Seq(Hooks) /\ todo[s] # <<>> /\ h \in Hooks
        /\ below(todo[s]) \in Seq(Hooks)
        /\ Len(below(todo[s])) = Len(todo[s]) - 1
        /\ Range(todo[s]) = Range(below(todo[s])) \union {h}
        /\ Len(todo[s]) \in DOMAIN todo[s]
        /\ \A i \in DOMAIN below(todo[s]) :
              i \in DOMAIN todo[s] /\ i <= Len(todo[s]) /\ below(todo[s])[i] = todo[s][i]
    <2>1. todo[s] \in Seq(Hooks) /\ todo[s] # <<>>
      BY Zenon DEF HookInv, HooksTypeOK, RunHook
    <2> QED
      BY <2>1, BelowFacts, Zenon
  <1>2. /\ todo' \in [Callers -> Seq(Hooks)] /\ todo'[s] = below(todo[s])
        /\ \A r \in Callers \ {s} : todo'[r] = todo[r]
    BY <1>1, Zenon DEF HookInv, HooksTypeOK, RunHook, afterHook
  <1>3. /\ ran' \in Seq([hook : Hooks, by : Callers, late : BOOLEAN])
        /\ Len(ran') = Len(ran) + 1
        /\ Executed' = Executed \union {h}
        /\ Executors' = Executors \union {s}
        /\ TooLate' = IF h \in Tracers /\ expired[s] THEN TooLate \union {h} ELSE TooLate
        /\ \A i \in DOMAIN ran' :
              \/ i \in DOMAIN ran /\ ran'[i] = ran[i]
              \/ ran'[i].by = s /\ ran'[i].late = expired[s] /\ ran'[i].hook = h
    <2>1. HooksTypeOK /\ ran' = Append(ran, [hook |-> h, by |-> s, late |-> expired[s]])
      BY Zenon DEF HookInv, RunHook
    <2> HIDE DEF h
    <2> QED
      BY <1>1, <2>1, RanFacts, Zenon
  <1>4. /\ UNCHANGED <<hooks, order, main, owner, previous, expired, opening>>
        /\ Registered' = Registered
        /\ provider' = IF h \in Tracers THEN previous[h] ELSE provider
        /\ exporters' = IF h \in Tracers /\ ~expired[s] THEN exporters \ {h} ELSE exporters
        /\ h \in Tracers /\ expired[s] => ~ok
        /\ errs' = IF s = "main" /\ ~ok THEN errs \union {"hook"} ELSE errs
    BY Zenon DEF RunHook, restored, flushed, Registered, tracing
  <1>5. s = "main" => main \notin {"start", "select", "drain"}
    BY <1>1, Zenon DEF HookInv, TakenOnce
  <1>6. s = "owner" => owner # "idle"
    BY <1>1, Zenon DEF HookInv, TakenOnce
  <1>7. \A i \in DOMAIN todo[s] : todo[s][i] \in Tracers => previous[todo[s][i]] # h
    <2>1. Ordered(todo[s], previous) /\ h = todo[s][Len(todo[s])]
      BY DEF HookInv, last
    <2>2. \A i \in DOMAIN todo[s] : i <= Len(todo[s])
      <3>1. todo[s] \in Seq(Hooks)
        BY <1>1, Zenon
      <3> QED
        BY <3>1
    <2> QED
      BY <1>1, <2>1, <2>2, Zenon DEF Ordered
  <1> HIDE DEF h
  <1>8. HooksTypeOK' /\ TakenOnce' /\ ProvidersAreRegistered'
    <2>1. HooksTypeOK'
      BY <1>2, <1>3, <1>4, Zenon DEF HookInv, HooksTypeOK
    <2>2. TakenOnce'
      BY <1>2, <1>3, <1>4, <1>5, <1>6, Zenon DEF HookInv, TakenOnce, Callers
    <2>3. ProvidersAreRegistered'
      BY <1>4, Zenon DEF HookInv, ProvidersAreRegistered
    <2> QED
      BY <2>1, <2>2, <2>3
  <1>9. Ordered(hooks, previous)' /\ \A r \in Callers : Ordered(todo[r], previous)'
    <2>1. /\ previous' = previous /\ Ordered(hooks, previous)
          /\ \A r \in Callers : Ordered(todo[r], previous)
      BY <1>4 DEF HookInv
    <2>2. Ordered(hooks, previous)'
      BY <1>4, <2>1
    <2>3. Ordered(todo[s], previous)'
      <3>1. \A i \in DOMAIN todo'[s] : i \in DOMAIN todo[s] /\ todo'[s][i] = todo[s][i]
        BY <1>1, <1>2, Zenon
      <3> QED
        BY <2>1, <3>1, OrderedBelow, Zenon
    <2>4. ASSUME NEW r \in Callers, r # s
          PROVE  Ordered(todo[r], previous)'
      <3>1. todo'[r] = todo[r]
        BY <1>2, <2>4
      <3> QED
        BY <2>1, <3>1, Zenon
    <2> QED
      BY <2>2, <2>3, <2>4
  <1>10. HooksRunOnce'
    <2>1. Waiting' \union {h} = Waiting
      BY <1>1, <1>2, <1>4, Zenon DEF Waiting, Callers
    <2>2. /\ Len(hooks) \in Nat /\ Len(ran) \in Nat
          /\ Len(todo["main"]) \in Nat /\ Len(todo["owner"]) \in Nat
      BY DEF HookInv, HooksTypeOK, Callers
    <2>3. PICK a \in Nat, b \in Nat, c \in Nat, d \in Nat :
             /\ a = Len(hooks) /\ b = Len(todo["main"])
             /\ c = Len(todo["owner"]) /\ d = Len(ran)
      BY <2>2
    <2>4. a + (b - 1) + c + (d + 1) = a + b + c + d
      OBVIOUS
    <2>5. a + b + (c - 1) + (d + 1) = a + b + c + d
      OBVIOUS
    <2>6. Len(todo'[s]) = Len(todo[s]) - 1 /\ Len(hooks') = a /\ Len(ran') = d + 1
      BY <1>1, <1>2, <1>3, <1>4, <2>3, Zenon
    <2>7. \/ Len(todo'["main"]) = b - 1 /\ Len(todo'["owner"]) = c
          \/ Len(todo'["main"]) = b /\ Len(todo'["owner"]) = c - 1
      BY <1>2, <2>3, <2>6 DEF Callers
    <2>8. Len(hooks') + Len(todo'["main"]) + Len(todo'["owner"]) + Len(ran')
            = Len(hooks) + Len(todo["main"]) + Len(todo["owner"]) + Len(ran)
      BY <2>3, <2>4, <2>5, <2>6, <2>7, Zenon
    <2> QED
      BY <1>3, <1>4, <2>1, <2>8, Zenon DEF HookInv, HooksRunOnce
  <1>11. ExportersAreKnown'
    <2>1. h \notin Executed /\ h \in Registered
      <3>1. last(todo[s]) \notin Executed
        BY <1>1, NotYetRun, Zenon
      <3>2. h \in Waiting
        BY <1>1, Zenon DEF Waiting, Callers
      <3> QED
        BY <3>1, <3>2 DEF h, HookInv, HooksRunOnce
    <2>2. TooLate \subseteq Executed
      BY DEF TooLate, Executed
    <2>3. opening # h
      BY <1>1, <2>1, Zenon DEF HookInv, ExportersAreKnown
    <2>4. exporters' = (((Registered \intersect Tracers) \ Executed) \union TooLate
                          \union ({opening} \ {NoTracer}))'
      BY <1>3, <1>4, <2>1, <2>2, <2>3, Zenon DEF HookInv, ExportersAreKnown
    <2>5. ASSUME NEW i \in DOMAIN ran', ran'[i].hook \in Tracers, ran'[i].late
          PROVE  ran'[i].by = "owner" \/ "hook" \in errs'
      <3>1. CASE i \in DOMAIN ran /\ ran'[i] = ran[i]
        <4>1. ran[i].by = "owner" \/ "hook" \in errs
          BY <2>5, <3>1, Zenon DEF HookInv, ExportersAreKnown
        <4> QED
          BY <1>4, <3>1, <4>1
      <3>2. CASE ran'[i].by = s /\ ran'[i].late = expired[s] /\ ran'[i].hook = h
        BY <1>4, <2>5, <3>2, Zenon DEF Callers
      <3> QED
        BY <1>3, <3>1, <3>2, Zenon
    <2> QED
      BY <1>4, <2>4, <2>5, Zenon DEF HookInv, ExportersAreKnown
  <1>12. UndoIsSafe'
    <2> SUFFICES ASSUME NEW r \in Callers, Executors' \subseteq {r}
                 PROVE  /\ provider' \notin Executed'
                        /\ \A g \in Range(todo'[r]) \intersect Tracers :
                              previous'[g] \notin Executed'
      BY DEF UndoIsSafe
    <2>1. r = s /\ Executors \subseteq {s}
      BY <1>3, Zenon
    <2>2. /\ provider \notin Executed
          /\ \A g \in Range(todo[s]) \intersect Tracers : previous[g] \notin Executed
      BY <2>1 DEF HookInv, UndoIsSafe
    <2>3. \A g \in Range(todo[s]) \intersect Tracers : previous[g] # h
      BY <1>7, Zenon DEF Range
    <2>4. h \in Range(todo[s])
      BY <1>1, Zenon
    <2>5. h \notin Tracers => provider # h
      BY <1>1, Zenon DEF HookInv, HooksTypeOK
    <2>6. provider' \notin Executed'
      BY <1>3, <1>4, <2>2, <2>3, <2>4, <2>5, Zenon
    <2>7. Range(todo'[s]) \subseteq Range(todo[s])
      BY <1>1, <1>2, Zenon
    <2> QED
      BY <1>3, <1>4, <2>1, <2>2, <2>3, <2>6, <2>7, Zenon
  <1> QED
    BY <1>4, <1>8, <1>9, <1>10, <1>11, <1>12, Zenon DEF HookInv

\* Whatever leaves the hooks and tracers alone, but for where RunHTTPServer is.
LEMMA HooksLeftAlone ==
  ASSUME HookInv, UNCHANGED <<lifecycle, owner, errs, tracing>>,
         \/ main' = main
         \/ main = "start" /\ main' = "select" /\ opening = NoTracer
         \/ main = "select" /\ main' = "drain"
         \/ main' \in {"refused", "returned"} /\ (main # "start" \/ opening = NoTracer),
         expired' \in [Callers -> BOOLEAN]
  PROVE  HookInv'
  <1>1. /\ Registered' = Registered /\ Waiting' = Waiting
        /\ Executed' = Executed /\ Executors' = Executors /\ TooLate' = TooLate
    BY Zenon DEF Registered, Waiting, Executed, Executors, TooLate, lifecycle
  <1>2. ExportersAreKnown'
    BY <1>1, Zenon DEF HookInv, ExportersAreKnown, lifecycle, tracing
  <1>3. HooksTypeOK' /\ TakenOnce' /\ ProvidersAreRegistered'
    BY <1>1, Zenon DEF HookInv, HooksTypeOK, TakenOnce, ProvidersAreRegistered,
       lifecycle, tracing
  <1>4. Ordered(hooks, previous)' /\ \A s \in Callers : Ordered(todo[s], previous)'
    BY DEF HookInv, lifecycle, tracing
  <1>5. HooksRunOnce' /\ UndoIsSafe'
    BY <1>1 DEF HookInv, HooksRunOnce, UndoIsSafe, lifecycle, tracing
  <1> QED
    BY <1>1, <1>2, <1>3, <1>4, <1>5, Zenon DEF HookInv

\* InitTracing opens an exporter, or closes the one it has opened.
LEMMA ExporterKeeps ==
  ASSUME HookInv, (\E h \in Tracers : OpenExporter(h)) \/ InitFails
  PROVE  HookInv'
  <1>1. /\ UNCHANGED <<lifecycle, owner, errs, expired, provider, previous>>
        /\ main' = main \/ main' = "refused"
        /\ opening' \in Tracers \union {NoTracer}
    BY DEF OpenExporter, InitFails
  <1>2. /\ Registered' = Registered /\ Waiting' = Waiting
        /\ Executed' = Executed /\ Executors' = Executors /\ TooLate' = TooLate
    BY <1>1, Zenon DEF Registered, Waiting, Executed, Executors, TooLate, lifecycle
  <1>3. ExportersAreKnown'
    <2>1. ran' = ran /\ errs' = errs
      BY <1>1 DEF lifecycle
    <2>2. ASSUME NEW h \in Tracers, OpenExporter(h) PROVE ExportersAreKnown'
      <3>1. /\ main = "start" /\ main' = main /\ opening = NoTracer /\ opening' = h
            /\ h \notin Registered /\ exporters' = exporters \union {h} /\ h # NoTracer
        BY <2>2 DEF OpenExporter
      <3> QED
        BY <1>2, <2>1, <3>1, Zenon DEF HookInv, ExportersAreKnown
    <2>3. CASE InitFails
      <3>1. /\ opening # NoTracer /\ opening' = NoTracer /\ exporters' = exporters \ {opening}
        BY <2>3 DEF InitFails, shutdownTracingExporter
      <3>2. opening \notin Registered /\ TooLate \subseteq Registered
        BY <3>1, Zenon DEF HookInv, ExportersAreKnown, HooksRunOnce, TooLate, Executed
      <3> QED
        BY <1>2, <2>1, <3>1, <3>2, Zenon DEF HookInv, ExportersAreKnown
    <2> QED
      BY <2>2, <2>3
  <1>4. HooksTypeOK' /\ TakenOnce' /\ ProvidersAreRegistered'
    BY <1>1, <1>2, Zenon DEF HookInv, HooksTypeOK, TakenOnce, ProvidersAreRegistered,
       lifecycle
  <1>5. Ordered(hooks, previous)' /\ \A s \in Callers : Ordered(todo[s], previous)'
    BY <1>1 DEF HookInv, lifecycle
  <1>6. HooksRunOnce' /\ UndoIsSafe'
    BY <1>1, <1>2 DEF HookInv, HooksRunOnce, UndoIsSafe, lifecycle
  <1> QED
    BY <1>2, <1>3, <1>4, <1>5, <1>6, Zenon DEF HookInv

\* Every step keeps the invariant of the hooks.
LEMMA NextHook == HookInv /\ [Next]_vars => HookInv'
  <1> SUFFICES ASSUME HookInv, [Next]_vars PROVE HookInv'
    OBVIOUS
  <1>0. expired \in [Callers -> BOOLEAN]
    BY DEF HookInv, HooksTypeOK
  <1>1. ASSUME NEW s \in Callers, NEW ok \in BOOLEAN, RunHook(s, ok) PROVE HookInv'
    BY <1>1, RunHookKeeps
  <1>2. CASE Main
    <2>1. ASSUME NEW enabled \in BOOLEAN, Start(enabled) PROVE HookInv'
      <3>1. CASE enabled
        BY <2>1, <3>1, EnableHook DEF Start
      <3>2. CASE ~enabled
        BY <1>0, <2>1, <3>2, HooksLeftAlone DEF Start, lifecycle
      <3> QED
        BY <3>1, <3>2
    <2>2. CASE StartFails \/ ServerClosed \/ Done \/ Return
      BY <1>0, <2>2, HooksLeftAlone, Zenon
         DEF StartFails, ServerClosed, Done, Return, work
    <2>3. CASE ListenFailed \/ Drained
      <3>1. todo["main"] = <<>> /\ "main" \notin Executors
        BY <2>3, Zenon DEF HookInv, TakenOnce, ListenFailed, Drained
      <3> QED
        BY <2>3, <3>1, TakeHooks, Zenon DEF ListenFailed, Drained, work, Callers
    <2>4. ASSUME NEW h \in Tracers, EnableTracing(h) PROVE HookInv'
      BY <2>4, EnableHook DEF EnableTracing
    <2>5. CASE InitFails \/ \E h \in Tracers : OpenExporter(h)
      BY <2>5, ExporterKeeps
    <2> QED
      BY <1>1, <1>2, <2>1, <2>2, <2>3, <2>4, <2>5 DEF Main, Callers
  <1>3. CASE OwnerShutdown
    <2>1. todo["owner"] = <<>> /\ "owner" \notin Executors
      BY <1>3, Zenon DEF HookInv, TakenOnce, OwnerShutdown
    <2> QED
      BY <1>3, <2>1, TakeHooks, Zenon DEF OwnerShutdown, work, Callers
  <1>4. ASSUME NEW s \in Callers, Expire(s) PROVE HookInv'
    <2>1. expired' \in [Callers -> BOOLEAN]
      BY <1>0, <1>4 DEF Expire
    <2> QED
      BY <1>4, <2>1, HooksLeftAlone DEF Expire, work
  <1>5. ASSUME NEW abruptly, ServeFails \/ CloseElsewhere(abruptly) \/ Stop PROVE HookInv'
    BY <1>0, <1>5, HooksLeftAlone DEF ServeFails, CloseElsewhere, Stop, work
  <1>6. ASSUME NEW c \in Clients, Request(c) \/ Respond(c) PROVE HookInv'
    BY <1>0, <1>6, HooksLeftAlone DEF Request, Respond, work
  <1>7. ASSUME NEW t \in Tasks,
               TryGo(t) \/ \E panicked \in BOOLEAN : TaskEnds(t, panicked)
        PROVE  HookInv'
    BY <1>0, <1>7, HooksLeftAlone DEF TryGo, TaskEnds
  <1>8. CASE UNCHANGED vars
    BY <1>0, <1>8, HooksLeftAlone DEF vars, work
  <1> QED
    BY <1>1, <1>2, <1>3, <1>4, <1>5, <1>6, <1>7, <1>8, RegisterHook
    DEF Next, Callers

\* The invariant of the hooks and their tracers.
LEMMA HookInvariant == Spec => []HookInv
  BY InitHook, NextHook, PTL DEF Spec

\* Whoever calls Shutdown and whenever hooks are registered, a hook is waiting or
\* with one caller or has run, and never twice.
THEOREM EveryHookOnce == Spec => []HooksRunOnce
  <1>1. HookInv => HooksRunOnce
    BY DEF HookInv
  <1> QED
    BY <1>1, HookInvariant, PTL

\* Whatever fails and whenever contexts run out, an exporter is open only while
\* InitTracing or a hook will close it or because its hook ran too late, which
\* RunHTTPServer reports, and one caller of Shutdown never leaves a provider
\* installed that it has shut down.
THEOREM TracersAreUndone == Spec => []TracingIsUndone
  <1>1. ASSUME HookInv, Cardinality(Executors) <= 1
        PROVE  \E s \in Callers : Executors \subseteq {s}
    <2>1. Executors \subseteq Callers
      <3>1. \A i \in DOMAIN ran : ran[i] \in [hook : Hooks, by : Callers, late : BOOLEAN]
        BY <1>1, RanRecords
      <3> QED
        BY <3>1 DEF Executors
    <2>2. ~(Executors = {"main", "owner"})
      <3> SUFFICES ASSUME Executors = {"main", "owner"} PROVE FALSE
        OBVIOUS
      <3>1. Cardinality({"main"}) = 1 /\ IsFiniteSet({"main"})
        BY FS_Singleton, Zenon
      <3>2. Cardinality({"main"} \union {"owner"}) = 2
        BY <3>1, FS_AddElement
      <3>3. {"main"} \union {"owner"} = Executors
        OBVIOUS
      <3> QED
        BY <1>1, <3>2, <3>3
    <2> QED
      BY <2>1, <2>2, Zenon DEF Callers
  <1>2. HookInv => TracingIsUndone
    BY <1>1, Zenon DEF HookInv, ExportersAreKnown, UndoIsSafe, TracingIsUndone,
       Executors
  <1> QED
    BY <1>2, HookInvariant, PTL
================================================================================
