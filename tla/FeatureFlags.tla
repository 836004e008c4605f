----------------------------- MODULE FeatureFlags -----------------------------
(***************************************************************************)
(* featureflags.FileStore (featureflags/file_store.go): goroutines that    *)
(* look up flags in one store, the file it is loaded from and whoever      *)
(* writes that file.  The first call after a poll interval reloads the     *)
(* file in passing, without a lock; the others go on with what is held.    *)
(*                                                                         *)
(* Time is relative: age[r] is the time since r read the clock, and        *)
(* checkedAgo the time since lastChecked, so that now.Sub(lastChecked) is  *)
(* checkedAgo - age[r].  A snapshot is the number of the version it was    *)
(* read from; Flags gives one flag of each version.                        *)
(***************************************************************************)
EXTENDS Integers, Sequences

CONSTANTS Readers,        \* goroutines that use the store
          Flags,          \* Flags[v]: one flag in version v of the file
          Subjects,       \* the rollout buckets of subjects, and NoSubject
          PollInterval,
          MaxAge          \* bound: time a call may take

NoSubject == -1
FlagRec == [present : BOOLEAN, enabled : BOOLEAN, percent : Nat]

ASSUME FeatureFlagsAssumption ==
    /\ Flags \in Seq(FlagRec) /\ Flags # <<>>
    /\ Subjects \subseteq -1..99
    /\ PollInterval \in Nat \ {0} /\ MaxAge \in Nat \ {0}

VARIABLES
    file,          \* the file: version, mtime, whether it is written to the
                   \* end, and whether its mtime is later than the last one's
    held,          \* store.flags and store.snapshot: a version, 0 without store
    lastModTime,
    checkedAgo,
    pc,            \* pc[r]: where r is in a call
    age,           \* age[r]: time since r read the clock
    modTime,       \* modTime[r]: info.ModTime() of the stat by r
    contents,      \* contents[r]: the version r has read
    healthy,       \* from here on stat and read do not fail
    slow           \* history: a call has taken a poll interval

store == <<held, lastModTime>>
locals == <<age, modTime, contents>>
vars == <<file, store, checkedAgo, pc, locals, healthy, slow>>

LongAgo == PollInterval + MaxAge      \* a later check is due for any clock value

Init ==
    /\ file = [version |-> 1, mtime |-> 1, whole |-> TRUE, fresh |-> TRUE]
    /\ held = 0 /\ lastModTime = 0
    /\ checkedAgo = LongAgo           \* lastChecked.IsZero()
    /\ pc = [r \in Readers |-> "idle"]
    /\ age = [r \in Readers |-> 0]
    /\ modTime = [r \in Readers |-> 0]
    /\ contents = [r \in Readers |-> 0]
    /\ healthy = FALSE /\ slow = FALSE

Goto(r, label) == pc' = [pc EXCEPT ![r] = label]

Return(r) ==
    /\ Goto(r, "idle")
    /\ age' = [age EXCEPT ![r] = 0]
    /\ modTime' = [modTime EXCEPT ![r] = 0]
    /\ contents' = [contents EXCEPT ![r] = 0]
-------------------------------------------------------------------------------
\* NewFileStore, before anybody has the store: reload, but no lastChecked.
NewFileStore(r) ==
    /\ held = 0
    /\ \A q \in Readers : pc[q] = "idle"
    /\ Goto(r, "stat")
    /\ UNCHANGED <<file, store, checkedAgo, locals, healthy, slow>>

\* Lookup or Snapshot is called and refreshIfNeeded reads the clock.
Lookup(r) ==
    /\ held # 0 /\ pc[r] = "idle"
    /\ Goto(r, "check")
    /\ UNCHANGED <<file, store, checkedAgo, locals, healthy, slow>>

due(r) == checkedAgo - age[r] >= PollInterval

\* The check under the read lock.
Check(r) ==
    /\ pc[r] = "check"
    /\ Goto(r, IF due(r) THEN "claim" ELSE "lookup")
    /\ UNCHANGED <<file, store, checkedAgo, locals, healthy, slow>>

\* The check again, now under the lock: one goroutine takes the reload.
Claim(r) ==
    /\ pc[r] = "claim"
    /\ IF due(r) THEN Goto(r, "stat") /\ checkedAgo' = age[r]
                 ELSE Goto(r, "lookup") /\ UNCHANGED checkedAgo
    /\ UNCHANGED <<file, store, locals, healthy, slow>>

\* Mutant: the modification time is recorded before the file is read.
Stat_Records(r) ==
    /\ pc[r] = "stat"
    /\ modTime' = [modTime EXCEPT ![r] = file.mtime]
    /\ lastModTime' = file.mtime
    /\ Goto(r, IF lastModTime # 0 /\ file.mtime <= lastModTime
               THEN "lookup" ELSE "read")
    /\ UNCHANGED <<file, held, checkedAgo, age, contents, healthy, slow>>

Stat(r) ==
    /\ pc[r] = "stat"
    /\ modTime' = [modTime EXCEPT ![r] = file.mtime]
    /\ Goto(r, "compare")
    /\ UNCHANGED <<file, store, checkedAgo, age, contents, healthy, slow>>

Compare(r) ==
    /\ pc[r] = "compare"
    /\ Goto(r, IF lastModTime # 0 /\ modTime[r] <= lastModTime
               THEN "lookup" ELSE "read")
    /\ UNCHANGED <<file, store, checkedAgo, locals, healthy, slow>>

Read(r) ==
    /\ pc[r] = "read" /\ file.whole
    /\ contents' = [contents EXCEPT ![r] = file.version]
    /\ Goto(r, "store")
    /\ UNCHANGED <<file, store, checkedAgo, age, modTime, healthy, slow>>

\* stat, read or unmarshal fails: a lookup goes on with what the store holds,
\* NewFileStore returns the error.
ReloadFails(r) ==
    /\ \/ pc[r] \in {"stat", "read"} /\ ~healthy
       \/ pc[r] = "read" /\ ~file.whole
    /\ IF held = 0 THEN Return(r) ELSE Goto(r, "lookup") /\ UNCHANGED locals
    /\ UNCHANGED <<file, store, checkedAgo, healthy, slow>>

\* Mutant: the modification time is asked for again.
Store_NewModTime(r) ==
    /\ pc[r] = "store"
    /\ held' = contents[r] /\ lastModTime' = file.mtime
    /\ Goto(r, "lookup")
    /\ UNCHANGED <<file, checkedAgo, locals, healthy, slow>>

\* The modification time is the one of the stat before the read.
Store(r) ==
    /\ pc[r] = "store"
    /\ held' = contents[r] /\ lastModTime' = modTime[r]
    /\ Goto(r, "lookup")
    /\ UNCHANGED <<file, checkedAgo, locals, healthy, slow>>

\* The flag is looked up and the call returns.
Answer(r) ==
    /\ pc[r] = "lookup"
    /\ Return(r)
    /\ UNCHANGED <<file, store, checkedAgo, healthy, slow>>
-------------------------------------------------------------------------------
(* The file, which others write (external).                                *)

Written(version, mtime, whole, fresh) ==
    [version |-> version, mtime |-> mtime, whole |-> whole, fresh |-> fresh]

\* A new version, renamed into place or written in place.  Its mtime may be the
\* one of the version before, when both are written within a clock tick.
Write(tick, whole) ==
    /\ file.whole /\ file.version < Len(Flags)
    /\ file' = Written(file.version + 1, file.mtime + tick, whole, tick > 0)
    /\ UNCHANGED <<store, checkedAgo, pc, locals, healthy, slow>>

WriteEnds(tick) ==
    /\ ~file.whole
    /\ file' = Written(file.version, file.mtime + tick, TRUE, file.fresh \/ tick > 0)
    /\ UNCHANGED <<store, checkedAgo, pc, locals, healthy, slow>>

Tick ==
    /\ \A r \in Readers : pc[r] # "idle" => age[r] < MaxAge
    /\ age' = [r \in Readers |-> IF pc[r] = "idle" THEN 0 ELSE age[r] + 1]
    /\ checkedAgo' = IF checkedAgo < LongAgo THEN checkedAgo + 1 ELSE checkedAgo
    /\ slow' = (slow \/ \E r \in Readers : age'[r] >= PollInterval)
    /\ UNCHANGED <<file, store, pc, modTime, contents, healthy>>

Heal ==
    /\ ~healthy /\ healthy' = TRUE
    /\ UNCHANGED <<file, store, checkedAgo, pc, locals, slow>>

Call(r) == NewFileStore(r) \/ Lookup(r)

Step(r) ==
    \/ Check(r) \/ Claim(r) \/ Stat(r) \/ Compare(r) \/ Read(r)
    \/ ReloadFails(r) \/ Store(r) \/ Answer(r)

Next ==
    \/ \E r \in Readers : Call(r) \/ Step(r)
    \/ \E tick \in {0, 1} :
          (\E whole \in BOOLEAN : Write(tick, whole)) \/ WriteEnds(tick)
    \/ Tick
    \/ Heal

Spec == Init /\ [][Next]_vars

\* Calls keep coming and return, and time passes.
FairSpec ==
    /\ Spec
    /\ WF_vars(Tick)
    /\ \A r \in Readers : WF_vars(Call(r)) /\ WF_vars(Step(r))
-------------------------------------------------------------------------------
\* Mutant: a percentage of zero reaches nobody.
effectiveRolloutPercent_Zero(value) == IF value > 100 THEN 100 ELSE value

\* Unset is full rollout, and so is everything above.
effectiveRolloutPercent(value) == IF value = 0 \/ value > 100 THEN 100 ELSE value

\* For a subject by its rolloutBucket.
EnabledFor(flag, subject) ==
    /\ flag.present /\ flag.enabled
    /\ LET percent == effectiveRolloutPercent(flag.percent)
       IN  \/ percent >= 100
           \/ subject # NoSubject /\ subject < percent

Reached(version) == {s \in Subjects : EnabledFor(Flags[version], s)}

\* The store has the version of the file, or the next poll will read it: a file
\* replaced between stat and read, or a slow reload that stores an older version
\* over a newer one, never leaves a modification time that hides the file.
NothingMissed ==
    file.fresh => held = file.version \/ lastModTime < file.mtime

\* Along a rollout that only widens from version to version nobody who was
\* reached is lost, as long as no call takes a poll interval.
RolloutWidens ==
    [][held # 0 /\ ~slow => Reached(held) \subseteq Reached(held')]_vars

\* When the writing and the failures end, the store comes to hold the last
\* version for good, unless its modification time is that of the one before.
Convergence ==
    <>[](healthy /\ file.whole /\ file.fresh) => <>[](held = file.version)
===============================================================================
