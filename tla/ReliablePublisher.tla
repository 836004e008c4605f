--------------------------- MODULE ReliablePublisher --------------------------
(***************************************************************************)
(* natsbus.ReliablePublisher (natsbus/reliable.go): Publish goroutines and *)
(* a replayer that share one circuit breaker, a directory of dead-letter   *)
(* files and an atomic file counter, over a NATS stream that may  *)
(* fail or lose acknowledgements and a process that may crash and restart. *)
(*                                                                         *)
(* A thread is the goroutine publishing one message, or Replayer: whoever  *)
(* holds replayMu, the replay loop or a caller of ReplayPending.  Both run *)
(* publishMessage: breaker.before, up to MaxAttempts PublishMsg calls made *)
(* by resilience.Retry, breaker.after.  Between two steps of a thread any  *)
(* other thread may run.                                                   *)
(***************************************************************************)
EXTENDS BreakerOps, FiniteSets

CONSTANTS Messages,       \* each is passed to Publish once
          Replayer,       \* the thread inside replayOnce
          MaxAttempts,    \* Retry.MaxAttempts
          BatchSize,      \* ReplayBatchSize
          MaxCrashes      \* bound on crashes

ASSUME PublisherAssumption ==
    /\ IsFiniteSet(Messages)
    /\ Replayer \notin Messages
    /\ MaxAttempts \in Nat \ {0}
    /\ BatchSize \in Nat \ {0}
    /\ MaxCrashes \in Nat

VARIABLES
    breaker,    \* publisher.breaker
    files,      \* messages with a .json file in the dead-letter directory
    stamp,      \* stamp[m]: rank of the file name of m, 0 before it is made
    count,      \* deadLetterStore.count
    copies,     \* copies[m]: how often JetStream stored m (2: twice or more)
    outcome,    \* outcome[m]: what Publish(m) returned
    pc, attempt, wasProbe, ok,   \* locals of the threads
    batch,      \* records replayOnce has listed and not replayed yet
    holder,     \* who holds replayMu: "none", "loop" or "caller"
    life,       \* "open", "closing", "closed" or "down"
    healthy,    \* from here on NATS, the directory and contexts do not fail
    crashes,
    ambiguous   \* history: messages whose fate was unknown to the process

callVars == <<attempt, wasProbe, ok>>
storeVars == <<files, stamp, count>>
replayVars == <<batch, holder>>
natsVars == <<copies, ambiguous>>
envVars == <<life, healthy, crashes>>
vars == <<breaker, storeVars, natsVars, outcome, pc, callVars, replayVars,
          envVars>>

Threads == Messages \cup {Replayer}
Goto(t, label) == pc' = [pc EXCEPT ![t] = label]

\* The record replayOnce is working on: the oldest name left in the batch.
Oldest(S) == CHOOSE m \in S : \A n \in S : stamp[m] <= stamp[n]
Msg(t) == IF t = Replayer THEN Oldest(batch) ELSE t

Stored(m) == [copies EXCEPT ![m] = IF @ < 2 THEN @ + 1 ELSE @]
stream == {m \in Messages : copies[m] > 0}

\* List: the first BatchSize files in name order.
List == {m \in files : Cardinality({n \in files : stamp[n] < stamp[m]}) < BatchSize}

Init ==
    /\ breaker = NewBreaker
    /\ files = {} /\ stamp = [m \in Messages |-> 0]
    /\ count = 0
    /\ copies = [m \in Messages |-> 0] /\ ambiguous = {}
    /\ outcome = [m \in Messages |-> "none"]
    /\ pc = [t \in Threads |-> "idle"]
    /\ attempt = [t \in Threads |-> 0]
    /\ wasProbe = [t \in Threads |-> FALSE]
    /\ ok = [t \in Threads |-> FALSE]
    /\ batch = {} /\ holder = "none"
    /\ life = "open"
    /\ healthy = FALSE
    /\ crashes = 0
-------------------------------------------------------------------------------
(* publishMessage, run by a Publish goroutine or by the replayer.          *)

\* Publish: buildMessage succeeds and publishMessage is called.
Publish(m) ==
    /\ life # "down"
    /\ pc[m] = "idle" /\ outcome[m] = "none"
    /\ Goto(m, "before")
    /\ UNCHANGED <<breaker, storeVars, natsVars, outcome, callVars,
                   replayVars, envVars>>

\* Publish: buildMessage fails and nothing else happens.
BuildFails(m) ==
    /\ life # "down"
    /\ pc[m] = "idle" /\ outcome[m] = "none"
    /\ outcome' = [outcome EXCEPT ![m] = "failed"]
    /\ UNCHANGED <<breaker, storeVars, natsVars, pc, callVars,
                   replayVars, envVars>>

Admit(t) ==
    /\ pc[t] = "before"
    /\ permitted(breaker)
    /\ breaker' = before(breaker)
    /\ wasProbe' = [wasProbe EXCEPT ![t] = isProbe(breaker)]
    /\ attempt' = [attempt EXCEPT ![t] = 1]
    /\ Goto(t, "attempt")
    /\ UNCHANGED <<storeVars, natsVars, outcome, ok, replayVars,
                   envVars>>

\* Mutant: replayOnce returns without unlocking replayMu.
Failed_KeepsLock(t) ==
    IF t = Replayer
    THEN /\ Goto(t, "idle") /\ batch' = {} /\ UNCHANGED holder
    ELSE /\ Goto(t, "stamp") /\ UNCHANGED <<replayVars>>

\* publishMessage has failed: Publish dead-letters, replayOnce gives up.
Failed(t) ==
    IF t = Replayer
    THEN /\ Goto(t, "idle") /\ batch' = {} /\ holder' = "none"
    ELSE /\ Goto(t, "stamp") /\ UNCHANGED <<replayVars>>

Reject(t) ==
    /\ pc[t] = "before"
    /\ ~permitted(breaker)
    /\ breaker' = before(breaker)
    /\ Failed(t)
    /\ UNCHANGED <<storeVars, natsVars, outcome, callVars, envVars>>

\* PublishMsg stores the message and its acknowledgement arrives.
AttemptAcked(t) ==
    /\ pc[t] = "attempt"
    /\ life # "closed"
    /\ copies' = Stored(Msg(t))
    /\ ok' = [ok EXCEPT ![t] = TRUE]
    /\ Goto(t, "after")
    /\ UNCHANGED <<breaker, storeVars, ambiguous, outcome, attempt, wasProbe,
                   replayVars, envVars>>

\* Retry stops after the last attempt.
mayRetry(t) == attempt[t] < MaxAttempts

\* PublishMsg returns an error; stored tells whether only the acknowledgement
\* was lost.  Retry goes on unless this was the last attempt, the error is not
\* retryable or the context is done during the delay.
AttemptFails(t, stored, again) ==
    /\ pc[t] = "attempt"
    /\ ~healthy \/ life # "open"
    /\ stored => life # "closed"
    /\ again => mayRetry(t)
    /\ copies' = IF stored THEN Stored(Msg(t)) ELSE copies
    /\ ambiguous' = IF stored THEN ambiguous \cup {Msg(t)} ELSE ambiguous
    /\ IF again
       THEN /\ attempt' = [attempt EXCEPT ![t] = @ + 1]
            /\ UNCHANGED <<pc, ok>>
       ELSE /\ ok' = [ok EXCEPT ![t] = FALSE]
            /\ Goto(t, "after")
            /\ UNCHANGED attempt
    /\ UNCHANGED <<breaker, storeVars, outcome, wasProbe, replayVars,
                   envVars>>

\* Mutant: replayOnce deletes the record whether or not it was published.
After_DeletesAnyway(t) ==
    /\ pc[t] = "after"
    /\ breaker' = after(breaker, wasProbe[t], ok[t])
    /\ attempt' = [attempt EXCEPT ![t] = 0]
    /\ wasProbe' = [wasProbe EXCEPT ![t] = FALSE]
    /\ ok' = [ok EXCEPT ![t] = FALSE]
    /\ CASE t = Replayer -> Goto(t, "remove") /\ UNCHANGED <<outcome, replayVars>>
         [] ~ok[t] /\ t # Replayer -> Failed(t) /\ UNCHANGED outcome
         [] ok[t] /\ t # Replayer ->
                /\ Goto(t, "idle")
                /\ outcome' = [outcome EXCEPT ![t] = "published"]
                /\ UNCHANGED <<replayVars>>
    /\ UNCHANGED <<storeVars, natsVars, envVars>>

\* breaker.after, and what the caller of publishMessage does with the result.
After(t) ==
    /\ pc[t] = "after"
    /\ breaker' = after(breaker, wasProbe[t], ok[t])
    /\ attempt' = [attempt EXCEPT ![t] = 0]
    /\ wasProbe' = [wasProbe EXCEPT ![t] = FALSE]
    /\ ok' = [ok EXCEPT ![t] = FALSE]
    /\ CASE ~ok[t] -> Failed(t) /\ UNCHANGED outcome
         [] ok[t] /\ t = Replayer ->
                Goto(t, "remove") /\ UNCHANGED <<outcome, replayVars>>
         [] ok[t] /\ t # Replayer ->
                /\ Goto(t, "idle")
                /\ outcome' = [outcome EXCEPT ![t] = "published"]
                /\ UNCHANGED <<replayVars>>
    /\ UNCHANGED <<storeVars, natsVars, envVars>>
-------------------------------------------------------------------------------
(* handleDeadLetter and deadLetterStore.Save.                              *)

\* The record gets its time and id, from which Save derives the file name.
Stamp(m) ==
    /\ pc[m] = "stamp"
    /\ stamp' = [stamp EXCEPT ![m] =
                    1 + Cardinality({n \in Messages : stamp[n] > 0})]
    /\ Goto(m, "rename")
    /\ UNCHANGED <<breaker, files, count, natsVars, outcome,
                   callVars, replayVars, envVars>>

\* Marshalling or the temporary file fails, or the rename does.
SaveFails(m) ==
    /\ pc[m] = "rename"
    /\ ~healthy
    /\ Goto(m, "idle")
    /\ outcome' = [outcome EXCEPT ![m] = "failed"]
    /\ UNCHANGED <<breaker, storeVars, natsVars, callVars, replayVars,
                   envVars>>

\* The rename makes the finished file visible in one step.
Rename(m) ==
    /\ pc[m] = "rename"
    /\ files' = files \cup {m}
    /\ Goto(m, "add")
    /\ UNCHANGED <<breaker, stamp, count, natsVars, outcome,
                   callVars, replayVars, envVars>>

\* The counter follows and Publish returns.
Add(m) ==
    /\ pc[m] = "add"
    /\ count' = count + 1
    /\ Goto(m, "idle")
    /\ outcome' = [outcome EXCEPT ![m] = "dead-lettered"]
    /\ UNCHANGED <<breaker, files, stamp, natsVars, callVars, replayVars, envVars>>
-------------------------------------------------------------------------------
(* replayOnce, from the loop's ticker or from ReplayPending.               *)

\* The lock is taken and the directory listed; an empty list changes nothing.
ReplayStart(who) ==
    /\ life # "down"
    /\ who = "loop" => life \in {"open", "closing"}
    /\ holder = "none"
    /\ files # {}
    /\ holder' = who
    /\ batch' = List
    /\ Goto(Replayer, "before")
    /\ UNCHANGED <<breaker, storeVars, natsVars, outcome, callVars,
                   envVars>>

\* Mutant: the wrong path is removed and the error ignored.
Remove_Nothing ==
    /\ pc[Replayer] = "remove"
    /\ Goto(Replayer, "sub")
    /\ UNCHANGED <<breaker, storeVars, natsVars, outcome, callVars,
                   replayVars, envVars>>

Remove ==
    /\ pc[Replayer] = "remove"
    /\ files' = files \ {Oldest(batch)}
    /\ Goto(Replayer, "sub")
    /\ UNCHANGED <<breaker, stamp, count, natsVars, outcome,
                   callVars, replayVars, envVars>>

RemoveFails ==
    /\ pc[Replayer] = "remove"
    /\ ~healthy
    /\ Failed(Replayer)
    /\ ambiguous' = ambiguous \cup {Oldest(batch)}
    /\ UNCHANGED <<breaker, storeVars, copies, outcome, callVars,
                   envVars>>

\* The counter follows and the loop turns to the next record, if any.
Sub ==
    /\ pc[Replayer] = "sub"
    /\ count' = count - 1
    /\ batch' = batch \ {Oldest(batch)}
    /\ IF batch' = {}
       THEN Goto(Replayer, "idle") /\ holder' = "none"
       ELSE Goto(Replayer, "before") /\ UNCHANGED holder
    /\ UNCHANGED <<breaker, files, stamp, natsVars, outcome, callVars, envVars>>
-------------------------------------------------------------------------------
(* Close, the process and its environment.                                 *)

Close ==
    /\ life = "open"
    /\ life' = "closing"
    /\ UNCHANGED <<breaker, storeVars, natsVars, outcome, pc, callVars,
                   replayVars, healthy, crashes>>

\* wg.Wait returns once the loop is outside replayOnce and has seen the
\* cancelled context; then the connection is closed.
CloseConnection ==
    /\ life = "closing"
    /\ holder # "loop"
    /\ life' = "closed"
    /\ UNCHANGED <<breaker, storeVars, natsVars, outcome, pc, callVars,
                   replayVars, healthy, crashes>>

\* Memory is gone; the directory and the stream stay.
Crash ==
    /\ life # "down"
    /\ crashes < MaxCrashes
    /\ crashes' = crashes + 1
    /\ life' = "down"
    /\ outcome' = [m \in Messages |->
                      IF pc[m] = "idle" THEN outcome[m] ELSE "crashed"]
    /\ pc' = [t \in Threads |-> "idle"]
    /\ attempt' = [t \in Threads |-> 0]
    /\ wasProbe' = [t \in Threads |-> FALSE]
    /\ ok' = [t \in Threads |-> FALSE]
    /\ batch' = {} /\ holder' = "none"
    /\ ambiguous' = IF pc[Replayer] \in {"after", "remove"}
                    THEN ambiguous \cup {Oldest(batch)} ELSE ambiguous
    /\ UNCHANGED <<breaker, storeVars, copies, healthy>>

\* Mutant: the count starts at zero, without a scan.
Restart_NoScan ==
    /\ life = "down"
    /\ life' = "open"
    /\ breaker' = NewBreaker
    /\ count' = 0
    /\ UNCHANGED <<files, stamp, natsVars, outcome, pc, callVars,
                   replayVars, healthy, crashes>>

\* NewReliablePublisher on the directory the crashed process left behind.
Restart ==
    /\ life = "down"
    /\ life' = "open"
    /\ breaker' = NewBreaker
    /\ count' = Cardinality(files)
    /\ UNCHANGED <<files, stamp, natsVars, outcome, pc, callVars,
                   replayVars, healthy, crashes>>

Tick ==
    /\ breaker.state = "open" /\ breaker.elapsed < ResetTimeout
    /\ breaker' = Elapse(breaker)
    /\ UNCHANGED <<storeVars, natsVars, outcome, pc, callVars,
                   replayVars, envVars>>

Heal ==
    /\ ~healthy
    /\ healthy' = TRUE
    /\ UNCHANGED <<breaker, storeVars, natsVars, outcome, pc, callVars,
                   replayVars, life, crashes>>

Step(t) ==
    \/ Admit(t) \/ Reject(t) \/ AttemptAcked(t) \/ After(t)
    \/ \E stored, again \in BOOLEAN : AttemptFails(t, stored, again)

PublishStep(m) ==
    Step(m) \/ Stamp(m) \/ SaveFails(m) \/ Rename(m) \/ Add(m)

ReplayStep == Step(Replayer) \/ Remove \/ RemoveFails \/ Sub

Next ==
    \/ \E m \in Messages : Publish(m) \/ BuildFails(m) \/ PublishStep(m)
    \/ \E who \in {"loop", "caller"} : ReplayStart(who)
    \/ ReplayStep
    \/ Close \/ CloseConnection \/ Crash \/ Restart \/ Tick \/ Heal

Spec == Init /\ [][Next]_vars

\* The replay ticker fires, goroutines that can run do, and time passes.
FairSpec ==
    /\ Spec
    /\ WF_vars(ReplayStart("loop"))
    /\ WF_vars(ReplayStep)
    /\ WF_vars(Tick)
    /\ \A m \in Messages : WF_vars(PublishStep(m))
-------------------------------------------------------------------------------
\* The message is stored twice only when the process could not know that it
\* was stored: an acknowledgement was lost, or a replayed file could not be
\* removed, or the process died between the two.  Otherwise retries, replay
\* and restarts do not duplicate.
DuplicatesAreAmbiguous ==
    \A m \in Messages : copies[m] = 2 => m \in ambiguous

\* deadLetterStore.count is the number of files, off only by the Saves between
\* Rename and Add and the Delete between Remove and Add(-1); it is exact when
\* nobody is inside, and so it never drifts.
CountAccounting ==
    life # "down" =>
        count = Cardinality(files)
                - Cardinality({m \in Messages : pc[m] = "add"})
                + (IF pc[Replayer] = "sub" THEN 1 ELSE 0)

\* If NATS and the directory stop failing and the process stays up, every dead
\* letter is replayed and removed, whatever state the breaker was left in.
Delivery ==
    <>[](healthy /\ life = "open") =>
        \A m \in Messages : m \in files ~> (m \in stream /\ m \notin files)

OB == INSTANCE Outbox WITH queue <- files, delivered <- stream, answer <- outcome

\* ReliablePublisher implements Outbox: what Publish answered stays true through
\* replay, failures, Close and crashes.  A published message is in the stream, a
\* dead-lettered one is there or still has its file.
OutboxSpec == OB!Spec
===============================================================================
