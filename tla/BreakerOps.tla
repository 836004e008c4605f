------------------------------ MODULE BreakerOps ------------------------------
(***************************************************************************)
(* The state of resilience.Breaker and what its mutex-protected sections   *)
(* do to it (resilience/breaker.go).  Every operator is one critical       *)
(* section, or a helper called inside one, as a function of the breaker    *)
(* record.  Breaker.tla runs these sections from concurrent callers and    *)
(* ReliablePublisher.tla runs them around a NATS publish.                  *)
(*                                                                         *)
(* openedAt is only ever compared with the clock while the breaker is      *)
(* open, so the record holds the time elapsed since openedAt, counted up   *)
(* to ResetTimeout (a longer wait is indistinguishable to the code).       *)
(***************************************************************************)
EXTENDS Integers

CONSTANTS FailureThreshold,   \* consecutive failures before opening
          ResetTimeout,       \* time in open state before half-open
          HalfOpenMax         \* probes admitted per half-open period

\* withDefaults replaces every non-positive setting by a positive default.
ASSUME BreakerConfigAssumption ==
    /\ FailureThreshold \in Nat \ {0}
    /\ ResetTimeout \in Nat \ {0}
    /\ HalfOpenMax \in Nat \ {0}

BreakerState == {"closed", "open", "half-open"}

BreakerRec == [state           : BreakerState,
               consecutiveFail : 0..FailureThreshold,
               elapsed         : 0..ResetTimeout,
               halfOpenCount   : 0..HalfOpenMax]

\* The struct with all four fields given.
Rec(s, fail, age, count) ==
    [state |-> s, consecutiveFail |-> fail, elapsed |-> age,
     halfOpenCount |-> count]

NewBreaker == Rec("closed", 0, 0, 0)

-------------------------------------------------------------------------------
\* A due open breaker is promoted, with a fresh probe budget.
stateLocked(b) ==
    IF b.state = "open" /\ b.elapsed >= ResetTimeout
    THEN Rec("half-open", b.consecutiveFail, b.elapsed, 0)
    ELSE b

\* Mutant: one probe too many.
permitted_OffByOne(b) ==
    LET s == stateLocked(b)
    IN  \/ s.state = "closed"
        \/ s.state = "half-open" /\ s.halfOpenCount <= HalfOpenMax

\* before: whether the call may run, whether it is a probe, and the breaker
\* it leaves behind.
permitted(b) ==
    LET s == stateLocked(b)
    IN  \/ s.state = "closed"
        \/ s.state = "half-open" /\ s.halfOpenCount < HalfOpenMax

isProbe(b) == permitted(b) /\ stateLocked(b).state = "half-open"

\* Mutant: admitting a probe does not take a slot.
before_NoCount(b) == stateLocked(b)

before(b) ==
    IF isProbe(b)
    THEN [stateLocked(b) EXCEPT !.halfOpenCount = @ + 1]
    ELSE stateLocked(b)

-------------------------------------------------------------------------------
\* Mutant: closing keeps the run of failures.
onSuccess_KeepsFailures(b) ==
    IF b.state = "half-open"
    THEN Rec("closed", b.consecutiveFail, b.elapsed, 0)
    ELSE b

onSuccess(b) ==
    CASE b.state = "closed" -> [b EXCEPT !.consecutiveFail = 0]
      [] b.state = "open" -> b
      [] b.state = "half-open" -> Rec("closed", 0, b.elapsed, 0)

\* Mutant: a failure that arrives while open restarts the open window.
onFailure_Extends(b) ==
    IF b.state = "closed" /\ b.consecutiveFail + 1 < FailureThreshold
    THEN [b EXCEPT !.consecutiveFail = @ + 1]
    ELSE Rec("open", FailureThreshold, 0, 0)

\* openedAt is set to the clock, so no time has elapsed.
onFailure(b) ==
    CASE b.state = "closed" ->
            IF b.consecutiveFail + 1 >= FailureThreshold
            THEN Rec("open", b.consecutiveFail + 1, 0, b.halfOpenCount)
            ELSE [b EXCEPT !.consecutiveFail = @ + 1]
      [] b.state = "open" -> b
      [] b.state = "half-open" -> Rec("open", b.consecutiveFail, 0, 0)

\* Mutants: the outcome of every call counts; the outcome of no probe counts.
after_NoDiscard(b, wasProbe, ok) ==
    IF ok THEN onSuccess(b) ELSE onFailure(b)

after_DropsProbes(b, wasProbe, ok) ==
    IF wasProbe THEN b ELSE after_NoDiscard(b, wasProbe, ok)

\* after: a probe that finds the breaker out of half-open is discarded.
after(b, wasProbe, ok) ==
    IF wasProbe /\ b.state # "half-open" THEN b
    ELSE IF ok THEN onSuccess(b) ELSE onFailure(b)

\* Reset leaves openedAt alone.
Reset(b) == Rec("closed", 0, b.elapsed, 0)

\* The clock: one time unit passes.
Elapse(b) == [b EXCEPT !.elapsed = IF @ < ResetTimeout THEN @ + 1 ELSE @]
===============================================================================
