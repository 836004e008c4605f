------------------------------- MODULE Breaker --------------------------------
(***************************************************************************)
(* resilience.Breaker driven by concurrent callers.  Do is two critical    *)
(* sections, before and after, with the protected function running in      *)
(* between and no lock held: other calls, Reset, State and the clock       *)
(* interleave with it.  after is not deferred, so a panic of the function  *)
(* skips it.                                                               *)
(*                                                                         *)
(* current and leaked are history variables.  They are never read by a     *)
(* guard and only let the properties speak of the half-open period a call  *)
(* belongs to.                                                             *)
(***************************************************************************)
EXTENDS BreakerOps, FiniteSets

CONSTANTS Callers,    \* goroutines that share the breaker
          CanPanic    \* whether the protected function may panic

ASSUME CallersAssumption == IsFiniteSet(Callers) /\ CanPanic \in BOOLEAN

VARIABLES
    breaker,    \* the Breaker struct
    pc,         \* pc[c]: "idle", or "running" the protected function
    wasProbe,   \* wasProbe[c]: what before told the running call
    result,     \* result[c]: what the last Do of c returned
    healthy,    \* the protected function has recovered for good
    current,    \* history: no state change since c was admitted
    leaked      \* history: probe slots of this half-open period lost to panics

vars == <<breaker, pc, wasProbe, result, healthy, current, leaked>>

Results == {"none", "ok", "error", "circuit_open", "panic"}

Init ==
    /\ breaker = NewBreaker
    /\ pc = [c \in Callers |-> "idle"]
    /\ wasProbe = [c \in Callers |-> FALSE]
    /\ result = [c \in Callers |-> "none"]
    /\ healthy = FALSE
    /\ current = [c \in Callers |-> FALSE]
    /\ leaked = 0

\* A state change makes every call in flight a call of an earlier period.
Moved == breaker'.state # breaker.state

HistoryKept ==
    /\ current' = [c \in Callers |-> current[c] /\ ~Moved]
    /\ leaked' = IF Moved THEN 0 ELSE leaked
-------------------------------------------------------------------------------
Admit(c) ==
    /\ pc[c] = "idle"
    /\ permitted(breaker)
    /\ breaker' = before(breaker)
    /\ pc' = [pc EXCEPT ![c] = "running"]
    /\ wasProbe' = [wasProbe EXCEPT ![c] = isProbe(breaker)]
    /\ current' = [d \in Callers |-> d = c \/ (current[d] /\ ~Moved)]
    /\ leaked' = IF Moved THEN 0 ELSE leaked
    /\ UNCHANGED <<result, healthy>>

Reject(c) ==
    /\ pc[c] = "idle"
    /\ ~permitted(breaker)
    /\ breaker' = before(breaker)
    /\ result' = [result EXCEPT ![c] = "circuit_open"]
    /\ HistoryKept
    /\ UNCHANGED <<pc, wasProbe, healthy>>

\* The function returns; a recovered one returns no error.
Finish(c, ok) ==
    /\ pc[c] = "running"
    /\ healthy => ok
    /\ breaker' = after(breaker, wasProbe[c], ok)
    /\ pc' = [pc EXCEPT ![c] = "idle"]
    /\ wasProbe' = [wasProbe EXCEPT ![c] = FALSE]
    /\ result' = [result EXCEPT ![c] = IF ok THEN "ok" ELSE "error"]
    /\ HistoryKept
    /\ UNCHANGED healthy

\* The function panics: Do unwinds without calling after.
Panic(c) ==
    /\ CanPanic
    /\ pc[c] = "running"
    /\ ~healthy
    /\ pc' = [pc EXCEPT ![c] = "idle"]
    /\ wasProbe' = [wasProbe EXCEPT ![c] = FALSE]
    /\ result' = [result EXCEPT ![c] = "panic"]
    /\ leaked' = IF breaker.state = "half-open" /\ wasProbe[c] /\ current[c]
                 THEN leaked + 1 ELSE leaked
    /\ UNCHANGED <<breaker, healthy, current>>

CallState ==
    /\ breaker' = stateLocked(breaker)
    /\ HistoryKept
    /\ UNCHANGED <<pc, wasProbe, result, healthy>>

CallReset ==
    /\ breaker' = Reset(breaker)
    /\ HistoryKept
    /\ UNCHANGED <<pc, wasProbe, result, healthy>>

Tick ==
    /\ breaker.state = "open"
    /\ breaker.elapsed < ResetTimeout
    /\ breaker' = Elapse(breaker)
    /\ UNCHANGED <<pc, wasProbe, result, healthy, current, leaked>>

Recover ==
    /\ ~healthy
    /\ healthy' = TRUE
    /\ UNCHANGED <<breaker, pc, wasProbe, result, current, leaked>>

Next ==
    \/ \E c \in Callers : Admit(c) \/ Reject(c) \/ Panic(c)
    \/ \E c \in Callers, ok \in BOOLEAN : Finish(c, ok)
    \/ CallState
    \/ CallReset
    \/ Tick
    \/ Recover

Spec == Init /\ [][Next]_vars
-------------------------------------------------------------------------------
Running == {c \in Callers : pc[c] = "running"}
Probes == {c \in Running : wasProbe[c]}
CurrentProbes == {c \in Probes : current[c]}

\* Every variable keeps to its range.
TypeOK ==
    /\ breaker \in BreakerRec
    /\ pc \in [Callers -> {"idle", "running"}]
    /\ wasProbe \in [Callers -> BOOLEAN]
    /\ result \in [Callers -> Results]
    /\ healthy \in BOOLEAN
    /\ current \in [Callers -> BOOLEAN]
    /\ leaked \in Nat

\* onFailure opens at the threshold and never lets a closed breaker sit at or
\* above it, whatever late outcomes arrive; while the breaker is not closed
\* the run of failures that opened it is kept, and only closing clears it.
FailureRunMatchesState ==
    IF breaker.state = "closed"
    THEN breaker.consecutiveFail < FailureThreshold
    ELSE breaker.consecutiveFail = FailureThreshold

\* While half-open, halfOpenCount is exactly the number of probes of this
\* period that are still running plus those lost to a panic; probes and
\* ordinary calls of earlier periods, however late, hold no slot.
ProbeBudget ==
    breaker.state = "half-open" =>
        breaker.halfOpenCount = Cardinality(CurrentProbes) + leaked

\* The open window is neither cut short nor prolonged by calls that finish
\* during it: only Reset ends it before ResetTimeout has passed.
OpenWindow ==
    [][breaker.state = "open" =>
          \/ breaker'.state = "open" /\ breaker'.elapsed >= breaker.elapsed
          \/ breaker'.state = "half-open" /\ breaker.elapsed >= ResetTimeout
          \/ CallReset]_vars

\* Do does not defer after: once panics have used up every slot of a half-open
\* period, only Reset or a call that is still running from an earlier period
\* can take the breaker out of it; new calls never do.
WedgedUntilReset ==
    [][/\ breaker.state = "half-open"
       /\ leaked = HalfOpenMax
       /\ breaker'.state # "half-open"
       => \/ CallReset
          \/ \E c \in Running \ CurrentProbes : pc'[c] = "idle"]_vars
===============================================================================
