----------------------------- MODULE BreakerProofs ----------------------------
(***************************************************************************)
(* Safety of the circuit breaker for every number of callers and every     *)
(* configuration: type correctness, FailureRunMatchesState and ProbeBudget *)
(* (Breaker.tla) are proved together as one inductive invariant, and the   *)
(* action properties OpenWindow and WedgedUntilReset follow from it.       *)
(***************************************************************************)
EXTENDS Breaker, FiniteSetTheorems, TLAPS

\* FailureRunMatchesState as a predicate of the breaker record.
RunOK(b) ==
    IF b.state = "closed" THEN b.consecutiveFail < FailureThreshold
                          ELSE b.consecutiveFail = FailureThreshold

\* The inductive invariant.  FailureRunMatchesState is what keeps the failure
\* counter within its type.  ProbeBudget alone is not inductive: a probe of
\* the current period exists only while the breaker is half-open, so that the
\* count starts at zero when a new half-open period begins.
IInv ==
    /\ TypeOK
    /\ FailureRunMatchesState
    /\ ProbeBudget
    /\ breaker.state # "half-open" => CurrentProbes = {} /\ leaked = 0

USE BreakerConfigAssumption, CallersAssumption
USE DEF BreakerConfigAssumption, CallersAssumption

-------------------------------------------------------------------------------
\* The critical sections keep the breaker record within its type.
LEMMA SectionTypes ==
    ASSUME NEW b \in BreakerRec, NEW p \in BOOLEAN, NEW ok \in BOOLEAN,
           b.state = "closed" => b.consecutiveFail < FailureThreshold
    PROVE  /\ stateLocked(b) \in BreakerRec
           /\ before(b) \in BreakerRec
           /\ after(b, p, ok) \in BreakerRec
           /\ Reset(b) \in BreakerRec
           /\ Elapse(b) \in BreakerRec
<1>1. stateLocked(b) \in BreakerRec
  BY DEF stateLocked, Rec, BreakerRec, BreakerState
<1>2. before(b) \in BreakerRec
  BY <1>1 DEF before, isProbe, permitted, Rec, BreakerRec, BreakerState
<1>3. onSuccess(b) \in BreakerRec
  BY DEF onSuccess, Rec, BreakerRec, BreakerState
<1>4. onFailure(b) \in BreakerRec
  BY DEF onFailure, Rec, BreakerRec, BreakerState
<1>5. after(b, p, ok) \in BreakerRec
  BY <1>3, <1>4 DEF after
<1>6. Reset(b) \in BreakerRec
  BY DEF Reset, Rec, BreakerRec, BreakerState
<1>7. Elapse(b) \in BreakerRec
  BY DEF Elapse, Rec, BreakerRec, BreakerState
<1> QED BY <1>1, <1>2, <1>5, <1>6, <1>7

\* The critical sections keep the failure counter in step with the state.
LEMMA SectionRuns ==
    ASSUME NEW b \in BreakerRec, RunOK(b), NEW p \in BOOLEAN, NEW ok \in BOOLEAN
    PROVE  /\ RunOK(stateLocked(b))
           /\ RunOK(before(b))
           /\ RunOK(after(b, p, ok))
           /\ RunOK(Reset(b))
           /\ RunOK(Elapse(b))
<1> USE DEF RunOK, Rec, BreakerRec, BreakerState
<1>1. RunOK(stateLocked(b))
  BY DEF stateLocked
<1>2. RunOK(before(b))
  BY DEF before, isProbe, permitted, stateLocked
<1>3. RunOK(onSuccess(b)) /\ RunOK(onFailure(b))
  BY DEF onSuccess, onFailure
<1>4. RunOK(after(b, p, ok))
  BY <1>3 DEF after
<1>5. RunOK(Reset(b)) /\ RunOK(Elapse(b))
  BY DEF Reset, Elapse
<1> QED BY <1>1, <1>2, <1>4, <1>5

\* There are finitely many callers, so the probes can be counted.
LEMMA ProbesFinite == IsFiniteSet(CurrentProbes)
BY FS_Subset DEF CurrentProbes, Probes, Running

\* Any step after which no call belongs to the current period leaves no
\* current probe.
LEMMA NoneCurrent ==
    ASSUME current' = [c \in Callers |-> FALSE]
    PROVE  CurrentProbes' = {}
BY DEF CurrentProbes, Probes, Running
-------------------------------------------------------------------------------
\* A new breaker satisfies the invariant: nobody is running.
LEMMA InitIInv == Init => IInv
<1> SUFFICES ASSUME Init PROVE IInv
  OBVIOUS
<1>1. TypeOK
  <2>1. breaker \in BreakerRec
    BY DEF Init, NewBreaker, Rec, BreakerRec, BreakerState
  <2>2. /\ pc \in [Callers -> {"idle", "running"}]
        /\ result \in [Callers -> Results]
    BY DEF Init, Results
  <2>3. /\ wasProbe \in [Callers -> BOOLEAN] /\ current \in [Callers -> BOOLEAN]
        /\ healthy \in BOOLEAN
    BY Zenon DEF Init
  <2>4. leaked \in Nat
    BY DEF Init
  <2> QED BY <2>1, <2>2, <2>3, <2>4 DEF TypeOK
<1>2. FailureRunMatchesState /\ ProbeBudget
  BY DEF Init, NewBreaker, Rec, FailureRunMatchesState, ProbeBudget
<1>3. CurrentProbes = {} /\ leaked = 0
  BY DEF Init, CurrentProbes, Probes, Running
<1> QED BY <1>1, <1>2, <1>3 DEF IInv

\* Admitting a call, by cases on the state it finds: closed; half-open with a
\* free slot; open and due, where the call itself starts the period.
LEMMA AdmitIInv == ASSUME IInv, NEW c \in Callers, Admit(c) PROVE IInv'
<1> DEFINE b == breaker
<1>0. b \in BreakerRec /\ RunOK(b)
  BY DEF IInv, TypeOK, FailureRunMatchesState, RunOK
<1>1. breaker' = before(b) /\ breaker' \in BreakerRec /\ RunOK(breaker')
  BY <1>0, SectionTypes, SectionRuns DEF Admit, RunOK
<1>2. isProbe(b) \in BOOLEAN
  BY DEF isProbe, permitted
<1>3. TypeOK'
  BY <1>1, <1>2 DEF IInv, TypeOK, Admit, Moved
<1>4. CASE b.state = "closed"
  <2>1. breaker' = b /\ ~isProbe(b)
    BY <1>1, <1>4 DEF before, isProbe, stateLocked
  <2>2. CurrentProbes' = {} /\ leaked' = 0
    BY <1>2, <1>4, <2>1 DEF IInv, TypeOK, Admit, Moved, CurrentProbes, Probes, Running
  <2> QED BY <1>1, <1>3, <1>4, <2>1, <2>2
          DEF IInv, FailureRunMatchesState, RunOK, ProbeBudget
<1>5. CASE b.state = "half-open"
  <2>1. /\ isProbe(b) /\ ~Moved /\ breaker'.state = "half-open"
        /\ breaker'.halfOpenCount = b.halfOpenCount + 1
    BY <1>0, <1>1, <1>5 DEF Admit, before, isProbe, permitted, stateLocked, Moved, BreakerRec
  <2>2. CurrentProbes' = CurrentProbes \cup {c} /\ c \notin CurrentProbes
    BY <2>1, Zenon DEF IInv, TypeOK, Admit, CurrentProbes, Probes, Running
  <2>3. Cardinality(CurrentProbes') = Cardinality(CurrentProbes) + 1
    BY <2>2, ProbesFinite, FS_AddElement, Zenon
  <2>4. ProbeBudget'
    BY <1>0, <1>5, <2>1, <2>3, ProbesFinite, FS_CardinalityType
       DEF IInv, TypeOK, ProbeBudget, Admit, BreakerRec
  <2> QED BY <1>1, <1>3, <2>1, <2>4 DEF IInv, FailureRunMatchesState, RunOK
<1>6. CASE b.state = "open"
  <2>1. /\ isProbe(b) /\ Moved /\ breaker'.state = "half-open"
        /\ breaker'.halfOpenCount = 1
    BY <1>0, <1>1, <1>6
       DEF Admit, before, isProbe, permitted, stateLocked, Moved, BreakerRec, Rec
  <2>2. CurrentProbes' = {c} /\ leaked' = 0
    BY <2>1, Zenon DEF IInv, TypeOK, Admit, CurrentProbes, Probes, Running
  <2>3. Cardinality(CurrentProbes') = 1
    BY <2>2, FS_Singleton
  <2> QED BY <1>1, <1>3, <2>1, <2>2, <2>3
          DEF IInv, FailureRunMatchesState, RunOK, ProbeBudget
<1> QED BY <1>0, <1>4, <1>5, <1>6 DEF BreakerRec, BreakerState
\* What the remaining steps have in common: the history is kept, no call
\* starts, and the slot count changes only together with the state.
LEMMA KeptIInv ==
    ASSUME IInv, TypeOK', RunOK(breaker'), HistoryKept,
           Running' \subseteq Running,
           \A d \in Running' : wasProbe'[d] = wasProbe[d],
           breaker'.state = "half-open" =>
               IF Moved THEN breaker'.halfOpenCount = 0
               ELSE /\ breaker'.halfOpenCount = breaker.halfOpenCount
                    /\ Running' = Running
    PROVE  IInv'
<1>1. CASE Moved
  <2>1. CurrentProbes' = {} /\ leaked' = 0
    BY <1>1, NoneCurrent, Zenon DEF HistoryKept
  <2>2. Cardinality(CurrentProbes') = 0
    BY <2>1, FS_EmptySet
  <2> QED BY <1>1, <2>1, <2>2 DEF IInv, FailureRunMatchesState, RunOK, ProbeBudget
<1>2. CASE ~Moved
  <2>1. CurrentProbes' \subseteq CurrentProbes /\ leaked' = leaked
    BY <1>2, Zenon DEF HistoryKept, CurrentProbes, Probes, Running
  <2>2. CASE breaker'.state = "half-open"
    <3>1. CurrentProbes' = CurrentProbes
      BY <1>2, <2>2 DEF IInv, TypeOK, HistoryKept, CurrentProbes, Probes, Running
    <3> QED BY <1>2, <2>1, <2>2, <3>1
            DEF IInv, Moved, FailureRunMatchesState, RunOK, ProbeBudget
  <2>3. CASE breaker'.state # "half-open"
    BY <1>2, <2>1, <2>3 DEF IInv, Moved, FailureRunMatchesState, RunOK, ProbeBudget
  <2> QED BY <2>2, <2>3
<1> QED BY <1>1, <1>2

\* A call that returns never leaves the breaker half-open: its outcome decides
\* the period, or it found the breaker closed or open (after).
LEMMA FinishIInv ==
    ASSUME IInv, NEW c \in Callers, NEW ok \in BOOLEAN, Finish(c, ok)
    PROVE  IInv'
<1> DEFINE b == breaker
<1>0. b \in BreakerRec /\ RunOK(b) /\ wasProbe[c] \in BOOLEAN
  BY DEF IInv, TypeOK, FailureRunMatchesState, RunOK
<1>1. /\ breaker' = after(b, wasProbe[c], ok)
      /\ breaker' \in BreakerRec /\ RunOK(breaker')
  <2>1. breaker' = after(b, wasProbe[c], ok)
    BY Zenon DEF Finish
  <2>2. b.state = "closed" => b.consecutiveFail < FailureThreshold
    BY <1>0 DEF RunOK
  <2>3. after(b, wasProbe[c], ok) \in BreakerRec
    BY <1>0, <2>2, SectionTypes, Zenon
  <2>4. RunOK(after(b, wasProbe[c], ok))
    BY <1>0, SectionRuns, Zenon
  <2> QED
    BY <2>1, <2>3, <2>4, Zenon
<1>2. TypeOK'
  BY <1>1 DEF IInv, TypeOK, Finish, HistoryKept, Moved, Results
<1>3. /\ Running' \subseteq Running
      /\ \A d \in Running' : wasProbe'[d] = wasProbe[d]
  BY Zenon DEF IInv, TypeOK, Finish, Running
<1>4. breaker'.state # "half-open"
  BY <1>0, <1>1 DEF after, onSuccess, onFailure, Rec, BreakerRec, BreakerState
<1> QED BY <1>1, <1>2, <1>3, <1>4, KeptIInv, Zenon DEF Finish

\* A panicking probe of the current period turns into a leaked slot; any
\* other panicking call was not counted.
LEMMA PanicIInv == ASSUME IInv, NEW c \in Callers, Panic(c) PROVE IInv'
<1>1. TypeOK'
  BY DEF IInv, TypeOK, Panic, Results
<1>2. CASE c \in CurrentProbes /\ breaker.state = "half-open"
  <2>1. CurrentProbes' = CurrentProbes \ {c} /\ leaked' = leaked + 1
    BY <1>2 DEF IInv, TypeOK, Panic, CurrentProbes, Probes, Running
  <2>2. Cardinality(CurrentProbes') = Cardinality(CurrentProbes) - 1
    BY <1>2, <2>1, ProbesFinite, FS_RemoveElement, Zenon
  <2> QED BY <1>1, <1>2, <2>1, <2>2, ProbesFinite, FS_CardinalityType
          DEF IInv, TypeOK, Panic, FailureRunMatchesState, ProbeBudget
<1>3. CASE c \notin CurrentProbes \/ breaker.state # "half-open"
  <2>1. CurrentProbes' = CurrentProbes /\ leaked' = leaked
    BY <1>3 DEF IInv, TypeOK, Panic, CurrentProbes, Probes, Running
  <2> QED BY <1>1, <2>1 DEF IInv, Panic, FailureRunMatchesState, ProbeBudget
<1> QED BY <1>2, <1>3

\* State, Reset and the clock touch only the breaker.
LEMMA SectionIInv ==
    ASSUME IInv, CallState \/ CallReset \/ Tick \/ Recover
    PROVE  IInv'
<1> DEFINE b == breaker
<1>0. b \in BreakerRec /\ RunOK(b)
  BY DEF IInv, TypeOK, FailureRunMatchesState, RunOK
<1>1. CASE CallState \/ CallReset
  <2>1. breaker' \in BreakerRec /\ RunOK(breaker')
    BY <1>0, <1>1, SectionTypes, SectionRuns DEF CallState, CallReset, RunOK
  <2>4. /\ HistoryKept
        /\ UNCHANGED <<pc, wasProbe, result, healthy>>
    BY <1>1 DEF CallState, CallReset
  <2>2. TypeOK' /\ Running' = Running /\ wasProbe' = wasProbe
    BY <2>4, <2>1 DEF IInv, TypeOK, HistoryKept, Moved, Running
  <2>3. breaker'.state = "half-open" =>
            IF Moved THEN breaker'.halfOpenCount = 0
                     ELSE breaker'.halfOpenCount = breaker.halfOpenCount
    BY <1>1, <1>0
       DEF CallState, CallReset, stateLocked, Reset, Rec, Moved, BreakerRec
  <2> QED BY <1>1, <2>1, <2>2, <2>3, KeptIInv DEF CallState, CallReset
<1>2. CASE Tick
  <2>1. breaker' \in BreakerRec /\ RunOK(breaker') /\ breaker'.state = "open"
    BY <1>0, <1>2, SectionTypes, SectionRuns DEF Tick, RunOK, Elapse, BreakerRec
  <2>2. TypeOK' /\ CurrentProbes' = CurrentProbes /\ leaked' = leaked
    BY <1>2, <2>1 DEF IInv, TypeOK, Tick, CurrentProbes, Probes, Running
  <2> QED BY <1>2, <2>1, <2>2 DEF IInv, Tick, FailureRunMatchesState, RunOK, ProbeBudget
<1>3. CASE Recover
  BY <1>3 DEF IInv, TypeOK, Recover, FailureRunMatchesState, ProbeBudget,
              CurrentProbes, Probes, Running
<1> QED BY <1>1, <1>2, <1>3

\* Every step of a caller and of the environment preserves the invariant.
LEMMA StepIInv == IInv /\ [Next]_vars => IInv'
<1> SUFFICES ASSUME IInv, [Next]_vars PROVE IInv'
  OBVIOUS
<1>1. ASSUME NEW c \in Callers, Admit(c) PROVE IInv'
  BY <1>1, AdmitIInv
<1>2. ASSUME NEW c \in Callers, Reject(c) PROVE IInv'
  <2> DEFINE b == breaker
  <2>0. b \in BreakerRec /\ RunOK(b)
    BY DEF IInv, TypeOK, FailureRunMatchesState, RunOK
  <2>1. breaker' = breaker
    BY <1>2, <2>0 DEF Reject, before, isProbe, permitted, stateLocked, Rec, BreakerRec
  <2>2. TypeOK' /\ Running' = Running /\ wasProbe' = wasProbe
    BY <1>2, <2>1 DEF IInv, TypeOK, Reject, HistoryKept, Moved, Running, Results
  <2> QED BY <1>2, <2>0, <2>1, <2>2, KeptIInv DEF Reject, Moved
<1>3. ASSUME NEW c \in Callers, Panic(c) PROVE IInv'
  BY <1>3, PanicIInv
<1>4. ASSUME NEW c \in Callers, NEW ok \in BOOLEAN, Finish(c, ok) PROVE IInv'
  BY <1>4, FinishIInv
<1>5. CASE UNCHANGED vars
  BY <1>5 DEF vars, IInv, TypeOK, FailureRunMatchesState, ProbeBudget,
              CurrentProbes, Probes, Running
<1> QED BY <1>1, <1>2, <1>3, <1>4, <1>5, SectionIInv DEF Next

\* The breaker never leaves its types: in particular halfOpenCount stays within
\* HalfOpenMax and consecutiveFail within FailureThreshold (before, onFailure).
THEOREM TypeCorrect == Spec => []TypeOK
<1>1. IInv => TypeOK
  BY DEF IInv
<1> QED BY InitIInv, StepIInv, <1>1, PTL DEF Spec

\* The failure counter and the state agree whatever order calls admitted in
\* different periods finish in (onSuccess, onFailure, Reset).
THEOREM FailureRuns == Spec => []FailureRunMatchesState
<1>1. IInv => FailureRunMatchesState
  BY DEF IInv
<1> QED BY InitIInv, StepIInv, <1>1, PTL DEF Spec

\* While half-open, halfOpenCount counts exactly the probes of this period that
\* are running or were lost to a panic (before, after, Do).
THEOREM ProbeAccounting == Spec => []ProbeBudget
<1>1. IInv => ProbeBudget
  BY DEF IInv
<1> QED BY InitIInv, StepIInv, <1>1, PTL DEF Spec
-------------------------------------------------------------------------------
\* What a step makes of the breaker record: one of the critical sections.
LEMMA StepSections ==
    ASSUME [Next]_vars
    PROVE  \/ UNCHANGED breaker
           \/ breaker' = before(breaker)
           \/ \E c \in Callers, ok \in BOOLEAN :
                 Finish(c, ok) /\ breaker' = after(breaker, wasProbe[c], ok)
           \/ breaker' = stateLocked(breaker)
           \/ CallReset
           \/ Tick
BY DEF Next, vars, Admit, Reject, Panic, Finish, CallState, Recover

\* Calls that finish while the breaker is open neither shorten nor prolong the
\* open window, whatever they return: only Reset ends it early (after, State).
THEOREM OpenWindowKept == Spec => OpenWindow
<1>1. IInv /\ [Next]_vars =>
        [breaker.state = "open" =>
            \/ breaker'.state = "open" /\ breaker'.elapsed >= breaker.elapsed
            \/ breaker'.state = "half-open" /\ breaker.elapsed >= ResetTimeout
            \/ CallReset]_vars
  <2> SUFFICES ASSUME IInv, [Next]_vars, breaker.state = "open"
               PROVE  \/ breaker'.state = "open" /\ breaker'.elapsed >= breaker.elapsed
                      \/ breaker'.state = "half-open" /\ breaker.elapsed >= ResetTimeout
                      \/ CallReset
    OBVIOUS
  <2>1. breaker \in BreakerRec /\ breaker.elapsed \in Nat
    BY DEF IInv, TypeOK, BreakerRec
  <2>2. CASE UNCHANGED breaker
    BY <2>1, <2>2
  <2>3. CASE breaker' = before(breaker) \/ breaker' = stateLocked(breaker)
    BY <2>1, <2>3 DEF before, isProbe, permitted, stateLocked, Rec, BreakerRec
  <2>4. ASSUME NEW c \in Callers, NEW ok \in BOOLEAN,
               breaker' = after(breaker, wasProbe[c], ok)
        PROVE  breaker' = breaker
    BY <2>4 DEF after, onSuccess, onFailure
  <2>5. CASE Tick
    BY <2>1, <2>5 DEF Tick, Elapse, BreakerRec
  <2> QED BY <2>1, <2>2, <2>3, <2>4, <2>5, StepSections
<1> QED BY InitIInv, StepIInv, <1>1, PTL DEF Spec, OpenWindow

\* Once every slot of a half-open period is lost to panics, no new call gets
\* the breaker out of it: only Reset, or a call from before the period (Do).
THEOREM WedgedWithoutReset == Spec => WedgedUntilReset
<1>1. IInv /\ [Next]_vars =>
        [/\ breaker.state = "half-open"
         /\ leaked = HalfOpenMax
         /\ breaker'.state # "half-open"
         => \/ CallReset
            \/ \E c \in Running \ CurrentProbes : pc'[c] = "idle"]_vars
  <2> SUFFICES ASSUME IInv, [Next]_vars, breaker.state = "half-open",
                      leaked = HalfOpenMax, breaker'.state # "half-open", ~CallReset
               PROVE  \E c \in Running \ CurrentProbes : pc'[c] = "idle"
    OBVIOUS
  <2>1. CurrentProbes = {}
    <3>1. Cardinality(CurrentProbes) \in Nat
      BY ProbesFinite, FS_CardinalityType
    <3>2. Cardinality(CurrentProbes) = 0
      BY <3>1 DEF IInv, TypeOK, ProbeBudget, BreakerRec
    <3> QED BY <3>2, ProbesFinite, FS_EmptySet
  <2>2. breaker \in BreakerRec
    BY DEF IInv, TypeOK
  <2>3. breaker' # before(breaker) /\ breaker' # stateLocked(breaker) /\ breaker' # breaker
    BY <2>2 DEF before, isProbe, permitted, stateLocked, BreakerRec
  <2>4. ~Tick
    BY DEF Tick
  <2>5. PICK c \in Callers, ok \in BOOLEAN : Finish(c, ok)
    BY <2>3, <2>4, StepSections
  <2>6. c \in Running /\ pc'[c] = "idle"
    BY <2>5 DEF Finish, Running, IInv, TypeOK
  <2> QED BY <2>1, <2>6
<1> QED BY InitIInv, StepIInv, <1>1, PTL DEF Spec, WedgedUntilReset
===============================================================================
