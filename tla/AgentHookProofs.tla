---------------------------- MODULE AgentHookProofs ---------------------------
(***************************************************************************)
(* Proofs about the governance hook, for all timeouts: it fails closed, it *)
(* holds the agent up no longer than its timeouts add up to, and a         *)
(* decision made in time counts.                                           *)
(***************************************************************************)
EXTENDS AgentHook, TLAPS

States == {"none", "pending", "resolved", "expired"}

TypeOK ==
    /\ pc \in Running \union {"exited"}
    /\ now \in Nat /\ due \in Nat /\ deadline \in Int /\ decidedAt \in Int
    /\ code \in Int
    /\ service \in [state : States, decisions : Seq(Decisions)]
    /\ reply \in [state : States, decision : Decisions \union {"none"}]

\* An approval that was over when the lookup read it has not changed since.
ReplyIsFinal ==
    pc = "getting" /\ reply.state \notin {"none", "pending"} =>
        /\ service.state = reply.state
        /\ reply.decision = latestDecision(service.decisions)

\* Only an exit sets the code, and only the answer "approval" leads to the wait.
Progress ==
    /\ pc # "exited" => code = Never /\ why = "none"
    /\ pc \in {"requesting", "poll", "getting", "sleeping"} => verdict = "approval"
    /\ pc \in {"begin", "evaluating", "requesting"} => service.state = "none"

\* How late it can be at each point of Execute.
Clock ==
    /\ pc = "begin" => now = 0
    /\ pc = "evaluating" => now <= due /\ due <= GovernanceTimeout
    /\ pc = "requesting" => now <= due /\ due <= GovernanceTimeout + ApprovalsTimeout
    /\ pc \in {"poll", "getting", "sleeping"} =>
          deadline <= GovernanceTimeout + ApprovalsTimeout + ApprovalTimeout
    /\ pc = "poll" => now <= deadline + ApprovalsTimeout + PollInterval
    /\ pc = "getting" => /\ now <= due /\ due <= deadline + ApprovalsTimeout
                         /\ due <= now + ApprovalsTimeout
    /\ pc = "sleeping" => /\ now <= due
                          /\ due <= deadline + ApprovalsTimeout + PollInterval
                          /\ due <= now + PollInterval

\* How long ago the approval can have been decided without the hook knowing.
Unnoticed ==
    /\ service.state \in {"none", "pending"} => decidedAt = Never
    /\ pc = "getting" /\ reply.state = "pending" =>
          decidedAt = Never \/ decidedAt >= due - ApprovalsTimeout
    /\ pc = "sleeping" =>
          decidedAt = Never \/ decidedAt >= due - PollInterval - ApprovalsTimeout
    /\ pc = "poll" =>
          decidedAt = Never \/ decidedAt >= now - PollInterval - ApprovalsTimeout

IInv ==
    /\ TypeOK /\ ReplyIsFinal /\ Progress /\ Clock /\ Unnoticed
    /\ FailsClosed /\ WaitIsBounded /\ DecisionInTimeCounts

USE AgentHookAssumption DEF AgentHookAssumption
-------------------------------------------------------------------------------
\* Before the hook has asked anybody the invariant holds.
LEMMA InitIInv == Init => IInv
  <1> SUFFICES ASSUME Init PROVE IInv
    OBVIOUS
  <1>1. TypeOK
    BY DEF Init, TypeOK, Running, Never, None, States
  <1>2. ReplyIsFinal /\ Progress /\ Clock /\ Unnoticed
    BY DEF Init, ReplyIsFinal, Progress, Clock, Unnoticed
  <1>3. FailsClosed /\ WaitIsBounded /\ DecisionInTimeCounts
    BY DEF Init, FailsClosed, WaitIsBounded, DecisionInTimeCounts, Never
  <1> QED
    BY <1>1, <1>2, <1>3 DEF IInv

\* An exit code is a number: 0 if there is no reason to deny, and else 2, unless
\* the denial cannot be written.
LEMMA ExitCode ==
  ASSUME NEW reason, Exit(reason)
  PROVE  /\ pc' = "exited" /\ why' = reason /\ code' \in Int
         /\ reason = "none" => code' = 0
         /\ reason # "none" => code' = 2 \/ (code' = 1 /\ stdout = "broken")
  BY DEF Exit, encodeDecision

\* latestDecision finds a decision, or none where there is none.
LEMMA LatestDecisionType ==
  \A s \in Seq(Decisions) : latestDecision(s) \in Decisions \union {"none"}
  BY DEF latestDecision, Last

\* Checking the input and asking governance preserve the invariant.
LEMMA BeginIInv ==
  ASSUME IInv, Begin
  PROVE  IInv'
  <1>1. TypeOK'
    BY ExitCode DEF IInv, TypeOK, Begin, Running
  <1>2. ReplyIsFinal'
    BY ExitCode DEF ReplyIsFinal, Begin
  <1>3. Progress'
    BY ExitCode DEF IInv, Progress, Begin
  <1>4. Clock'
    BY ExitCode DEF IInv, Clock, Begin
  <1>5. Unnoticed'
    BY DEF IInv, Progress, Unnoticed, Begin
  <1>6. FailsClosed'
    BY ExitCode DEF IInv, FailsClosed, Permitted, Begin
  <1>7. WaitIsBounded'
    BY DEF IInv, WaitIsBounded, Begin
  <1>8. DecisionInTimeCounts'
    BY DEF IInv, Progress, Unnoticed, DecisionInTimeCounts, Begin
  <1> QED
    BY <1>1, <1>2, <1>3, <1>4, <1>5, <1>6, <1>7, <1>8 DEF IInv

\* Whatever governance answers, the invariant is preserved.
LEMMA EvaluatedIInv ==
  ASSUME IInv, NEW v \in Verdicts, Evaluated(v)
  PROVE  IInv'
  <1>1. TypeOK'
    BY ExitCode DEF IInv, TypeOK, Evaluated, Running
  <1>2. ReplyIsFinal'
    BY ExitCode DEF ReplyIsFinal, Evaluated
  <1>3. Progress'
    BY ExitCode DEF IInv, Progress, Evaluated
  <1>4. Clock'
    BY ExitCode DEF IInv, TypeOK, Clock, Evaluated
  <1>5. Unnoticed'
    BY DEF IInv, Progress, Unnoticed, Evaluated
  <1>6. FailsClosed'
    BY ExitCode DEF IInv, Progress, FailsClosed, Permitted, Evaluated, Verdicts, Never
  <1>7. WaitIsBounded'
    BY DEF IInv, WaitIsBounded, Evaluated
  <1>8. DecisionInTimeCounts'
    BY DEF IInv, Progress, Unnoticed, DecisionInTimeCounts, Evaluated
  <1> QED
    BY <1>1, <1>2, <1>3, <1>4, <1>5, <1>6, <1>7, <1>8 DEF IInv

\* Requesting the approval, or failing to, preserves the invariant.
LEMMA RequestedIInv ==
  ASSUME IInv, Requested
  PROVE  IInv'
  <1>1. TypeOK'
    BY ExitCode DEF IInv, TypeOK, Requested, Running, States
  <1>2. ReplyIsFinal'
    BY ExitCode DEF ReplyIsFinal, Requested
  <1>3. Progress'
    BY ExitCode DEF IInv, Progress, Requested
  <1>4. Clock'
    BY ExitCode, SMTT(20) DEF IInv, TypeOK, Clock, Requested
  <1>5. Unnoticed'
    BY DEF IInv, Progress, Unnoticed, Requested
  <1>6. FailsClosed'
    BY ExitCode DEF IInv, Progress, FailsClosed, Permitted, Requested, Never
  <1>7. WaitIsBounded'
    BY DEF IInv, WaitIsBounded, Requested
  <1>8. DecisionInTimeCounts'
    BY DEF IInv, Progress, Unnoticed, DecisionInTimeCounts, Requested
  <1> QED
    BY <1>1, <1>2, <1>3, <1>4, <1>5, <1>6, <1>7, <1>8 DEF IInv

\* The head of the polling loop preserves the invariant.
LEMMA PollIInv ==
  ASSUME IInv, Poll
  PROVE  IInv'
  <1>1. TypeOK'
    BY ExitCode DEF IInv, TypeOK, Poll, None, Running, States
  <1>2. ReplyIsFinal'
    BY ExitCode DEF ReplyIsFinal, Poll, None
  <1>3. Progress'
    BY ExitCode DEF IInv, Progress, Poll
  <1>4. Clock'
    BY ExitCode DEF IInv, TypeOK, Clock, Poll, timedOut
  <1>5. Unnoticed'
    BY ExitCode DEF IInv, Unnoticed, Poll, None
  <1>6. FailsClosed'
    BY ExitCode DEF IInv, FailsClosed, Permitted, Poll
  <1>7. WaitIsBounded'
    BY DEF IInv, WaitIsBounded, Poll
  <1>8. DecisionInTimeCounts'
    BY ExitCode
    DEF IInv, TypeOK, Unnoticed, DecisionInTimeCounts, Poll, timedOut
  <1> QED
    BY <1>1, <1>2, <1>3, <1>4, <1>5, <1>6, <1>7, <1>8 DEF IInv

\* The service's reading of the approval preserves the invariant.
LEMMA ReadIInv ==
  ASSUME IInv, Read
  PROVE  IInv'
  <1>1. TypeOK'
    BY LatestDecisionType DEF IInv, TypeOK, Read
  <1>2. ReplyIsFinal'
    BY DEF ReplyIsFinal, Read
  <1>3. Progress'
    BY DEF IInv, Progress, Read
  <1>4. Clock'
    BY DEF IInv, Clock, Read
  <1>5. Unnoticed'
    BY DEF IInv, Unnoticed, Read
  <1>6. FailsClosed'
    BY DEF IInv, FailsClosed, Permitted, Read
  <1>7. WaitIsBounded'
    BY DEF IInv, WaitIsBounded, Read
  <1>8. DecisionInTimeCounts'
    BY DEF IInv, DecisionInTimeCounts, Read
  <1> QED
    BY <1>1, <1>2, <1>3, <1>4, <1>5, <1>6, <1>7, <1>8 DEF IInv

\* Acting on the approval read preserves the invariant.
LEMMA GotIInv ==
  ASSUME IInv, Got
  PROVE  IInv'
  <1>1. TypeOK'
    BY ExitCode DEF IInv, TypeOK, Got, Sleep, Running
  <1>2. ReplyIsFinal'
    BY DEF IInv, ReplyIsFinal, Got
  <1>3. Progress'
    BY ExitCode DEF IInv, Progress, Got, Sleep
  <1>4. Clock'
    BY ExitCode, SMTT(20) DEF IInv, TypeOK, Clock, Got, Sleep
  <1>5. Unnoticed'
    BY SMTT(30), ExitCode
    DEF IInv, TypeOK, Clock, Progress, Unnoticed, Got, Sleep,
        decisionFromApproval, Running, Never
  <1>6. FailsClosed'
    BY ExitCode
    DEF IInv, Progress, ReplyIsFinal, FailsClosed, Permitted, Got, Sleep,
        decisionFromApproval, latestDecision
  <1>7. WaitIsBounded'
    BY DEF IInv, WaitIsBounded, Got
  <1>8. DecisionInTimeCounts'
    <2>1. reply.state \in States /\ reply.decision \in Decisions \union {"none"}
      BY DEF IInv, TypeOK
    <2>2. decisionFromApproval(reply) # "timeout"
      BY <2>1 DEF decisionFromApproval, States, Decisions
    <2>3. why' # "timeout"
      BY <2>2, ExitCode DEF IInv, Progress, Got, Sleep
    <2> QED
      BY <2>3 DEF DecisionInTimeCounts
  <1> QED
    BY <1>1, <1>2, <1>3, <1>4, <1>5, <1>6, <1>7, <1>8 DEF IInv

\* The end of a sleep preserves the invariant.
LEMMA WakeIInv ==
  ASSUME IInv, Wake
  PROVE  IInv'
  <1>1. TypeOK'
    BY ExitCode DEF IInv, TypeOK, Wake, Running
  <1>2. ReplyIsFinal'
    BY ExitCode DEF ReplyIsFinal, Wake
  <1>3. Progress'
    BY ExitCode DEF IInv, Progress, Wake
  <1>4. Clock'
    BY ExitCode DEF IInv, Clock, Wake
  <1>5. Unnoticed'
    BY ExitCode DEF IInv, Progress, Unnoticed, Wake, Running, Never
  <1>6. FailsClosed'
    BY ExitCode DEF IInv, FailsClosed, Permitted, Wake
  <1>7. WaitIsBounded'
    BY DEF IInv, WaitIsBounded, Wake
  <1>8. DecisionInTimeCounts'
    BY ExitCode DEF IInv, DecisionInTimeCounts, Wake
  <1> QED
    BY <1>1, <1>2, <1>3, <1>4, <1>5, <1>6, <1>7, <1>8 DEF IInv

\* A stage of the approval preserves the invariant.
LEMMA DecideIInv ==
  ASSUME IInv, NEW state \in {"pending", "resolved", "expired"}, Decide(state)
  PROVE  IInv'
  <1>1. TypeOK'
    <2>1. service' \in [state : States, decisions : Seq(Decisions)]
      <3>1. service.decisions \in Seq(Decisions)
        BY DEF IInv, TypeOK
      <3>2. \A d \in Decisions : Append(service.decisions, d) \in Seq(Decisions)
        BY <3>1
      <3>3. service' = [state |-> state, decisions |-> service.decisions]
            \/ \E d \in Decisions :
                  service' = [state |-> state, decisions |-> Append(service.decisions, d)]
        BY DEF IInv, TypeOK, Decide
      <3>4. state \in States
        BY DEF States
      <3>5. CASE service' = [state |-> state, decisions |-> service.decisions]
        BY <3>1, <3>4, <3>5
      <3>6. CASE \E d \in Decisions :
                    service' = [state |-> state, decisions |-> Append(service.decisions, d)]
        BY <3>2, <3>4, <3>6
      <3> QED
        BY <3>3, <3>5, <3>6
    <2>2. decidedAt' \in Int
      BY DEF IInv, TypeOK, Decide
    <2> QED
      BY <2>1 DEF IInv, TypeOK, Decide, hook
  <1>2. ReplyIsFinal'
    BY DEF IInv, ReplyIsFinal, Decide, hook
  <1>3. Progress'
    BY DEF IInv, Progress, Decide, hook
  <1>4. Clock'
    BY DEF IInv, Clock, Decide, hook
  <1>5. Unnoticed'
    BY SMTT(30)
    DEF IInv, TypeOK, Clock, Progress, Unnoticed, Decide, hook, Running, Never
  <1>6. FailsClosed'
    BY DEF IInv, FailsClosed, Permitted, Decide, hook
  <1>7. WaitIsBounded'
    BY DEF IInv, WaitIsBounded, Decide
  <1>8. DecisionInTimeCounts'
    BY DEF IInv, Progress, DecisionInTimeCounts, Decide, hook, Running
  <1> QED
    BY <1>1, <1>2, <1>3, <1>4, <1>5, <1>6, <1>7, <1>8 DEF IInv

\* Cancelling the context preserves the invariant.
LEMMA CancelIInv ==
  ASSUME IInv, Cancel
  PROVE  IInv'
  <1>1. TypeOK'
    BY DEF IInv, TypeOK, Cancel, hook
  <1>2. ReplyIsFinal'
    BY DEF IInv, ReplyIsFinal, Cancel, hook
  <1>3. Progress'
    BY DEF IInv, Progress, Cancel, hook
  <1>4. Clock'
    BY DEF IInv, Clock, Cancel, hook
  <1>5. Unnoticed'
    BY DEF IInv, Unnoticed, Cancel, hook
  <1>6. FailsClosed'
    BY DEF IInv, FailsClosed, Permitted, Cancel, hook
  <1>7. WaitIsBounded'
    BY DEF IInv, WaitIsBounded, Cancel
  <1>8. DecisionInTimeCounts'
    BY DEF IInv, DecisionInTimeCounts, Cancel, hook
  <1> QED
    BY <1>1, <1>2, <1>3, <1>4, <1>5, <1>6, <1>7, <1>8 DEF IInv

\* The passing of time preserves the invariant.
LEMMA TickIInv ==
  ASSUME IInv, Tick
  PROVE  IInv'
  <1>1. TypeOK'
    BY DEF IInv, TypeOK, Tick, hook
  <1>2. ReplyIsFinal'
    BY DEF IInv, ReplyIsFinal, Tick, hook
  <1>3. Progress'
    BY DEF IInv, Progress, Tick, hook
  <1>4. Clock'
    BY DEF IInv, TypeOK, Clock, Tick, hook
  <1>5. Unnoticed'
    BY DEF IInv, Unnoticed, Tick, hook
  <1>6. FailsClosed'
    BY DEF IInv, FailsClosed, Permitted, Tick, hook
  <1>7. WaitIsBounded'
    BY SMTT(20) DEF IInv, TypeOK, Clock, WaitIsBounded, Tick
  <1>8. DecisionInTimeCounts'
    BY DEF IInv, DecisionInTimeCounts, Tick, hook
  <1> QED
    BY <1>1, <1>2, <1>3, <1>4, <1>5, <1>6, <1>7, <1>8 DEF IInv

\* Every step of the hook, the service and the clock preserves the invariant.
LEMMA NextIInv ==
  ASSUME IInv, [Next]_vars
  PROVE  IInv'
  <1>1. CASE Step
    BY <1>1, BeginIInv, EvaluatedIInv, RequestedIInv, PollIInv, GotIInv,
       WakeIInv
    DEF Step
  <1>2. CASE Read \/ Cancel \/ Tick
    BY <1>2, ReadIInv, CancelIInv, TickIInv
  <1>3. CASE \E state \in {"pending", "resolved", "expired"} : Decide(state)
    BY <1>3, DecideIInv
  <1>4. CASE UNCHANGED vars
    BY <1>4
    DEF vars, hook, IInv, TypeOK, ReplyIsFinal, Progress, Clock, Unnoticed,
        FailsClosed, Permitted, WaitIsBounded, DecisionInTimeCounts
  <1> QED
    BY <1>1, <1>2, <1>3, <1>4 DEF Next

\* The invariant holds in every state of every run of the hook.
LEMMA Invariant == Spec => []IInv
  <1>1. IInv /\ [Next]_vars => IInv'
    BY NextIInv
  <1> QED
    BY InitIInv, <1>1, PTL DEF Spec

\* Whatever fails, times out or is decided in stages, Execute returns 2 unless
\* governance allowed the tool or the latest decision of a finished approval did,
\* but for a bad command line and a denial that stdout does not take.
THEOREM ToolRunsOnlyIfAllowed == Spec => []FailsClosed
  <1>1. IInv => FailsClosed
    BY DEF IInv
  <1> QED
    BY Invariant, <1>1, PTL

\* Whatever the timeouts, Execute returns no later than the two calls, the
\* approval timeout, and one more lookup and sleep take.
THEOREM AgentWaitIsBounded == Spec => []WaitIsBounded
  <1>1. IInv => WaitIsBounded
    BY DEF IInv
  <1> QED
    BY Invariant, <1>1, PTL

\* The hook times out only on an approval that was open until a lookup and a
\* sleep before its deadline, whatever the ratio of the timeouts.
THEOREM NoDecisionOverlooked == Spec => []DecisionInTimeCounts
  <1>1. IInv => DecisionInTimeCounts
    BY DEF IInv
  <1> QED
    BY Invariant, <1>1, PTL
===============================================================================
