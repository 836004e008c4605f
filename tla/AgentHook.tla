------------------------------- MODULE AgentHook -------------------------------
(***************************************************************************)
(* One run of the governance hook (agenthook/run.go): Execute checks its   *)
(* input, asks governance, and where that requires approval requests one   *)
(* and polls for it until the approval timeout.  The approvals service     *)
(* decides while the hook polls, in one or several stages; every call may  *)
(* take up to its timeout and may fail; the context may be cancelled.      *)
(***************************************************************************)
EXTENDS Integers, Sequences, SequencesExt

CONSTANTS GovernanceTimeout, ApprovalsTimeout,      \* of the calls
          ApprovalTimeout, PollInterval,            \* of the wait
          MaxDecisions,   \* bound on the decisions of one approval
          MaxTime         \* bound on the clock

\* Config.Validate.
ASSUME AgentHookAssumption ==
    {GovernanceTimeout, ApprovalsTimeout, ApprovalTimeout, PollInterval} \subseteq Nat \ {0}

VARIABLES
    pc,         \* where Execute is
    now,        \* the clock, from the start of the hook
    due,        \* when the call times out or the sleep ends
    deadline,   \* of the approval
    cancelled,  \* ctx.Err() # nil
    stdout,     \* "open", or "broken" where the hook cannot write
    reply,      \* what the service read for the outstanding GetApproval
    code,       \* the exit code
    why,        \* the reason of a denial
    service,    \* the approval: its state and decisions
    verdict,    \* history: what governance answered
    decidedAt   \* history: when the approval left the state "pending"

hook == <<pc, due, deadline, reply, code, why, verdict>>
vars == <<hook, now, cancelled, stdout, service, decidedAt>>

Verdicts == {"allow", "deny", "approval", "unknown", "error"}
Decisions == {"approved", "denied", "escalated"}
Never == -1
None == [state |-> "none", decision |-> "none"]
Running == {"begin", "evaluating", "requesting", "poll", "getting", "sleeping"}

Init ==
    /\ pc = "begin" /\ now = 0 /\ due = 0 /\ deadline = Never /\ cancelled = FALSE
    /\ stdout \in {"open", "broken"}
    /\ reply = None /\ code = Never /\ why = "none"
    /\ service = [state |-> "none", decisions |-> <<>>]
    /\ verdict = "none" /\ decidedAt = Never

\* The exit code; an error of the encoder has one of its own.
encodeDecision(denied) ==
    IF ~denied THEN 0 ELSE IF stdout = "broken" THEN 1 ELSE 2

Exit(reason) ==
    /\ pc' = "exited" /\ why' = reason
    /\ code' = encodeDecision(reason # "none")

\* Mutant: the first decision counts.
latestDecision_First(decisions) == IF decisions = <<>> THEN "none" ELSE Head(decisions)

latestDecision(decisions) == IF decisions = <<>> THEN "none" ELSE Last(decisions)

\* decisionFromApproval goes by the decision, and by the state if there is none.
decisionFromApproval(r) ==
    IF r.decision = "none" THEN r.state
    ELSE IF r.decision = "approved" THEN "none" ELSE r.decision

\* A bad command line prints the usage; a bad configuration, payload or agent is
\* a denial; else EvaluateAction is called.
Begin ==
    /\ pc = "begin"
    /\ \/ pc' = "evaluating" /\ due' = now + GovernanceTimeout /\ UNCHANGED <<code, why>>
       \/ pc' = "exited" /\ why' = "usage" /\ code' = 1 /\ UNCHANGED due
       \/ Exit("input") /\ UNCHANGED due
    /\ UNCHANGED <<deadline, reply, verdict, now, cancelled, stdout, service, decidedAt>>

\* EvaluateAction returns; without an approvals URL no approval is requested.
Evaluated(v) ==
    /\ pc = "evaluating"
    /\ verdict' = v
    /\ \/ v = "approval" /\ pc' = "requesting" /\ due' = now + ApprovalsTimeout
          /\ UNCHANGED <<code, why>>
       \/ Exit(IF v = "allow" THEN "none" ELSE v) /\ UNCHANGED due
    /\ UNCHANGED <<deadline, reply, now, cancelled, stdout, service, decidedAt>>

\* RequestApproval returns an approval, or an error or one without an ID.
Requested ==
    /\ pc = "requesting"
    /\ \/ /\ service' = [service EXCEPT !.state = "pending"]
          /\ pc' = "poll" /\ deadline' = now + ApprovalTimeout
          /\ UNCHANGED <<code, why>>
       \/ Exit("request") /\ UNCHANGED <<deadline, service>>
    /\ UNCHANGED <<due, reply, verdict, now, cancelled, stdout, decidedAt>>

\* Mutant: the wait ends one poll early.
timedOut_Early == now + PollInterval > deadline

\* Mutant: no deadline.
timedOut_Never == FALSE

timedOut == now > deadline

\* The head of the loop.
Poll ==
    /\ pc = "poll"
    /\ \/ cancelled /\ Exit("cancelled") /\ UNCHANGED <<due, reply>>
       \/ ~cancelled /\ timedOut /\ Exit("timeout") /\ UNCHANGED <<due, reply>>
       \/ /\ ~cancelled /\ ~timedOut
          /\ pc' = "getting" /\ due' = now + ApprovalsTimeout /\ reply' = None
          /\ UNCHANGED <<code, why>>
    /\ UNCHANGED <<deadline, verdict, now, cancelled, stdout, service, decidedAt>>

\* The service answers GetApproval.
Read ==
    /\ pc = "getting" /\ reply = None
    /\ reply' = [state |-> service.state, decision |-> latestDecision(service.decisions)]
    /\ UNCHANGED <<pc, due, deadline, code, why, verdict, now, cancelled, stdout, service, decidedAt>>

\* Mutant: each poll extends the wait.
Sleep_Renews ==
    /\ pc' = "sleeping" /\ due' = now + PollInterval
    /\ deadline' = now + ApprovalTimeout
    /\ UNCHANGED <<code, why>>

Sleep ==
    /\ pc' = "sleeping" /\ due' = now + PollInterval
    /\ UNCHANGED <<deadline, code, why>>

\* GetApproval returns the answer, or an error.
Got ==
    /\ pc = "getting"
    /\ \/ reply.state = "pending" /\ Sleep
       \/ /\ reply.state \notin {"none", "pending"}
          /\ Exit(decisionFromApproval(reply)) /\ UNCHANGED <<due, deadline>>
       \/ Exit("lookup") /\ UNCHANGED <<due, deadline>>
    /\ UNCHANGED <<reply, verdict, now, cancelled, stdout, service, decidedAt>>

\* sleepWithContext returns.
Wake ==
    /\ pc = "sleeping"
    /\ \/ now = due /\ pc' = "poll" /\ UNCHANGED <<code, why>>
       \/ cancelled /\ Exit("cancelled")
    /\ UNCHANGED <<due, deadline, reply, verdict, now, cancelled, stdout, service, decidedAt>>
--------------------------------------------------------------------------------
\* A stage of the approval: a decision, or the service lets it expire.
Decide(state) ==
    /\ service.state = "pending" /\ pc \in Running
    /\ \/ /\ Len(service.decisions) < MaxDecisions
          /\ \E d \in Decisions :
                service' = [state |-> state, decisions |-> Append(service.decisions, d)]
       \/ state = "expired" /\ service' = [service EXCEPT !.state = state]
    /\ decidedAt' = IF state = "pending" THEN decidedAt ELSE now
    /\ UNCHANGED <<hook, now, cancelled, stdout>>

Cancel ==
    /\ ~cancelled /\ pc \in Running
    /\ cancelled' = TRUE
    /\ UNCHANGED <<hook, now, stdout, service, decidedAt>>

\* Calls return by their timeouts, timers fire when due, and the hook's own
\* steps take no time.
Tick ==
    /\ pc \in {"evaluating", "requesting", "getting", "sleeping"}
    /\ now < due /\ now < MaxTime
    /\ now' = now + 1
    /\ UNCHANGED <<hook, cancelled, stdout, service, decidedAt>>

Step ==
    \/ Begin \/ (\E v \in Verdicts : Evaluated(v)) \/ Requested
    \/ Poll \/ Got \/ Wake

Next ==
    \/ Step \/ Read \/ Cancel \/ Tick
    \/ \E state \in {"pending", "resolved", "expired"} : Decide(state)

Spec == Init /\ [][Next]_vars

\* The hook runs on, and time passes.
FairSpec == Spec /\ WF_vars(Step) /\ WF_vars(Tick)
--------------------------------------------------------------------------------
Permitted ==
    \/ verdict = "allow"
    \/ /\ verdict = "approval" /\ service.state # "pending"
       /\ service.decisions # <<>> /\ Last(service.decisions) = "approved"

\* The hook fails closed: it exits with 2, the code of a denial, whatever failed,
\* timed out or was decided in stages meanwhile, unless governance allowed the
\* tool or the latest decision of an approval that is over did.  Two ways out are
\* neither: a bad command line, and a denial that could not be written to stdout.
FailsClosed ==
    pc = "exited" =>
        \/ code = 2
        \/ code = 0 /\ Permitted
        \/ code = 1 /\ (why = "usage" \/ stdout = "broken")

\* The agent is held up no longer than the configured timeouts add up to: one
\* lookup and one sleep may be under way when the approval times out.
WaitIsBounded ==
    now <= GovernanceTimeout + ApprovalsTimeout + ApprovalTimeout
              + ApprovalsTimeout + PollInterval

\* A decision is not overlooked: the hook gives up on an approval only if that
\* was open until a lookup and a sleep before the deadline.
DecisionInTimeCounts ==
    why = "timeout" =>
        decidedAt = Never \/ decidedAt > deadline - PollInterval - ApprovalsTimeout

\* The hook exits, although nobody may ever decide.
HookExits == <>(pc = "exited")
================================================================================
