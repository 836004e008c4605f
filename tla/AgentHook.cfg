CONSTANTS
    GovernanceTimeout = 1
    ApprovalsTimeout = 2
    ApprovalTimeout = 5
    PollInterval = 2
    MaxDecisions = 2
    MaxTime = 15
SPECIFICATION FairSpec
INVARIANTS FailsClosed WaitIsBounded DecisionInTimeCounts
PROPERTY HookExits
CHECK_DEADLOCK FALSE
