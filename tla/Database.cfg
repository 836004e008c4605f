CONSTANTS
    MaxAttempts = 2
    Migrations = 1
SPECIFICATION Spec
INVARIANT HandleIsUsable
CHECK_DEADLOCK FALSE
