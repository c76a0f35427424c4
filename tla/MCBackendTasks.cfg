SPECIFICATION Spec
CONSTANTS
    Receivers <- MCReceivers
    Failures <- MCFailures
    MaxItems = 2
INVARIANTS
    TypeOK
    OrderlyExitIsClean
PROPERTY RequestedEnds
CHECK_DEADLOCK FALSE
