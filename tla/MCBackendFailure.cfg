SPECIFICATION Spec
CONSTANTS
    Receivers <- MCReceivers
    Failures <- MCFailures
    MaxItems = 2
PROPERTY FailureEnds
CHECK_DEADLOCK FALSE
