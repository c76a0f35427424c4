SPECIFICATION LiveSpec
CONSTANTS
  Calls = {r1, r2, r3}
  Fires = {f1, f2}
  None = None
  Failed = Failed
CHECK_DEADLOCK FALSE
INVARIANTS
  TypeOK
  AnswersMatch
  NoReplyTwice
PROPERTIES
  CallsReturn
