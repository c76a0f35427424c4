\* One run of the process under the fairness of its event loop; nothing fails and it ends
\* with the shutdown.
SPECIFICATION OneRunLive
CONSTANTS
  Uids = {u1, u2}
  None = None
  QueueSize = 2
  SessionCap = 1
  Retention = TRUE
  Faults = {}
  MaxFolders = 3
  MaxOffers = 1
CHECK_DEADLOCK FALSE
INVARIANTS
  TypeOK
  
  NoMixing
  AnswerIsOwnSession
  DropsAreCounted
  StoppedIsClean
PROPERTIES
  FinalizeIsAnswered
