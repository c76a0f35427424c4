SPECIFICATION Spec
CONSTANTS
  Uids = {u1, u2}
  None = None
  QueueSize = 2
  SessionCap = 1
  Retention = FALSE
  Faults = {}
  MaxFolders = 2
  MaxOffers = 1
INVARIANT PartialIsNeverPresentedAsFinalized
