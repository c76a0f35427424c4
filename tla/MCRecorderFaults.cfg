\* Finalizing and registering may fail, the process may end at any time and is started
\* again, old exports expire.
SPECIFICATION Spec
CONSTANTS
  Uids = {u1, u2}
  None = None
  QueueSize = 1
  SessionCap = 1
  Retention = TRUE
  Faults = {"files", "register"}
  MaxFolders = 3
  MaxOffers = 1
SYMMETRY Symmetry
PROPERTY RefinesArchive
