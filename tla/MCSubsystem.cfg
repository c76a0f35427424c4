\* Two operators, either of whom makes one request after the start: toggle, restart or close.
SPECIFICATION Spec
CONSTANTS
  ui = ui
  pool = pool
  Operators = {ui, pool}
  MaxGens = 2
  MaxRequests = 1
  MaxAttempts = 1
  Missable = 0
  Requests = {"toggle", "restart", "close"}
  Habits <- Children
CHECK_DEADLOCK FALSE
SYMMETRY Symmetry
INVARIANTS
  TypeOK
  HooksPerStart
  AttemptsLimited
  
