\* One overlay, and one that is not enabled; three commands of the launcher or the buttons.
SPECIFICATION FairSpec
CONSTANTS
  tower = tower
  radar = radar
  all = all
  Ids = {tower, radar}
  Overlays = {tower}
  Everybody = all
  MaxCommands = 3
  MaxQueue = 1
CHECK_DEADLOCK FALSE
INVARIANTS
  TypeOK
  ShownAsTold
  ThreadsAgree
PROPERTIES
  SilenceIsNoticed
  DrivingIsShown
