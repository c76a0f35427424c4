\* Three laps, two tyre changes, one trouble.
SPECIFICATION Spec
CONSTANTS
  MaxLap = 3
  MaxSet = 2
  MaxChanges = 2
  MaxTroubles = 1
CHECK_DEADLOCK FALSE
INVARIANTS
  TypeOK
  
  ExportCoversTheRace
PROPERTIES
  BooksCatchUp
