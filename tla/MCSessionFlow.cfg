SPECIFICATION LiveSpec
CONSTANTS
  MaxSession = 2
  None = None
  MaxMinute = 1
  MaxHour = 2
  MaxEvents = 2
  MaxStrays = 1
CHECK_DEADLOCK FALSE
INVARIANTS
  TypeOK
  ExportHoldsOneSession
  SuppressedIsExported
  PoleLapIsOwn
PROPERTIES
  LastSessionIsExported
