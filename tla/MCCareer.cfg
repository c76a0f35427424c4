SPECIFICATION Spec
CONSTANTS
  Cars = {car1, car2}
  Teams = {"t"}
  Sessions = {"r1", "s1"}
  TypeOf <- Types
  KeyOf <- CarNames
  TeamOf <- OneTeam
  DriverA = car1
  DriverB = car2
  Points = {7}
  Pairs <- AB
  Corrections <- Stewards
  RacePoints <- Race
  SprintPoints <- Sprint
  None = None
  MaxCareers = 2
  MaxEvents = 2
  MaxEdits = 2
INVARIANTS
  TypeOK
  StandingsAreTheLedger
PROPERTIES
  KeepsTheLedger
  
