\* Three models are enough for a call to meet one that is ready, one that loads
\* or fails, and one of another operation.  Width 4: ints from -8 to 7.
CONSTANTS
  None = None
  Ids = {"one", "two", "three"}
  Settings <- MCSettings
  Files <- ServingFiles
  Width = 4
  Calls <- MCCalls
  MaxEvents = 2
  Delays = {0, 1500}
SPECIFICATION Spec
INVARIANTS
  TypeOK
  AllOrNothing
  ErrorsSurvive
  BudgetsHold
  AdaptersAgree
  StreamMatchesUnary
  EndIsTold
  EventsReplay
  HealthIsHonest
