CONSTANTS
  Ids <- MCIds
  Capacity = 3
  Requests <- MCRequests
  MaxStatics = 1
  MaxQuanta = 4
SPECIFICATION SceneSpec
INVARIANTS NoIdTwice SurvivorsStay FailsWhole IsReconciled LanesAreClean OnlySurvivorsGlide
PROPERTIES SurvivorsKeepHistory
CHECK_DEADLOCK FALSE
