CONSTANTS
  e1 = e1  e2 = e2  e3 = e3  none = none
  Engines <- MCEngines
  NoEngine <- none
  MaxCount = 2
  StatusMayFail = TRUE
  MayBeKilled = TRUE
  MaxFaults = 2
SPECIFICATION Spec
INVARIANTS OffMeansNoEngine OneEngine OffStaysOff
PROPERTIES SoundComesBack NoEngineIsLeft
