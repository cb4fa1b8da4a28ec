CONSTANTS
  Delay = 2
  InputCapacity = 4
  OutputCapacity = 4
  Block = 2
  Holdback = 1
  Kinds <- MCKinds
  Lanes <- MCLanes
  Quanta <- MCQuanta
  MaxFrames = 7
SPECIFICATION Spec
INVARIANTS FixedDelay NothingFromBefore WorkerCodeMapped NoOrphanWorker
PROPERTIES PlaysWhatIsReady StoppedWorkersEnd CallsReturn
CHECK_DEADLOCK FALSE
