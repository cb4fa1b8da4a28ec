CONSTANTS
  Quantum = 2
  Capacity = 16
  Target = 8
  DrainSizes <- MCDrainSizes
  Clients <- MCDrainFault
SPECIFICATION Spec
INVARIANTS StoppedIsRestartable
