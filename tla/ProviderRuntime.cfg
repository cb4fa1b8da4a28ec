CONSTANTS
  Quantum = 2
  Capacity = 16
  Target = 8
  DrainSizes <- MCDrainSizes
  Clients <- MCClients
SPECIFICATION Spec
INVARIANTS RestartableUnlessDrainFails QueueControlIsQuiet NoOverflow
PROPERTIES DemandIsMet ControlReturns
