CONSTANTS
  t1 = t1  t2 = t2  o1 = o1  o2 = o2  o3 = o3
  FrontLeft = FrontLeft  origin = origin
  unity = unity  none = none
  Threads <- MCThreads
  ActivatorSets <- MCBoth
  Handles <- MCHandles
  Roles <- MCRoles
  MaxDynamic = 1
  Positions <- MCOnePosition
  Volumes <- MCOneVolume
  Origin <- origin
  Unity <- unity
  MaxGeneration = 2
  NoObject <- none
SPECIFICATION Spec
SYMMETRY Symmetries
INVARIANTS DynamicCapacityBound
CHECK_DEADLOCK FALSE
