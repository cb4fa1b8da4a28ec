CONSTANTS
  cli = cli  e1 = e1  e2 = e2  p1 = p1  p2 = p2  a = a  b = b  nobody = nobody
  Engines <- MCEngines
  Cli <- cli
  Ports <- MCPorts
  Settings <- MCSettings
  Nobody <- nobody
SPECIFICATION MCSpec
INVARIANTS DeviceFollowsPort YieldedEditsArrive
PROPERTIES NoEarlyWake RendererComesBack
CHECK_DEADLOCK FALSE
