--------------------------- MODULE MCPortHandoff ---------------------------
\* One renderer and two places in mpv, for a track and its successor, in three
\* instances of one run. A scenario leaves out what the others vary: it stops
\* edits, ports, failing engines or a place, never a step of the renderer's own
\* threads, which are the fair ones.
EXTENDS PortHandoff

CONSTANTS cli, e1, e2, p1, p2, a, b, nobody

MCEngines == {e1, e2}
MCPorts == {p1, p2}
MCSettings == {a, b}

VARIABLE scenario
Scenarios == {"settings", "sockets", "reporter"}

\* Two settings, by either side, and one place.
SettingsOnly ==
  /\ pc'[e2] = "none" /\ ~active'
  /\ resumeSocket'.at # p2

\* Two resume sockets and two places.
SocketsOnly ==
  /\ \A x \in Parties : live'[x] = Nobody
  /\ ~active'

\* Two places, engines that fail, and one edit of the renderer's to hand over.
ReporterOnly ==
  /\ live'[Cli] # b /\ \A e \in Engines : pc'[e] = pc[e] => live'[e] = live[e]
  /\ resumeSocket'.at # p2

Bounded ==
  /\ scenario = "settings" => SettingsOnly
  /\ scenario = "sockets" => SocketsOnly
  /\ scenario = "reporter" => ReporterOnly

MCInit == Init /\ scenario \in Scenarios
MCNext == Next /\ Bounded /\ UNCHANGED scenario
MCSpec == MCInit /\ [][MCNext]_<<vars, scenario>> /\ Fairness
=============================================================================
