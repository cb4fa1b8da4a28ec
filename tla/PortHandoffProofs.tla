-------------------------- MODULE PortHandoffProofs --------------------------
(***************************************************************************)
(* For every set of engine places, dynamic ports and settings, whatever    *)
(* datagrams are lost, whichever writes fail, files spoil and engines      *)
(* cannot be built, and wherever mpv ends: the audio device goes before    *)
(* the port, an engine built with the port has the settings of the last    *)
(* holder that gave it up, and a change of track wakes nobody.             *)
(***************************************************************************)
EXTENDS PortHandoff, TLAPS

\* The phases of the two kinds of party, and those in which each of them may be
\* inside bind_rx_socket or have its listener.
CliPhases == {"run", "entering", "closing", "standby", "resuming"}
EnginePhases ==
  {"none", "stopping", "negotiating", "built", "enabling", "up", "dropping", "ending"}
    \cup ReporterPhases
Binding == {"resuming", "negotiating", "enabling", "binding"}
Listening ==
  {"run", "entering", "closing", "up", "dropping", "ending", "reporting", "retracting", "retracted"}
Creating == {"stopping", "negotiating", "built", "enabling"}

Phased ==
  /\ pc[Cli] \in CliPhases /\ \A e \in Engines : pc[e] \in EnginePhases
  /\ \A x \in Parties :
       /\ bind[x] # "idle" => pc[x] \in Binding
       /\ listener[x] => pc[x] \in Listening

\* The port is bound by the party that has a socket in its hands or a listener
\* on it, and by no other; a socket bound in negotiate_rx_port is the reservation.
PortIsHeld ==
  \A x \in Parties : port = x <=> (bind[x] = "bound" /\ pc[x] # "negotiating") \/ listener[x]

\* mpv creates one engine at a time.
OneCreate == \A e, f \in Engines : pc[e] \in Creating /\ pc[f] \in Creating => e = f

\* No other engine than the one that listens is in the registry of its process.
\* (A degraded reporter that goes may have emptied it.)
Registered == \A e \in Engines : listener[e] => release["mpv"] \in {e, Nobody}

\* Only a renderer that runs has the device, and one that runs believes that it
\* has the port.
DeviceInRun == (audio => pc[Cli] = "run") /\ (pc[Cli] = "run" => bound[Cli])

\* What is promised is what a configuration read now would bring, or what the
\* renderer is about to write.
PromiseKept ==
  promised # Nobody => promised = OverlayAfter \/ (Owes /\ promised = live[Cli])

IInv ==
  TypeOK /\ Phased /\ PortIsHeld /\ OneCreate /\ Registered /\ DeviceInRun /\ PromiseKept
  /\ YieldedEditsArrive

LEMMA InitInv == Init => IInv
<1> SUFFICES ASSUME Init PROVE IInv
  OBVIOUS
<1> USE PartiesAssumption DEF Init, Parties
<1>1. TypeOK
  <2>1. pc \in [Parties -> Phases] /\ bind \in [Parties -> BindPhases]
    BY DEF Phases, BindPhases
  <2>2. release \in [{Cli, "mpv"} -> Parties \cup {Nobody}]
    OBVIOUS
  <2>3. resumeSocket \in Sockets /\ watch \in [on : BOOLEAN, socket : Sockets]
    BY DEF Sockets, NoSocket, NoWatch
  <2>4. live \in [Parties -> Unsaved] /\ sidecar \in Unsaved /\ overlay \in Unsaved
        /\ promised \in Unsaved
    BY DEF Unsaved
  <2> QED BY <2>1, <2>2, <2>3, <2>4 DEF TypeOK
<1>2. Phased
  BY DEF Phased, CliPhases, EnginePhases, Listening
<1>3. PortIsHeld /\ OneCreate /\ Registered /\ DeviceInRun
  BY DEF PortIsHeld, OneCreate, Creating, Registered, DeviceInRun
<1>4. PromiseKept /\ YieldedEditsArrive
  BY DEF PromiseKept, YieldedEditsArrive
<1> QED BY <1>1, <1>2, <1>3, <1>4 DEF IInv

-----------------------------------------------------------------------------
(* What the shared parts of the actions do.                                  *)

\* A configuration read brings some unsaved settings or none, and a second read
\* would bring the same.
LEMMA LoadBrings ==
  ASSUME IInv, LoadWithLive
  PROVE  OverlayAfter \in Unsaved /\ sidecar' \in Unsaved /\ overlay' \in Unsaved
         /\ OverlayAfter' = OverlayAfter
BY DEF IInv, TypeOK, LoadWithLive, OverlayAfter, Unsaved

\* A sidecar keeps the promise, and what it adds to it is promised by the holder
\* of the port.
LEMMA HandOverPromises ==
  ASSUME IInv, NEW x \in Parties, HandOver(x)
  PROVE  /\ sidecar' \in Unsaved /\ overlay' \in Unsaved /\ promised' \in Unsaved
         /\ promised' # Nobody => port = x \/ promised' = promised
         /\ promised' # Nobody =>
              promised' = OverlayAfter' \/ (x # Cli /\ Owes /\ promised' = live[Cli])
<1> USE DEF IInv, TypeOK, HandOver, Unsaved
<1>1. sidecar' \in Unsaved /\ overlay' \in Unsaved /\ promised' \in Unsaved
  OBVIOUS
<1>2. promised' # Nobody => port = x \/ promised' = promised
  OBVIOUS
<1>3. promised' # Nobody =>
        promised' = OverlayAfter' \/ (x # Cli /\ Owes /\ promised' = live[Cli])
  BY DEF PromiseKept, OverlayAfter
<1> QED BY <1>1, <1>2, <1>3

\* The resume datagram leaves its marks on sockets only.
LEMMA BeginDropTypes ==
  ASSUME IInv, NEW e \in Engines, BeginDrop(e)
  PROVE  /\ owners' \subseteq Engines /\ target' \in Ports \cup {Nobody}
         /\ resumeSocket' \in Sockets /\ watch' \in [on : BOOLEAN, socket : Sockets]
<1> USE DEF IInv, BeginDrop, SendResume
<1>1. owners' \subseteq Engines /\ target' \in Ports \cup {Nobody}
  BY DEF TypeOK
<1>2. resumeSocket' \in Sockets
  <2>1. resumeSocket' = resumeSocket \/ resumeSocket' = [resumeSocket EXCEPT !.woken = TRUE]
    OBVIOUS
  <2>2. resumeSocket \in Sockets
    BY DEF TypeOK
  <2> QED BY <2>1, <2>2 DEF Sockets
<1>3. watch' \in [on : BOOLEAN, socket : Sockets]
  <2>1. watch' = watch \/ watch' = [watch EXCEPT !.socket = [watch.socket EXCEPT !.woken = TRUE]]
    OBVIOUS
  <2>2. watch.socket \in Sockets /\ watch \in [on : BOOLEAN, socket : Sockets]
    BY DEF TypeOK
  <2>3. [watch.socket EXCEPT !.woken = TRUE] \in Sockets
    BY <2>2 DEF Sockets
  <2> QED BY <2>1, <2>2, <2>3
<1> QED BY <1>1, <1>2, <1>3

\* A bind begins with neither socket nor listener, and may let the reservation go.
LEMMA StartBindingHolds ==
  ASSUME IInv, NEW e \in Engines, NEW phase \in {"negotiating", "enabling", "binding"},
         pc[e] \in {"none", "stopping", "built", "building"}, StartBinding(e, phase)
  PROVE  /\ port' \in Parties \cup {"mpv", Nobody} /\ port' # "mpv"
         /\ pc' \in [Parties -> Phases] /\ bind' \in [Parties -> BindPhases]
         /\ Phased' /\ PortIsHeld' /\ Registered' /\ DeviceInRun'
<1> USE PartiesAssumption DEF IInv, Parties, StartBinding, To, net, flags
<1>1. bind[e] = "idle" /\ ~listener[e]
  BY DEF Phased, Binding, Listening
<1>2. port' \in Parties \cup {"mpv", Nobody} /\ port' # "mpv"
  BY DEF TypeOK
<1>3. pc' \in [Parties -> Phases] /\ bind' \in [Parties -> BindPhases]
  BY DEF TypeOK, Phases, BindPhases, ReporterPhases
<1>4. /\ pc'[e] = phase /\ bind'[e] = "first"
      /\ \A x \in Parties : x # e => pc'[x] = pc[x] /\ bind'[x] = bind[x]
  BY DEF TypeOK
<1>5. Phased'
  <2>1. pc'[Cli] \in CliPhases /\ \A f \in Engines : pc'[f] \in EnginePhases
    BY <1>4 DEF Phased, EnginePhases, ReporterPhases
  <2>2. ASSUME NEW x \in Parties
        PROVE  (bind'[x] # "idle" => pc'[x] \in Binding) /\ (listener'[x] => pc'[x] \in Listening)
    <3>1. CASE x = e
      BY <1>1, <1>4, <3>1 DEF Binding
    <3>2. CASE x # e
      BY <1>4, <3>2 DEF Phased
    <3> QED BY <3>1, <3>2
  <2> QED BY <2>1, <2>2 DEF Phased
<1>6. PortIsHeld'
  BY <1>1, <1>4 DEF PortIsHeld
<1>7. Registered' /\ DeviceInRun'
  BY <1>4 DEF Registered, DeviceInRun
<1> QED BY <1>2, <1>3, <1>5, <1>6, <1>7

\* Only the phases of mpv's places change, and none of them enters a creation.
LEMMA OneCreateKeeps ==
  ASSUME IInv, \A e \in Engines : pc'[e] \in Creating => pc[e] \in Creating
  PROVE  OneCreate'
BY DEF IInv, OneCreate

\* When the player is free, one creation begins.
LEMMA OneCreateBegins ==
  ASSUME IInv, PlayerFree, NEW e \in Engines,
         \A f \in Engines \ {e} : pc'[f] \in Creating => pc[f] \in Creating
  PROVE  OneCreate'
<1>1. \A f \in Engines : pc[f] \notin Creating
  BY DEF PlayerFree, Creating, ReporterPhases
<1> QED BY <1>1 DEF OneCreate

-----------------------------------------------------------------------------
(* One lemma per action.                                                     *)

\* One step of bind_rx_socket: the party takes the port when nobody has it, or
\* goes on without it.
LEMMA BindStep ==
  ASSUME IInv, NEW x \in Parties, BindRxSocket(x)
  PROVE  /\ bind[x] \notin {"idle", "bound", "refused"}
         /\ \E phase \in BindPhases \ {"idle"} :
              /\ bind' = [bind EXCEPT ![x] = phase]
              /\ phase = "bound" =>
                   port = Nobody /\ port' = IF pc[x] = "negotiating" THEN "mpv" ELSE x
              /\ phase # "bound" => port' = port
         /\ stop' \in [Parties -> BOOLEAN] /\ inbox' \subseteq Engines
         /\ x # Cli => stop'[Cli] = stop[Cli]
         /\ UNCHANGED BindRest
<1> USE PartiesAssumption DEF To, BindPhases
<1>0. inbox \subseteq Engines /\ stop \in [Parties -> BOOLEAN]
  BY DEF IInv, TypeOK
<1>1. CASE BindSucceeds(x)
  BY <1>0, <1>1 DEF BindSucceeds, BindRest
<1>2. SendYieldRequest(x) => inbox' \subseteq Engines
  BY <1>0 DEF SendYieldRequest, Parties
<1>3. CASE FirstBindFails(x)
  <2> DEFINE holder == release[Process(x)]
  <2>1. bind[x] = "first" /\ port' = port /\ UNCHANGED BindRest
    BY <1>3 DEF FirstBindFails
  <2>2. CASE holder # Nobody
    <3>1. stop' = [stop EXCEPT ![holder] = TRUE] /\ bind' = [bind EXCEPT ![x] = "local"]
          /\ UNCHANGED inbox
      BY <1>3, <2>2 DEF FirstBindFails
    <3>2. /\ stop' \in [Parties -> BOOLEAN] /\ inbox' \subseteq Engines
          /\ x # Cli => stop'[Cli] = stop[Cli]
      BY <1>0, <3>1 DEF IInv, TypeOK, Process, Parties
    <3>3. "local" \in BindPhases \ {"idle"}
      OBVIOUS
    <3> HIDE DEF BindPhases
    <3> QED BY <2>1, <3>1, <3>2, <3>3
  <2>3. CASE holder = Nobody
    <3>1. SendYieldRequest(x) /\ bind' = [bind EXCEPT ![x] = "asking"] /\ UNCHANGED stop
      BY <1>3, <2>3 DEF FirstBindFails
    <3>2. /\ stop' \in [Parties -> BOOLEAN] /\ inbox' \subseteq Engines
          /\ x # Cli => stop'[Cli] = stop[Cli]
      BY <1>0, <1>2, <3>1
    <3>3. "asking" \in BindPhases \ {"idle"}
      OBVIOUS
    <3> HIDE DEF BindPhases
    <3> QED BY <2>1, <3>1, <3>2, <3>3
  <2> QED BY <2>2, <2>3
<1>4. CASE LocalGraceEnds(x) \/ AskAgain(x)
  BY <1>0, <1>2, <1>4 DEF LocalGraceEnds, AskAgain
<1>5. CASE NoReply(x) \/ GiveUp(x) \/ FirstBindIsLast(x)
  BY <1>0, <1>5 DEF NoReply, GiveUp, FirstBindIsLast
<1> QED BY <1>1, <1>3, <1>4, <1>5 DEF BindRxSocket

LEMMA BindKeeps ==
  ASSUME IInv, NEW x \in Parties, BindRxSocket(x)
  PROVE  IInv'
<1> USE DEF BindRest, flags, files, drops
<1>1. PICK phase \in BindPhases \ {"idle"} :
        /\ bind' = [bind EXCEPT ![x] = phase]
        /\ phase = "bound" =>
             port = Nobody /\ port' = IF pc[x] = "negotiating" THEN "mpv" ELSE x
        /\ phase # "bound" => port' = port
  BY BindStep
<1>2. /\ bind[x] \notin {"idle", "bound", "refused"}
      /\ stop' \in [Parties -> BOOLEAN] /\ inbox' \subseteq Engines /\ UNCHANGED BindRest
      /\ x # Cli => stop'[Cli] = stop[Cli]
  BY BindStep
<1>3. TypeOK'
  <2>1. bind' \in [Parties -> BindPhases]
    BY <1>1 DEF IInv, TypeOK
  <2>2. port' \in Parties \cup {"mpv", Nobody}
    BY <1>1 DEF IInv, TypeOK
  <2> QED BY <1>2, <2>1, <2>2 DEF IInv, TypeOK
<1>4. /\ bind'[x] = phase
      /\ \A y \in Parties : y # x => bind'[y] = bind[y]
  BY <1>1 DEF IInv, TypeOK
<1>5. ~listener[x] /\ pc[x] \in Binding
  BY <1>2 DEF IInv, Phased, Binding, Listening
<1>6. Phased'
  BY <1>2, <1>4, <1>5 DEF IInv, Phased
<1>7. PortIsHeld'
  <2>1. CASE phase = "bound"
    BY <1>1, <1>2, <1>4, <1>5, <2>1, PartiesAssumption DEF IInv, PortIsHeld, Parties
  <2>2. CASE phase # "bound"
    BY <1>1, <1>2, <1>4, <1>5, <2>2 DEF IInv, PortIsHeld
  <2> QED BY <2>1, <2>2
<1>8. OneCreate' /\ Registered' /\ DeviceInRun'
  BY <1>2 DEF IInv, OneCreate, Registered, DeviceInRun
<1>9. YieldedEditsArrive'
  <2> SUFFICES ASSUME NEW e \in Engines, pc[e] = "built", port' = "mpv"
               PROVE  promised \in {Nobody, live[e]}
    BY <1>2 DEF YieldedEditsArrive
  <2>1. CASE port = "mpv"
    BY <2>1 DEF IInv, YieldedEditsArrive
  <2>2. CASE port # "mpv"
    \* The reservation would be taken in a second creation.
    <3>1. x # "mpv" /\ pc[x] = "negotiating"
      BY <1>1, <2>2, PartiesAssumption DEF Parties
    <3>2. x \in Engines
      BY <3>1, PartiesAssumption DEF IInv, Phased, CliPhases, Parties
    <3>3. x = e
      BY <3>1, <3>2 DEF IInv, OneCreate, Creating
    <3> QED BY <3>1, <3>3
  <2> QED BY <2>1, <2>2
<1>10. PromiseKept'
  <2>1. Owes => Owes'
    \* A renderer that owes is not inside bind_rx_socket itself.
    <3> SUFFICES ASSUME Owes PROVE Owes'
      OBVIOUS
    <3>1. x # Cli
      BY <1>5 DEF Owes, Binding
    <3>2. port' = port
      BY <1>1, PartiesAssumption DEF Owes, KeepsPort
    <3> QED BY <1>2, <3>1, <3>2 DEF Owes, KeepsPort
  <2> QED BY <1>2, <2>1 DEF IInv, PromiseKept, OverlayAfter
<1> QED BY <1>3, <1>6, <1>7, <1>8, <1>9, <1>10 DEF IInv

\* The device is opened by a renderer that runs.
LEMMA PlayFrameKeeps ==
  ASSUME IInv, PlayFrame
  PROVE  IInv'
<1> USE PartiesAssumption, PortsAssumption, SettingsAssumption
    DEF IInv, Parties, PlayFrame,
        net, flags, drops, files
<1>1. TypeOK' /\ Phased'
  BY DEF TypeOK, Phased
<1>2. /\ PortIsHeld' /\ OneCreate' /\ Registered' /\ DeviceInRun'
      /\ PromiseKept' /\ YieldedEditsArrive'
  BY DEF PortIsHeld, OneCreate, Registered, DeviceInRun, PromiseKept, YieldedEditsArrive,
     OverlayAfter, Owes, KeepsPort, TypeOK, Creating
<1> QED BY <1>1, <1>2 DEF IInv

LEMMA BeginStandbyKeeps ==
  ASSUME IInv, BeginStandby
  PROVE  IInv'
<1> USE PartiesAssumption, PortsAssumption, SettingsAssumption
    DEF IInv, Parties, BeginStandby, AudioReleased,
        net, flags, drops, files
<1>1. TypeOK'
  BY DEF TypeOK, Phases
<1>2. Phased'
  BY DEF Phased, CliPhases, Binding, Listening, TypeOK
<1>3. PortIsHeld'
  BY DEF PortIsHeld, TypeOK, Phased, CliPhases
<1>4. OneCreate' /\ Registered' /\ DeviceInRun' /\ PromiseKept' /\ YieldedEditsArrive'
  BY DEF OneCreate, Registered, DeviceInRun, PromiseKept, YieldedEditsArrive, OverlayAfter,
     Owes, KeepsPort, TypeOK, Creating
<1> QED BY <1>1, <1>2, <1>3, <1>4 DEF IInv

\* The sidecar is written before the port is let go, and again after a refused resume.
LEMMA EnterStandbyKeeps ==
  ASSUME IInv, EnterStandby
  PROVE  IInv'
<1> USE PartiesAssumption, PortsAssumption, SettingsAssumption
    DEF IInv, Parties, EnterStandby, SidecarAtStandby,
        net, flags, drops, files
<1>1. /\ sidecar' \in Unsaved /\ overlay' \in Unsaved /\ promised' \in Unsaved
      /\ promised' # Nobody => port = Cli \/ promised' = promised
      /\ promised' # Nobody =>
           promised' = OverlayAfter' \/ (Cli # Cli /\ Owes /\ promised' = live[Cli])
  BY HandOverPromises
<1>2. TypeOK'
  BY <1>1 DEF TypeOK, Phases
<1>3. Phased'
  BY DEF Phased, TypeOK, CliPhases, Binding, Listening
<1>4. PortIsHeld' /\ OneCreate' /\ Registered' /\ DeviceInRun'
  BY DEF PortIsHeld, OneCreate, Registered, DeviceInRun, TypeOK, Phased, CliPhases
<1>5. PromiseKept'
  BY <1>1 DEF PromiseKept
<1>6. YieldedEditsArrive'
  BY <1>1 DEF YieldedEditsArrive, TypeOK
<1> QED BY <1>1, <1>2, <1>3, <1>4, <1>5, <1>6 DEF IInv

LEMMA StandByKeeps ==
  ASSUME IInv, StandBy
  PROVE  IInv'
<1> USE PartiesAssumption, PortsAssumption, SettingsAssumption
    DEF IInv, Parties, StandBy,
        net, flags, drops, files
<1>1. TypeOK'
  BY DEF TypeOK, Phases, Sockets, NoSocket
<1>2. Phased'
  BY DEF Phased, TypeOK, CliPhases, Binding
<1>3. PortIsHeld'
  BY DEF PortIsHeld, TypeOK, Phased, CliPhases
<1>4. OneCreate' /\ Registered' /\ DeviceInRun' /\ PromiseKept' /\ YieldedEditsArrive'
  BY DEF OneCreate, Registered, DeviceInRun, PromiseKept, YieldedEditsArrive, OverlayAfter,
     Owes, KeepsPort, TypeOK, Creating
<1> QED BY <1>1, <1>2, <1>3, <1>4 DEF IInv

LEMMA WatchWakesKeeps ==
  ASSUME IInv, WatchWakes
  PROVE  IInv'
<1> USE PartiesAssumption, PortsAssumption, SettingsAssumption
    DEF IInv, Parties, WatchWakes,
        net, flags, drops, files
<1>1. TypeOK'
  BY DEF TypeOK, Sockets, NoSocket, NoWatch
<1>2. Phased' /\ PortIsHeld'
  BY DEF Phased, PortIsHeld
<1>3. OneCreate' /\ Registered' /\ DeviceInRun' /\ PromiseKept' /\ YieldedEditsArrive'
  BY DEF OneCreate, Registered, DeviceInRun, PromiseKept, YieldedEditsArrive, OverlayAfter,
     Owes, KeepsPort, TypeOK, Creating
<1> QED BY <1>1, <1>2, <1>3 DEF IInv

LEMMA ResumeKeeps ==
  ASSUME IInv, Resume
  PROVE  IInv'
<1> USE PartiesAssumption, PortsAssumption, SettingsAssumption
    DEF IInv, Parties, Resume, To,
        net, flags, drops, files
<1>1. TypeOK'
  BY DEF TypeOK, Phases, BindPhases, Sockets, NoSocket, NoWatch
<1>2. Phased'
  BY DEF Phased, TypeOK, CliPhases, Binding, Listening
<1>3. PortIsHeld'
  BY DEF PortIsHeld, TypeOK, Phased, Binding, CliPhases
<1>4. OneCreate' /\ Registered' /\ DeviceInRun' /\ PromiseKept' /\ YieldedEditsArrive'
  BY DEF OneCreate, Registered, DeviceInRun, PromiseKept, YieldedEditsArrive, OverlayAfter,
     Owes, KeepsPort, TypeOK, Creating
<1> QED BY <1>1, <1>2, <1>3, <1>4 DEF IInv

\* The socket in hand becomes the listener's.
LEMMA ResumedKeeps ==
  ASSUME IInv, Resumed
  PROVE  IInv'
<1> USE PartiesAssumption, PortsAssumption, SettingsAssumption
    DEF IInv, Parties, Resumed, To,
        Listen, Process,
        net, flags, drops, files
<1>1. TypeOK'
  BY DEF TypeOK, Phases, BindPhases
<1>2. Phased'
  BY DEF Phased, TypeOK, CliPhases, Listening
<1>3. PortIsHeld'
  BY DEF PortIsHeld, TypeOK
<1>4. DeviceInRun'
  BY DEF DeviceInRun, TypeOK
<1>5. Registered'
  BY DEF Registered, TypeOK
<1>6. OneCreate' /\ PromiseKept' /\ YieldedEditsArrive'
  BY DEF OneCreate, PromiseKept, OverlayAfter, Owes, KeepsPort, YieldedEditsArrive
<1> QED BY <1>1, <1>2, <1>3, <1>4, <1>5, <1>6 DEF IInv

LEMMA ResumeRefusedKeeps ==
  ASSUME IInv, ResumeRefused
  PROVE  IInv'
<1> USE PartiesAssumption, PortsAssumption, SettingsAssumption
    DEF IInv, Parties, ResumeRefused,
        To, PhaseAfterRefusal,
        net, flags, drops, files
<1>1. TypeOK'
  BY DEF TypeOK, Phases, BindPhases
<1>2. Phased'
  BY DEF Phased, TypeOK, CliPhases, Listening
<1>3. PortIsHeld'
  BY DEF PortIsHeld, TypeOK, Phased, CliPhases
<1>4. OneCreate' /\ Registered' /\ DeviceInRun' /\ PromiseKept' /\ YieldedEditsArrive'
  BY DEF OneCreate, Registered, DeviceInRun, PromiseKept, YieldedEditsArrive, OverlayAfter,
     Owes, KeepsPort, TypeOK, Creating
<1> QED BY <1>1, <1>2, <1>3, <1>4 DEF IInv

\* The port goes with the listener that had it.
LEMMA ListenerExitsKeeps ==
  ASSUME IInv, NEW x \in Parties, ListenerExits(x)
  PROVE  IInv'
<1> USE PartiesAssumption, PortsAssumption, SettingsAssumption
    DEF IInv, Parties, ListenerExits,
        net, flags, drops, files
<1>1. PortIsHeld'
  BY DEF PortIsHeld, TypeOK, Phased, Binding, Listening
<1>2. TypeOK'
  BY DEF TypeOK
<1>3. Phased'
  BY DEF Phased, TypeOK
<1>4. Registered'
  BY DEF Registered, TypeOK
<1>5. PromiseKept'
  BY DEF PromiseKept, OverlayAfter, Owes, KeepsPort, PortIsHeld
<1>6. OneCreate' /\ DeviceInRun' /\ YieldedEditsArrive'
  BY DEF OneCreate, DeviceInRun, YieldedEditsArrive, Creating
<1> QED BY <1>1, <1>2, <1>3, <1>4, <1>5, <1>6 DEF IInv

\* An answer counts only for a requester that still waits.
LEMMA HandleYieldKeeps ==
  ASSUME IInv, NEW x \in Engines, HandleYield(x)
  PROVE  IInv'
<1> USE PartiesAssumption, PortsAssumption, SettingsAssumption
    DEF IInv, Parties, HandleYield, To,
        net, flags, drops, files
<1>1. TypeOK'
  BY DEF TypeOK, BindPhases, Sockets
<1>2. Phased'
  BY DEF Phased, TypeOK
<1>3. PortIsHeld'
  BY DEF PortIsHeld, TypeOK
<1>4. OneCreate' /\ Registered' /\ DeviceInRun' /\ PromiseKept' /\ YieldedEditsArrive'
  BY DEF OneCreate, Registered, DeviceInRun, PromiseKept, YieldedEditsArrive, OverlayAfter,
     Owes, KeepsPort, TypeOK, Creating
<1> QED BY <1>1, <1>2, <1>3, <1>4 DEF IInv

\* An engine that is only built has no listener yet.
LEMMA EditKeeps ==
  ASSUME IInv, NEW x \in Parties, NEW settings \in Settings, Edit(x, settings)
  PROVE  IInv'
<1> USE PartiesAssumption, PortsAssumption, SettingsAssumption
    DEF IInv, Parties, Edit,
        net, flags, drops, files
<1>1. TypeOK'
  BY DEF TypeOK, Unsaved
<1>2. YieldedEditsArrive'
  BY DEF YieldedEditsArrive, Owes, KeepsPort, TypeOK, Phased, Listening
<1>3. Phased' /\ PortIsHeld'
  BY DEF Phased, PortIsHeld
<1>4. OneCreate' /\ Registered' /\ DeviceInRun' /\ PromiseKept'
  BY DEF OneCreate, Registered, DeviceInRun, PromiseKept, OverlayAfter, Owes, KeepsPort,
     TypeOK, Creating
<1> QED BY <1>1, <1>2, <1>3, <1>4 DEF IInv

\* What only the file would have brought is promised no more.
LEMMA SidecarSpoilsKeeps ==
  ASSUME IInv, SidecarSpoils
  PROVE  IInv'
<1> USE PartiesAssumption, PortsAssumption, SettingsAssumption
    DEF IInv, Parties, SidecarSpoils,
        net, flags, drops, files
<1>1. TypeOK'
  BY DEF TypeOK, Unsaved
<1>2. Phased' /\ PortIsHeld'
  BY DEF Phased, PortIsHeld
<1>3. OneCreate' /\ Registered' /\ DeviceInRun'
  BY DEF OneCreate, Registered, DeviceInRun, Creating
<1>4. PromiseKept' /\ YieldedEditsArrive'
  BY DEF PromiseKept, OverlayAfter, Owes, KeepsPort, YieldedEditsArrive
<1> QED BY <1>1, <1>2, <1>3, <1>4 DEF IInv

LEMMA CreateKeeps ==
  ASSUME IInv, NEW e \in Engines, Create(e)
  PROVE  IInv'
<1> USE PartiesAssumption, PortsAssumption, SettingsAssumption
    DEF IInv, Parties, Create,
        net, flags, drops, files
<1>1. /\ port' \in Parties \cup {"mpv", Nobody} /\ port' # "mpv"
      /\ pc' \in [Parties -> Phases] /\ bind' \in [Parties -> BindPhases]
      /\ Phased' /\ PortIsHeld' /\ Registered' /\ DeviceInRun'
  BY StartBindingHolds
<1>2. sidecar' \in Unsaved /\ overlay' \in Unsaved /\ OverlayAfter' = OverlayAfter
  BY LoadBrings
<1>3. TypeOK'
  BY <1>1, <1>2 DEF TypeOK, StartBinding
<1>4. OneCreate'
  BY OneCreateBegins DEF StartBinding, TypeOK
<1>5. PromiseKept' /\ YieldedEditsArrive'
  BY <1>1, <1>2 DEF PromiseKept, Owes, KeepsPort, YieldedEditsArrive, StartBinding
<1>6. Phased' /\ PortIsHeld' /\ Registered' /\ DeviceInRun'
  BY <1>1
<1> QED BY <1>1, <1>2, <1>3, <1>4, <1>5, <1>6 DEF IInv

LEMMA CreateStopsReporterKeeps ==
  ASSUME IInv, NEW e \in Engines, NEW r \in Engines, CreateStopsReporter(e, r)
  PROVE  IInv'
<1> USE PartiesAssumption, PortsAssumption, SettingsAssumption
    DEF IInv, Parties, CreateStopsReporter,
        net, flags, drops, files
<1>1. /\ owners' \subseteq Engines /\ target' \in Ports \cup {Nobody}
      /\ resumeSocket' \in Sockets /\ watch' \in [on : BOOLEAN, socket : Sockets]
  BY BeginDropTypes
<1>2. sidecar' \in Unsaved /\ overlay' \in Unsaved /\ OverlayAfter' = OverlayAfter
  BY LoadBrings
<1>3. /\ e # r /\ pc'[e] = "stopping" /\ pc'[r] = "dropping"
      /\ \A x \in Parties \ {e, r} : pc'[x] = pc[x]
  BY DEF TypeOK
<1>4. TypeOK'
  <2>1. pc' \in [Parties -> Phases]
    BY DEF TypeOK, Phases
  <2> QED BY <1>1, <1>2, <2>1 DEF TypeOK, BeginDrop
<1>5. Phased'
  BY <1>3 DEF Phased, BeginDrop, EnginePhases, Binding, Listening
<1>6. PortIsHeld'
  BY <1>3 DEF PortIsHeld, BeginDrop, Phased, Binding
<1>7. OneCreate'
  BY <1>3, OneCreateBegins DEF Creating
<1>8. Registered' /\ DeviceInRun'
  BY <1>3 DEF Registered, DeviceInRun, BeginDrop
<1>9. PromiseKept' /\ YieldedEditsArrive'
  BY <1>2, <1>3 DEF PromiseKept, Owes, KeepsPort, YieldedEditsArrive, BeginDrop
<1> QED BY <1>1, <1>2, <1>3, <1>4, <1>5, <1>6, <1>7, <1>8, <1>9 DEF IInv

LEMMA NegotiateKeeps ==
  ASSUME IInv, NEW e \in Engines, Negotiate(e)
  PROVE  IInv'
<1> USE PartiesAssumption, PortsAssumption, SettingsAssumption
    DEF IInv, Parties, Negotiate,
        net, flags, drops, files
<1>1. /\ port' \in Parties \cup {"mpv", Nobody} /\ port' # "mpv"
      /\ pc' \in [Parties -> Phases] /\ bind' \in [Parties -> BindPhases]
      /\ Phased' /\ PortIsHeld' /\ Registered' /\ DeviceInRun'
  BY StartBindingHolds
<1>2. TypeOK'
  BY <1>1 DEF TypeOK, StartBinding
<1>3. OneCreate'
  BY OneCreateKeeps DEF StartBinding, TypeOK, Creating
<1>4. PromiseKept' /\ YieldedEditsArrive'
  BY <1>1 DEF PromiseKept, OverlayAfter, Owes, KeepsPort, YieldedEditsArrive, StartBinding
<1>5. Phased' /\ PortIsHeld' /\ Registered' /\ DeviceInRun'
  BY <1>1
<1> QED BY <1>1, <1>2, <1>3, <1>4, <1>5 DEF IInv

LEMMA EnableOscKeeps ==
  ASSUME IInv, NEW e \in Engines, EnableOsc(e)
  PROVE  IInv'
<1> USE PartiesAssumption, PortsAssumption, SettingsAssumption
    DEF IInv, Parties, EnableOsc,
        net, flags, drops, files
<1>1. /\ port' \in Parties \cup {"mpv", Nobody} /\ port' # "mpv"
      /\ pc' \in [Parties -> Phases] /\ bind' \in [Parties -> BindPhases]
      /\ Phased' /\ PortIsHeld' /\ Registered' /\ DeviceInRun'
  BY StartBindingHolds
<1>2. TypeOK'
  BY <1>1 DEF TypeOK, StartBinding
<1>3. OneCreate'
  BY OneCreateKeeps DEF StartBinding, TypeOK, Creating
<1>4. PromiseKept' /\ YieldedEditsArrive'
  BY <1>1 DEF PromiseKept, OverlayAfter, Owes, KeepsPort, YieldedEditsArrive, StartBinding
<1>5. Phased' /\ PortIsHeld' /\ Registered' /\ DeviceInRun'
  BY <1>1
<1> QED BY <1>1, <1>2, <1>3, <1>4, <1>5 DEF IInv

LEMMA ReporterBindsKeeps ==
  ASSUME IInv, NEW e \in Engines, ReporterBinds(e)
  PROVE  IInv'
<1> USE PartiesAssumption, PortsAssumption, SettingsAssumption
    DEF IInv, Parties, ReporterBinds,
        net, flags, drops, files
<1>1. /\ port' \in Parties \cup {"mpv", Nobody} /\ port' # "mpv"
      /\ pc' \in [Parties -> Phases] /\ bind' \in [Parties -> BindPhases]
      /\ Phased' /\ PortIsHeld' /\ Registered' /\ DeviceInRun'
  BY StartBindingHolds
<1>2. TypeOK'
  BY <1>1 DEF TypeOK, StartBinding
<1>3. OneCreate'
  BY OneCreateKeeps DEF StartBinding, TypeOK, Creating
<1>4. PromiseKept' /\ YieldedEditsArrive'
  BY <1>1 DEF PromiseKept, OverlayAfter, Owes, KeepsPort, YieldedEditsArrive, StartBinding
<1>5. Phased' /\ PortIsHeld' /\ Registered' /\ DeviceInRun'
  BY <1>1
<1> QED BY <1>1, <1>2, <1>3, <1>4, <1>5 DEF IInv

\* The configuration is read: what is promised is in the engine's settings.
LEMMA FromPathsKeeps ==
  ASSUME IInv, NEW e \in Engines, FromPaths(e)
  PROVE  IInv'
<1> USE PartiesAssumption, PortsAssumption, SettingsAssumption
    DEF IInv, Parties, FromPaths,
        PortSettled, To,
        net, flags, drops, files
<1>1. OverlayAfter \in Unsaved /\ sidecar' \in Unsaved /\ overlay' \in Unsaved
      /\ OverlayAfter' = OverlayAfter
  BY LoadBrings
<1>2. TypeOK'
  <2>1. pc' \in [Parties -> Phases] /\ bind' \in [Parties -> BindPhases]
    BY DEF TypeOK, Phases, BindPhases
  <2>2. live' \in [Parties -> Unsaved]
    BY <1>1 DEF TypeOK
  <2> QED BY <1>1, <2>1, <2>2 DEF TypeOK
<1>3. Phased'
  BY DEF Phased, TypeOK, EnginePhases, Binding, Listening
<1>4. PortIsHeld'
  BY DEF PortIsHeld, TypeOK, Phased, Listening
<1>5. OneCreate'
  BY OneCreateKeeps DEF TypeOK, Creating
<1>6. PromiseKept'
  BY <1>1 DEF PromiseKept, Owes, KeepsPort, TypeOK
<1>7. YieldedEditsArrive'
  BY DEF YieldedEditsArrive, TypeOK, PromiseKept, Owes, KeepsPort
<1>8. Registered' /\ DeviceInRun'
  BY DEF Registered, DeviceInRun, TypeOK
<1> QED BY <1>1, <1>2, <1>3, <1>4, <1>5, <1>6, <1>7, <1>8 DEF IInv

\* A failed creation takes the file along, into what the process has consumed.
LEMMA CreateFailsKeeps ==
  ASSUME IInv, NEW e \in Engines, CreateFails(e)
  PROVE  IInv'
<1> USE PartiesAssumption, PortsAssumption, SettingsAssumption
    DEF IInv, Parties, CreateFails,
        PortSettled, To,
        net, flags, drops, files
<1>1. sidecar' \in Unsaved /\ overlay' \in Unsaved /\ OverlayAfter' = OverlayAfter
  BY LoadBrings
<1>2. pc[e] \in {"negotiating", "none"} /\ pc'[e] \in {"none", "building"} /\ bind'[e] = "idle"
      /\ \A x \in Parties \ {e} : pc'[x] = pc[x] /\ bind'[x] = bind[x]
  BY DEF TypeOK
<1>3. TypeOK'
  <2>1. pc' \in [Parties -> Phases] /\ bind' \in [Parties -> BindPhases]
    BY DEF TypeOK, Phases, BindPhases, ReporterPhases
  <2> QED BY <1>1, <2>1 DEF TypeOK
<1>4. Phased'
  BY <1>2 DEF Phased, EnginePhases, ReporterPhases, Listening
<1>5. PortIsHeld'
  BY <1>2 DEF PortIsHeld, Phased, Listening, Binding
<1>6. OneCreate'
  BY <1>2, OneCreateKeeps DEF Creating
<1>7. Registered' /\ DeviceInRun'
  BY <1>2 DEF Registered, DeviceInRun
<1>8. PromiseKept' /\ YieldedEditsArrive'
  BY <1>1, <1>2 DEF PromiseKept, Owes, KeepsPort, YieldedEditsArrive
<1> QED BY <1>1, <1>2, <1>3, <1>4, <1>5, <1>6, <1>7, <1>8 DEF IInv

\* Another engine cannot listen then: it would have the port.
LEMMA EngineUpKeeps ==
  ASSUME IInv, NEW e \in Engines, EngineUp(e)
  PROVE  IInv'
<1> USE PartiesAssumption, PortsAssumption, SettingsAssumption
    DEF IInv, Parties, EngineUp,
        StartListener, To, Listen, Process,
        net, flags, drops, files
<1>1. pc[e] = "enabling" /\ pc'[e] = "up" /\ bind'[e] = "idle"
      /\ \A x \in Parties \ {e} : pc'[x] = pc[x] /\ bind'[x] = bind[x]
  BY DEF TypeOK
<1>2. /\ listener' \in [Parties -> BOOLEAN] /\ bound' \in [Parties -> BOOLEAN]
      /\ release' \in [{Cli, "mpv"} -> Parties \cup {Nobody}]
  <2>1. CASE bind[e] = "bound"
    <3>1. listener' \in [Parties -> BOOLEAN] /\ bound' \in [Parties -> BOOLEAN]
      BY <2>1 DEF TypeOK
    <3>2. release' = [release EXCEPT !["mpv"] = e]
      BY <2>1
    <3> QED BY <3>1, <3>2 DEF TypeOK
  <2>2. CASE bind[e] # "bound"
    BY <2>2 DEF TypeOK
  <2> QED BY <2>1, <2>2
<1>3. /\ listener'[e] <=> bind[e] = "bound"
      /\ \A x \in Parties \ {e} : listener'[x] = listener[x] /\ bound'[x] = bound[x]
  BY DEF TypeOK, Phased, Listening
<1>4. TypeOK'
  <2>1. pc' \in [Parties -> Phases] /\ bind' \in [Parties -> BindPhases]
    BY DEF TypeOK, Phases, BindPhases, ReporterPhases
  <2> QED BY <1>2, <2>1 DEF TypeOK
<1>5. Phased'
  BY <1>1, <1>3 DEF Phased, EnginePhases, ReporterPhases, Listening
<1>6. PortIsHeld'
  BY <1>1, <1>3 DEF PortIsHeld, Phased, Listening
<1>7. OneCreate'
  BY <1>1, OneCreateKeeps DEF Creating
<1>8. Registered'
  <2>1. CASE bind[e] = "bound"
    \* No other place listens: e has the port.
    <3>1. port = e /\ release'["mpv"] = e
      BY <1>1, <2>1 DEF PortIsHeld, TypeOK
    <3>2. \A f \in Engines \ {e} : ~listener[f]
      BY <3>1 DEF PortIsHeld
    <3> QED BY <1>3, <3>1, <3>2 DEF Registered
  <2>2. CASE bind[e] # "bound"
    BY <1>3, <2>2 DEF Registered
  <2> QED BY <2>1, <2>2
<1>9. DeviceInRun'
  BY <1>1, <1>3 DEF DeviceInRun
<1>10. PromiseKept' /\ YieldedEditsArrive'
  BY <1>1 DEF PromiseKept, OverlayAfter, Owes, KeepsPort, YieldedEditsArrive
<1> QED BY <1>1, <1>2, <1>3, <1>4, <1>5, <1>6, <1>7, <1>8, <1>9, <1>10 DEF IInv

LEMMA ReporterFailsKeeps ==
  ASSUME IInv, NEW e \in Engines, ReporterFails(e)
  PROVE  IInv'
<1> USE PartiesAssumption, PortsAssumption, SettingsAssumption
    DEF IInv, Parties, ReporterFails,
        net, flags, drops, files
<1>1. TypeOK'
  BY DEF TypeOK, Phases
<1>2. Phased'
  BY DEF Phased, TypeOK, EnginePhases, Binding, Listening
<1>3. PortIsHeld'
  BY DEF PortIsHeld, TypeOK
<1>4. OneCreate'
  BY OneCreateKeeps DEF TypeOK, Creating
<1>5. Registered' /\ DeviceInRun' /\ PromiseKept' /\ YieldedEditsArrive'
  BY DEF Registered, DeviceInRun, PromiseKept, YieldedEditsArrive, OverlayAfter, Owes,
     KeepsPort, TypeOK
<1> QED BY <1>1, <1>2, <1>3, <1>4, <1>5 DEF IInv

LEMMA ReporterUpKeeps ==
  ASSUME IInv, NEW e \in Engines, ReporterUp(e)
  PROVE  IInv'
<1> USE PartiesAssumption, PortsAssumption, SettingsAssumption
    DEF IInv, Parties, ReporterUp,
        StartListener, To, Listen, Process,
        net, flags, drops, files
<1>1. pc[e] = "binding" /\ pc'[e] = "reporting" /\ bind'[e] = "idle"
      /\ \A x \in Parties \ {e} : pc'[x] = pc[x] /\ bind'[x] = bind[x]
  BY DEF TypeOK
<1>2. /\ listener' \in [Parties -> BOOLEAN] /\ bound' \in [Parties -> BOOLEAN]
      /\ release' \in [{Cli, "mpv"} -> Parties \cup {Nobody}]
  <2>1. CASE bind[e] = "bound"
    <3>1. listener' \in [Parties -> BOOLEAN] /\ bound' \in [Parties -> BOOLEAN]
      BY <2>1 DEF TypeOK
    <3>2. release' = [release EXCEPT !["mpv"] = e]
      BY <2>1
    <3> QED BY <3>1, <3>2 DEF TypeOK
  <2>2. CASE bind[e] # "bound"
    BY <2>2 DEF TypeOK
  <2> QED BY <2>1, <2>2
<1>3. /\ listener'[e] <=> bind[e] = "bound"
      /\ \A x \in Parties \ {e} : listener'[x] = listener[x] /\ bound'[x] = bound[x]
  BY DEF TypeOK, Phased, Listening
<1>4. TypeOK'
  <2>1. pc' \in [Parties -> Phases] /\ bind' \in [Parties -> BindPhases]
    BY DEF TypeOK, Phases, BindPhases, ReporterPhases
  <2> QED BY <1>2, <2>1 DEF TypeOK
<1>5. Phased'
  BY <1>1, <1>3 DEF Phased, EnginePhases, ReporterPhases, Listening
<1>6. PortIsHeld'
  BY <1>1, <1>3 DEF PortIsHeld, Phased, Listening
<1>7. OneCreate'
  BY <1>1, OneCreateKeeps DEF Creating
<1>8. Registered'
  <2>1. CASE bind[e] = "bound"
    \* No other place listens: e has the port.
    <3>1. port = e /\ release'["mpv"] = e
      BY <1>1, <2>1 DEF PortIsHeld, TypeOK
    <3>2. \A f \in Engines \ {e} : ~listener[f]
      BY <3>1 DEF PortIsHeld
    <3> QED BY <1>3, <3>1, <3>2 DEF Registered
  <2>2. CASE bind[e] # "bound"
    BY <1>3, <2>2 DEF Registered
  <2> QED BY <2>1, <2>2
<1>9. DeviceInRun'
  BY <1>1, <1>3 DEF DeviceInRun
<1>10. PromiseKept' /\ YieldedEditsArrive'
  BY <1>1 DEF PromiseKept, OverlayAfter, Owes, KeepsPort, YieldedEditsArrive
<1> QED BY <1>1, <1>2, <1>3, <1>4, <1>5, <1>6, <1>7, <1>8, <1>9, <1>10 DEF IInv

LEMMA ReporterDroppedKeeps ==
  ASSUME IInv, NEW e \in Engines, ReporterDropped(e)
  PROVE  IInv'
<1> USE PartiesAssumption, PortsAssumption, SettingsAssumption
    DEF IInv, Parties, ReporterDropped,
        net, flags, drops, files
<1>1. /\ owners' \subseteq Engines /\ target' \in Ports \cup {Nobody}
      /\ resumeSocket' \in Sockets /\ watch' \in [on : BOOLEAN, socket : Sockets]
  BY BeginDropTypes
<1>2. TypeOK'
  <2>1. pc' \in [Parties -> Phases]
    BY DEF TypeOK, Phases, ReporterPhases
  <2> QED BY <1>1, <2>1 DEF TypeOK, BeginDrop
<1>3. Phased'
  BY DEF Phased, TypeOK, BeginDrop, EnginePhases, ReporterPhases, Binding, Listening
<1>4. PortIsHeld'
  BY DEF PortIsHeld, TypeOK, BeginDrop, Phased, Binding
<1>5. OneCreate'
  BY OneCreateKeeps DEF TypeOK, Creating
<1>6. Registered' /\ DeviceInRun'
  BY DEF Registered, DeviceInRun, TypeOK, BeginDrop
<1>7. PromiseKept' /\ YieldedEditsArrive'
  BY DEF PromiseKept, OverlayAfter, Owes, KeepsPort, YieldedEditsArrive, TypeOK, BeginDrop
<1> QED BY <1>1, <1>2, <1>3, <1>4, <1>5, <1>6, <1>7 DEF IInv

\* Only the registrant wakes the renderer.
LEMMA DestroyKeeps ==
  ASSUME IInv, NEW e \in Engines, Destroy(e)
  PROVE  IInv'
<1> USE PartiesAssumption, PortsAssumption, SettingsAssumption
    DEF IInv, Parties, Destroy,
        net, flags, drops, files
<1>1. /\ owners' \subseteq Engines /\ target' \in Ports \cup {Nobody}
      /\ resumeSocket' \in Sockets /\ watch' \in [on : BOOLEAN, socket : Sockets]
  BY BeginDropTypes
<1>2. TypeOK'
  <2>1. pc' \in [Parties -> Phases]
    BY DEF TypeOK, Phases, ReporterPhases
  <2> QED BY <1>1, <2>1 DEF TypeOK, BeginDrop
<1>3. Phased'
  BY DEF Phased, TypeOK, BeginDrop, EnginePhases, ReporterPhases, Binding, Listening
<1>4. PortIsHeld'
  BY DEF PortIsHeld, TypeOK, BeginDrop, Phased, Binding
<1>5. OneCreate'
  BY OneCreateKeeps DEF TypeOK, Creating
<1>6. Registered' /\ DeviceInRun'
  BY DEF Registered, DeviceInRun, TypeOK, BeginDrop
<1>7. PromiseKept' /\ YieldedEditsArrive'
  BY DEF PromiseKept, OverlayAfter, Owes, KeepsPort, YieldedEditsArrive, TypeOK, BeginDrop
<1> QED BY <1>1, <1>2, <1>3, <1>4, <1>5, <1>6, <1>7 DEF IInv

\* What the engine's own sidecar replaces is no longer promised.
LEMMA DropSidecarKeeps ==
  ASSUME IInv, NEW e \in Engines, DropSidecar(e)
  PROVE  IInv'
<1> USE PartiesAssumption, PortsAssumption, SettingsAssumption
    DEF IInv, Parties, DropSidecar,
        net, flags, drops, files
<1>1. /\ sidecar' \in Unsaved /\ overlay' \in Unsaved /\ promised' \in Unsaved
      /\ promised' # Nobody => port = e \/ promised' = promised
      /\ promised' # Nobody =>
           promised' = OverlayAfter' \/ (e # Cli /\ Owes /\ promised' = live[Cli])
  BY HandOverPromises
<1>2. TypeOK'
  <2>1. pc' \in [Parties -> Phases] /\ stop' \in [Parties -> BOOLEAN]
    BY DEF TypeOK, Phases, ReporterPhases
  <2> QED BY <1>1, <2>1 DEF TypeOK
<1>3. Phased'
  BY DEF Phased, TypeOK, EnginePhases, ReporterPhases, Binding, Listening
<1>4. PortIsHeld'
  BY DEF PortIsHeld, TypeOK, Phased, Binding
<1>5. OneCreate'
  BY OneCreateKeeps DEF TypeOK, Creating
<1>6. Registered' /\ DeviceInRun'
  BY DEF Registered, DeviceInRun, TypeOK
<1>7. PromiseKept'
  BY <1>1 DEF PromiseKept, Owes, KeepsPort, TypeOK
<1>8. YieldedEditsArrive'
  BY <1>1 DEF YieldedEditsArrive, TypeOK
<1> QED BY <1>1, <1>2, <1>3, <1>4, <1>5, <1>6, <1>7, <1>8 DEF IInv

LEMMA DroppedKeeps ==
  ASSUME IInv, NEW e \in Engines, Dropped(e)
  PROVE  IInv'
<1> USE PartiesAssumption, PortsAssumption, SettingsAssumption
    DEF IInv, Parties, Dropped,
        net, flags, drops, files
<1>1. TypeOK'
  <2>1. pc' \in [Parties -> Phases] /\ live' \in [Parties -> Unsaved]
    BY DEF TypeOK, Phases, Unsaved
  <2>2. /\ stop' \in [Parties -> BOOLEAN] /\ bound' \in [Parties -> BOOLEAN]
        /\ owners' \subseteq Engines
    BY DEF TypeOK
  <2>3. release' \in [{Cli, "mpv"} -> Parties \cup {Nobody}]
    BY DEF TypeOK
  <2> QED BY <2>1, <2>2, <2>3 DEF TypeOK
<1>2. Phased'
  BY DEF Phased, TypeOK, EnginePhases, Binding
<1>3. PortIsHeld'
  BY DEF PortIsHeld, TypeOK, Phased, Binding
<1>4. OneCreate'
  BY OneCreateKeeps DEF TypeOK, Creating
<1>5. Registered' /\ DeviceInRun'
  BY DEF Registered, DeviceInRun, TypeOK
<1>6. PromiseKept' /\ YieldedEditsArrive'
  BY DEF PromiseKept, OverlayAfter, Owes, KeepsPort, YieldedEditsArrive, TypeOK
<1> QED BY <1>1, <1>2, <1>3, <1>4, <1>5, <1>6 DEF IInv

\* Everything of the process goes at once; what it had only in memory is promised no more.
LEMMA MpvEndsKeeps ==
  ASSUME IInv, MpvEnds
  PROVE  IInv'
<1> USE PartiesAssumption, PortsAssumption, SettingsAssumption
    DEF IInv, Parties, MpvEnds,
        net, flags, drops, files
<1>1. TypeOK'
  <2>1. port' \in Parties \cup {"mpv", Nobody} /\ overlay' \in Unsaved /\ promised' \in Unsaved
    BY DEF TypeOK, Unsaved
  <2>2. pc' \in [Parties -> Phases] /\ bind' \in [Parties -> BindPhases]
    BY DEF TypeOK, Phases, BindPhases
  <2>3. /\ listener' \in [Parties -> BOOLEAN] /\ stop' \in [Parties -> BOOLEAN]
        /\ bound' \in [Parties -> BOOLEAN]
    BY DEF TypeOK
  <2>4. live' \in [Parties -> Unsaved]
    BY DEF TypeOK, Unsaved
  <2>5. release' \in [{Cli, "mpv"} -> Parties \cup {Nobody}]
    BY DEF TypeOK
  <2> QED BY <2>1, <2>2, <2>3, <2>4, <2>5 DEF TypeOK
<1>2. Phased'
  BY DEF Phased, EnginePhases
<1>3. OneCreate'
  BY DEF OneCreate, Creating
<1>4. PortIsHeld' /\ Registered' /\ DeviceInRun'
  BY DEF PortIsHeld, Registered, DeviceInRun
<1>5. PromiseKept' /\ YieldedEditsArrive'
  BY DEF PromiseKept, OverlayAfter, Owes, KeepsPort, YieldedEditsArrive
<1> QED BY <1>1, <1>2, <1>3, <1>4, <1>5 DEF IInv

-----------------------------------------------------------------------------
LEMMA StepKeeps == IInv /\ [Next]_vars => IInv'
<1> SUFFICES ASSUME IInv, [Next]_vars PROVE IInv'
  OBVIOUS
<1>1. CASE UNCHANGED vars
  <2> USE <1>1 DEF vars, net, flags, drops, files, IInv
  <2>1. TypeOK' /\ Phased' /\ PortIsHeld' /\ OneCreate'
    BY DEF TypeOK, Phased, PortIsHeld, OneCreate
  <2>2. Registered' /\ DeviceInRun' /\ PromiseKept' /\ YieldedEditsArrive'
    BY DEF Registered, DeviceInRun, PromiseKept, OverlayAfter, Owes, KeepsPort, YieldedEditsArrive
  <2> QED BY <2>1, <2>2
<1>2. ASSUME NEW x \in Parties, BindRxSocket(x) \/ ListenerExits(x) PROVE IInv'
  BY <1>2, BindKeeps, ListenerExitsKeeps
<1>3. ASSUME NEW x \in Parties, NEW settings \in Settings, Edit(x, settings) PROVE IInv'
  BY <1>3, EditKeeps
<1>4. ASSUME NEW e \in Engines, HandleYield(e) \/ Create(e) \/ CreateFails(e) \/ Destroy(e)
      PROVE  IInv'
  BY <1>4, HandleYieldKeeps, CreateKeeps, CreateFailsKeeps, DestroyKeeps
<1>5. ASSUME NEW e \in Engines, NEW r \in Engines, CreateStopsReporter(e, r) PROVE IInv'
  BY <1>5, CreateStopsReporterKeeps
<1>6. ASSUME NEW e \in Engines, EngineStep(e) PROVE IInv'
  BY <1>6, NegotiateKeeps, FromPathsKeeps, EnableOscKeeps, EngineUpKeeps, DropSidecarKeeps,
     DroppedKeeps DEF EngineStep
<1>7. ASSUME NEW e \in Engines, ReporterStep(e) PROVE IInv'
  BY <1>7, ReporterFailsKeeps, ReporterBindsKeeps, ReporterUpKeeps, ReporterDroppedKeeps
     DEF ReporterStep
<1>8. CASE CliStep
  BY <1>8, PlayFrameKeeps, BeginStandbyKeeps, EnterStandbyKeeps, StandByKeeps, ResumeKeeps,
     ResumedKeeps, ResumeRefusedKeeps DEF CliStep
<1>9. CASE WatchWakes \/ SidecarSpoils \/ MpvEnds
  BY <1>9, WatchWakesKeeps, SidecarSpoilsKeeps, MpvEndsKeeps
<1> QED BY <1>1, <1>2, <1>3, <1>4, <1>5, <1>6, <1>7, <1>8, <1>9 DEF Next

\* The inductive invariant holds in every state of every behaviour.
THEOREM Invariance == Spec => []IInv
BY InitInv, StepKeeps, PTL DEF Spec

\* The state of the hand-off keeps its type.
THEOREM TypeCorrect == Spec => []TypeOK
<1>1. IInv => TypeOK
  BY DEF IInv
<1> QED BY Invariance, <1>1, PTL

\* When mpv has the port, reserved or in an engine's hands, the command line
\* renderer has let the audio device go, unless it believes it still has the port
\* itself.
THEOREM DeviceGoesFirst == Spec => []DeviceFollowsPort
<1>1. IInv => DeviceFollowsPort
  <2> SUFFICES ASSUME IInv, port \in Engines \cup {"mpv"}, audio PROVE Deaf
    BY DEF DeviceFollowsPort
  <2>1. bound[Cli] /\ port # Cli
    BY PartiesAssumption DEF IInv, DeviceInRun
  <2> QED BY <2>1 DEF Deaf
<1> QED BY Invariance, <1>1, PTL

\* An engine built with the port has the settings of the last holder that gave it
\* up, as long as they are promised: a write that fails releases the promise, and a file
\* that spoils, a crash, or a write of a party without the port ends it.
THEOREM EditsArrive == Spec => []YieldedEditsArrive
<1>1. IInv => YieldedEditsArrive
  BY DEF IInv
<1> QED BY Invariance, <1>1, PTL

\* A renderer in standby is not woken by the drop of an engine whose successor
\* has the port: the successor listens, so no other engine is in the registry.
THEOREM TrackChangeWakesNobody == Spec => NoEarlyWake
<1> DEFINE Wakes(e) == target # Nobody /\ target' = Nobody /\ pc[e] = "up" /\ pc'[e] = "dropping"
           Quiet == \A e \in Engines :
                      Wakes(e) => \A f \in Engines \ {e} : port = f => pc[f] \in ReporterPhases
<1>1. IInv /\ [Next]_vars => [Quiet]_vars
  <2> SUFFICES ASSUME IInv, Next, NEW e \in Engines, Wakes(e),
                      NEW f \in Engines, f # e, port = f, pc[f] \notin ReporterPhases
               PROVE  FALSE
    OBVIOUS
  <2>1. Destroy(e)
    <3> USE PartiesAssumption DEF IInv, TypeOK, Parties
    <3>1. ~UNCHANGED pc
      OBVIOUS
    <3>2. ASSUME NEW x \in Parties, BindRxSocket(x) \/ ListenerExits(x) PROVE FALSE
      BY <3>1, <3>2, BindStep DEF BindRest, ListenerExits
    <3>3. ASSUME NEW x \in Parties, NEW settings \in Settings, Edit(x, settings) PROVE FALSE
      BY <3>1, <3>3 DEF Edit
    <3>4. ASSUME NEW d \in Engines, HandleYield(d) \/ Create(d) PROVE FALSE
      BY <3>1, <3>4 DEF HandleYield, Create, StartBinding
    <3>5. ASSUME NEW d \in Engines, CreateFails(d) PROVE FALSE
      BY <3>5 DEF CreateFails
    <3>6. ASSUME NEW d \in Engines, NEW r \in Engines, CreateStopsReporter(d, r) PROVE FALSE
      BY <3>6 DEF CreateStopsReporter
    <3>7. ASSUME NEW d \in Engines, EngineStep(d) PROVE FALSE
      BY <3>7 DEF EngineStep, Negotiate, FromPaths, PortSettled, EnableOsc, EngineUp,
         StartBinding, StartListener, DropSidecar, Dropped
    <3>8. ASSUME NEW d \in Engines, ReporterStep(d) PROVE FALSE
      BY <3>8 DEF ReporterStep, ReporterFails, ReporterBinds, ReporterUp, ReporterDropped,
         StartBinding, StartListener
    <3>9. ASSUME NEW d \in Engines, Destroy(d) PROVE d = e
      BY <3>9 DEF Destroy
    <3>10. CASE CliStep
      BY <3>1, <3>10 DEF CliStep, PlayFrame, BeginStandby, EnterStandby, StandBy, Resume, Resumed,
         ResumeRefused
    <3>11. CASE WatchWakes \/ SidecarSpoils \/ MpvEnds
      BY <3>1, <3>11 DEF WatchWakes, SidecarSpoils, MpvEnds
    <3> QED BY <3>2, <3>3, <3>4, <3>5, <3>6, <3>7, <3>8, <3>9, <3>10, <3>11 DEF Next
  <2>2. release["mpv"] = e
    BY <2>1, PartiesAssumption DEF Destroy, BeginDrop, StillPortOwner
  <2>3. pc[f] \in {"none", "up"}
    BY <2>1 DEF Destroy, PlayerFree
  <2>4. listener[f]
    BY <2>3 DEF IInv, PortIsHeld, Phased, Parties, Binding
  <2> QED BY <2>2, <2>4, PartiesAssumption DEF IInv, Registered
<1> QED BY Invariance, <1>1, PTL DEF Spec, NoEarlyWake
=============================================================================
