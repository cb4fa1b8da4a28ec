---------------------------- MODULE PortHandoff ----------------------------
(***************************************************************************)
(* The hand-off of the OSC port between the command line renderer, started *)
(* with --osc-yield, and the engines embedded in mpv (osc.rs, and the      *)
(* standby loop of session_run.rs).                                        *)
(*                                                                         *)
(* An engine that finds the port busy asks its holder to yield.  The       *)
(* command line renderer then releases its audio device, hands its unsaved *)
(* settings over in a sidecar file, closes the port and waits in standby,  *)
(* with a watch thread that wakes it on a datagram from the engine that    *)
(* took the port, or when a probe finds the port free.  mpv starts the     *)
(* engine of its next track before it ends the last one; an engine that    *)
(* cannot be built leaves a degraded reporter, made by a thread of its own.*)
(* All of them share the statics of their process.  A datagram may be      *)
(* lost, a write may fail, a sidecar may grow old; mpv may crash.          *)
(*                                                                         *)
(* A thread's step between two things another thread can see is an action. *)
(* Waiting times are choices: a wait may end at any point, but a requester *)
(* gives up only after it has asked twice.                                 *)
(***************************************************************************)
EXTENDS Naturals, FiniteSets

CONSTANTS
  Engines,      \* places in the mpv process, for an engine or a degraded reporter
  Cli,          \* the command line renderer
  Ports,        \* dynamic ports for the resume socket
  Settings,     \* what a party's unsaved settings may be
  Nobody

ASSUME PartiesAssumption ==
  Cli \notin Engines /\ Nobody \notin Engines \cup {Cli, "mpv"} /\ "mpv" \notin Engines \cup {Cli}
ASSUME SettingsAssumption == Nobody \notin Settings
ASSUME PortsAssumption == Nobody \notin Ports /\ IsFiniteSet(Ports)

Parties == Engines \cup {Cli}

VARIABLES
  port,         \* who has the OSC port bound: a party, "mpv" when it is the
                \* PORT_RESERVATION of that process, or Nobody
  pc,           \* the phase of every party
  bind,         \* where it is inside bind_rx_socket
  listener,     \* its listener thread runs
  stop,         \* listener_stop, the flag that ends that thread
  bound,        \* listener_bound, what is_listening returns
  release,      \* LOCAL_RX_RELEASE of either process: whose flag it holds
  inbox,        \* the yield requests at the command line renderer's socket
  standbyRequested, resumeRequested,
  resumeSocket, \* RESUME_SOCKET
  watch,        \* the resume-watch thread and the socket it took
  audio,        \* the command line renderer has its audio device
  target,       \* RESUME_TARGET of the mpv process
  active,       \* DEGRADED_ACTIVE of the mpv process
  owners,       \* those being dropped whose still_port_owner is true
  live,         \* the unsaved settings of every party, or Nobody
  sidecar,      \* what the sidecar file would bring a reader, or Nobody
  overlay,      \* LIVE_OVERLAY of the mpv process, or Nobody
  promised      \* history: the settings that the last holder of the port to give it up
                \* hands over, until they are lost, or Nobody

net == <<inbox, resumeSocket, watch, target>>
flags == <<standbyRequested, resumeRequested>>
drops == <<active, owners>>
files == <<live, sidecar, overlay, promised>>
vars == <<port, pc, bind, listener, stop, bound, release, net, flags, audio, drops, files>>

NoSocket == [at |-> Nobody, woken |-> FALSE]
NoWatch == [on |-> FALSE, socket |-> NoSocket]

Process(x) == IF x = Cli THEN Cli ELSE "mpv"
MpvGone == port # "mpv" /\ \A e \in Engines : pc[e] = "none"

Init ==
  /\ port = Cli
  /\ pc = [x \in Parties |-> IF x = Cli THEN "run" ELSE "none"]
  /\ bind = [x \in Parties |-> "idle"]
  /\ listener = [x \in Parties |-> x = Cli]
  /\ stop = [x \in Parties |-> FALSE]
  /\ bound = [x \in Parties |-> x = Cli]
  /\ release = [p \in {Cli, "mpv"} |-> IF p = Cli THEN Cli ELSE Nobody]
  /\ inbox = {}
  /\ standbyRequested = FALSE /\ resumeRequested = FALSE
  /\ resumeSocket = NoSocket /\ watch = NoWatch
  /\ audio = FALSE
  /\ target = Nobody
  /\ active = FALSE /\ owners = {}
  /\ live = [x \in Parties |-> Nobody]
  /\ sidecar = Nobody /\ overlay = Nobody
  /\ promised = Nobody

-----------------------------------------------------------------------------
(* bind_rx_socket: one attempt, then the local holder's stop flag, then two  *)
(* requests to the holder of another process, each followed by polling.      *)

To(x, phase) == bind' = [bind EXCEPT ![x] = phase]

BindRest ==
  <<pc, listener, bound, release, resumeSocket, watch, target, flags, audio, drops, files>>

\* The request reaches the socket that is bound, or is lost. Only the command
\* line renderer's listener honours one.
SendYieldRequest(x) ==
  /\ \/ inbox' = IF port = Cli /\ x # Cli THEN inbox \cup {x} ELSE inbox
     \/ UNCHANGED inbox

BindSucceeds(x) ==
  /\ bind[x] \in {"first", "local", "polling", "pollingAgain"}
  /\ port = Nobody
  /\ port' = IF pc[x] = "negotiating" THEN "mpv" ELSE x
  /\ To(x, "bound")
  /\ UNCHANGED <<stop, inbox, BindRest>>

\* The port is in use: by its holder, or for a moment by the watch thread's probe.
FirstBindFails(x) ==
  /\ bind[x] = "first" /\ pc[x] # "binding"
  /\ port # Nobody \/ watch.on
  /\ LET holder == release[Process(x)]
     IN  IF holder # Nobody
         THEN /\ stop' = [stop EXCEPT ![holder] = TRUE]
              /\ To(x, "local")
              /\ UNCHANGED inbox
         ELSE /\ SendYieldRequest(x)
              /\ To(x, "asking")
              /\ UNCHANGED stop
  /\ UNCHANGED <<port, BindRest>>

\* A degraded reporter must not evict anybody.
FirstBindIsLast(x) ==
  /\ bind[x] = "first" /\ pc[x] = "binding"
  /\ port # Nobody \/ watch.on
  /\ To(x, "refused")
  /\ UNCHANGED <<port, stop, inbox, BindRest>>

LocalGraceEnds(x) ==
  /\ bind[x] = "local"
  /\ SendYieldRequest(x)
  /\ To(x, "asking")
  /\ UNCHANGED <<port, stop, BindRest>>

NoReply(x) ==
  /\ \/ bind[x] = "asking" /\ To(x, "polling")
     \/ bind[x] = "askingAgain" /\ To(x, "pollingAgain")
  /\ UNCHANGED <<port, stop, inbox, BindRest>>

AskAgain(x) ==
  /\ bind[x] = "polling"
  /\ port # Nobody
  /\ SendYieldRequest(x)
  /\ To(x, "askingAgain")
  /\ UNCHANGED <<port, stop, BindRest>>

GiveUp(x) ==
  /\ bind[x] = "pollingAgain"
  /\ port # Nobody
  /\ To(x, "refused")
  /\ UNCHANGED <<port, stop, inbox, BindRest>>

BindRxSocket(x) ==
  \/ BindSucceeds(x) \/ FirstBindFails(x) \/ LocalGraceEnds(x)
  \/ FirstBindIsLast(x) \/ NoReply(x) \/ AskAgain(x) \/ GiveUp(x)

-----------------------------------------------------------------------------
(* The listener threads.                                                     *)

\* The thread sees its stop flag and drops the socket with what it has queued.
ListenerExits(x) ==
  /\ listener[x] /\ stop[x]
  /\ listener' = [listener EXCEPT ![x] = FALSE]
  /\ port' = Nobody
  /\ inbox' = IF x = Cli THEN {} ELSE inbox
  /\ UNCHANGED <<pc, bind, stop, bound, release, resumeSocket, watch, target, flags, audio,
                 drops, files>>

\* The command line renderer's listener handles a yield request: it binds a
\* resume socket in the place of an earlier one, answers with its port, and
\* asks the render loop to stand by. An answer counts if it arrives while the
\* requester still waits for it.
HandleYield(x) ==
  /\ listener[Cli] /\ x \in inbox
  /\ inbox' = inbox \ {x}
  /\ standbyRequested' = TRUE
  /\ \E p \in Ports \ {resumeSocket.at, watch.socket.at} :
       /\ resumeSocket' = [at |-> p, woken |-> FALSE]
       /\ \/ /\ bind[x] \in {"asking", "askingAgain"}
             /\ target' = p
             /\ To(x, IF bind[x] = "asking" THEN "polling" ELSE "pollingAgain")
          \/ UNCHANGED <<target, bind>>
  /\ UNCHANGED <<port, pc, listener, stop, bound, release, watch, resumeRequested, audio,
                 drops, files>>

\* The command line renderer gives up a port that nothing else takes from it, and
\* owes its settings.
KeepsPort == port = Cli /\ ~stop[Cli]
Owes == pc[Cli] = "entering" /\ KeepsPort

\* An edit arrives over OSC.
Edit(x, settings) ==
  /\ listener[x]
  /\ live' = [live EXCEPT ![x] = settings]
  /\ promised' = IF x = Cli /\ Owes THEN settings ELSE promised
  /\ UNCHANGED <<port, pc, bind, listener, stop, bound, release, net, flags, audio, drops,
                 sidecar, overlay>>

-----------------------------------------------------------------------------
(* The command line renderer's loop.                                         *)

PlayFrame ==
  /\ pc[Cli] = "run" /\ ~audio
  /\ audio' = TRUE
  /\ UNCHANGED <<port, pc, bind, listener, stop, bound, release, net, flags, drops, files>>

\* run_standby_until_resume: the audio writer goes before the port does.
AudioReleasedMutant == audio
AudioReleased == FALSE
BeginStandby ==
  /\ pc[Cli] = "run" /\ standbyRequested
  /\ standbyRequested' = FALSE
  /\ audio' = AudioReleased
  /\ pc' = [pc EXCEPT ![Cli] = "entering"]
  /\ promised' = IF KeepsPort /\ live[Cli] # Nobody THEN live[Cli] ELSE promised
  /\ UNCHANGED <<port, bind, listener, stop, bound, release, net, resumeRequested, drops, live,
                 sidecar, overlay>>

\* write_live_handoff_sidecar: unsaved settings are worth a file, and a file
\* makes this process forget what it has consumed. A write may fail.
HandOver(x) ==
  \/ /\ live[x] # Nobody
     /\ sidecar' = live[x]
     /\ overlay' = IF x = Cli THEN overlay ELSE Nobody
     /\ promised' = IF port = x \/ promised = live[x] THEN live[x] ELSE Nobody
  \/ /\ live[x] # Nobody
     /\ promised' = IF x = Cli /\ Owes THEN Nobody ELSE promised
     /\ UNCHANGED <<sidecar, overlay>>
  \/ /\ live[x] = Nobody
     /\ UNCHANGED <<sidecar, overlay, promised>>

\* enter_standby up to the join of the listener: the sidecar first.
SidecarAtStandbyMutant == UNCHANGED <<sidecar, overlay, promised>>
SidecarAtStandby == HandOver(Cli)
EnterStandby ==
  /\ pc[Cli] = "entering"
  /\ SidecarAtStandby
  /\ stop' = [stop EXCEPT ![Cli] = TRUE]
  /\ pc' = [pc EXCEPT ![Cli] = "closing"]
  /\ UNCHANGED <<port, bind, listener, bound, release, net, flags, audio, drops, live>>

\* The listener is joined; the watch thread takes the resume socket.
StandBy ==
  /\ pc[Cli] = "closing" /\ ~listener[Cli]
  /\ stop' = [stop EXCEPT ![Cli] = FALSE]
  /\ bound' = [bound EXCEPT ![Cli] = FALSE]
  /\ watch' = [on |-> TRUE, socket |-> resumeSocket]
  /\ resumeSocket' = NoSocket
  /\ pc' = [pc EXCEPT ![Cli] = "standby"]
  /\ UNCHANGED <<port, bind, listener, release, inbox, target, flags, audio, drops, files>>

\* The watch thread ends with a resume request: on the datagram, or because
\* its probe bound the port, which it lets go at once.
MayWakeMutant == watch.socket.woken
MayWake == watch.socket.woken \/ port = Nobody
WatchWakes ==
  /\ watch.on /\ MayWake
  /\ resumeRequested' = TRUE
  /\ watch' = NoWatch
  /\ UNCHANGED <<port, pc, bind, listener, stop, bound, release, inbox, resumeSocket, target,
                 standbyRequested, audio, drops, files>>

\* standby_idle_until_resume takes the request; resume() joins the watch
\* thread and starts to bind the port.
Resume ==
  /\ pc[Cli] = "standby" /\ resumeRequested
  /\ resumeRequested' = FALSE
  /\ watch' = NoWatch /\ resumeSocket' = NoSocket
  /\ pc' = [pc EXCEPT ![Cli] = "resuming"]
  /\ To(Cli, "first")
  /\ UNCHANGED <<port, listener, stop, bound, release, inbox, target, standbyRequested, audio,
                 drops, files>>

\* start_listener with the socket: the thread shares the flag as it stands.
Listen(x) ==
  /\ listener' = [listener EXCEPT ![x] = TRUE]
  /\ bound' = [bound EXCEPT ![x] = TRUE]
  /\ release' = [release EXCEPT ![Process(x)] = x]
Resumed ==
  /\ pc[Cli] = "resuming" /\ bind[Cli] = "bound"
  /\ Listen(Cli)
  /\ To(Cli, "idle")
  /\ pc' = [pc EXCEPT ![Cli] = "run"]
  /\ UNCHANGED <<port, stop, net, flags, audio, drops, files>>

\* The port is still held: standby again, not a renderer without a port.
PhaseAfterRefusal == "entering"
ResumeRefused ==
  /\ pc[Cli] = "resuming" /\ bind[Cli] = "refused"
  /\ bound' = [bound EXCEPT ![Cli] = FALSE]
  /\ To(Cli, "idle")
  /\ pc' = [pc EXCEPT ![Cli] = PhaseAfterRefusal]
  /\ UNCHANGED <<port, listener, stop, release, net, flags, audio, drops, files>>

-----------------------------------------------------------------------------
(* The engines of mpv. Its player thread makes one call at a time.           *)

ReporterPhases == {"building", "binding", "reporting", "retracting", "retracted"}
PlayerFree == \A e \in Engines : pc[e] \in {"none", "up"} \cup ReporterPhases

\* load_or_default_with_live: the file first, and it goes; then what this
\* process has consumed before.
OverlayAfter == IF sidecar # Nobody THEN sidecar ELSE overlay
LoadWithLive ==
  /\ overlay' = OverlayAfter
  /\ sidecar' = Nobody

\* It does not apply a file older than its time to live, or one that a failed
\* write left in pieces: from then on the file is as good as gone.
SidecarSpoils ==
  /\ sidecar # Nobody
  /\ sidecar' = Nobody
  /\ promised' = IF promised = overlay THEN promised ELSE Nobody
  /\ UNCHANGED <<port, pc, bind, listener, stop, bound, release, net, flags, audio, drops, live,
                 overlay>>

\* Drop, first part: the registrant of the port wakes the standby.
StillPortOwnerMutant(e) == TRUE
StillPortOwner(e) == release["mpv"] = e
SendResume ==
  /\ target' = Nobody
  /\ \/ /\ target # Nobody /\ target = resumeSocket.at
        /\ resumeSocket' = [resumeSocket EXCEPT !.woken = TRUE]
        /\ UNCHANGED watch
     \/ /\ target # Nobody /\ target = watch.socket.at
        /\ watch' = [watch EXCEPT !.socket.woken = TRUE]
        /\ UNCHANGED resumeSocket
     \/ UNCHANGED <<resumeSocket, watch>>
BeginDrop(e) ==
  /\ owners' = IF StillPortOwner(e) THEN owners \cup {e} ELSE owners
  /\ IF StillPortOwner(e) THEN SendResume ELSE UNCHANGED <<target, resumeSocket, watch>>
  /\ UNCHANGED <<port, bind, listener, stop, bound, release, inbox, flags, audio>>

\* bind_rx_socket lets the reservation of its own process go before it binds.
StartBinding(e, phase) ==
  /\ port' = IF port = "mpv" THEN Nobody ELSE port
  /\ pc' = [pc EXCEPT ![e] = phase]
  /\ To(e, "first")
  /\ UNCHANGED <<listener, stop, bound, release, net, flags, audio, live, promised, owners>>

\* orender_create: a first load, then negotiate_rx_port.
Create(e) ==
  /\ PlayerFree /\ pc[e] = "none"
  /\ active => \A r \in Engines : pc[r] # "reporting"
  /\ LoadWithLive
  /\ active' = FALSE
  /\ StartBinding(e, "negotiating")

\* A degraded reporter is stopped first.
CreateStopsReporter(e, r) ==
  /\ PlayerFree /\ pc[e] = "none"
  /\ active /\ pc[r] = "reporting"
  /\ LoadWithLive
  /\ active' = FALSE
  /\ pc' = [pc EXCEPT ![e] = "stopping", ![r] = "dropping"]
  /\ BeginDrop(r)
  /\ UNCHANGED <<live, promised>>
Negotiate(e) ==
  /\ pc[e] = "stopping" /\ \A r \in Engines : pc[r] \notin {"dropping", "ending"}
  /\ StartBinding(e, "negotiating")
  /\ UNCHANGED <<active, sidecar, overlay>>

\* Engine::from_paths reads the configuration once the port is settled.
PortSettled(e) == pc[e] = "negotiating" /\ bind[e] \in {"bound", "refused"}
FromPaths(e) ==
  /\ PortSettled(e)
  /\ LoadWithLive
  /\ live' = [live EXCEPT ![e] = OverlayAfter]
  /\ pc' = [pc EXCEPT ![e] = "built"]
  /\ To(e, "idle")
  /\ UNCHANGED <<port, listener, stop, bound, release, net, flags, audio, drops, promised>>

\* It fails, or the bridge is not to be found and nothing was negotiated. The
\* caller gets NULL; a thread builds a degraded reporter unless there is one.
CreateFails(e) ==
  /\ PortSettled(e) \/ (PlayerFree /\ pc[e] = "none")
  /\ LoadWithLive
  /\ active' = TRUE
  /\ pc' = [pc EXCEPT ![e] = IF active THEN "none" ELSE "building"]
  /\ To(e, "idle")
  /\ UNCHANGED <<port, listener, stop, bound, release, net, flags, audio, owners, live, promised>>

\* enable_osc.
EnableOsc(e) ==
  /\ pc[e] = "built"
  /\ StartBinding(e, "enabling")
  /\ UNCHANGED <<active, sidecar, overlay>>

\* With the port it listens; without it, it runs all the same.
StartListener(e, from, to) ==
  /\ pc[e] = from /\ bind[e] \in {"bound", "refused"}
  /\ IF bind[e] = "bound" THEN Listen(e) ELSE UNCHANGED <<listener, bound, release>>
  /\ To(e, "idle")
  /\ pc' = [pc EXCEPT ![e] = to]
  /\ UNCHANGED <<port, stop, net, flags, audio, drops, files>>
EngineUp(e) == StartListener(e, "enabling", "up")

\* The thread of a degraded reporter: it is built or not, and binds the port.
ReporterFails(r) ==
  /\ pc[r] = "building"
  /\ active' = FALSE
  /\ pc' = [pc EXCEPT ![r] = "none"]
  /\ UNCHANGED <<port, bind, listener, stop, bound, release, net, flags, audio, owners, files>>
ReporterBinds(r) ==
  /\ pc[r] = "building"
  /\ StartBinding(r, "binding")
  /\ UNCHANGED <<active, sidecar, overlay>>
ReporterUp(r) == StartListener(r, "binding", "reporting")

\* The thread drops it when its slot was given up meanwhile, or replaces another.
ReporterDropped(r) ==
  /\ pc[r] = "reporting"
  /\ active => \E s \in Engines \ {r} : pc[s] = "reporting"
  /\ pc' = [pc EXCEPT ![r] = "retracting"]
  /\ BeginDrop(r)
  /\ UNCHANGED <<active, files>>

\* orender_destroy.
Destroy(e) ==
  /\ PlayerFree /\ pc[e] = "up"
  /\ pc' = [pc EXCEPT ![e] = "dropping"]
  /\ BeginDrop(e)
  /\ UNCHANGED <<active, files>>

\* Drop, second part: the sidecar, while the port is held, and the stop flag.
DropSidecar(e) ==
  /\ pc[e] \in {"dropping", "retracting"}
  /\ HandOver(e)
  /\ stop' = [stop EXCEPT ![e] = TRUE]
  /\ pc' = [pc EXCEPT ![e] = IF @ = "dropping" THEN "ending" ELSE "retracted"]
  /\ UNCHANGED <<port, bind, listener, bound, release, net, flags, audio, drops, live>>

\* The listener is joined and the registration given back.
Dropped(e) ==
  /\ pc[e] \in {"ending", "retracted"} /\ ~listener[e]
  /\ stop' = [stop EXCEPT ![e] = FALSE]
  /\ bound' = [bound EXCEPT ![e] = FALSE]
  /\ release' = IF e \in owners THEN [release EXCEPT !["mpv"] = Nobody] ELSE release
  /\ owners' = owners \ {e}
  /\ live' = [live EXCEPT ![e] = Nobody]
  /\ pc' = [pc EXCEPT ![e] = "none"]
  /\ UNCHANGED <<port, bind, listener, net, flags, audio, active, sidecar, overlay, promised>>

\* The mpv process ends, after its engines or in the middle of anything.
MpvEnds ==
  /\ port' = IF port \in Engines \cup {"mpv"} THEN Nobody ELSE port
  /\ pc' = [x \in Parties |-> IF x = Cli THEN pc[x] ELSE "none"]
  /\ bind' = [x \in Parties |-> IF x = Cli THEN bind[x] ELSE "idle"]
  /\ listener' = [x \in Parties |-> x = Cli /\ listener[x]]
  /\ stop' = [x \in Parties |-> x = Cli /\ stop[x]]
  /\ bound' = [x \in Parties |-> x = Cli /\ bound[x]]
  /\ release' = [release EXCEPT !["mpv"] = Nobody]
  /\ live' = [x \in Parties |-> IF x = Cli THEN live[x] ELSE Nobody]
  /\ target' = Nobody /\ active' = FALSE /\ owners' = {} /\ overlay' = Nobody
  /\ promised' = IF sidecar = Nobody THEN Nobody ELSE promised
  /\ UNCHANGED <<inbox, resumeSocket, watch, flags, audio, sidecar>>

-----------------------------------------------------------------------------
CliStep ==
  PlayFrame \/ BeginStandby \/ EnterStandby \/ StandBy \/ Resume \/ Resumed \/ ResumeRefused

EngineStep(e) ==
  \/ Negotiate(e) \/ FromPaths(e) \/ EnableOsc(e) \/ EngineUp(e) \/ DropSidecar(e) \/ Dropped(e)
ReporterStep(r) == ReporterFails(r) \/ ReporterBinds(r) \/ ReporterUp(r) \/ ReporterDropped(r)

Next ==
  \/ \E x \in Parties : BindRxSocket(x) \/ ListenerExits(x)
  \/ \E x \in Parties, settings \in Settings : Edit(x, settings)
  \/ \E e \in Engines : HandleYield(e) \/ Create(e) \/ CreateFails(e) \/ Destroy(e)
  \/ \E e, r \in Engines : CreateStopsReporter(e, r)
  \/ \E e \in Engines : EngineStep(e) \/ ReporterStep(e)
  \/ CliStep \/ WatchWakes
  \/ SidecarSpoils \/ MpvEnds

\* Every thread gets on with what it has begun: the renderer's loop, the watch
\* thread (a wait ends, so does a probe's period), the listeners, and a bind.
\* What arrives is not promised, nor is anything mpv starts or ends.
Fairness ==
  /\ WF_vars(CliStep) /\ WF_vars(WatchWakes)
  /\ WF_vars(BindRxSocket(Cli)) /\ WF_vars(ListenerExits(Cli))

Spec == Init /\ [][Next]_vars /\ Fairness

-----------------------------------------------------------------------------
Phases ==
  {"run", "entering", "closing", "standby", "resuming", "none", "stopping", "negotiating",
   "built", "enabling", "up", "dropping", "ending"} \cup ReporterPhases
BindPhases ==
  {"idle", "first", "local", "asking", "polling", "askingAgain", "pollingAgain", "bound", "refused"}
Sockets == [at : Ports \cup {Nobody}, woken : BOOLEAN]
Unsaved == Settings \cup {Nobody}

TypeOK ==
  /\ port \in Parties \cup {"mpv", Nobody}
  /\ pc \in [Parties -> Phases] /\ bind \in [Parties -> BindPhases]
  /\ listener \in [Parties -> BOOLEAN] /\ stop \in [Parties -> BOOLEAN]
  /\ bound \in [Parties -> BOOLEAN]
  /\ release \in [{Cli, "mpv"} -> Parties \cup {Nobody}] /\ release["mpv"] # Cli
  /\ inbox \subseteq Engines
  /\ standbyRequested \in BOOLEAN /\ resumeRequested \in BOOLEAN
  /\ resumeSocket \in Sockets /\ watch \in [on : BOOLEAN, socket : Sockets]
  /\ target \in Ports \cup {Nobody}
  /\ audio \in BOOLEAN /\ active \in BOOLEAN /\ owners \subseteq Engines
  /\ live \in [Parties -> Unsaved]
  /\ sidecar \in Unsaved /\ overlay \in Unsaved /\ promised \in Unsaved

\* A renderer out of standby that says it is listening has the port (the doc
\* comment of is_listening).
ListeningIsReal == (pc[Cli] = "run" /\ bound[Cli]) => port = Cli

Deaf == bound[Cli] /\ port # Cli

\* Two renderers never hold the audio device at once through a hand-off: when
\* mpv has the port, reserved for an engine it builds or in an engine's hands, the
\* command line renderer has let the device go, unless it believes it still has the
\* port itself (ListeningIsReal).
DeviceFollowsPort == port \in Engines \cup {"mpv"} /\ ~Deaf => ~audio

\* An engine that is built with the port has the settings of the last holder that
\* gave it up: the renderer owes them from the moment it begins to, and the sidecar that
\* brings them is one file that both sides write, while mpv's process has consumed
\* older ones, every creation reads the file twice, one that fails takes it along, and
\* a refused resume writes it once more. Settings whose write failed, whose file became
\* too old or unreadable, or was replaced by a party that did not have the port, are
\* promised to nobody.
YieldedEditsArrive ==
  \A e \in Engines : pc[e] = "built" /\ port = "mpv" => promised \in {Nobody, live[e]}

\* The standby is not woken while another engine of mpv has the port: mpv's
\* change of track is no release. (A degraded reporter may have it: it is the last
\* track's engine that goes then, and none takes its place.)
NoEarlyWake ==
  [][\A e \in Engines :
       (target # Nobody /\ target' = Nobody /\ pc[e] = "up" /\ pc'[e] = "dropping")
         => \A f \in Engines \ {e} : port = f => pc[f] \in ReporterPhases]_vars

\* Once mpv is gone for good, or left without engine, reporter and reserved port, the
\* renderer plays again, whatever was lost.
RendererComesBack == <>[]MpvGone => <>[](pc[Cli] = "run")
=============================================================================
