----------------------------- MODULE Supervisor -----------------------------
(***************************************************************************)
(* windows_host/src/supervisor.rs: the tray process that keeps one audio   *)
(* engine running while the listener wants it. Its one thread handles      *)
(* window messages (creation, tray commands, a half-second timer, closing) *)
(* one at a time, but two handlers block for long: a launch repairs the    *)
(* endpoint first, and a stop waits a quarter of a second for the engine.  *)
(* The engine is a process of its own, and may exit between any two steps; *)
(* so may the supervisor be killed, and started again by the listener or,  *)
(* if it is registered to autostart, by Windows. The preference for that   *)
(* is a marker file that says no, and the Run key's entry follows it.      *)
(***************************************************************************)
EXTENDS Naturals

CONSTANTS
  Engines,        \* engine processes; the name of an exited one is used again
  NoEngine,
  MaxCount,       \* where restart_count saturates
  StatusMayFail,  \* asking for a child's status may fail
  MayBeKilled,    \* the supervisor's process may be killed
  MaxFaults       \* bound on what goes wrong with the autostart preference

ASSUME SupervisorAssumption ==
  /\ NoEngine \notin Engines /\ MaxCount \in Nat
  /\ StatusMayFail \in BOOLEAN /\ MayBeKilled \in BOOLEAN
  /\ MaxFaults \in Nat

VARIABLES
  window,     \* "none", "open", or "closed" with its process
  step,       \* where the window's thread is: "idle" between two messages,
              \* "ensuring" (before it), "toggling", "launching", "launched",
              \* "stopping"
  held,       \* the child in the hands of spawn_worker or stop_worker
  after,      \* what stop_worker returns to: "idle", "launching", "destroy"
  enabled, quitting,
  child,      \* app.child, and app.stdin with it
  restart,    \* next_restart: "none", "waiting", or "due"
  count,      \* restart_count
  engine,     \* every process: "exited", "running", or told it should end:
              \* "quitting"
  lost,       \* history: the engines whose handle was dropped while they ran
  marker, entry,     \* autostart.disabled exists; the Run key has its value
  faults, unwanted   \* history: what went wrong with these two, and the starts
                     \* by Windows against the marker

app == <<enabled, quitting, child, restart, count>>
thread == <<step, held, after>>
processes == <<engine, lost>>
preference == <<marker, entry, faults, unwanted>>
vars == <<window, thread, app, processes, preference>>

Live(e) == engine[e] # "exited"
Handles == window = "open" /\ step = "idle"

Init ==
  /\ window = "none"
  /\ step = "ensuring" /\ held = NoEngine /\ after = "idle"
  /\ enabled = TRUE /\ quitting = FALSE
  /\ child = NoEngine /\ restart = "none" /\ count = 0
  /\ engine = [e \in Engines |-> "exited"] /\ lost = {}
  /\ marker = FALSE /\ entry = FALSE /\ faults = 0 /\ unwanted = 0

-----------------------------------------------------------------------------
(* What the handlers share.                                                  *)

\* saturating_add
CountAfter(n) == IF n < MaxCount THEN n + 1 ELSE n

\* schedule_restart, and poll_worker when it has lost its engine.
ScheduledMutant(wanted) == "none"
Scheduled(wanted) == IF wanted THEN "waiting" ELSE "none"

Reschedule ==
  LET wanted == enabled /\ ~quitting
  IN  /\ restart' = Scheduled(wanted)
      /\ count' = IF wanted THEN CountAfter(count) ELSE count

\* A handle dropped with the pipe: the engine reads the end of its input.
TakesEndForQuitMutant(e) == FALSE
TakesEndForQuit(e) == engine[e] = "running"

Abandoned(gone) ==
  [e \in Engines |-> IF e \in gone /\ TakesEndForQuit(e) THEN "quitting"
                     ELSE engine[e]]

GivenUp(gone) == engine' = Abandoned(gone) /\ lost' = lost \cup {e \in gone : e # NoEngine /\ Live(e)}

\* The head of stop_worker: the child is taken and sent the quit line.
BeginStop(return) ==
  /\ step' = "stopping" /\ after' = return
  /\ held' = child /\ child' = NoEngine
  /\ restart' = "none"
  /\ engine' = Abandoned({child})

-----------------------------------------------------------------------------
(* The window procedure.                                                     *)

Create ==
  /\ window = "none" /\ step = "idle"
  /\ window' = "open" /\ step' = "launching"
  /\ UNCHANGED <<held, after, app, processes, preference>>

TurnOn ==
  /\ Handles /\ ~enabled
  /\ enabled' = TRUE /\ restart' = "none"
  /\ step' = IF child = NoEngine THEN "launching" ELSE "idle"
  /\ UNCHANGED <<window, held, after, quitting, child, count, processes, preference>>

TurnOff ==
  /\ Handles /\ enabled
  /\ enabled' = FALSE
  /\ BeginStop("idle")
  /\ UNCHANGED <<window, quitting, count, lost, preference>>

RestartWorker ==
  /\ Handles /\ enabled
  /\ BeginStop("launching")
  /\ UNCHANGED <<window, enabled, quitting, count, lost, preference>>

\* Exit, or WM_CLOSE.
Shutdown ==
  /\ Handles
  /\ quitting' = TRUE /\ enabled' = FALSE
  /\ BeginStop("destroy")
  /\ UNCHANGED <<window, count, lost, preference>>

\* The timer finds that the engine has exited.
PollSeesExit ==
  /\ Handles /\ child # NoEngine /\ ~Live(child)
  /\ child' = NoEngine
  /\ Reschedule
  /\ UNCHANGED <<window, thread, enabled, quitting, processes, preference>>

\* Or cannot tell, and gives the engine up.
PollStatusFails ==
  /\ StatusMayFail
  /\ Handles /\ child # NoEngine
  /\ child' = NoEngine
  /\ GivenUp({child})
  /\ Reschedule
  /\ UNCHANGED <<window, thread, enabled, quitting, preference>>

PollRetries ==
  /\ Handles /\ child = NoEngine
  /\ enabled /\ ~quitting /\ restart = "due"
  /\ restart' = "none" /\ step' = "launching"
  /\ UNCHANGED <<window, held, after, enabled, quitting, child, count, processes, preference>>

\* The two seconds of a restart pass.
DeadlinePasses ==
  /\ window = "open" /\ restart = "waiting"
  /\ restart' = "due"
  /\ UNCHANGED <<window, thread, enabled, quitting, child, count, processes, preference>>

-----------------------------------------------------------------------------
(* The autostart preference: a registry call and a file, one after the other. *)

Fault == faults < MaxFaults /\ faults' = faults + 1

\* ensure_autostart, when the process starts.
EnsuredMutant == ~marker \/ entry
Ensured == ~marker

Ensure ==
  /\ window = "none" /\ step = "ensuring"
  /\ step' = "idle"
  /\ \/ entry' = Ensured /\ UNCHANGED faults
     \/ Fault /\ UNCHANGED entry
  /\ UNCHANGED <<window, held, after, app, processes, marker, unwanted>>

\* set_autostart, called for the opposite of what the marker says: the Run key
\* first. An entry that cannot be added is an error, one that cannot be deleted
\* is not.
ToggleAutostart ==
  /\ Handles
  /\ \/ entry' = marker /\ step' = "toggling" /\ UNCHANGED faults
     \/ Fault /\ step' = (IF marker THEN "idle" ELSE "toggling") /\ UNCHANGED entry
  /\ UNCHANGED <<window, held, after, app, processes, marker, unwanted>>

\* Then the marker is removed or written, or stays as it is.
ToggleReturns ==
  /\ step = "toggling"
  /\ step' = "idle"
  /\ \/ marker' = ~marker /\ UNCHANGED faults
     \/ Fault /\ UNCHANGED marker
  /\ UNCHANGED <<window, held, after, app, processes, entry, unwanted>>

-----------------------------------------------------------------------------
(* The rest of spawn_worker and of stop_worker.                              *)

Launch ==
  /\ step = "launching"
  /\ \E e \in Engines :
       /\ ~Live(e)
       /\ held' = e
       /\ engine' = [engine EXCEPT ![e] = "running"]
  /\ step' = "launched"
  /\ UNCHANGED <<window, after, app, lost, preference>>

LaunchFails ==
  /\ step = "launching"
  /\ step' = "idle"
  /\ Reschedule
  /\ UNCHANGED <<window, held, after, enabled, quitting, child, processes, preference>>

\* The engine is recorded; or killed, if it is not wanted after all.
Record ==
  /\ step = "launched"
  /\ step' = "idle" /\ held' = NoEngine
  /\ IF enabled /\ ~quitting
     THEN child' = held /\ restart' = "none" /\ engine' = engine
     ELSE engine' = [engine EXCEPT ![held] = "exited"] /\ UNCHANGED <<child, restart>>
  /\ UNCHANGED <<window, after, enabled, quitting, count, lost, preference>>

\* The engine has exited within the quarter of a second, or it is killed and
\* waited for.
StoppedMutant(e) == engine
Stopped(e) == IF e = NoEngine THEN engine ELSE [engine EXCEPT ![e] = "exited"]

StopReturns ==
  /\ step = "stopping"
  /\ engine' = Stopped(held) /\ held' = NoEngine
  /\ step' = IF after = "launching" THEN "launching" ELSE "idle"
  /\ window' = IF after = "destroy" THEN "closed" ELSE window
  /\ after' = "idle"
  /\ UNCHANGED <<app, lost, preference>>

\* The process is killed between any two steps; the system closes its pipes.
Killed ==
  /\ MayBeKilled /\ window # "closed"
  /\ window' = "closed"
  /\ GivenUp({child, held})
  /\ child' = NoEngine /\ held' = NoEngine
  /\ step' = "idle" /\ after' = "idle" /\ restart' = "none"
  /\ IF step \in {"ensuring", "toggling"} THEN Fault ELSE UNCHANGED faults
  /\ UNCHANGED <<enabled, quitting, count, marker, entry, unwanted>>

\* Its mutex is free again: the listener starts it anew, or Windows does at the
\* next logon.
Relaunched ==
  /\ window = "closed"
  /\ window' = "none" /\ step' = "ensuring"
  /\ enabled' = TRUE /\ quitting' = FALSE /\ count' = 0
  /\ \/ UNCHANGED unwanted
     \/ entry /\ marker /\ unwanted' = unwanted + 1
  /\ UNCHANGED <<held, after, child, restart, processes, marker, entry, faults>>

-----------------------------------------------------------------------------
(* The engine process (music_engine.rs, as far as its life goes).            *)

EngineCrashes(e) ==
  /\ engine[e] = "running"
  /\ engine' = [engine EXCEPT ![e] = "exited"] /\ lost' = lost \ {e}
  /\ UNCHANGED <<window, thread, app, preference>>

\* spawn_quit_control saw the quit line, or the end of the input; the main loop
\* looks at the flag between two blocks.
EngineQuits(e) ==
  /\ engine[e] = "quitting"
  /\ engine' = [engine EXCEPT ![e] = "exited"] /\ lost' = lost \ {e}
  /\ UNCHANGED <<window, thread, app, preference>>

Poll == PollSeesExit \/ PollStatusFails \/ PollRetries
Returns == Ensure \/ ToggleReturns \/ Launch \/ LaunchFails \/ Record \/ StopReturns
Next ==
  \/ Create \/ TurnOn \/ TurnOff \/ RestartWorker \/ Shutdown \/ ToggleAutostart
  \/ Poll \/ DeadlinePasses \/ Returns
  \/ Killed \/ Relaunched
  \/ \E e \in Engines : EngineCrashes(e) \/ EngineQuits(e)

\* The timer's message gets through between two commands of the listener, time
\* passes, a blocking call returns, an engine that saw the flag ends; and of a
\* launch tried again and again one works, which is the system's part.
Spec ==
  /\ Init /\ [][Next]_vars
  /\ SF_vars(PollSeesExit) /\ SF_vars(PollRetries) /\ WF_vars(DeadlinePasses)
  /\ WF_vars(Returns) /\ SF_vars(Launch)
  /\ \A e \in Engines : WF_vars(EngineQuits(e))

-----------------------------------------------------------------------------
\* The type invariant, with the part of it that a launch relies on: nothing is
\* recorded while a launch or a stop is under way.
TypeOK ==
  /\ window \in {"none", "open", "closed"}
  /\ step \in {"idle", "ensuring", "toggling", "launching", "launched", "stopping"}
  /\ held \in Engines \cup {NoEngine} /\ child \in Engines \cup {NoEngine}
  /\ after \in {"idle", "launching", "destroy"}
  /\ enabled \in BOOLEAN /\ quitting \in BOOLEAN
  /\ restart \in {"none", "waiting", "due"} /\ count \in 0 .. MaxCount
  /\ engine \in [Engines -> {"exited", "running", "quitting"}]
  /\ lost \subseteq Engines
  /\ step \in {"launching", "launched", "stopping"} => child = NoEngine /\ restart = "none"
  /\ marker \in BOOLEAN /\ entry \in BOOLEAN
  /\ faults \in 0 .. MaxFaults /\ unwanted \in 0 .. MaxFaults

\* "When false, there must be no audio-engine child process" (the comment on
\* AppState.enabled): once the handler that turned it off has returned, no
\* engine runs but one that had been given up before, whatever order of
\* crashes, launches, commands and ticks led there.
OffMeansNoEngine ==
  ~enabled /\ step = "idle" => \A e \in Engines : Live(e) => e \in lost

\* Of all engines at most one has not been told to end, and it is one the
\* supervisor has in its hands: two would both capture and both play, and one
\* nobody holds could never be stopped. An engine given up after a failed status
\* call, or left by a killed supervisor, is told so by the end of its input.
OneEngine ==
  \A e, f \in Engines :
    engine[e] = "running" /\ engine[f] = "running" => e = f /\ e \in {child, held}

\* No order of crashes, failed launches, commands and timer ticks loses the
\* recovery: from any moment at which sound is wanted an engine runs later, unless
\* it is turned off or the supervisor ends first.
SoundComesBack ==
  (Handles /\ enabled)
    ~> (~enabled \/ window # "open" \/ \E e \in Engines : engine[e] = "running")

\* No engine outlives the supervisor for good, however that ended.
NoEngineIsLeft ==
  window = "closed" ~> (window # "closed" \/ \A e \in Engines : ~Live(e))

\* "Autostart" off means off: Windows starts the supervisor against the marker
\* only where a registry or file call failed or the process died between the two,
\* and no more than once for each, because every start puts the entry right.
OffStaysOff == unwanted <= faults
=============================================================================
