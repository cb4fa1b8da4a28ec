-------------------------- MODULE SupervisorProofs --------------------------
(***************************************************************************)
(* For every set of engine processes: there is at most one that means to   *)
(* stay and the supervisor has it, OFF means that none runs but one given  *)
(* up before, and autostart turned off comes back only after a fault.      *)
(***************************************************************************)
EXTENDS Supervisor, TLAPS

\* An engine is in the thread's hands only while a launch or a stop is under way,
\* and then none is recorded; without a window there is neither.
HandsInv ==
  /\ step \notin {"launched", "stopping"} => held = NoEngine
  /\ window # "open" => child = NoEngine /\ restart = "none" /\ step \in {"idle", "ensuring"}
  /\ step = "ensuring" => window = "none"

\* Every engine that lives is recorded, in hand, or was given up; one that was not
\* told to end is not among the last.
KeptInv ==
  \A e \in Engines :
    /\ Live(e) => e \in lost \cup {child, held}
    /\ engine[e] = "running" => e \in {child, held}

\* Nothing is recorded of what is not wanted.
OffInv == ~enabled => child = NoEngine

\* A start by Windows against the marker that is possible and has not happened:
\* between a toggle's two calls the marker is about to turn, and once Windows has
\* made the start, the supervisor is about to put the entry right.
Owed == step # "ensuring" /\ entry /\ (marker # (step = "toggling"))
AutostartInv ==
  /\ Owed => unwanted < faults
  /\ unwanted <= faults

IInv == TypeOK /\ HandsInv /\ KeptInv /\ OffInv /\ AutostartInv

-----------------------------------------------------------------------------
LEMMA InitInv == Init => IInv
<1> SUFFICES ASSUME Init PROVE IInv
  OBVIOUS
<1>1. TypeOK
  <2>1. 0 \in 0 .. MaxCount /\ 0 \in 0 .. MaxFaults
    BY SupervisorAssumption
  <2>2. engine \in [Engines -> {"exited", "running", "quitting"}] /\ lost \subseteq Engines
    BY DEF Init
  <2>3. enabled \in BOOLEAN /\ quitting \in BOOLEAN /\ marker \in BOOLEAN /\ entry \in BOOLEAN
    BY DEF Init
  <2> QED BY <2>1, <2>2, <2>3 DEF Init, TypeOK
<1>2. HandsInv /\ KeptInv /\ OffInv
  BY DEF Init, HandsInv, KeptInv, OffInv, Live
<1>3. AutostartInv
  BY DEF Init, AutostartInv, Owed
<1> QED BY <1>1, <1>2, <1>3 DEF IInv

\* An action that leaves the preference and the steps about it alone.
LEMMA PreferenceKept ==
  ASSUME IInv, UNCHANGED preference, step \notin {"ensuring", "toggling"},
         step' \notin {"ensuring", "toggling"}
  PROVE  AutostartInv'
BY DEF IInv, AutostartInv, Owed, preference

\* A process that is given up is told to end, and remembered.
LEMMA GivenUpKeeps ==
  ASSUME TypeOK, NEW gone, GivenUp(gone)
  PROVE  /\ engine' \in [Engines -> {"exited", "running", "quitting"}]
         /\ lost \subseteq lost' /\ (lost \subseteq Engines /\ gone \subseteq Engines \cup {NoEngine} => lost' \subseteq Engines)
         /\ \A e \in Engines :
              /\ engine'[e] # "exited" => engine[e] # "exited"
              /\ engine'[e] = "running" => engine[e] = "running" /\ e \notin gone
              /\ e \in gone /\ engine'[e] # "exited" => e \in lost'
BY SupervisorAssumption DEF GivenUp, Abandoned, TakesEndForQuit, Live, TypeOK

-----------------------------------------------------------------------------
(* One lemma for each group of handlers.                                     *)

\* The head of stop_worker is the same for OFF, Restart and Exit.
LEMMA BeginStopInv ==
  ASSUME IInv, TurnOff \/ RestartWorker \/ Shutdown
  PROVE  IInv'
<1>1. /\ Handles /\ step' = "stopping" /\ after' \in {"idle", "launching", "destroy"}
      /\ held' = child /\ child' = NoEngine /\ restart' = "none"
      /\ engine' = Abandoned({child})
      /\ enabled' \in BOOLEAN /\ quitting' \in BOOLEAN
      /\ UNCHANGED <<window, count, lost, preference>>
  BY DEF TurnOff, RestartWorker, Shutdown, BeginStop, IInv, TypeOK
<1>2. held = NoEngine /\ window = "open"
  BY <1>1 DEF Handles, IInv, HandsInv
<1>3. TypeOK'
  BY <1>1 DEF IInv, TypeOK, Abandoned, preference
<1>4. HandsInv' /\ OffInv'
  BY <1>1, <1>2 DEF HandsInv, OffInv
<1>5. KeptInv'
  BY <1>1, <1>2 DEF IInv, TypeOK, KeptInv, Abandoned, TakesEndForQuit, Live
<1>6. AutostartInv'
  BY <1>1, PreferenceKept DEF Handles
<1> QED BY <1>3, <1>4, <1>5, <1>6 DEF IInv

\* A handler that leaves the processes and the child alone.
LEMMA CommandInv ==
  ASSUME IInv, Create \/ TurnOn \/ DeadlinePasses
  PROVE  IInv'
<1>1. CASE Create
  <2>1. TypeOK' /\ HandsInv' /\ OffInv'
    BY <1>1 DEF Create, IInv, TypeOK, HandsInv, OffInv, app, processes, preference
  <2>2. KeptInv'
    BY <1>1 DEF Create, IInv, KeptInv, Live, app, processes
  <2>3. AutostartInv'
    BY <1>1, PreferenceKept DEF Create
  <2> QED BY <2>1, <2>2, <2>3 DEF IInv
<1>2. CASE TurnOn
  <2>1. TypeOK' /\ HandsInv' /\ OffInv'
    BY <1>2 DEF TurnOn, Handles, IInv, TypeOK, HandsInv, OffInv, processes, preference
  <2>2. KeptInv'
    BY <1>2 DEF TurnOn, IInv, KeptInv, Live, processes
  <2>3. AutostartInv'
    BY <1>2, PreferenceKept DEF TurnOn, Handles
  <2> QED BY <2>1, <2>2, <2>3 DEF IInv
<1>3. CASE DeadlinePasses
  <2>1. TypeOK' /\ HandsInv' /\ OffInv'
    BY <1>3 DEF DeadlinePasses, IInv, TypeOK, HandsInv, OffInv, thread, processes, preference
  <2>2. KeptInv' /\ AutostartInv'
    BY <1>3 DEF DeadlinePasses, IInv, KeptInv, Live, AutostartInv, Owed, thread, processes, preference
  <2> QED BY <2>1, <2>2 DEF IInv
<1> QED BY <1>1, <1>2, <1>3

LEMMA RescheduleTypes ==
  ASSUME TypeOK, Reschedule
  PROVE  restart' \in {"none", "waiting", "due"} /\ count' \in 0 .. MaxCount
BY SupervisorAssumption DEF TypeOK, Reschedule, Scheduled, CountAfter

\* The timer: the engine has exited, cannot be asked, or is to be started again.
LEMMA PollInv ==
  ASSUME IInv, Poll
  PROVE  IInv'
<1>1. CASE PollSeesExit
  <2>1. TypeOK' /\ HandsInv' /\ OffInv'
    BY <1>1, RescheduleTypes
    DEF PollSeesExit, Handles, IInv, TypeOK, HandsInv, OffInv, thread, processes, preference
  <2>2. KeptInv'
    BY <1>1 DEF PollSeesExit, IInv, KeptInv, Live, thread, processes
  <2>3. AutostartInv'
    BY <1>1, PreferenceKept DEF PollSeesExit, Handles, thread
  <2> QED BY <2>1, <2>2, <2>3 DEF IInv
<1>2. CASE PollStatusFails
  <2>. DEFINE gone == {child}
  <2>1. GivenUp(gone) /\ gone \subseteq Engines \cup {NoEngine} /\ TypeOK
    BY <1>2 DEF PollStatusFails, IInv, TypeOK
  <2>2. TypeOK' /\ HandsInv' /\ OffInv'
    BY <1>2, <2>1, RescheduleTypes, GivenUpKeeps
    DEF PollStatusFails, Handles, IInv, TypeOK, HandsInv, OffInv, thread, preference
  <2>3. KeptInv'
    BY <1>2, <2>1, GivenUpKeeps DEF PollStatusFails, IInv, KeptInv, Live, thread
  <2>4. AutostartInv'
    BY <1>2, PreferenceKept DEF PollStatusFails, Handles, thread
  <2> QED BY <2>2, <2>3, <2>4 DEF IInv
<1>3. CASE PollRetries
  <2>1. TypeOK' /\ HandsInv' /\ OffInv'
    BY <1>3 DEF PollRetries, Handles, IInv, TypeOK, HandsInv, OffInv, processes, preference
  <2>2. KeptInv'
    BY <1>3 DEF PollRetries, IInv, KeptInv, Live, processes
  <2>3. AutostartInv'
    BY <1>3, PreferenceKept DEF PollRetries, Handles
  <2> QED BY <2>1, <2>2, <2>3 DEF IInv
<1> QED BY <1>1, <1>2, <1>3 DEF Poll

\* A fault is counted before it can do harm.
LEMMA AutostartStepsInv ==
  ASSUME IInv, Ensure \/ ToggleAutostart \/ ToggleReturns
  PROVE  IInv'
<1>1. UNCHANGED <<window, held, after, app, processes, unwanted>>
  BY DEF Ensure, ToggleAutostart, ToggleReturns
<1>2. step \in {"idle", "ensuring", "toggling"} /\ step' \in {"idle", "toggling"}
  BY DEF Ensure, ToggleAutostart, ToggleReturns, Handles
<1>3. step' = "toggling" => window = "open"
  BY DEF Ensure, ToggleAutostart, ToggleReturns, Handles
<1>4. marker' \in BOOLEAN /\ entry' \in BOOLEAN /\ faults' \in 0 .. MaxFaults
  <2>1. marker' \in BOOLEAN /\ entry' \in BOOLEAN
    BY DEF Ensure, Ensured, ToggleAutostart, ToggleReturns, IInv, TypeOK
  <2>2. faults' = faults \/ Fault
    BY DEF Ensure, ToggleAutostart, ToggleReturns
  <2>3. faults' \in 0 .. MaxFaults
    BY <2>2, SupervisorAssumption DEF Fault, IInv, TypeOK
  <2> QED BY <2>1, <2>3
<1>5. TypeOK'
  BY <1>1, <1>2, <1>4 DEF IInv, TypeOK, app, processes
<1>6. HandsInv' /\ OffInv'
  BY <1>1, <1>2, <1>3 DEF IInv, HandsInv, OffInv, app
<1>7. KeptInv'
  BY <1>1 DEF IInv, KeptInv, Live, app, processes
<1>8. AutostartInv'
  <2>1. faults \in Nat /\ unwanted \in Nat /\ marker \in BOOLEAN /\ entry \in BOOLEAN
    BY SupervisorAssumption DEF IInv, TypeOK
  <2>2. CASE Ensure
    <3>1. /\ step = "ensuring" /\ step' = "idle" /\ UNCHANGED <<marker, unwanted>>
          /\ (entry' = ~marker /\ faults' = faults) \/ Fault
      BY <2>2 DEF Ensure, Ensured
    <3>2. CASE entry' = ~marker /\ faults' = faults
      <4>1. ~Owed'
        <5>1. CASE marker
          BY <3>1, <3>2, <5>1 DEF Owed
        <5>2. CASE ~marker
          <6>1. marker' = FALSE /\ (step' = "toggling") = FALSE
            BY <2>1, <3>1, <5>2
          <6> QED BY <6>1 DEF Owed
        <5> QED BY <5>1, <5>2
      <4> QED BY <3>1, <3>2, <4>1 DEF IInv, AutostartInv
    <3>3. CASE Fault
      BY <2>1, <3>1, <3>3 DEF Fault, IInv, AutostartInv
    <3> QED BY <3>1, <3>2, <3>3
  <2>3. CASE ToggleAutostart
    BY <2>1, <2>3 DEF ToggleAutostart, Handles, Fault, IInv, AutostartInv, Owed
  <2>4. CASE ToggleReturns
    BY <2>1, <2>4 DEF ToggleReturns, Fault, IInv, AutostartInv, Owed
  <2> QED BY <2>2, <2>3, <2>4
<1> QED BY <1>5, <1>6, <1>7, <1>8 DEF IInv

\* The rest of a launch.
LEMMA LaunchInv ==
  ASSUME IInv, Launch \/ LaunchFails \/ Record
  PROVE  IInv'
<1>1. CASE Launch
  <2>1. PICK e \in Engines :
          ~Live(e) /\ held' = e /\ engine' = [engine EXCEPT ![e] = "running"]
    BY <1>1 DEF Launch
  <2>2. /\ step = "launching" /\ step' = "launched" /\ held = NoEngine /\ child = NoEngine
        /\ UNCHANGED <<window, after, app, lost, preference>>
    BY <1>1 DEF Launch, IInv, TypeOK, HandsInv
  <2>3. TypeOK' /\ HandsInv' /\ OffInv'
    BY <2>1, <2>2 DEF IInv, TypeOK, HandsInv, OffInv, app, preference
  <2>4. KeptInv'
    BY <2>1, <2>2, SupervisorAssumption DEF IInv, TypeOK, KeptInv, Live, app
  <2>5. AutostartInv'
    BY <2>2, PreferenceKept
  <2> QED BY <2>3, <2>4, <2>5 DEF IInv
<1>2. CASE LaunchFails
  <2>1. TypeOK' /\ HandsInv' /\ OffInv'
    BY <1>2, RescheduleTypes
    DEF LaunchFails, IInv, TypeOK, HandsInv, OffInv, processes, preference
  <2>2. KeptInv'
    BY <1>2 DEF LaunchFails, IInv, KeptInv, Live, processes
  <2>3. AutostartInv'
    BY <1>2, PreferenceKept DEF LaunchFails
  <2> QED BY <2>1, <2>2, <2>3 DEF IInv
<1>3. CASE Record
  <2>1. /\ step = "launched" /\ step' = "idle" /\ held' = NoEngine
        /\ UNCHANGED <<window, after, enabled, quitting, count, lost, preference>>
        /\ window = "open" /\ child = NoEngine /\ restart = "none"
    BY <1>3 DEF Record, IInv, TypeOK, HandsInv
  <2>2. AutostartInv'
    BY <2>1, PreferenceKept
  <2>3. CASE enabled /\ ~quitting
    <3>1. child' = held /\ restart' = "none" /\ engine' = engine
      BY <1>3, <2>3 DEF Record
    <3>2. TypeOK' /\ HandsInv' /\ OffInv'
      BY <2>1, <2>3, <3>1 DEF IInv, TypeOK, HandsInv, OffInv, preference
    <3>3. KeptInv'
      BY <2>1, <3>1 DEF IInv, KeptInv, Live
    <3> QED BY <2>2, <3>2, <3>3 DEF IInv
  <2>4. CASE ~(enabled /\ ~quitting)
    <3>1. /\ engine' = [engine EXCEPT ![held] = "exited"]
          /\ child' = NoEngine /\ restart' = "none"
      BY <1>3, <2>1, <2>4 DEF Record
    <3>2. TypeOK' /\ HandsInv' /\ OffInv'
      BY <2>1, <3>1 DEF IInv, TypeOK, HandsInv, OffInv, preference
    <3>3. KeptInv'
      BY <2>1, <3>1 DEF IInv, TypeOK, KeptInv, Live
    <3> QED BY <2>2, <3>2, <3>3 DEF IInv
  <2> QED BY <2>3, <2>4
<1> QED BY <1>1, <1>2, <1>3

\* The rest of a stop.
LEMMA StopReturnsInv ==
  ASSUME IInv, StopReturns
  PROVE  IInv'
<1>1. /\ step = "stopping" /\ held' = NoEngine /\ after' = "idle"
      /\ step' \in {"idle", "launching"}
      /\ window' \in {"open", "closed"} /\ (window' = "closed" => step' = "idle")
      /\ window = "open" /\ child = NoEngine /\ restart = "none"
      /\ UNCHANGED <<app, lost, preference>>
  BY DEF StopReturns, IInv, TypeOK, HandsInv
<1>2. \A e \in Engines : engine'[e] = IF e = held THEN "exited" ELSE engine[e]
  BY SupervisorAssumption DEF StopReturns, Stopped, IInv, TypeOK
<1>3. engine' \in [Engines -> {"exited", "running", "quitting"}]
  BY DEF StopReturns, Stopped, IInv, TypeOK
<1>4. TypeOK' /\ HandsInv' /\ OffInv'
  BY <1>1, <1>3 DEF IInv, TypeOK, HandsInv, OffInv, app, preference
<1>5. KeptInv'
  BY <1>1, <1>2 DEF IInv, KeptInv, Live, app
<1>6. AutostartInv'
  BY <1>1, PreferenceKept
<1> QED BY <1>4, <1>5, <1>6 DEF IInv

\* The supervisor's process ends and is started again.
LEMMA ProcessInv ==
  ASSUME IInv, Killed \/ Relaunched
  PROVE  IInv'
<1>1. faults \in Nat /\ unwanted \in Nat /\ marker \in BOOLEAN /\ entry \in BOOLEAN
  BY SupervisorAssumption DEF IInv, TypeOK
<1>2. CASE Killed
  <2>. DEFINE gone == {child, held}
  <2>1. /\ GivenUp(gone) /\ gone \subseteq Engines \cup {NoEngine} /\ TypeOK
        /\ window' = "closed" /\ child' = NoEngine /\ held' = NoEngine
        /\ step' = "idle" /\ after' = "idle" /\ restart' = "none"
        /\ UNCHANGED <<enabled, quitting, count, marker, entry, unwanted>>
        /\ IF step \in {"ensuring", "toggling"} THEN Fault ELSE UNCHANGED faults
    BY <1>2 DEF Killed, IInv, TypeOK
  <2>2. faults' \in 0 .. MaxFaults
    BY <2>1, SupervisorAssumption DEF IInv, TypeOK, Fault
  <2>3. TypeOK' /\ HandsInv' /\ OffInv'
    BY <2>1, <2>2, GivenUpKeeps DEF IInv, TypeOK, HandsInv, OffInv
  <2>4. KeptInv'
    BY <2>1, GivenUpKeeps DEF IInv, KeptInv, Live
  <2>5. AutostartInv'
    BY <1>1, <2>1 DEF IInv, AutostartInv, Owed, Fault
  <2> QED BY <2>3, <2>4, <2>5 DEF IInv
<1>3. CASE Relaunched
  <2>1. step = "idle" /\ held = NoEngine
    BY <1>3 DEF Relaunched, IInv, HandsInv
  <2>2. AutostartInv'
    BY <1>1, <1>3, <2>1 DEF Relaunched, IInv, AutostartInv, Owed
  <2>3. unwanted' \in 0 .. MaxFaults
    BY <1>1, <1>3, <2>2, SupervisorAssumption DEF Relaunched, IInv, TypeOK, AutostartInv
  <2>4. TypeOK' /\ HandsInv' /\ OffInv'
    <3>1. /\ window' = "none" /\ step' = "ensuring" /\ window = "closed"
          /\ enabled' = TRUE /\ quitting' = FALSE /\ count' = 0
          /\ UNCHANGED <<held, after, child, restart, engine, lost, marker, entry, faults>>
      BY <1>3 DEF Relaunched, processes
    <3>2. count' \in 0 .. MaxCount
      BY <3>1, SupervisorAssumption
    <3>3. TypeOK'
      BY <2>3, <3>1, <3>2 DEF IInv, TypeOK
    <3> QED BY <2>1, <3>1, <3>3 DEF IInv, HandsInv, OffInv
  <2>5. KeptInv'
    BY <1>3 DEF Relaunched, IInv, KeptInv, Live, processes
  <2> QED BY <2>2, <2>4, <2>5 DEF IInv
<1> QED BY <1>2, <1>3

\* An engine ends, by itself or because it was told to.
LEMMA EngineInv ==
  ASSUME IInv, NEW e \in Engines, EngineCrashes(e) \/ EngineQuits(e)
  PROVE  IInv'
<1>1. /\ engine' = [engine EXCEPT ![e] = "exited"] /\ lost' = lost \ {e}
      /\ UNCHANGED <<window, thread, app, preference>>
  BY DEF EngineCrashes, EngineQuits
<1>2. TypeOK' /\ HandsInv' /\ OffInv' /\ AutostartInv'
  BY <1>1 DEF IInv, TypeOK, HandsInv, OffInv, AutostartInv, Owed, thread, app, preference
<1>3. KeptInv'
  BY <1>1 DEF IInv, TypeOK, KeptInv, Live, thread, app
<1> QED BY <1>2, <1>3 DEF IInv

-----------------------------------------------------------------------------
\* The strengthening is inductive, for every set of engines and every bound.
THEOREM Invariance == Spec => []IInv
<1>1. IInv /\ [Next]_vars => IInv'
  <2> SUFFICES ASSUME IInv, [Next]_vars PROVE IInv'
    OBVIOUS
  <2>1. CASE Create \/ TurnOn \/ DeadlinePasses
    BY <2>1, CommandInv
  <2>2. CASE TurnOff \/ RestartWorker \/ Shutdown
    BY <2>2, BeginStopInv
  <2>3. CASE Poll
    BY <2>3, PollInv
  <2>4. CASE Ensure \/ ToggleAutostart \/ ToggleReturns
    BY <2>4, AutostartStepsInv
  <2>5. CASE Launch \/ LaunchFails \/ Record
    BY <2>5, LaunchInv
  <2>6. CASE StopReturns
    BY <2>6, StopReturnsInv
  <2>7. CASE Killed \/ Relaunched
    BY <2>7, ProcessInv
  <2>8. CASE \E e \in Engines : EngineCrashes(e) \/ EngineQuits(e)
    BY <2>8, EngineInv
  <2>9. CASE UNCHANGED vars
    BY <2>9 DEF vars, thread, app, processes, preference, IInv, TypeOK, HandsInv, KeptInv,
       OffInv, AutostartInv, Owed, Live
  <2> QED BY <2>1, <2>2, <2>3, <2>4, <2>5, <2>6, <2>7, <2>8, <2>9 DEF Next, Returns
<1> QED BY InitInv, <1>1, PTL DEF Spec

\* Typing, for every value of the constants.
THEOREM TypeCorrect == Spec => []TypeOK
BY Invariance, PTL DEF IInv

\* At most one engine means to stay, and the supervisor has it: a recorded child and
\* one in hand exclude each other.
THEOREM AtMostOneEngine == Spec => []OneEngine
<1>1. IInv => OneEngine
  <2> SUFFICES ASSUME IInv, NEW e \in Engines, NEW f \in Engines,
                      engine[e] = "running", engine[f] = "running"
               PROVE  e = f /\ e \in {child, held}
    BY DEF OneEngine
  <2>1. e \in {child, held} /\ f \in {child, held}
    BY DEF IInv, KeptInv
  <2>2. child = NoEngine \/ held = NoEngine
    BY DEF IInv, TypeOK, HandsInv
  <2> QED BY <2>1, <2>2, SupervisorAssumption
<1> QED BY Invariance, <1>1, PTL

\* Once OFF has returned, no engine runs but one given up before.
THEOREM OffStopsTheEngine == Spec => []OffMeansNoEngine
<1>1. IInv => OffMeansNoEngine
  BY SupervisorAssumption DEF IInv, HandsInv, KeptInv, OffInv, OffMeansNoEngine
<1> QED BY Invariance, <1>1, PTL

\* Windows starts the supervisor against the marker at most once for each fault.
THEOREM OffIsKept == Spec => []OffStaysOff
<1>1. IInv => OffStaysOff
  BY DEF IInv, AutostartInv, OffStaysOff
<1> QED BY Invariance, <1>1, PTL
=============================================================================
