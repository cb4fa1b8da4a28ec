-------------------------- MODULE ProviderRuntime --------------------------
(***************************************************************************)
(* OmniphonySpatialProviderRuntime.cpp: the stream the provider returns to *)
(* Windows.  It composes the object stream, the stereo queue and the RAW   *)
(* endpoint pump, and asks the client for one quantum at a time as the     *)
(* endpoint drains the queue.                                              *)
(*                                                                         *)
(* Three threads: control (Start, Stop, Reset, one at a time under         *)
(* lifecycleMutex_), update (the client's Begin ... End loop, woken by the *)
(* client event) and worker (EndpointWorker).  The atomics are read and    *)
(* written one per step, so every interleaving of the three is a behaviour.*)
(* The object stream is what its lifecycle is here: its running, inUpdate  *)
(* and transportInFlight flags, each call under its mutex one step.        *)
(***************************************************************************)
EXTENDS Integers

CONSTANTS
  Quantum,       \* kSourceQuantumFrames
  Capacity,      \* kProviderQueueFrames
  Target,        \* kProviderTargetQueuedFrames
  DrainSizes,    \* writable frame counts the endpoint may report
  Clients        \* the clients and their worlds: the calls that may fail, and whether
                 \* the client never enters a control call inside an update

FaultKinds ==
  {"pump_start", "pump_stop", "thread", "drain", "set_event", "render", "reset"}
ASSUME QueueAssumption ==
  Quantum \in Nat \ {0} /\ Target \in Nat /\ Capacity \in Nat /\ Quantum <= Target
\* The target and the three quanta that may be asked for beside it: the code's queue
\* holds eight quanta and its target is four.
ASSUME HeadroomAssumption == Target + 3 * Quantum <= Capacity
ASSUME InstanceAssumption ==
  DrainSizes \subseteq Nat /\ Clients \subseteq [faults : SUBSET FaultKinds, serial : BOOLEAN]

VARIABLES
  client,         \* which of Clients it is
  outerRunning,   \* running_
  asyncFailed,    \* asyncResult_ is a failure
  requested,      \* sourceRequestOutstanding_
  updating,       \* updateInProgress_
  stopEvent,      \* manual-reset
  clientEvent,    \* the client's auto-reset event
  inner,          \* inner_: the object stream's lifecycle flags
  pumpStarted,    \* the endpoint is started
  queued,         \* frames in the stereo queue
  overflowed,     \* history: a TryWrite was refused since the last Start
  pc              \* where each thread is

moving == <<outerRunning, asyncFailed, requested, updating, stopEvent, clientEvent,
          inner, pumpStarted, queued, overflowed, pc>>
vars == <<client, moving>>
flags == <<requested, updating>>

Threads == {"control", "update", "worker"}

Goto(t, label) == pc' = [pc EXCEPT ![t] = label]

\* Inside the client's BeginUpdatingAudioObjects ... EndUpdatingAudioObjects.
OutsideUpdate == pc["update"] \in {"wait", "woken"}

-----------------------------------------------------------------------------
(* The object stream's lifecycle guards.                                     *)

InnerBetweenUpdates == ~inner.inUpdate /\ ~inner.inFlight
InnerMayStart == ~inner.running /\ InnerBetweenUpdates
InnerMayStop == InnerBetweenUpdates
InnerMayReset == ~inner.running /\ InnerBetweenUpdates
InnerMayBegin == inner.running /\ InnerBetweenUpdates
InnerMayEnd == inner.inUpdate /\ ~inner.inFlight

\* inner_->Stop(), whose failure the caller may ignore.
InnerStoppedMutant == inner
InnerStopped == IF InnerMayStop THEN [inner EXCEPT !.running = FALSE] ELSE inner

-----------------------------------------------------------------------------
(* Helpers the calls below are built from.                                   *)

\* What the endpoint leaves of the queue when it takes up to n frames.
LeftAfter(n) == IF n < queued THEN queued - n ELSE 0

\* TryWrite's test.
RoomForQuantum == queued + Quantum <= Capacity

\* Begin answers the request that was outstanding.
OutstandingAfterBeginMutant == requested
OutstandingAfterBegin == FALSE

\* Stop tells the worker to leave before it joins it.
StopSignalMutant == stopEvent
StopSignal == TRUE

\* std::thread::join waits for the worker to return.
WorkerReturnedMutant == TRUE
WorkerReturned == pc["worker"] = "done"

-----------------------------------------------------------------------------
Init ==
  /\ client \in Clients
  /\ outerRunning = FALSE /\ asyncFailed = FALSE
  /\ requested = FALSE /\ updating = FALSE
  /\ stopEvent = FALSE /\ clientEvent = FALSE
  /\ inner = [running |-> FALSE, inUpdate |-> FALSE, inFlight |-> FALSE]
  /\ pumpStarted = FALSE
  /\ queued = 0 /\ overflowed = FALSE
  /\ pc = [control |-> "idle", update |-> "wait", worker |-> "none"]

-----------------------------------------------------------------------------
(* RequestSourceIfNeeded, called by all three threads.                       *)

\* What each caller does with a failed request.
RequestFailed(t) ==
  CASE t = "control" -> "start_abort"
    [] t = "update"  -> "wait"
    [] t = "worker"  -> "failing"
RequestDone(t) ==
  CASE t = "control" -> "idle"
    [] t = "update"  -> "wait"
    [] t = "worker"  -> "waiting"

NeedsSourceMutant == queued < Capacity
NeedsSource == queued + Quantum <= Target

RequestCheck(t) ==
  /\ pc[t] = "req_check"
  /\ Goto(t, IF updating THEN RequestDone(t) ELSE "req_queue")
  /\ UNCHANGED <<outerRunning, asyncFailed, flags, stopEvent, clientEvent, inner, pumpStarted, queued, overflowed>>

RequestQueue(t) ==
  /\ pc[t] = "req_queue"
  /\ Goto(t, IF NeedsSource THEN "req_claim" ELSE RequestDone(t))
  /\ UNCHANGED <<outerRunning, asyncFailed, flags, stopEvent, clientEvent, inner, pumpStarted, queued, overflowed>>

\* One request is outstanding at a time: compare and exchange.
RequestClaim(t) ==
  /\ pc[t] = "req_claim"
  /\ requested' = TRUE
  /\ Goto(t, IF requested THEN RequestDone(t) ELSE "req_signal")
  /\ UNCHANGED <<outerRunning, asyncFailed, updating, stopEvent, clientEvent, inner, pumpStarted, queued, overflowed>>

RequestSignal(t) ==
  /\ pc[t] = "req_signal"
  /\ \/ /\ clientEvent' = TRUE
        /\ Goto(t, RequestDone(t))
        /\ UNCHANGED requested
     \/ /\ "set_event" \in client.faults
        /\ requested' = FALSE
        /\ Goto(t, RequestFailed(t))
        /\ UNCHANGED clientEvent
  /\ UNCHANGED <<outerRunning, asyncFailed, updating, stopEvent, inner, pumpStarted, queued, overflowed>>

RequestSourceIfNeeded(t) ==
  RequestCheck(t) \/ RequestQueue(t) \/ RequestClaim(t) \/ RequestSignal(t)

-----------------------------------------------------------------------------
(* Control calls. A call is entered only when no other control call holds    *)
(* lifecycleMutex_, and one refused at once changes nothing.                 *)

EnterControl == pc["control"] = "idle" /\ (client.serial => OutsideUpdate)

Start ==
  /\ EnterControl /\ ~outerRunning
  /\ stopEvent' = FALSE /\ asyncFailed' = FALSE
  /\ Goto("control", "start_queue")
  /\ UNCHANGED <<outerRunning, flags, clientEvent, inner, pumpStarted, queued, overflowed>>

StartQueue ==
  /\ pc["control"] = "start_queue"
  /\ queued' = 0 /\ overflowed' = FALSE
  /\ Goto("control", "start_inner")
  /\ UNCHANGED <<outerRunning, asyncFailed, flags, stopEvent, clientEvent, inner, pumpStarted>>

StartInner ==
  /\ pc["control"] = "start_inner"
  /\ IF InnerMayStart
     THEN inner' = [inner EXCEPT !.running = TRUE] /\ Goto("control", "start_pump")
     ELSE UNCHANGED inner /\ Goto("control", "idle")
  /\ UNCHANGED <<outerRunning, asyncFailed, flags, stopEvent, clientEvent, pumpStarted, queued, overflowed>>

StartPump ==
  /\ pc["control"] = "start_pump"
  /\ \/ /\ pumpStarted' = TRUE
        /\ Goto("control", "start_flags")
        /\ UNCHANGED inner
     \/ /\ "pump_start" \in client.faults /\ ~pumpStarted
        /\ inner' = InnerStopped
        /\ Goto("control", "idle")
        /\ UNCHANGED pumpStarted
  /\ UNCHANGED <<outerRunning, asyncFailed, flags, stopEvent, clientEvent, queued, overflowed>>

StartRequested ==
  /\ pc["control"] = "start_flags"
  /\ requested' = FALSE
  /\ Goto("control", "start_updating")
  /\ UNCHANGED <<outerRunning, asyncFailed, updating, stopEvent, clientEvent, inner, pumpStarted, queued, overflowed>>

StartUpdating ==
  /\ pc["control"] = "start_updating"
  /\ updating' = FALSE
  /\ Goto("control", "start_worker")
  /\ UNCHANGED <<outerRunning, asyncFailed, requested, stopEvent, clientEvent, inner, pumpStarted, queued, overflowed>>

StartWorker ==
  /\ pc["control"] = "start_worker"
  /\ \/ /\ outerRunning' = TRUE
        /\ pc' = [pc EXCEPT !["control"] = "req_check", !["worker"] = "waiting"]
        /\ UNCHANGED stopEvent
     \/ /\ "thread" \in client.faults
        /\ stopEvent' = TRUE
        /\ Goto("control", "abort_pump")
        /\ UNCHANGED outerRunning
  /\ UNCHANGED <<asyncFailed, flags, clientEvent, inner, pumpStarted, queued, overflowed>>

\* The first request failed: everything Start did is undone.
StartAbort ==
  /\ pc["control"] = "start_abort"
  /\ stopEvent' = TRUE
  /\ Goto("control", "abort_join")
  /\ UNCHANGED <<outerRunning, asyncFailed, flags, clientEvent, inner, pumpStarted, queued, overflowed>>

Stop ==
  /\ EnterControl /\ outerRunning
  /\ stopEvent' = StopSignal
  /\ Goto("control", "stop_join")
  /\ UNCHANGED <<outerRunning, asyncFailed, flags, clientEvent, inner, pumpStarted, queued, overflowed>>

\* JoinWorkers.
JoinWorkers ==
  /\ pc["control"] \in {"stop_join", "abort_join"}
  /\ WorkerReturned
  /\ pc' = [pc EXCEPT !["worker"] = IF @ = "done" THEN "none" ELSE @,
                      !["control"] = IF @ = "stop_join" THEN "stop_requested" ELSE "abort_pump"]
  /\ UNCHANGED <<outerRunning, asyncFailed, flags, stopEvent, clientEvent, inner, pumpStarted, queued, overflowed>>

\* Stop and Reset clear the two flags and the client's event, in this order.
ClearRequested ==
  /\ pc["control"] \in {"stop_requested", "reset_requested"}
  /\ requested' = FALSE
  /\ Goto("control", IF pc["control"] = "stop_requested" THEN "stop_updating" ELSE "reset_updating")
  /\ UNCHANGED <<outerRunning, asyncFailed, updating, stopEvent, clientEvent, inner, pumpStarted, queued, overflowed>>

ClearUpdating ==
  /\ pc["control"] \in {"stop_updating", "reset_updating"}
  /\ updating' = FALSE
  /\ Goto("control", IF pc["control"] = "stop_updating" THEN "stop_event" ELSE "reset_event")
  /\ UNCHANGED <<outerRunning, asyncFailed, requested, stopEvent, clientEvent, inner, pumpStarted, queued, overflowed>>

ResetClientEvent ==
  /\ pc["control"] \in {"stop_event", "reset_event"}
  /\ clientEvent' = FALSE
  /\ IF pc["control"] = "stop_event"
     THEN Goto("control", "stop_pump") /\ UNCHANGED asyncFailed
     ELSE Goto("control", "idle") /\ asyncFailed' = FALSE
  /\ UNCHANGED <<outerRunning, flags, stopEvent, inner, pumpStarted, queued, overflowed>>

\* pump_.Stop(); a failure leaves the endpoint started.
StopPump ==
  /\ pc["control"] \in {"stop_pump", "abort_pump"}
  /\ \/ pumpStarted' = FALSE
     \/ "pump_stop" \in client.faults /\ UNCHANGED pumpStarted
  /\ Goto("control", "stop_inner")
  /\ UNCHANGED <<outerRunning, asyncFailed, flags, stopEvent, clientEvent, inner, queued, overflowed>>

\* The object stream's refusal is reported, and running_ is cleared all the same.
StopInner ==
  /\ pc["control"] = "stop_inner"
  /\ inner' = InnerStopped
  /\ outerRunning' = FALSE
  /\ Goto("control", "idle")
  /\ UNCHANGED <<asyncFailed, flags, stopEvent, clientEvent, pumpStarted, queued, overflowed>>

Reset ==
  /\ EnterControl /\ ~outerRunning
  /\ InnerMayReset
  /\ Goto("control", "reset_queue")
  /\ UNCHANGED <<outerRunning, asyncFailed, flags, stopEvent, clientEvent, inner, pumpStarted, queued, overflowed>>

\* The transport's Reset and the stream's own empty the queue. The transport resets
\* the renderer first, and when that fails the call returns with all else as it was.
ResetQueue ==
  /\ pc["control"] = "reset_queue"
  /\ \/ queued' = 0 /\ Goto("control", "reset_requested")
     \/ "reset" \in client.faults /\ Goto("control", "idle") /\ UNCHANGED queued
  /\ UNCHANGED <<outerRunning, asyncFailed, flags, stopEvent, clientEvent, inner, pumpStarted, overflowed>>

ControlCall == Start \/ Stop \/ Reset

ControlStep ==
  \/ StartQueue \/ StartInner \/ StartPump \/ StartRequested \/ StartUpdating
  \/ StartWorker \/ StartAbort
  \/ JoinWorkers \/ ClearRequested \/ ClearUpdating \/ ResetClientEvent
  \/ StopPump \/ StopInner \/ ResetQueue
  \/ RequestSourceIfNeeded("control")

-----------------------------------------------------------------------------
(* The client's update thread: it waits for its event, then Begin, authoring *)
(* and End. When End fails it gives the update up.                           *)

ClientWakes ==
  /\ pc["update"] = "wait" /\ clientEvent
  /\ clientEvent' = FALSE
  /\ Goto("update", "woken")
  /\ UNCHANGED <<outerRunning, asyncFailed, flags, stopEvent, inner, pumpStarted, queued, overflowed>>

BeginUpdatingAudioObjects ==
  /\ pc["update"] = "woken"
  /\ (client.serial => pc["control"] = "idle")
  /\ Goto("update", IF asyncFailed THEN "wait" ELSE "begin_inner")
  /\ UNCHANGED <<outerRunning, asyncFailed, flags, stopEvent, clientEvent, inner, pumpStarted, queued, overflowed>>

BeginInner ==
  /\ pc["update"] = "begin_inner"
  /\ IF InnerMayBegin
     THEN inner' = [inner EXCEPT !.inUpdate = TRUE] /\ Goto("update", "begin_requested")
     ELSE UNCHANGED inner /\ Goto("update", "wait")
  /\ UNCHANGED <<outerRunning, asyncFailed, flags, stopEvent, clientEvent, pumpStarted, queued, overflowed>>

BeginRequested ==
  /\ pc["update"] = "begin_requested"
  /\ requested' = OutstandingAfterBegin
  /\ Goto("update", "begin_updating")
  /\ UNCHANGED <<outerRunning, asyncFailed, updating, stopEvent, clientEvent, inner, pumpStarted, queued, overflowed>>

BeginUpdating ==
  /\ pc["update"] = "begin_updating"
  /\ updating' = TRUE
  /\ Goto("update", "authoring")
  /\ UNCHANGED <<outerRunning, asyncFailed, requested, stopEvent, clientEvent, inner, pumpStarted, queued, overflowed>>

EndUpdatingAudioObjects ==
  /\ pc["update"] = "authoring"
  /\ Goto("update", IF asyncFailed THEN "wait" ELSE "end_inner")
  /\ UNCHANGED <<outerRunning, asyncFailed, flags, stopEvent, clientEvent, inner, pumpStarted, queued, overflowed>>

EndInner ==
  /\ pc["update"] = "end_inner"
  /\ IF InnerMayEnd
     THEN inner' = [inner EXCEPT !.inUpdate = FALSE, !.inFlight = TRUE] /\ Goto("update", "write")
     ELSE UNCHANGED inner /\ Goto("update", "end_failed")
  /\ UNCHANGED <<outerRunning, asyncFailed, flags, stopEvent, clientEvent, pumpStarted, queued, overflowed>>

\* The transport renders the quantum and TryWrite finds room for the whole of it, or
\* drops it. A renderer that refuses the quantum leaves nothing to write.
Write ==
  /\ pc["update"] = "write"
  /\ \/ /\ overflowed' = (overflowed \/ ~RoomForQuantum)
        /\ Goto("update", IF RoomForQuantum THEN "publish" ELSE "flight_failed")
     \/ /\ "render" \in client.faults
        /\ Goto("update", "flight_failed")
        /\ UNCHANGED overflowed
  /\ UNCHANGED <<outerRunning, asyncFailed, flags, stopEvent, clientEvent, inner, pumpStarted, queued>>

Publish ==
  /\ pc["update"] = "publish"
  /\ queued' = queued + Quantum
  /\ Goto("update", "flight")
  /\ UNCHANGED <<outerRunning, asyncFailed, flags, stopEvent, clientEvent, inner, pumpStarted, overflowed>>

EndFlight ==
  /\ pc["update"] \in {"flight", "flight_failed"}
  /\ inner' = [inner EXCEPT !.inFlight = FALSE]
  /\ Goto("update", IF pc["update"] = "flight" THEN "end_updating" ELSE "end_failed")
  /\ UNCHANGED <<outerRunning, asyncFailed, flags, stopEvent, clientEvent, pumpStarted, queued, overflowed>>

EndUpdating ==
  /\ pc["update"] \in {"end_updating", "end_failed"}
  /\ updating' = FALSE
  /\ Goto("update", IF pc["update"] = "end_updating" THEN "req_check" ELSE "wait")
  /\ UNCHANGED <<outerRunning, asyncFailed, requested, stopEvent, clientEvent, inner, pumpStarted, queued, overflowed>>

UpdateStep ==
  \/ ClientWakes
  \/ BeginUpdatingAudioObjects \/ BeginInner \/ BeginRequested \/ BeginUpdating
  \/ EndUpdatingAudioObjects \/ EndInner \/ Write \/ Publish \/ EndFlight \/ EndUpdating
  \/ RequestSourceIfNeeded("update")

-----------------------------------------------------------------------------
(* EndpointWorker. WaitForMultipleObjects prefers the stop event.            *)

WorkerStops ==
  /\ pc["worker"] = "waiting" /\ stopEvent
  /\ Goto("worker", "done")
  /\ UNCHANGED <<outerRunning, asyncFailed, flags, stopEvent, clientEvent, inner, pumpStarted, queued, overflowed>>

SampleReady ==
  /\ pc["worker"] = "waiting" /\ ~stopEvent /\ pumpStarted
  /\ Goto("worker", "draining")
  /\ UNCHANGED <<outerRunning, asyncFailed, flags, stopEvent, clientEvent, inner, pumpStarted, queued, overflowed>>

DrainOnce ==
  /\ pc["worker"] = "draining"
  /\ \/ \E writable \in DrainSizes :
          /\ queued' = LeftAfter(writable)
          /\ Goto("worker", "req_check")
     \/ "drain" \in client.faults /\ Goto("worker", "failing") /\ UNCHANGED queued
  /\ UNCHANGED <<outerRunning, asyncFailed, flags, stopEvent, clientEvent, inner, pumpStarted, overflowed>>

SetAsyncFailure ==
  /\ pc["worker"] = "failing"
  /\ asyncFailed' = TRUE
  /\ Goto("worker", IF asyncFailed THEN "done" ELSE "fail_stop")
  /\ UNCHANGED <<outerRunning, flags, stopEvent, clientEvent, inner, pumpStarted, queued, overflowed>>

SignalStop ==
  /\ pc["worker"] = "fail_stop"
  /\ stopEvent' = TRUE
  /\ Goto("worker", "done")
  /\ UNCHANGED <<outerRunning, asyncFailed, flags, clientEvent, inner, pumpStarted, queued, overflowed>>

WorkerStep ==
  \/ WorkerStops \/ SampleReady \/ DrainOnce \/ SetAsyncFailure \/ SignalStop
  \/ RequestSourceIfNeeded("worker")

-----------------------------------------------------------------------------
Next == (ControlCall \/ ControlStep \/ UpdateStep \/ WorkerStep) /\ UNCHANGED client

\* A call that was entered goes on, the client answers its event and ends its
\* updates, and the endpoint keeps signalling. Nothing makes a client enter a
\* control call.
Fairness == WF_moving(ControlStep) /\ WF_moving(UpdateStep) /\ WF_moving(WorkerStep)

Spec == Init /\ [][Next]_vars /\ Fairness

-----------------------------------------------------------------------------
TypeOK ==
  /\ client \in Clients
  /\ {outerRunning, asyncFailed, requested, updating, stopEvent, clientEvent,
      pumpStarted, overflowed} \subseteq BOOLEAN
  /\ inner \in [running : BOOLEAN, inUpdate : BOOLEAN, inFlight : BOOLEAN]
  /\ queued \in 0 .. Capacity
  /\ DOMAIN pc = Threads

\* A client that waits for its event never has a quantum refused by the queue,
\* although TryWrite and the demand test are two different thresholds.
NoOverflow == ~overflowed

\* When no call is under way and the provider is stopped, its object stream is
\* stopped too and no worker is left: the next Start or Reset will be accepted,
\* and will start the only worker.
StoppedIsRestartable ==
  pc["control"] = "idle" /\ ~outerRunning => InnerMayReset /\ pc["worker"] = "none"

\* It is so for a client that makes its control calls between its updates, on an
\* endpoint that does not fail inside one, whichever control calls fail half-way.
RestartableUnlessDrainFails ==
  client.serial /\ client.faults \cap {"drain", "set_event"} = {} => StoppedIsRestartable

\* The queue is emptied only while neither of its two callers is inside it, for
\* such a client: what StereoQueue takes for granted of its control calls.
QueueControlIsQuiet ==
  client.serial /\ pc["control"] \in {"start_queue", "reset_queue"} =>
    pc["update"] # "publish" /\ pc["worker"] # "draining"

\* The quantum that was asked for was refused by the renderer: End failed before
\* the queue, and returned without asking for the next one.
RenderedInVain == "render" \in client.faults /\ pc["update"] = "flight_failed"

\* Demand is never lost: while the provider runs, an empty queue is eventually filled
\* again, or the stream is stopped or reports its failure, or the client was asked and
\* its quantum failed in the renderer - and then is asked for again, since this holds
\* from that state on as well.
DemandIsMet ==
  (outerRunning /\ queued = 0) ~>
    (queued > 0 \/ ~outerRunning \/ asyncFailed \/ RenderedInVain)

\* Every control call returns.
ControlReturns == (pc["control"] # "idle") ~> (pc["control"] = "idle")
=============================================================================
