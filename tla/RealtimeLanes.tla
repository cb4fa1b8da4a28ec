--------------------------- MODULE RealtimeLanes ---------------------------
(***************************************************************************)
(* The realtime library (realtime_ffi) as a host sees it: it exports three *)
(* kinds of processor, each with a lane protocol of its own, of which a    *)
(* host uses one for a stream. What they all promise is stated here, over  *)
(* the lane, the delay line and the callback they have in common.          *)
(***************************************************************************)
EXTENDS RenderLane

CONSTANTS
  Kinds,          \* the processors there are: "stereo", "bed", "objects"
  Lanes, Quanta, MaxFrames

ASSUME KindsAssumption == Kinds \subseteq {"stereo", "bed", "objects"}
ASSUME HostAssumption ==
  Lanes \subseteq Nat \ {0} /\ Quanta \subseteq Nat \ {0} /\ MaxFrames \in Nat

VARIABLES
  kind,           \* which one the host uses
  alive,          \* the stereo processor has not been destroyed
  inner,          \* the lane that plays; 0 when there is none
  lanes, pin, mapped, call, callback, clock, boundary, heard

moving == <<alive, inner, lanes, pin, mapped, call, callback, clock, boundary, heard>>
vars == <<kind, moving>>

Stereo == INSTANCE CurrentLane WITH mode <- inner
Bed == INSTANCE NativeBedLane
Objects == INSTANCE ObjectLane

Init ==
  /\ kind \in Kinds
  /\ CASE kind = "stereo" -> Stereo!Init
       [] kind = "bed" -> Bed!Init
       [] kind = "objects" -> Objects!Init
  /\ alive = TRUE /\ pin = "untried" /\ mapped = TRUE /\ call = Objects!Idle

StereoStep == kind = "stereo" /\ Stereo!Next /\ UNCHANGED call
BedStep == kind = "bed" /\ Bed!Next /\ UNCHANGED <<alive, call>>
ObjectsStep == kind = "objects" /\ Objects!Next /\ UNCHANGED <<alive, pin, mapped>>

Next == (StereoStep \/ BedStep \/ ObjectsStep) /\ UNCHANGED kind

Worker(i) ==
  CASE kind = "stereo" -> Stereo!Worker(i) /\ UNCHANGED call
    [] kind = "bed" -> Bed!Worker(i) /\ UNCHANGED <<alive, call>>
    [] kind = "objects" -> Objects!Worker(i) /\ UNCHANGED <<alive, pin, mapped>>
CallGoesOn == kind = "objects" /\ Objects!CallGoesOn /\ UNCHANGED <<alive, pin, mapped>>

\* The operating system runs every worker thread, and a call that may return
\* does; the host need not call.
Spec ==
  /\ Init /\ [][Next]_vars
  /\ WF_moving(CallGoesOn) /\ \A i \in Lanes : WF_moving(Worker(i))

-----------------------------------------------------------------------------
\* The reported latency is the real one, whichever way a frame came: a frame
\* played by a lane is the frame of exactly Delay frames ago, rendered or not,
\* across late workers, failures, callback sizes and the worker's becoming ready
\* in mid-stream.
FixedDelay ==
  /\ heard.from \in {"delayed", "rendered"} => heard.frame + Delay = clock
  /\ heard.from = "identity" => heard.frame = clock

\* A reset, a change of mode or a new processor is a stream boundary: nothing
\* that entered before it is played after it, by this lane or by a worker left
\* over from another.
NothingFromBefore == clock > boundary /\ heard # Silence => heard.frame > boundary

\* A rendered frame that is back in time is played: no missed turn is counted
\* twice, so a late worker is never behind for ever.
PlaysWhatIsReady ==
  [][ callback.left > 0 /\ clock' > clock =>
        LET lane == lanes[inner]
        IN  Primed(lane) /\ callback.use /\ ~lane.failed
            /\ (\E k \in DOMAIN lane.output : lane.output[k] + Delay = clock')
            => heard'.from = "rendered" ]_vars

\* No worker thread ever runs code that has been unmapped.
WorkerCodeMapped == \A i \in Lanes : Running(lanes[i]) => mapped

\* A worker that was told to stop ends, whatever it was doing, detached or not.
StoppedWorkersEnd == \A i \in Lanes : lanes[i].stop ~> ~Running(lanes[i])

\* No call on the object processor leaves a worker behind: between calls the
\* only worker thread is its own, even when building a lane failed, timed out
\* or was a reset.
NoOrphanWorker ==
  kind = "objects" /\ call = Objects!Idle => \A i \in Lanes : Running(lanes[i]) => i = inner

\* Every call returns, though it joins a worker that may be waiting for room in
\* a ring nobody reads any more: destroying and resetting cannot deadlock.
CallsReturn == (call # Objects!Idle) ~> (call = Objects!Idle)
=============================================================================
