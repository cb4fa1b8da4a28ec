---------------------------- MODULE CurrentLane ----------------------------
(***************************************************************************)
(* realtime_ffi/src/lib.rs: one OmniphonyRealtimeProcessor, in Identity or *)
(* in stereo Current mode. Entering Current, and every reset, starts a new *)
(* lane with a new worker thread; the worker of the lane it replaces is    *)
(* told to stop and never waited for, so workers outlive their processor   *)
(* and the module is pinned to outlive them.                               *)
(*                                                                         *)
(* The host calls the processor from one thread at a time (the ABI takes   *)
(* an exclusive reference): control calls fall between two callbacks. The  *)
(* workers interleave with every frame of a callback.                      *)
(***************************************************************************)
EXTENDS RenderLane, FiniteSets

CONSTANTS
  Lanes,        \* lanes the processor may start in its life: 1 .. n
  Quanta,       \* the callback sizes the host uses
  MaxFrames     \* bound on the frames played

VARIABLES
  alive,      \* the processor has not been destroyed
  mode,       \* the lane it plays; 0 in Identity
  lanes,
  pin,        \* PIN_RESULT: "untried", "ok" or "refused"
  mapped,     \* the module's code is in the process
  callback,   \* the frames the running callback still has to play, and use_current
  clock,      \* frames played
  boundary,   \* history: frames played before the last change of lane
  heard       \* history: what was played for frame clock

vars == <<alive, mode, lanes, pin, mapped, callback, clock, boundary, heard>>

Between == [left |-> 0, use |-> FALSE]
Used == {i \in Lanes : lanes[i].worker # "none"}

Init ==
  /\ alive = TRUE /\ mode = 0
  /\ lanes = [i \in Lanes |-> NoLane]
  /\ pin = "untried" /\ mapped = TRUE
  /\ callback = Between
  /\ clock = 0 /\ boundary = 0 /\ heard = Silence

\* The processor is called, and is not inside a callback.
Called == alive /\ callback = Between

-----------------------------------------------------------------------------
(* Control calls.                                                            *)

\* Dropping a lane tells its worker to stop, and detaches it.
LanesDropped == [i \in Lanes |-> IF i = mode THEN [lanes[i] EXCEPT !.stop = TRUE] ELSE lanes[i]]

\* The module is pinned before the worker exists, or there is no worker; the
\* first answer of the system stays (OnceLock).
Pinned(answer) == answer = (IF pin = "untried" THEN answer ELSE pin)
MayStartMutant(answer) == TRUE
MayStart(answer) == answer = "ok"

\* Every lane starts from nothing.
FreshLaneMutant == IF mode = 0 THEN NewLane ELSE [NewLane EXCEPT !.delay = lanes[mode].delay]
FreshLane == NewLane

\* AsyncCurrent::new, and the old mode dropped once the new one is in place;
\* or no pin or no thread, and the processor stays as it was.
ReplaceLane ==
  \E answer \in {"ok", "refused"} :
    /\ Pinned(answer)
    /\ pin' = answer
    /\ \/ /\ MayStart(answer)
          /\ \E i \in Lanes \ Used :
               /\ \A j \in Lanes \ Used : i <= j
               /\ lanes' = [LanesDropped EXCEPT ![i] = FreshLane]
               /\ mode' = i
               /\ boundary' = clock
       \/ UNCHANGED <<lanes, mode, boundary>>

\* set_mode(MODE_CURRENT). The listener's switch, a file, may say no.
SetModeCurrent ==
  /\ Called
  /\ \/ ReplaceLane
     \/ lanes' = LanesDropped /\ mode' = 0 /\ boundary' = clock /\ UNCHANGED pin
  /\ UNCHANGED <<alive, mapped, callback, clock, heard>>

SetModeIdentity ==
  /\ Called
  /\ lanes' = LanesDropped /\ mode' = 0 /\ boundary' = clock
  /\ UNCHANGED <<alive, pin, mapped, callback, clock, heard>>

\* reset: a logical stream boundary. In Identity it does nothing.
Reset ==
  /\ Called /\ mode # 0
  /\ ReplaceLane
  /\ UNCHANGED <<alive, mapped, callback, clock, heard>>

Destroy ==
  /\ Called
  /\ alive' = FALSE
  /\ lanes' = LanesDropped /\ mode' = 0
  /\ UNCHANGED <<pin, mapped, callback, clock, boundary, heard>>

\* The host frees the library it no longer uses; a pinned module stays.
FreeLibrary ==
  /\ ~alive /\ mapped
  /\ mapped' = (pin = "ok")
  /\ UNCHANGED <<alive, mode, lanes, pin, callback, clock, boundary, heard>>

-----------------------------------------------------------------------------
(* The audio callback, omniphony_realtime_process_f32.                       *)

ProcessIdentity(quantum) ==
  /\ Called /\ mode = 0 /\ clock + quantum <= MaxFrames
  /\ clock' = clock + quantum
  /\ heard' = [from |-> "identity", frame |-> clock']
  /\ UNCHANGED <<alive, mode, lanes, pin, mapped, callback, boundary>>

\* At the first callback that sees the worker ready, the delay line, the missed
\* turns and whatever is queued start over.
ObservedReadyMutant(lane) == [lane EXCEPT !.observed = TRUE]
ObservedReady(lane) ==
  IF lane.ready /\ ~lane.observed
  THEN [lane EXCEPT !.observed = TRUE, !.delay = <<>>, !.missed = 0, !.output = <<>>]
  ELSE lane

\* The callback reads ready and failed, and submits its PCM.
CallbackBegins(quantum) ==
  /\ Called /\ mode # 0 /\ clock + quantum <= MaxFrames
  /\ LET lane    == ObservedReady(lanes[mode])
         entered == IF lane.ready
                    THEN Accept(lane, [k \in 1 .. quantum |-> clock + k]) ELSE lane
     IN  /\ lanes' = [lanes EXCEPT ![mode] = entered]
         /\ callback' = [left |-> quantum, use |-> lane.ready /\ ~entered.failed]
  /\ UNCHANGED <<alive, mode, pin, mapped, clock, boundary, heard>>

\* One frame of the callback's loop.
CallbackFrame ==
  /\ callback.left > 0
  /\ clock' = clock + 1
  /\ heard' = Played(lanes[mode], callback.use)
  /\ lanes' = [lanes EXCEPT ![mode] = AfterFrame(@, clock', callback.use)]
  /\ callback' = IF callback.left = 1 THEN Between ELSE [callback EXCEPT !.left = @ - 1]
  /\ UNCHANGED <<alive, mode, pin, mapped, boundary>>

-----------------------------------------------------------------------------
(* The worker threads.                                                       *)

WorkerBecomes(i, lane) ==
  /\ lanes' = [lanes EXCEPT ![i] = lane]
  /\ UNCHANGED <<alive, mode, pin, mapped, callback, clock, boundary, heard>>

\* CurrentPipeline::new, on the worker thread; stop is looked at afterwards.
WorkerBuilds(i) ==
  /\ lanes[i].worker = "building"
  /\ \/ WorkerBecomes(i, [lanes[i] EXCEPT !.worker = "waiting", !.ready = TRUE])
     \/ WorkerBecomes(i, [lanes[i] EXCEPT !.worker = "done", !.failed = TRUE])

WorkerTakes(i) == MayTake(lanes[i]) /\ WorkerBecomes(i, Taken(lanes[i]))

WorkerRenders(i) ==
  /\ lanes[i].worker = "rendering"
  /\ \/ WorkerBecomes(i, Rendered(lanes[i]))
     \/ WorkerBecomes(i, RenderFailed(lanes[i]))

WorkerPushes(i) == MayPush(lanes[i]) /\ WorkerBecomes(i, Pushed(lanes[i]))

WorkerExits(i) == SeesStop(lanes[i]) /\ WorkerBecomes(i, Exited(lanes[i]))

Worker(i) ==
  WorkerBuilds(i) \/ WorkerTakes(i) \/ WorkerRenders(i) \/ WorkerPushes(i) \/ WorkerExits(i)

Control == SetModeCurrent \/ SetModeIdentity \/ Reset \/ Destroy \/ FreeLibrary
Callback ==
  \/ \E quantum \in Quanta : ProcessIdentity(quantum) \/ CallbackBegins(quantum)
  \/ CallbackFrame

Next == Control \/ Callback \/ \E i \in Lanes : Worker(i)

-----------------------------------------------------------------------------
TypeOK ==
  /\ alive \in BOOLEAN /\ mapped \in BOOLEAN
  /\ mode \in Lanes \cup {0}
  /\ DOMAIN lanes = Lanes /\ \A i \in Lanes : LaneOK(lanes[i])
  /\ pin \in {"untried", "ok", "refused"}
  /\ callback.left \in Nat /\ callback.use \in BOOLEAN
  /\ clock \in 0 .. MaxFrames /\ boundary \in 0 .. clock
  /\ heard.from \in {"silence", "identity", "delayed", "rendered"} /\ heard.frame \in 0 .. clock
=============================================================================
