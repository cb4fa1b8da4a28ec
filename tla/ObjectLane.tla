----------------------------- MODULE ObjectLane -----------------------------
(***************************************************************************)
(* realtime_ffi/src/windows_objects_ffi.rs: the processor behind a Windows *)
(* Spatial Audio stream. It is a lane like the stereo one, with another    *)
(* life: the constructor waits up to thirty seconds for its worker to have *)
(* built the pipeline, a reset builds the replacement before it drops the  *)
(* old lane, and dropping a lane joins its worker. One packet carries one  *)
(* quantum of static and dynamic objects, and is one worker block.         *)
(*                                                                         *)
(* Every call holds the processor exclusively; calls that wait for a       *)
(* worker are several actions, and the workers move meanwhile.             *)
(***************************************************************************)
EXTENDS RenderLane

CONSTANTS
  Lanes,        \* lanes ever started: 1 .. n
  MaxFrames     \* bound on the frames played

VARIABLES
  inner,      \* the lane of the processor; 0 when there is no processor
  lanes,
  call,       \* the call in progress: building, or joining, the worker of a lane
  callback, clock, boundary, heard    \* as in CurrentLane

vars == <<inner, lanes, call, callback, clock, boundary, heard>>

Idle == [pc |-> "idle", lane |-> 0]
Between == [left |-> 0, use |-> FALSE]
Unstarted == {i \in Lanes : lanes[i].worker = "none"}

Init ==
  /\ inner = 0
  /\ lanes = [i \in Lanes |-> NoLane]
  /\ call = Idle /\ callback = Between
  /\ clock = 0 /\ boundary = 0 /\ heard = Silence

Called == call = Idle /\ callback = Between

-----------------------------------------------------------------------------
(* AsyncSpatialObjects::new, called by create and by reset_stream.           *)

FreshLane == NewLane

StartsWorker ==
  /\ Called
  /\ \E i \in Unstarted :
       /\ \A j \in Unstarted : i <= j
       /\ lanes' = [lanes EXCEPT ![i] = FreshLane]
       /\ call' = [pc |-> "building", lane |-> i]
  /\ UNCHANGED <<inner, callback, clock, boundary, heard>>

Create == inner = 0 /\ StartsWorker
Reset == inner # 0 /\ StartsWorker

\* The worker reports its pipeline: the new lane is in place, and the old one,
\* if there was one, is dropped and its worker joined.
BuildSucceeds ==
  /\ call.pc = "building" /\ lanes[call.lane].ready
  /\ inner' = call.lane /\ boundary' = clock
  /\ IF inner = 0
     THEN call' = Idle /\ UNCHANGED lanes
     ELSE /\ call' = [pc |-> "joining", lane |-> inner]
          /\ lanes' = [lanes EXCEPT ![inner].stop = TRUE]
  /\ UNCHANGED <<callback, clock, heard>>

\* The worker reports an error, or thirty seconds pass: the worker is told to
\* stop and joined all the same, and the processor keeps the lane it had.
GivenUpMutant(i) == Idle
GivenUp(i) == [pc |-> "joining", lane |-> i]
BuildFails ==
  /\ call.pc = "building" /\ ~lanes[call.lane].ready
  /\ lanes' = [lanes EXCEPT ![call.lane].stop = TRUE]
  /\ call' = GivenUp(call.lane)
  /\ UNCHANGED <<inner, callback, clock, boundary, heard>>

\* Drop: the processor goes, once its worker has.
Destroy ==
  /\ Called /\ inner # 0
  /\ lanes' = [lanes EXCEPT ![inner].stop = TRUE]
  /\ call' = [pc |-> "joining", lane |-> inner]
  /\ inner' = 0
  /\ UNCHANGED <<callback, clock, boundary, heard>>

JoinReturns ==
  /\ call.pc = "joining" /\ ~Running(lanes[call.lane])
  /\ call' = Idle
  /\ UNCHANGED <<inner, lanes, callback, clock, boundary, heard>>

-----------------------------------------------------------------------------
(* process_raw: a quantum the checks accept. One they refuse (its size, more *)
(* dynamic objects than the maximum, a null pointer, a position that is not  *)
(* finite, an identity that is zero or twice there) changes nothing.         *)

ProcessBegins ==
  /\ Called /\ inner # 0 /\ clock + Block <= MaxFrames
  /\ LET entered == Accept(lanes[inner], [k \in 1 .. Block |-> clock + k])
     IN  /\ lanes' = [lanes EXCEPT ![inner] = entered]
         /\ callback' = [left |-> Block, use |-> ~entered.failed]
  /\ UNCHANGED <<inner, call, clock, boundary, heard>>

ProcessFrame ==
  /\ callback.left > 0
  /\ clock' = clock + 1
  /\ heard' = Played(lanes[inner], callback.use)
  /\ lanes' = [lanes EXCEPT ![inner] = AfterFrame(@, clock', callback.use)]
  /\ callback' = IF callback.left = 1 THEN Between ELSE [callback EXCEPT !.left = @ - 1]
  /\ UNCHANGED <<inner, call, boundary>>

-----------------------------------------------------------------------------
(* The worker threads.                                                       *)

WorkerBecomes(i, lane) ==
  /\ lanes' = [lanes EXCEPT ![i] = lane]
  /\ UNCHANGED <<inner, call, callback, clock, boundary, heard>>

\* An error is sent to the constructor, which gives up (BuildFails).
WorkerBuilds(i) ==
  /\ lanes[i].worker = "building"
  /\ \/ WorkerBecomes(i, [lanes[i] EXCEPT !.worker = "waiting", !.ready = TRUE])
     \/ WorkerBecomes(i, [lanes[i] EXCEPT !.worker = "done", !.failed = TRUE])

WorkerTakes(i) == MayTake(lanes[i]) /\ WorkerBecomes(i, Taken(lanes[i]))

WorkerRenders(i) ==
  /\ lanes[i].worker = "rendering"
  /\ \/ WorkerBecomes(i, Rendered(lanes[i]))
     \/ WorkerBecomes(i, RenderFailed(lanes[i]))

WorkerPushes(i) == MayPush(lanes[i]) /\ WorkerBecomes(i, Pushed(lanes[i]))

WorkerExits(i) == SeesStop(lanes[i]) /\ WorkerBecomes(i, Exited(lanes[i]))

Worker(i) ==
  WorkerBuilds(i) \/ WorkerTakes(i) \/ WorkerRenders(i) \/ WorkerPushes(i) \/ WorkerExits(i)

CallGoesOn == BuildSucceeds \/ BuildFails \/ JoinReturns

Next ==
  \/ Create \/ Reset \/ Destroy \/ CallGoesOn
  \/ ProcessBegins \/ ProcessFrame
  \/ \E i \in Lanes : Worker(i)

-----------------------------------------------------------------------------
TypeOK ==
  /\ inner \in Lanes \cup {0}
  /\ DOMAIN lanes = Lanes /\ \A i \in Lanes : LaneOK(lanes[i])
  /\ call.pc \in {"idle", "building", "joining"} /\ call.lane \in Lanes \cup {0}
  /\ callback.left \in 0 .. Block /\ callback.use \in BOOLEAN
  /\ clock \in 0 .. MaxFrames /\ boundary \in 0 .. clock
  /\ heard.from \in {"silence", "delayed", "rendered"} /\ heard.frame \in 0 .. clock
=============================================================================
