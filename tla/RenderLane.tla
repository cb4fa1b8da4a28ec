----------------------------- MODULE RenderLane -----------------------------
(***************************************************************************)
(* realtime_ffi: what every asynchronous lane of the realtime library is   *)
(* built from. An audio callback pushes PCM frames into an SPSC ring, a    *)
(* worker thread takes them in blocks, renders them and pushes them into a *)
(* second ring; the callback plays the rendered frame of Delay frames ago  *)
(* when it has come back, and the delayed unrendered frame otherwise.      *)
(*                                                                         *)
(* A PCM frame is the number of the callback frame it came from; frame 0   *)
(* is silence. A lane is a record:                                         *)
(*   input, output   the two rings (an AudioRing is its unread frames)     *)
(*   delay           the frames in the StereoDelay, the oldest first       *)
(*   missed          missed_current_frames, missed_rendered_frames         *)
(*   stop, failed, ready, observed    the flags                            *)
(*   worker          what the worker thread is doing                       *)
(*   block           the frames it took and has not rendered               *)
(*   kept            the frames its pipeline holds back (look-ahead)       *)
(*   rendered        the frames it rendered and has not pushed             *)
(* The rings move whole blocks: the indices of an SPSC ring are verified   *)
(* step by step in StereoQueue.                                            *)
(***************************************************************************)
EXTENDS Naturals, Sequences

CONSTANTS
  Delay,            \* CURRENT_HOST_LATENCY_MS in frames
  InputCapacity,    \* frames the input ring holds (RING_SECONDS)
  OutputCapacity,   \* frames the output ring holds
  Block,            \* frames the worker takes at a time (PROCESS_BLOCK_MS, or one packet)
  Holdback          \* frames the pipeline's look-ahead keeps back

ASSUME LaneAssumption ==
  /\ Delay \in Nat \ {0} /\ Block \in Nat \ {0} /\ Holdback \in Nat
  /\ InputCapacity \in Nat /\ InputCapacity >= 2 * Block
  /\ OutputCapacity \in Nat /\ OutputCapacity >= Block

Lesser(a, b) == IF a < b THEN a ELSE b
Drop(frames, n) == SubSeq(frames, n + 1, Len(frames))
First(frames, n) == SubSeq(frames, 1, n)

\* A lane as new() leaves it, its worker still building the pipeline.
NewLane ==
  [input |-> <<>>, output |-> <<>>, delay |-> <<>>, missed |-> 0,
   stop |-> FALSE, failed |-> FALSE, ready |-> FALSE, observed |-> FALSE,
   worker |-> "building", block |-> <<>>, kept |-> <<>>, rendered |-> <<>>]

WorkerStates == {"none", "building", "waiting", "rendering", "pushing", "done"}
NoLane == [NewLane EXCEPT !.worker = "none"]

-----------------------------------------------------------------------------
(* The delay line.                                                           *)

Primed(lane) == Len(lane.delay) = Delay

DelayPush(lane, frame) ==
  IF Primed(lane) THEN Append(Tail(lane.delay), frame) ELSE Append(lane.delay, frame)

-----------------------------------------------------------------------------
(* The callback.                                                             *)

\* The whole quantum enters the input ring, or the lane has failed for good.
Accept(lane, frames) ==
  IF lane.failed THEN lane
  ELSE IF Len(frames) > InputCapacity - Len(lane.input) THEN [lane EXCEPT !.failed = TRUE]
  ELSE [lane EXCEPT !.input = @ \o frames]

\* Rendered frames that come back after their turn are discarded, one for
\* every turn the lane missed.
StaleMutant(lane) == 0
Stale(lane) == Lesser(lane.missed, Len(lane.output))

\* The lane's turn to play a rendered frame: is there one?
InTime(lane) == lane.missed = Stale(lane) /\ Len(lane.output) > Stale(lane)

\* What the callback plays for its next frame.
Silence == [from |-> "silence", frame |-> 0]
Played(lane, use) ==
  IF ~Primed(lane) THEN Silence
  ELSE IF use /\ ~lane.failed /\ InTime(lane)
    THEN [from |-> "rendered", frame |-> lane.output[Stale(lane) + 1]]
    ELSE [from |-> "delayed", frame |-> Head(lane.delay)]

\* The lane after that frame.
MissedAfter(lane) == lane.missed - Stale(lane) + (IF InTime(lane) THEN 0 ELSE 1)

AfterFrame(lane, frame, use) ==
  LET pushed == [lane EXCEPT !.delay = DelayPush(lane, frame)]
  IN  IF Primed(lane) /\ use /\ ~lane.failed
      THEN [pushed EXCEPT
             !.output = Drop(@, Stale(lane) + (IF InTime(lane) THEN 1 ELSE 0)),
             !.missed = MissedAfter(lane)]
      ELSE pushed

-----------------------------------------------------------------------------
(* The worker.                                                               *)

MayTake(lane) == lane.worker = "waiting" /\ ~lane.stop /\ Len(lane.input) >= Block

Taken(lane) ==
  [lane EXCEPT !.input = Drop(@, Block), !.block = First(lane.input, Block),
               !.worker = "rendering"]

\* The pipeline renders the block: all it has but the frames it looks ahead to.
Rendered(lane) ==
  LET frames == lane.kept \o lane.block
      ready  == Len(frames) - Lesser(Holdback, Len(frames))
  IN  [lane EXCEPT !.block = <<>>, !.kept = Drop(frames, ready), !.rendered = First(frames, ready),
                   !.worker = IF ready = 0 THEN "waiting" ELSE "pushing"]

RenderFailed(lane) == [lane EXCEPT !.block = <<>>, !.failed = TRUE, !.worker = "done"]

\* The loop that waits for room in the output ring looks at stop before each try.
SeesStopPushingMutant(lane) == FALSE
SeesStopPushing(lane) == lane.worker = "pushing" /\ lane.stop

MayPush(lane) ==
  /\ lane.worker = "pushing" /\ ~SeesStopPushing(lane)
  /\ OutputCapacity - Len(lane.output) >= Len(lane.rendered)

Pushed(lane) == [lane EXCEPT !.output = @ \o lane.rendered, !.rendered = <<>>, !.worker = "waiting"]

\* Both loops of the worker look at stop, the one that waits for input as well.
SeesStopMutant(lane) == SeesStopPushing(lane)
SeesStop(lane) == (lane.worker = "waiting" /\ lane.stop) \/ SeesStopPushing(lane)
Exited(lane) == [lane EXCEPT !.worker = "done"]

Running(lane) == lane.worker \notin {"none", "done"}

LaneOK(lane) ==
  /\ Len(lane.input) <= InputCapacity /\ Len(lane.output) <= OutputCapacity
  /\ Len(lane.delay) <= Delay /\ Len(lane.block) \in {0, Block} /\ Len(lane.kept) <= Holdback
  /\ \A f \in {"input", "output", "delay", "block", "kept", "rendered"} : lane[f] \in Seq(Nat)
  /\ lane.missed \in Nat /\ lane.worker \in WorkerStates
  /\ \A f \in {"stop", "failed", "ready", "observed"} : lane[f] \in BOOLEAN
=============================================================================
