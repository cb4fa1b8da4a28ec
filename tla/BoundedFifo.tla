---------------------------- MODULE BoundedFifo ----------------------------
(***************************************************************************)
(* What OmniphonySpatialStereoQueue promises its two callers, with no      *)
(* indices and no storage: a bounded first-in first-out queue of frames.   *)
(*                                                                         *)
(* A call is two steps, because a caller really is inside it for a while:  *)
(* a write first learns whether its whole block fits and later publishes   *)
(* it, a read first learns how many frames it will take and later releases *)
(* their room.  Between the two steps the other caller may move.           *)
(***************************************************************************)
EXTENDS Naturals, Sequences

CONSTANTS
  Capacity,     \* frames the queue holds when it is open
  BlockSizes,   \* sizes of the blocks the producer offers
  ReadSizes     \* sizes of the reads the consumer asks for

VARIABLES
  queue,        \* the frames queued, oldest first
  putting,      \* the block an accepted write is about to publish, or <<>>
  getting,      \* [frames |-> asked, take |-> granted] of the read under way
  dropped,      \* frames refused so far
  underrun      \* frames asked for that were not there

vars == <<queue, putting, getting, dropped, underrun>>

NoRead == [frames |-> 0, take |-> 0]

Init ==
  /\ queue = <<>> /\ putting = <<>> /\ getting = NoRead
  /\ dropped = 0 /\ underrun = 0

\* A write of n frames is accepted only if all of them fit.
PutBegin(n) ==
  /\ putting = <<>>
  /\ Len(queue) + n <= Capacity
  /\ putting' \in [1..n -> Nat]
  /\ UNCHANGED <<queue, getting, dropped, underrun>>

\* It is refused as a whole only if they do not.
PutReject(n) ==
  /\ putting = <<>>
  /\ Len(queue) + n > Capacity
  /\ dropped' = dropped + n
  /\ UNCHANGED <<queue, putting, getting, underrun>>

PutEnd ==
  /\ putting # <<>>
  /\ queue' = queue \o putting
  /\ putting' = <<>>
  /\ UNCHANGED <<getting, dropped, underrun>>

\* A read takes everything it asked for, or everything there was.
GetBegin(n) ==
  /\ getting = NoRead
  /\ getting' = [frames |-> n, take |-> IF n <= Len(queue) THEN n ELSE Len(queue)]
  /\ UNCHANGED <<queue, putting, dropped, underrun>>

GetEnd ==
  /\ getting # NoRead
  /\ queue' = SubSeq(queue, getting.take + 1, Len(queue))
  /\ underrun' = underrun + (getting.frames - getting.take)
  /\ getting' = NoRead
  /\ UNCHANGED <<putting, dropped>>

\* The control thread empties the queue, between calls.
Clear ==
  /\ putting = <<>> /\ getting = NoRead
  /\ queue' = <<>> /\ dropped' = 0 /\ underrun' = 0
  /\ UNCHANGED <<putting, getting>>

Next ==
  \/ \E n \in BlockSizes : PutBegin(n) \/ PutReject(n)
  \/ PutEnd
  \/ \E n \in ReadSizes : GetBegin(n)
  \/ GetEnd
  \/ Clear

Spec == Init /\ [][Next]_vars
=============================================================================
