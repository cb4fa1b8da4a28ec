---------------------------- MODULE StereoQueue ----------------------------
(***************************************************************************)
(* OmniphonySpatialStereoQueue.cpp: the preallocated single-producer       *)
(* single-consumer frame queue between the fixed 480-frame render quantum  *)
(* and the physical endpoint's own clock.                                  *)
(*                                                                         *)
(* TryWrite and Read run on two threads without a lock.  Each is modelled  *)
(* as the code's sequence of memory steps: load both indices (one of them  *)
(* is the caller's own, so the pair is one instant), copy the frames one   *)
(* at a time, publish the new index with a release store.  Open, Close and *)
(* Reset are the control-thread calls of the header's contract and happen  *)
(* between calls; who keeps that contract is ProviderRuntime's business.   *)
(***************************************************************************)
EXTENDS Integers, FiniteSets

CONSTANTS
  Capacity,     \* capacityFrames_ given to Open
  BlockSizes,   \* block sizes the producer offers
  ReadSizes,    \* frame counts the endpoint asks for
  MaxFrames,    \* bound on the frames ever offered
  MaxUnderrun   \* bound on the underrun frames counted between two resets

ASSUME CapacityAssumption == Capacity \in Nat \ {0}
ASSUME SizesAssumption == BlockSizes \subseteq Nat /\ ReadSizes \subseteq Nat
ASSUME BoundsAssumption == MaxFrames \in Nat /\ MaxUnderrun \in Nat

VARIABLES
  open,           \* IsOpen(): capacityFrames_ # 0
  storage,        \* storage_, one frame per slot; frame ids, 0 is silence
  writeFrame, readFrame,
  droppedFrames, underrunFrames,
  writer,         \* the producer's locals while inside TryWrite
  reader,         \* the consumer's locals while inside Read
  output,         \* the consumer's buffer: what the last Read put in it
  offered,        \* history: frames the producer has offered, the frame ids
  stream          \* history: stream[k] is the frame accepted as number k

indices == <<writeFrame, readFrame>>
counters == <<droppedFrames, underrunFrames>>
vars == <<open, storage, indices, counters, writer, reader, output, offered, stream>>

Silence == 0
Slots == 0 .. (Capacity - 1)
NoWrite == [frames |-> 0, write |-> 0, first |-> 0, copied |-> 0]
NoRead == [frames |-> 0, read |-> 0, available |-> 0, copied |-> 0]

Writing == writer.frames > 0
Reading == reader.frames > 0

\* The i-th of n frames that start at absolute index base: the block goes to
\* the end of the storage first and the rest wraps to its beginning.
SlotOfMutant(base, n, i) ==
  LET start == base % Capacity
      first == IF n <= Capacity - start THEN n ELSE Capacity - start
  IN  IF i < first THEN start + i ELSE (i - first + 1) % Capacity
SlotOf(base, n, i) ==
  LET start == base % Capacity
      first == IF n <= Capacity - start THEN n ELSE Capacity - start
  IN  IF i < first THEN start + i ELSE i - first

\* The block fits beside what is still queued, seen from the producer.
FitsMutant(n) == n <= Capacity - (writeFrame - readFrame) + 1
Fits(n) ==
  LET used == writeFrame - readFrame
  IN  used <= Capacity /\ n <= Capacity - used

\* What Read can take of n frames, seen from the consumer.
AvailableTo(n) ==
  LET queued == IF writeFrame - readFrame <= Capacity
                THEN writeFrame - readFrame ELSE Capacity
  IN  IF queued <= n THEN queued ELSE n

\* The whole block is in the storage: the release store may publish it.
BlockCopiedMutant == TRUE
BlockCopied == writer.copied = writer.frames

\* The frames of the read under way that were not there.
MissingTail == reader.frames - reader.available

-----------------------------------------------------------------------------
Init ==
  /\ open = FALSE
  /\ storage = [s \in Slots |-> Silence]
  /\ writeFrame = 0 /\ readFrame = 0
  /\ droppedFrames = 0 /\ underrunFrames = 0
  /\ writer = NoWrite /\ reader = NoRead
  /\ output = [i \in {} |-> Silence]
  /\ offered = 0
  /\ stream = [k \in {} |-> Silence]

\* What Close and Reset have in common: both indices and both counters go to
\* zero, whatever they were.
ZeroIndices ==
  /\ writeFrame' = 0 /\ readFrame' = 0
  /\ droppedFrames' = 0 /\ underrunFrames' = 0
  /\ stream' = [k \in {} |-> Silence]
  /\ output' = [i \in {} |-> Silence]

BetweenCalls == ~Writing /\ ~Reading

\* Open closes, allocates silence and resets.
Open ==
  /\ BetweenCalls
  /\ open' = TRUE
  /\ storage' = [s \in Slots |-> Silence]
  /\ ZeroIndices
  /\ UNCHANGED <<writer, reader, offered>>

Close ==
  /\ BetweenCalls
  /\ open' = FALSE
  /\ storage' = [s \in Slots |-> Silence]
  /\ ZeroIndices
  /\ UNCHANGED <<writer, reader, offered>>

Reset ==
  /\ BetweenCalls
  /\ storage' = [s \in Slots |-> Silence]
  /\ ZeroIndices
  /\ UNCHANGED <<open, writer, reader, offered>>

-----------------------------------------------------------------------------
(* The producer. A block of no frame, or larger than the queue, is refused   *)
(* with nothing counted, so it is no step.                                   *)

TryWriteReject(n) ==
  /\ open /\ ~Writing /\ n > 0 /\ n <= Capacity
  /\ offered + n <= MaxFrames
  /\ ~Fits(n)
  /\ droppedFrames' = droppedFrames + n
  /\ offered' = offered + n
  /\ UNCHANGED <<open, storage, indices, underrunFrames, writer, reader, output, stream>>

TryWriteBegin(n) ==
  /\ open /\ ~Writing /\ n > 0 /\ n <= Capacity
  /\ offered + n <= MaxFrames
  /\ Fits(n)
  /\ writer' = [frames |-> n, write |-> writeFrame, first |-> offered + 1, copied |-> 0]
  /\ offered' = offered + n
  /\ UNCHANGED <<open, storage, indices, counters, reader, output, stream>>

TryWriteCopy ==
  /\ Writing /\ writer.copied < writer.frames
  /\ storage' = [storage EXCEPT
       ![SlotOf(writer.write, writer.frames, writer.copied)] = writer.first + writer.copied]
  /\ writer' = [writer EXCEPT !.copied = @ + 1]
  /\ UNCHANGED <<open, indices, counters, reader, output, offered, stream>>

TryWritePublish ==
  /\ Writing /\ BlockCopied
  /\ writeFrame' = writer.write + writer.frames
  /\ stream' = [k \in 0 .. (writer.write + writer.frames - 1) |->
                  IF k < writer.write THEN stream[k] ELSE writer.first + (k - writer.write)]
  /\ writer' = NoWrite
  /\ UNCHANGED <<open, storage, readFrame, counters, reader, output, offered>>

-----------------------------------------------------------------------------
(* The consumer.                                                             *)

ReadBegin(n) ==
  /\ open /\ ~Reading /\ n > 0
  /\ underrunFrames + n <= MaxUnderrun + AvailableTo(n)
  /\ reader' = [frames |-> n, read |-> readFrame, available |-> AvailableTo(n), copied |-> 0]
  /\ output' = [i \in {} |-> Silence]
  /\ UNCHANGED <<open, storage, indices, counters, writer, offered, stream>>

ReadCopy ==
  /\ Reading /\ reader.copied < reader.available
  /\ output' = [i \in 0 .. reader.copied |->
       IF i < reader.copied THEN output[i]
       ELSE storage[SlotOf(reader.read, reader.available, reader.copied)]]
  /\ reader' = [reader EXCEPT !.copied = @ + 1]
  /\ UNCHANGED <<open, storage, indices, counters, writer, offered, stream>>

\* The tail that was not there is filled with silence and counted, and the
\* frames taken are released to the producer.
ReadPublish ==
  /\ Reading /\ reader.copied = reader.available
  /\ output' = [i \in 0 .. (reader.frames - 1) |->
       IF i < reader.available THEN output[i] ELSE Silence]
  /\ underrunFrames' = underrunFrames + MissingTail
  /\ readFrame' = reader.read + reader.available
  /\ reader' = NoRead
  /\ UNCHANGED <<open, storage, writeFrame, droppedFrames, writer, offered, stream>>

-----------------------------------------------------------------------------
Next ==
  \/ Open \/ Close \/ Reset
  \/ \E n \in BlockSizes : TryWriteReject(n) \/ TryWriteBegin(n)
  \/ TryWriteCopy \/ TryWritePublish
  \/ \E n \in ReadSizes : ReadBegin(n)
  \/ ReadCopy \/ ReadPublish

Spec == Init /\ [][Next]_vars

-----------------------------------------------------------------------------
Frames == 0 .. MaxFrames

TypeOK ==
  /\ open \in BOOLEAN
  /\ storage \in [Slots -> Frames]
  /\ writeFrame \in Nat /\ readFrame \in Nat
  /\ droppedFrames \in Nat /\ underrunFrames \in Nat
  /\ writer \in [frames : Nat, write : Nat, first : Nat, copied : Nat]
  /\ reader \in [frames : Nat, read : Nat, available : Nat, copied : Nat]
  /\ offered \in Frames

\* The slots a copy under way still has to touch.
SlotsWritten == {SlotOf(writer.write, writer.frames, i) : i \in writer.copied .. (writer.frames - 1)}
SlotsRead == {SlotOf(reader.read, reader.available, i) : i \in reader.copied .. (reader.available - 1)}

\* The two threads copy without a lock and never touch the same slot: what
\* keeps memcpy against memcpy from being a data race is index arithmetic only.
RaceFree == SlotsWritten \cap SlotsRead = {}

\* A read hands over the accepted frames in the order they were accepted,
\* across the wrap of the storage and whatever the producer does meanwhile.
DeliversInOrder ==
  Reading => \A i \in 0 .. (reader.copied - 1) :
                /\ reader.read + i < writeFrame
                /\ output[i] = stream[reader.read + i]

\* The queued frames, an accepted block included, never exceed the storage, so
\* the unsigned difference of the two indices never wraps and the producer's
\* test "used > capacity" never holds.
BoundedLead ==
  /\ readFrame <= writeFrame
  /\ writeFrame + writer.frames <= readFrame + Capacity

\* The abstract queue is read off the storage between the two indices.
Fifo == INSTANCE BoundedFifo WITH
  queue <- [i \in 1 .. (writeFrame - readFrame) |-> storage[SlotOf(readFrame, writeFrame - readFrame, i - 1)]],
  putting <- [i \in 1 .. writer.frames |-> writer.first + (i - 1)],
  getting <- [frames |-> reader.frames, take |-> reader.available],
  dropped <- droppedFrames,
  underrun <- underrunFrames

\* The lock-free queue implements the bounded first-in first-out queue: blocks
\* whole or refused, no frame lost, repeated, reordered or overwritten.
ImplementsFifo == Fifo!Spec
=============================================================================
