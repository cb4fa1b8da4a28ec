------------------------- MODULE StereoQueueProofs -------------------------
(***************************************************************************)
(* For every capacity, every set of block sizes and every set of read      *)
(* sizes: the queue's memcpy calls never meet on a slot, a read hands over *)
(* the accepted frames in order, the lead never exceeds the capacity, and  *)
(* so the queue implements the bounded first-in first-out queue.           *)
(***************************************************************************)
EXTENDS StereoQueue, SequenceTheorems, TLAPS

-----------------------------------------------------------------------------
(* What the proofs need to know of "index % capacity": the remainder of a    *)
(* number is the one number below the divisor that differs from it by a      *)
(* multiple, so indices less than a capacity apart fall on distinct slots.   *)

\* A product is at least its positive factor as soon as the other factor is
\* at least one.
LEMMA ProductBound ==
  ASSUME NEW C \in Nat \ {0}, NEW q \in Int, q >= 1
  PROVE  q * C >= C
<1>1. (q - 1) * C >= 0
  BY SMT
<1>2. q * C = (q - 1) * C + C
  BY SMT
<1> QED BY <1>1, <1>2, SMT

\* Quotient and remainder by a positive number.
LEMMA QuotientRemainder ==
  ASSUME NEW C \in Nat \ {0}, NEW a \in Nat
  PROVE  /\ a % C \in 0 .. (C - 1)
         /\ \E q \in Int : a = q * C + (a % C)
<1>1. a % C \in 0 .. (C - 1)
  BY SMT
<1>2. a = (a \div C) * C + (a % C) /\ a \div C \in Int
  BY SMT
<1> QED BY <1>1, <1>2

\* The remainder is unique.
LEMMA RemainderUnique ==
  ASSUME NEW C \in Nat \ {0}, NEW p \in Int, NEW q \in Int,
         NEW r \in 0 .. (C - 1), NEW s \in 0 .. (C - 1),
         p * C + r = q * C + s
  PROVE  r = s
<1>1. CASE p = q
  BY <1>1, SMT
<1>2. CASE p > q
  <2>1. (p - q) * C >= C
    BY <1>2, ProductBound, SMT
  <2>2. (p - q) * C = p * C - q * C
    BY SMT
  <2> QED BY <2>1, <2>2, SMT
<1>3. CASE q > p
  <2>1. (q - p) * C >= C
    BY <1>3, ProductBound, SMT
  <2>2. (q - p) * C = q * C - p * C
    BY SMT
  <2> QED BY <2>1, <2>2, SMT
<1> QED BY <1>1, <1>2, <1>3, SMT

\* Two indices less than a capacity apart fall on distinct slots.
LEMMA SlotsDiffer ==
  ASSUME NEW C \in Nat \ {0}, NEW a \in Nat, NEW b \in Nat,
         a < b, b < a + C
  PROVE  a % C # b % C
<1> SUFFICES ASSUME a % C = b % C PROVE FALSE
  OBVIOUS
<1>1. PICK p \in Int : a = p * C + (a % C)
  BY QuotientRemainder
<1>2. PICK q \in Int : b = q * C + (b % C)
  BY QuotientRemainder
<1>3. a % C \in Int
  BY QuotientRemainder
<1>4. b - a = (q - p) * C
  <2>1. (q - p) * C = q * C - p * C
    BY SMT
  <2>2. p * C \in Int /\ q * C \in Int
    BY SMT
  <2> QED BY <1>1, <1>2, <1>3, <2>1, <2>2, SMT
<1>5. CASE q - p >= 1
  BY <1>4, <1>5, ProductBound, SMT
<1>6. CASE q - p <= 0
  <2>1. (p - q) * C >= 0
    BY <1>6, SMT
  <2>2. (q - p) * C = -((p - q) * C)
    BY SMT
  <2> QED BY <1>4, <2>1, <2>2, SMT
<1> QED BY <1>5, <1>6, SMT

\* Where the i-th frame after base falls, with the wrap written as the code
\* writes it: to the end of the storage first, then from its beginning.
LEMMA WrapIsModulo ==
  ASSUME NEW C \in Nat \ {0}, NEW base \in Nat, NEW i \in Nat, i < C
  PROVE  /\ (base % C) + i < C  => (base + i) % C = (base % C) + i
         /\ (base % C) + i >= C => (base + i) % C = (base % C) + i - C
<1>1. PICK p \in Int : base = p * C + (base % C)
  BY QuotientRemainder
<1>. base + i \in Nat
  OBVIOUS
<1>2. PICK q \in Int : base + i = q * C + ((base + i) % C)
  BY QuotientRemainder
<1>3. base % C \in 0 .. (C - 1) /\ (base + i) % C \in 0 .. (C - 1)
  BY QuotientRemainder
<1>4. p * C \in Int /\ q * C \in Int /\ (p + 1) * C \in Int
  BY SMT
<1>5. ASSUME (base % C) + i < C PROVE (base + i) % C = (base % C) + i
  <2>1. (base % C) + i \in 0 .. (C - 1)
    BY <1>3, <1>5, SMT
  <2>2. p * C + ((base % C) + i) = q * C + ((base + i) % C)
    BY <1>1, <1>2, <1>3, <1>4, SMT
  <2> QED BY <1>3, <2>1, <2>2, RemainderUnique
<1>6. ASSUME (base % C) + i >= C PROVE (base + i) % C = (base % C) + i - C
  <2>1. (base % C) + i - C \in 0 .. (C - 1)
    BY <1>3, <1>6, SMT
  <2>2. (p + 1) * C = p * C + C
    BY SMT
  <2>3. (p + 1) * C + ((base % C) + i - C) = q * C + ((base + i) % C)
    BY <1>1, <1>2, <1>3, <1>4, <2>2, SMT
  <2>4. p + 1 \in Int
    BY SMT
  <2> QED BY <1>3, <2>1, <2>3, <2>4, RemainderUnique
<1> QED BY <1>5, <1>6

-----------------------------------------------------------------------------
(* The invariant.                                                            *)

\* The producer inside TryWrite: its snapshot of its own index is the index,
\* and the block it was granted fits beside what is queued.
WriterInv ==
  /\ writer.copied <= writer.frames
  /\ Writing => /\ open
                /\ writer.write = writeFrame
                /\ writer.frames <= Capacity
                /\ writer.first >= 1
                /\ writer.first + writer.frames = offered + 1

\* The consumer inside Read: what it was granted is still queued.
ReaderInv ==
  /\ reader.copied <= reader.available
  /\ reader.available <= reader.frames
  /\ Reading => /\ open
                /\ reader.read = readFrame
                /\ reader.read + reader.available <= writeFrame

\* The storage holds every queued frame, and the part of the block copied so
\* far, each at its index modulo the capacity.
StorageInv ==
  /\ \A k \in Nat : readFrame <= k /\ k < writeFrame => storage[k % Capacity] = stream[k]
  /\ \A i \in Nat : i < writer.copied => storage[(writer.write + i) % Capacity] = writer.first + i

IInv == TypeOK /\ BoundedLead /\ WriterInv /\ ReaderInv /\ StorageInv /\ DeliversInOrder

\* SlotOf is the index modulo the capacity.
LEMMA SlotOfIsModulo ==
  ASSUME NEW base \in Nat, NEW n \in Nat, NEW i \in Nat, i < n, n <= Capacity
  PROVE  SlotOf(base, n, i) = (base + i) % Capacity /\ SlotOf(base, n, i) \in Slots
<1>. Capacity \in Nat \ {0} /\ i < Capacity
  BY CapacityAssumption
<1>1. /\ (base % Capacity) + i < Capacity  => (base + i) % Capacity = (base % Capacity) + i
      /\ (base % Capacity) + i >= Capacity => (base + i) % Capacity = (base % Capacity) + i - Capacity
  BY WrapIsModulo
<1>2. base % Capacity \in 0 .. (Capacity - 1)
  BY QuotientRemainder
<1>3. SlotOf(base, n, i) = IF (base % Capacity) + i < Capacity
                           THEN (base % Capacity) + i ELSE (base % Capacity) + i - Capacity
  BY <1>2 DEF SlotOf
<1> QED BY <1>1, <1>2, <1>3 DEF Slots

\* Writing at one index leaves the frame at another index of the window alone.
LEMMA OtherSlotKept ==
  ASSUME NEW a \in Nat, NEW b \in Nat, a < b, b < a + Capacity
  PROVE  a % Capacity # b % Capacity
BY SlotsDiffer, CapacityAssumption

LEMMA InitInv == Init => IInv
<1> SUFFICES ASSUME Init PROVE IInv
  OBVIOUS
<1> USE CapacityAssumption, BoundsAssumption DEF Init
<1>1. TypeOK
  <2>1. open \in BOOLEAN
    OBVIOUS
  <2>2. 0 \in Frames
    BY DEF Frames
  <2>3. storage \in [Slots -> Frames]
    BY <2>2 DEF Silence
  <2>4. writer \in [frames : Nat, write : Nat, first : Nat, copied : Nat]
    BY DEF NoWrite
  <2>5. reader \in [frames : Nat, read : Nat, available : Nat, copied : Nat]
    BY DEF NoRead
  <2> QED BY <2>1, <2>2, <2>3, <2>4, <2>5 DEF TypeOK
<1>2. BoundedLead /\ WriterInv /\ ReaderInv
  BY DEF BoundedLead, WriterInv, ReaderInv, NoWrite, NoRead, Writing, Reading
<1>3. StorageInv /\ DeliversInOrder
  BY DEF StorageInv, DeliversInOrder, NoWrite, NoRead, Reading
<1> QED BY <1>1, <1>2, <1>3 DEF IInv

\* The control calls leave an empty queue behind.
LEMMA ControlInv == ASSUME IInv, Open \/ Close \/ Reset PROVE IInv'
<1> USE CapacityAssumption, BoundsAssumption DEF IInv, Open, Close, Reset, ZeroIndices, BetweenCalls
<1>1. TypeOK'
  <2>1. open' \in BOOLEAN
    BY DEF TypeOK
  <2>2. 0 \in Frames
    BY DEF Frames
  <2>3. storage' \in [Slots -> Frames]
    BY <2>2 DEF Silence
  <2>4. UNCHANGED <<writer, reader, offered>>
    OBVIOUS
  <2>5. writeFrame' = 0 /\ readFrame' = 0 /\ droppedFrames' = 0 /\ underrunFrames' = 0
    OBVIOUS
  <2> QED BY <2>1, <2>3, <2>4, <2>5 DEF TypeOK
<1>2. writer.frames = 0 /\ reader.frames = 0 /\ writer.copied = 0 /\ reader.copied = 0
  BY DEF TypeOK, Writing, Reading, WriterInv, ReaderInv
<1>3. (BoundedLead /\ WriterInv /\ ReaderInv)'
  BY <1>2 DEF TypeOK, BoundedLead, WriterInv, ReaderInv, Writing, Reading
<1>4. (StorageInv /\ DeliversInOrder)'
  BY <1>2 DEF StorageInv, DeliversInOrder, Reading
<1> QED BY <1>1, <1>3, <1>4

LEMMA TryWriteRejectInv == ASSUME IInv, NEW n \in BlockSizes, TryWriteReject(n) PROVE IInv'
<1> USE CapacityAssumption, BoundsAssumption, SizesAssumption DEF IInv, TryWriteReject, indices
<1>1. TypeOK'
  BY DEF TypeOK, Frames
<1>2. (BoundedLead /\ WriterInv /\ ReaderInv)'
  BY DEF TypeOK, BoundedLead, WriterInv, ReaderInv, Writing, Reading
<1>3. (StorageInv /\ DeliversInOrder)'
  BY DEF StorageInv, DeliversInOrder, Reading
<1> QED BY <1>1, <1>2, <1>3

LEMMA TryWriteBeginInv == ASSUME IInv, NEW n \in BlockSizes, TryWriteBegin(n) PROVE IInv'
<1> USE CapacityAssumption, BoundsAssumption, SizesAssumption
    DEF IInv, TryWriteBegin, Fits, indices, counters
<1>1. TypeOK'
  BY DEF TypeOK, Frames
<1>2. (BoundedLead /\ WriterInv /\ ReaderInv)'
  BY DEF TypeOK, BoundedLead, WriterInv, ReaderInv, Writing, Reading, Frames
<1>3. (StorageInv /\ DeliversInOrder)'
  BY DEF TypeOK, StorageInv, DeliversInOrder, Reading
<1> QED BY <1>1, <1>2, <1>3

\* The copied frame lands outside the queued window and beside the frames of
\* the block copied before it.
LEMMA TryWriteCopyInv == ASSUME IInv, TryWriteCopy PROVE IInv'
<1> USE CapacityAssumption, BoundsAssumption DEF IInv, TryWriteCopy, indices, counters
<1> DEFINE at == writer.write + writer.copied
           slot == SlotOf(writer.write, writer.frames, writer.copied)
<1>1. slot = at % Capacity /\ slot \in Slots
  BY SlotOfIsModulo DEF TypeOK, WriterInv, Writing
<1>2. at \in Nat /\ at >= writeFrame /\ at < readFrame + Capacity
  BY DEF TypeOK, WriterInv, Writing, BoundedLead
<1>3. writer.first + writer.copied \in Frames
  BY DEF TypeOK, WriterInv, Writing, Frames
<1>4. TypeOK'
  BY <1>1, <1>3 DEF TypeOK
<1>5. (BoundedLead /\ WriterInv /\ ReaderInv)'
  BY DEF TypeOK, BoundedLead, WriterInv, ReaderInv, Writing, Reading
<1>6. ASSUME NEW k \in Nat, readFrame <= k, k < writeFrame
      PROVE  storage'[k % Capacity] = stream[k]
  <2>1. k < at /\ at < k + Capacity
    BY <1>2, <1>6 DEF TypeOK
  <2>. k % Capacity # at % Capacity
    BY <1>2, <2>1, OtherSlotKept
  <2>2. k % Capacity \in Slots
    BY QuotientRemainder DEF Slots
  <2> QED BY <1>1, <1>6, <2>2 DEF StorageInv, TypeOK
<1>7. ASSUME NEW i \in Nat, i < writer.copied
      PROVE  storage'[(writer.write + i) % Capacity] = writer.first + i
  <2>1. writer.write + i \in Nat /\ writer.write + i < at /\ at < writer.write + i + Capacity
    BY <1>7 DEF TypeOK, WriterInv, Writing
  <2>2. (writer.write + i) % Capacity # at % Capacity
    BY <1>2, <2>1, OtherSlotKept
  <2>3. (writer.write + i) % Capacity \in Slots
    BY <2>1, QuotientRemainder DEF Slots
  <2> QED BY <1>1, <1>7, <2>2, <2>3 DEF StorageInv, TypeOK
<1>8. storage'[at % Capacity] = writer.first + writer.copied
  BY <1>1 DEF TypeOK
<1>9. StorageInv'
  BY <1>6, <1>7, <1>8 DEF StorageInv, TypeOK
<1>10. DeliversInOrder'
  BY DEF DeliversInOrder, Reading
<1> QED BY <1>4, <1>5, <1>9, <1>10

\* Publishing turns the copied block into queued frames.
LEMMA TryWritePublishInv == ASSUME IInv, TryWritePublish PROVE IInv'
<1> USE CapacityAssumption, BoundsAssumption
    DEF IInv, TryWritePublish, BlockCopied, NoWrite, counters
<1>1. TypeOK'
  BY DEF TypeOK, Frames
<1>2. writer.write = writeFrame /\ writeFrame' = writeFrame + writer.frames
  BY DEF WriterInv, Writing
<1>3. (BoundedLead /\ WriterInv /\ ReaderInv)'
  <2>1. WriterInv'
    BY DEF WriterInv, Writing
  <2>2. /\ TypeOK /\ BoundedLead /\ ReaderInv
        /\ writer'.frames = 0 /\ UNCHANGED <<open, readFrame, reader>>
    OBVIOUS
  <2>. HIDE DEF IInv, TryWritePublish
  <2>3. BoundedLead'
    BY <1>2, <2>2 DEF TypeOK, BoundedLead
  <2>4. ReaderInv'
    BY <1>2, <2>2 DEF TypeOK, ReaderInv, Reading
  <2> QED BY <2>1, <2>3, <2>4
<1>4. \A k \in Nat : k < writeFrame => stream'[k] = stream[k]
  BY <1>2 DEF TypeOK
<1>5. \A i \in Nat : i < writer.frames => stream'[writer.write + i] = writer.first + i
  BY <1>2 DEF TypeOK
<1>6. ASSUME NEW k \in Nat, readFrame <= k, k < writeFrame'
      PROVE  storage[k % Capacity] = stream'[k]
  <2>1. CASE k < writeFrame
    BY <1>4, <1>6, <2>1 DEF StorageInv
  <2>2. CASE k >= writeFrame
    <3>1. k - writeFrame \in Nat /\ k - writeFrame < writer.frames
      BY <1>2, <1>6, <2>2 DEF TypeOK
    <3>2. storage[(writer.write + (k - writeFrame)) % Capacity] = writer.first + (k - writeFrame)
      BY <3>1 DEF StorageInv
    <3>3. stream'[writer.write + (k - writeFrame)] = writer.first + (k - writeFrame)
      BY <1>5, <3>1
    <3>4. writer.write + (k - writeFrame) = k
      BY <1>2 DEF TypeOK
    <3> QED BY <3>2, <3>3, <3>4
  <2> QED BY <2>1, <2>2 DEF TypeOK
<1>7. StorageInv'
  BY <1>6 DEF StorageInv
<1>8. DeliversInOrder'
  BY <1>2, <1>4 DEF DeliversInOrder, Reading, TypeOK
<1> QED BY <1>1, <1>3, <1>7, <1>8

LEMMA ReadBeginInv == ASSUME IInv, NEW n \in ReadSizes, ReadBegin(n) PROVE IInv'
<1> USE CapacityAssumption, BoundsAssumption, SizesAssumption
    DEF IInv, ReadBegin, AvailableTo, indices, counters
<1>1. TypeOK'
  BY DEF TypeOK, BoundedLead
<1>2. (BoundedLead /\ WriterInv /\ ReaderInv)'
  BY DEF TypeOK, BoundedLead, WriterInv, ReaderInv, Writing, Reading
<1>3. (StorageInv /\ DeliversInOrder)'
  BY DEF TypeOK, StorageInv, DeliversInOrder, Reading
<1> QED BY <1>1, <1>2, <1>3

\* The frame copied out is the queued frame, for the producer stays out of
\* the window until the read releases it.
LEMMA ReadCopyInv == ASSUME IInv, ReadCopy PROVE IInv'
<1> DEFINE at == reader.read + reader.copied
<1>1. /\ UNCHANGED <<open, storage, writeFrame, readFrame, droppedFrames, underrunFrames,
                     writer, offered, stream>>
      /\ Reading /\ reader.copied < reader.available
  BY DEF ReadCopy, indices, counters
<1>2. /\ reader \in [frames : Nat, read : Nat, available : Nat, copied : Nat]
      /\ readFrame \in Nat /\ writeFrame \in Nat /\ writer.frames \in Nat
  BY DEF IInv, TypeOK
<1>3. /\ reader' \in [frames : Nat, read : Nat, available : Nat, copied : Nat]
      /\ reader'.frames = reader.frames /\ reader'.available = reader.available
      /\ reader'.read = reader.read /\ reader'.copied = reader.copied + 1
  <2>1. reader' = [reader EXCEPT !.copied = @ + 1]
    BY DEF ReadCopy
  <2> QED BY <1>2, <2>1
<1>4. TypeOK'
  BY <1>1, <1>3 DEF IInv, TypeOK
<1>5. BoundedLead' /\ WriterInv' /\ StorageInv'
  BY <1>1 DEF IInv, BoundedLead, WriterInv, StorageInv, Writing
<1>6. /\ readFrame = reader.read /\ reader.read + reader.available <= writeFrame
      /\ reader.available <= reader.frames /\ open
  BY <1>1 DEF IInv, ReaderInv
<1>7. ReaderInv'
  BY <1>1, <1>2, <1>3, <1>6 DEF ReaderInv
<1>8. at \in Nat /\ readFrame <= at /\ at < writeFrame
  BY <1>1, <1>2, <1>6
<1>9. output' = [i \in 0 .. reader.copied |-> IF i < reader.copied THEN output[i] ELSE stream[at]]
  <2>1. reader.available <= Capacity
    <3>1. Capacity \in Nat /\ writeFrame + writer.frames <= readFrame + Capacity
      BY CapacityAssumption DEF IInv, BoundedLead
    <3> QED BY <1>2, <1>6, <3>1
  <2>2. SlotOf(reader.read, reader.available, reader.copied) = at % Capacity
    BY <1>1, <1>2, <2>1, SlotOfIsModulo
  <2>3. storage[at % Capacity] = stream[at]
    BY <1>8 DEF IInv, StorageInv
  <2> QED BY <2>2, <2>3 DEF ReadCopy
<1>10. DeliversInOrder'
  <2>1. \A i \in 0 .. (reader.copied - 1) :
           reader.read + i < writeFrame /\ output[i] = stream[reader.read + i]
    BY <1>1 DEF IInv, DeliversInOrder
  <2>2. ASSUME NEW i \in 0 .. reader.copied
        PROVE  reader.read + i < writeFrame /\ output'[i] = stream[reader.read + i]
    <3>1. CASE i = reader.copied
      BY <1>2, <1>8, <1>9, <3>1
    <3>2. CASE i # reader.copied
      <4>1. i < reader.copied /\ i \in 0 .. (reader.copied - 1)
        BY <1>2, <3>2
      <4> QED BY <1>9, <2>1, <4>1
    <3> QED BY <3>1, <3>2
  <2>3. (reader.copied + 1) - 1 = reader.copied
    BY <1>2
  <2> QED BY <1>1, <1>3, <2>2, <2>3 DEF DeliversInOrder
<1> QED BY <1>4, <1>5, <1>7, <1>10 DEF IInv

LEMMA ReadPublishInv == ASSUME IInv, ReadPublish PROVE IInv'
<1>1. /\ UNCHANGED <<open, storage, writeFrame, droppedFrames, writer, offered, stream>>
      /\ readFrame' = reader.read + reader.available /\ reader' = NoRead
      /\ underrunFrames' = underrunFrames + MissingTail /\ Reading
  BY DEF ReadPublish
<1>2. /\ reader \in [frames : Nat, read : Nat, available : Nat, copied : Nat]
      /\ readFrame \in Nat /\ writeFrame \in Nat /\ writer.frames \in Nat /\ underrunFrames \in Nat
  BY DEF IInv, TypeOK
<1>3. /\ readFrame = reader.read /\ reader.read + reader.available <= writeFrame
      /\ reader.available <= reader.frames
  BY <1>1 DEF IInv, ReaderInv
<1>4. readFrame' \in Nat /\ readFrame <= readFrame' /\ readFrame' <= writeFrame
  BY <1>1, <1>2, <1>3
<1>5. TypeOK'
  <2>1. MissingTail \in Nat
    BY <1>2, <1>3 DEF MissingTail
  <2>2. underrunFrames' \in Nat
    BY <1>1, <1>2, <2>1
  <2>3. reader' \in [frames : Nat, read : Nat, available : Nat, copied : Nat]
    BY <1>1 DEF NoRead
  <2> QED BY <1>1, <1>4, <2>2, <2>3 DEF IInv, TypeOK
<1>6. BoundedLead'
  <2>1. writeFrame + writer.frames <= readFrame + Capacity /\ Capacity \in Nat
    BY CapacityAssumption DEF IInv, BoundedLead
  <2> QED BY <1>1, <1>2, <1>4, <2>1 DEF BoundedLead
<1>7. WriterInv'
  BY <1>1 DEF IInv, WriterInv, Writing
<1>8. ReaderInv' /\ DeliversInOrder'
  BY <1>1 DEF ReaderInv, DeliversInOrder, NoRead, Reading
<1>9. StorageInv'
  BY <1>1, <1>2, <1>4 DEF IInv, StorageInv
<1> QED BY <1>5, <1>6, <1>7, <1>8, <1>9 DEF IInv

\* The strengthening is inductive: one step per operation of the queue.
THEOREM Invariance == Spec => []IInv
<1>1. IInv /\ [Next]_vars => IInv'
  <2> SUFFICES ASSUME IInv, [Next]_vars PROVE IInv'
    OBVIOUS
  <2>1. CASE Open \/ Close \/ Reset
    BY <2>1, ControlInv
  <2>2. CASE \E n \in BlockSizes : TryWriteReject(n) \/ TryWriteBegin(n)
    BY <2>2, TryWriteRejectInv, TryWriteBeginInv
  <2>3. CASE TryWriteCopy
    BY <2>3, TryWriteCopyInv
  <2>4. CASE TryWritePublish
    BY <2>4, TryWritePublishInv
  <2>5. CASE \E n \in ReadSizes : ReadBegin(n)
    BY <2>5, ReadBeginInv
  <2>6. CASE ReadCopy
    BY <2>6, ReadCopyInv
  <2>7. CASE ReadPublish
    BY <2>7, ReadPublishInv
  <2>8. CASE UNCHANGED vars
    BY <2>8 DEF vars, indices, counters, IInv, TypeOK, BoundedLead, WriterInv, ReaderInv,
       StorageInv, DeliversInOrder, Writing, Reading
  <2> QED BY <2>1, <2>2, <2>3, <2>4, <2>5, <2>6, <2>7, <2>8 DEF Next
<1> QED BY InitInv, <1>1, PTL DEF Spec

\* The two copies never touch the same slot: the frames being written lie
\* past the queued ones and less than a capacity past the frames being read.
LEMMA RaceFreeLemma == IInv => RaceFree
<1> SUFFICES ASSUME IInv,
                    NEW i \in writer.copied .. (writer.frames - 1),
                    NEW j \in reader.copied .. (reader.available - 1),
                    SlotOf(writer.write, writer.frames, i) = SlotOf(reader.read, reader.available, j)
             PROVE  FALSE
  BY DEF RaceFree, SlotsWritten, SlotsRead
<1> USE CapacityAssumption DEF IInv
<1>1. i \in Nat /\ j \in Nat /\ i < writer.frames /\ j < reader.available
  BY DEF TypeOK
<1>2. writer.frames <= Capacity /\ reader.available <= Capacity
  BY <1>1 DEF TypeOK, WriterInv, ReaderInv, BoundedLead, Writing, Reading
<1>3. SlotOf(writer.write, writer.frames, i) = (writer.write + i) % Capacity
  BY <1>1, <1>2, SlotOfIsModulo DEF TypeOK
<1>4. SlotOf(reader.read, reader.available, j) = (reader.read + j) % Capacity
  BY <1>1, <1>2, SlotOfIsModulo DEF TypeOK
<1>5. /\ reader.read + j \in Nat /\ writer.write + i \in Nat
      /\ reader.read + j < writer.write + i
      /\ writer.write + i < reader.read + j + Capacity
  BY <1>1 DEF TypeOK, WriterInv, ReaderInv, BoundedLead, Writing, Reading
<1>6. (reader.read + j) % Capacity # (writer.write + i) % Capacity
  BY <1>5, OtherSlotKept
<1> QED BY <1>3, <1>4, <1>6

\* Typing, for every value of the constants.
THEOREM TypeCorrect == Spec => []TypeOK
BY Invariance, PTL DEF IInv

\* The unsigned index difference stays within the capacity.
THEOREM LeadIsBounded == Spec => []BoundedLead
BY Invariance, PTL DEF IInv

\* The two threads' copies are free of data races.
THEOREM NoDataRace == Spec => []RaceFree
BY Invariance, RaceFreeLemma, PTL

\* Reads hand over exactly the accepted frames, in order.
THEOREM FramesInOrder == Spec => []DeliversInOrder
BY Invariance, PTL DEF IInv

-----------------------------------------------------------------------------
(* The queue implements the bounded first-in first-out queue: every memory   *)
(* step of TryWrite and Read is a step of BoundedFifo, or changes nothing    *)
(* there.                                                                    *)

\* The abstract queue and the abstract block, as Fifo takes them.
Queued == [i \in 1 .. (writeFrame - readFrame) |->
             storage[SlotOf(readFrame, writeFrame - readFrame, i - 1)]]
Putting == [i \in 1 .. writer.frames |-> writer.first + (i - 1)]

\* A function on 1 .. n is a sequence of length n.
LEMMA FunctionIsSeq ==
  ASSUME NEW S, NEW n \in Nat, NEW f \in [1 .. n -> S]
  PROVE  f \in Seq(S) /\ Len(f) = n
OBVIOUS

\* The frames between the two indices, read off the storage, are the accepted
\* frames of these numbers.
ReadsStream ==
  /\ Queued \in Seq(Nat)
  /\ Len(Queued) = writeFrame - readFrame
  /\ writeFrame - readFrame \in Nat
  /\ \A i \in 1 .. (writeFrame - readFrame) : Queued[i] = stream[readFrame + (i - 1)]

\* The slots between the indices hold the accepted frames: StorageInv of the proof.
LEMMA QueuedIsStream == IInv => ReadsStream
<1> SUFFICES ASSUME IInv PROVE ReadsStream
  OBVIOUS
<1> DEFINE n == writeFrame - readFrame
<1>1. n \in Nat /\ n <= Capacity /\ readFrame \in Nat /\ writeFrame \in Nat
  BY CapacityAssumption DEF IInv, TypeOK, BoundedLead
<1>2. ASSUME NEW i \in 1 .. n
      PROVE  /\ SlotOf(readFrame, n, i - 1) = (readFrame + (i - 1)) % Capacity
             /\ SlotOf(readFrame, n, i - 1) \in Slots
  BY <1>1, SlotOfIsModulo
<1>3. ASSUME NEW i \in 1 .. n
      PROVE  storage[SlotOf(readFrame, n, i - 1)] = stream[readFrame + (i - 1)]
  <2>1. readFrame + (i - 1) \in Nat /\ readFrame <= readFrame + (i - 1) /\ readFrame + (i - 1) < writeFrame
    BY <1>1
  <2>2. storage[(readFrame + (i - 1)) % Capacity] = stream[readFrame + (i - 1)]
    BY <2>1 DEF IInv, StorageInv
  <2> QED BY <1>2, <2>2
<1>4. Queued \in [1 .. n -> Nat]
  BY <1>2, BoundsAssumption DEF Queued, IInv, TypeOK, Frames
<1> QED BY <1>1, <1>3, <1>4, FunctionIsSeq DEF Queued, ReadsStream

\* The block is a sequence of its frame numbers, and empty between writes.
LEMMA PuttingIsBlock ==
  ASSUME TypeOK
  PROVE  /\ Putting \in Seq(Nat)
         /\ Len(Putting) = writer.frames
         /\ \A i \in 1 .. writer.frames : Putting[i] = writer.first + (i - 1)
         /\ ~Writing <=> Putting = <<>>
<1>1. writer.frames \in Nat /\ writer.first \in Nat
  BY DEF TypeOK
<1>2. Putting \in [1 .. writer.frames -> Nat]
  BY <1>1 DEF Putting
<1>3. Putting \in Seq(Nat) /\ Len(Putting) = writer.frames
  BY <1>1, <1>2, FunctionIsSeq
<1>4. \A i \in 1 .. writer.frames : Putting[i] = writer.first + (i - 1)
  BY DEF Putting
<1>5. ~Writing <=> Len(Putting) = 0
  BY <1>1, <1>3 DEF Writing
<1> QED BY <1>3, <1>4, <1>5, EmptySeq

\* The consumer's side is a record in both.
Getting == [frames |-> reader.frames, take |-> reader.available]

LEMMA GettingIsRead ==
  ASSUME IInv
  PROVE  ~Reading <=> Getting = Fifo!NoRead
<1>1. reader.frames \in Nat /\ reader.available \in Nat /\ reader.available <= reader.frames
  BY DEF IInv, TypeOK, ReaderInv
<1> QED BY <1>1 DEF Getting, Fifo!NoRead, Reading

\* A step that leaves both indices alone leaves the abstract queue alone, even
\* if it copies a frame: the copy goes to no slot between the indices.
LEMMA QueuedKept ==
  ASSUME IInv, IInv', UNCHANGED <<indices, stream>>
  PROVE  Queued' = Queued
<1>1. UNCHANGED <<readFrame, writeFrame, stream>>
  BY DEF indices
<1>2. ReadsStream
  BY QueuedIsStream
<1>3. (IInv => ReadsStream)'
  BY QueuedIsStream, PTL
<1>4. /\ Queued' \in Seq(Nat) /\ Len(Queued') = writeFrame - readFrame
      /\ \A i \in 1 .. (writeFrame - readFrame) : Queued'[i] = stream[readFrame + (i - 1)]
  BY <1>1, <1>3 DEF ReadsStream, Frames
<1> QED BY <1>2, <1>4, SeqEqual DEF ReadsStream

-----------------------------------------------------------------------------
(* One lemma for each operation.                                             *)

LEMMA WriteBeginRefines ==
  ASSUME IInv, IInv', NEW n \in BlockSizes, TryWriteBegin(n)
  PROVE  Fifo!PutBegin(n)
<1> USE DEF TryWriteBegin
<1>1. ReadsStream /\ TypeOK /\ Capacity \in Nat /\ n \in Nat
  BY QueuedIsStream, CapacityAssumption, SizesAssumption DEF IInv
<1>2. Putting = <<>>
  BY <1>1, PuttingIsBlock
<1>3. Len(Queued) + n <= Capacity
  BY <1>1 DEF ReadsStream, Fits
<1>4. Putting' \in [1 .. n -> Nat]
  BY <1>1 DEF Putting, TypeOK, Frames
<1>5. Queued' = Queued /\ Getting' = Getting /\ UNCHANGED <<droppedFrames, underrunFrames>>
  BY QueuedKept DEF Getting, counters
<1> QED BY <1>2, <1>3, <1>4, <1>5 DEF Fifo!PutBegin, Queued, Putting, Getting

LEMMA WriteRejectRefines ==
  ASSUME IInv, IInv', NEW n \in BlockSizes, TryWriteReject(n)
  PROVE  Fifo!PutReject(n)
<1> USE DEF TryWriteReject
<1>1. ReadsStream /\ TypeOK /\ BoundedLead /\ Capacity \in Nat /\ n \in Nat
  BY QueuedIsStream, CapacityAssumption, SizesAssumption DEF IInv
<1>2. Putting = <<>>
  BY <1>1, PuttingIsBlock
<1>3. Len(Queued) + n > Capacity
  BY <1>1 DEF ReadsStream, Fits, TypeOK, BoundedLead
<1>4. Queued' = Queued /\ Getting' = Getting /\ Putting' = Putting
  BY QueuedKept DEF Getting, Putting
<1> QED BY <1>2, <1>3, <1>4 DEF Fifo!PutReject, Queued, Putting, Getting

LEMMA WriteCopyStutters ==
  ASSUME IInv, IInv', TryWriteCopy
  PROVE  UNCHANGED Fifo!vars
<1> USE DEF TryWriteCopy
<1>1. Queued' = Queued /\ Getting' = Getting /\ UNCHANGED <<droppedFrames, underrunFrames>>
  BY QueuedKept DEF Getting, counters
<1>2. writer'.frames = writer.frames /\ writer'.first = writer.first
  BY DEF IInv, TypeOK
<1>3. Putting' = Putting
  BY <1>2 DEF Putting
<1> QED BY <1>1, <1>3 DEF Fifo!vars, Queued, Putting, Getting

LEMMA WritePublishRefines ==
  ASSUME IInv, IInv', TryWritePublish
  PROVE  Fifo!PutEnd
<1> DEFINE n == writeFrame - readFrame
           m == writer.frames
<1>1. ReadsStream /\ TypeOK
  BY QueuedIsStream DEF IInv
<1>2. (IInv => ReadsStream)'
  BY QueuedIsStream, PTL
<1>3. /\ writer.write = writeFrame /\ m \in Nat /\ writer.first \in Nat
      /\ writeFrame \in Nat /\ readFrame \in Nat /\ n \in Nat
  BY <1>1 DEF IInv, WriterInv, TypeOK, ReadsStream, TryWritePublish
<1>4. /\ readFrame' = readFrame /\ writeFrame' = writeFrame + m
      /\ writeFrame' - readFrame' = n + m
  BY <1>3 DEF TryWritePublish
<1>5. \A k \in 0 .. (writeFrame + m - 1) :
        stream'[k] = IF k < writeFrame THEN stream[k] ELSE writer.first + (k - writeFrame)
  <2> HIDE DEF m
  <2>1. stream' = [k \in 0 .. (writeFrame + m - 1) |->
                    IF k < writeFrame THEN stream[k] ELSE writer.first + (k - writeFrame)]
    BY <1>3 DEF TryWritePublish, m
  <2> QED BY <2>1
<1>6. /\ Putting # <<>> /\ Putting \in Seq(Nat) /\ Len(Putting) = m
      /\ \A i \in 1 .. m : Putting[i] = writer.first + (i - 1)
  BY <1>1, PuttingIsBlock DEF TryWritePublish
<1>7. Putting' = <<>>
  <2>1. (TypeOK => (~Writing <=> Putting = <<>>))'
    BY PuttingIsBlock, PTL
  <2>2. ~Writing'
    BY DEF Writing, NoWrite, TryWritePublish
  <2> QED BY <2>1, <2>2 DEF IInv
<1>8. Queued' = Queued \o Putting
  <2>1. /\ Queued \in Seq(Nat) /\ Len(Queued) = n
        /\ \A i \in 1 .. n : Queued[i] = stream[readFrame + (i - 1)]
    BY <1>1 DEF ReadsStream
  <2>2. /\ Queued' \in Seq(Nat) /\ Len(Queued') = n + m
        /\ \A i \in 1 .. (n + m) : Queued'[i] = stream'[readFrame + (i - 1)]
    BY <1>2, <1>4 DEF ReadsStream
  <2> DEFINE both == Queued \o Putting
  <2>3. /\ both \in Seq(Nat) /\ Len(both) = n + m
        /\ \A i \in 1 .. (n + m) : both[i] = IF i <= n THEN Queued[i] ELSE Putting[i - n]
    <3> HIDE DEF n, m
    <3> QED BY <1>6, <2>1, ConcatProperties
  <2> HIDE DEF m, both
  <2>4. ASSUME NEW i \in 1 .. (n + m)
        PROVE  Queued'[i] = both[i]
    <3>1. /\ readFrame + (i - 1) \in 0 .. (writeFrame + m - 1)
          /\ readFrame + (i - 1) < writeFrame <=> i <= n
          /\ (readFrame + (i - 1)) - writeFrame = (i - n) - 1
          /\ IF i <= n THEN i \in 1 .. n ELSE i - n \in 1 .. m
      BY <1>3
    <3> HIDE DEF n
    <3>2. stream'[readFrame + (i - 1)] = IF i <= n THEN stream[readFrame + (i - 1)]
                                          ELSE writer.first + ((i - n) - 1)
      BY <1>5, <3>1
    <3>3. CASE i <= n
      <4>1. Queued[i] = stream[readFrame + (i - 1)]
        BY <2>1, <3>1, <3>3
      <4> QED BY <2>2, <2>3, <3>2, <3>3, <4>1
    <3>4. CASE ~(i <= n)
      <4>1. Putting[i - n] = writer.first + ((i - n) - 1)
        BY <1>6, <3>1, <3>4
      <4> QED BY <2>2, <2>3, <3>2, <3>4, <4>1
    <3> QED BY <3>3, <3>4
  <2>5. Queued' = both
    BY <2>2, <2>3, <2>4, SeqEqual
  <2> QED BY <2>5 DEF both
<1>9. Getting' = Getting /\ UNCHANGED <<droppedFrames, underrunFrames>>
  BY DEF Getting, counters, TryWritePublish
<1> QED BY <1>6, <1>7, <1>8, <1>9 DEF Fifo!PutEnd, Queued, Putting, Getting

LEMMA ReadBeginRefines ==
  ASSUME IInv, IInv', NEW n \in ReadSizes, ReadBegin(n)
  PROVE  Fifo!GetBegin(n)
<1> USE DEF ReadBegin
<1>1. ReadsStream /\ TypeOK /\ BoundedLead /\ Capacity \in Nat /\ n \in Nat
  BY QueuedIsStream, CapacityAssumption, SizesAssumption DEF IInv
<1>2. Getting = Fifo!NoRead
  BY GettingIsRead
<1>3. Getting' = [frames |-> n, take |-> IF n <= Len(Queued) THEN n ELSE Len(Queued)]
  <2>1. Len(Queued) = writeFrame - readFrame /\ writeFrame - readFrame \in Nat
    BY <1>1 DEF ReadsStream
  <2>2. writeFrame - readFrame <= Capacity
    BY <1>1 DEF BoundedLead, TypeOK
  <2>3. AvailableTo(n) = IF n <= Len(Queued) THEN n ELSE Len(Queued)
    BY <1>1, <2>1, <2>2 DEF AvailableTo
  <2>4. reader'.frames = n /\ reader'.available = AvailableTo(n)
    OBVIOUS
  <2> QED BY <2>3, <2>4 DEF Getting
<1>4. Queued' = Queued /\ Putting' = Putting /\ UNCHANGED <<droppedFrames, underrunFrames>>
  BY QueuedKept DEF Putting, counters
<1> QED BY <1>2, <1>3, <1>4 DEF Fifo!GetBegin, Queued, Putting, Getting

LEMMA ReadCopyStutters ==
  ASSUME IInv, IInv', ReadCopy
  PROVE  UNCHANGED Fifo!vars
<1> USE DEF ReadCopy
<1>1. Queued' = Queued /\ Putting' = Putting /\ UNCHANGED <<droppedFrames, underrunFrames>>
  BY QueuedKept DEF Putting, counters
<1>2. reader'.frames = reader.frames /\ reader'.available = reader.available
  BY DEF IInv, TypeOK
<1>3. Getting' = Getting
  BY <1>2 DEF Getting
<1> QED BY <1>1, <1>3 DEF Fifo!vars, Queued, Putting, Getting

\* What is left is the queue without the frames taken.
LEMMA ReadPublishRefines ==
  ASSUME IInv, IInv', ReadPublish
  PROVE  Fifo!GetEnd
<1> USE DEF ReadPublish
<1> DEFINE n == writeFrame - readFrame
           took == reader.available
<1>1. ReadsStream /\ TypeOK
  BY QueuedIsStream DEF IInv
<1>2. (IInv => ReadsStream)'
  BY QueuedIsStream, PTL
<1>3. /\ reader.read = readFrame /\ took \in Nat /\ readFrame \in Nat /\ writeFrame \in Nat
      /\ n \in Nat /\ took <= n
  <2>1. reader.read = readFrame /\ reader.read + reader.available <= writeFrame
    <3>1. Reading /\ ReaderInv
      BY DEF IInv
    <3> QED BY <3>1 DEF ReaderInv
  <2>2. reader.available \in Nat /\ readFrame \in Nat /\ writeFrame \in Nat
    BY <1>1 DEF TypeOK
  <2> QED BY <2>1, <2>2
<1>4. Getting # Fifo!NoRead
  BY GettingIsRead
<1>5. Getting' = Fifo!NoRead
  BY DEF Getting, NoRead, Fifo!NoRead
<1>6. Queued' = SubSeq(Queued, took + 1, Len(Queued))
  <2>1. /\ Queued \in Seq(Nat) /\ Len(Queued) = n
        /\ \A i \in 1 .. n : Queued[i] = stream[readFrame + (i - 1)]
    BY <1>1 DEF ReadsStream
  <2>2. readFrame' = readFrame + took /\ writeFrame' - readFrame' = n - took /\ stream' = stream
    BY <1>3
  <2>3. /\ Queued' \in Seq(Nat) /\ Len(Queued') = n - took
        /\ \A i \in 1 .. (n - took) : Queued'[i] = stream[readFrame + took + (i - 1)]
    BY <1>2, <2>2 DEF ReadsStream
  <2>4. \A i \in (took + 1) .. n : Queued[i] \in Nat
    <3> SUFFICES ASSUME NEW i \in (took + 1) .. n PROVE Queued[i] \in Nat
      OBVIOUS
    <3>1. i \in 1 .. n
      BY <1>3
    <3> QED BY <2>1, <3>1, ElementOfSeq
  <2> DEFINE rest == SubSeq(Queued, took + 1, n)
  <2>5. /\ rest \in Seq(Nat)
        /\ Len(rest) = IF took + 1 <= n THEN n - (took + 1) + 1 ELSE 0
        /\ \A i \in 1 .. (n - (took + 1) + 1) : rest[i] = Queued[(took + 1) + i - 1]
    <3> HIDE DEF n, took
    <3>1. took + 1 \in Int /\ n \in Int
      BY <1>3
    <3> QED BY <2>4, <3>1, SubSeqProperties
  <2>6. Len(rest) = n - took /\ \A i \in 1 .. (n - took) : rest[i] = Queued[took + i]
    <3> HIDE DEF n, took, rest
    <3> QED BY <1>3, <2>5
  <2>7. ASSUME NEW i \in 1 .. (n - took)
        PROVE  rest[i] = Queued'[i]
    <3> HIDE DEF n, took, rest
    <3>1. took + i \in 1 .. n
      BY <1>3
    <3>2. Queued[took + i] = stream[readFrame + ((took + i) - 1)]
      BY <2>1, <3>1
    <3>3. readFrame + ((took + i) - 1) = readFrame + took + (i - 1)
      BY <1>3
    <3> QED BY <2>3, <2>6, <3>2, <3>3
  <2>8. Queued' = rest
    <3> HIDE DEF rest
    <3> QED BY <2>3, <2>5, <2>6, <2>7, SeqEqual
  <2> QED BY <2>1, <2>8
<1>7. /\ Putting' = Putting /\ droppedFrames' = droppedFrames
      /\ underrunFrames' = underrunFrames + (Getting.frames - Getting.take)
  BY DEF Putting, Getting, MissingTail
<1> QED BY <1>4, <1>5, <1>6, <1>7 DEF Fifo!GetEnd, Queued, Putting, Getting

\* Open, Close and Reset empty the queue and its counters.
LEMMA ControlRefines ==
  ASSUME IInv, IInv', Open \/ Close \/ Reset
  PROVE  Fifo!Clear
<1> USE DEF Open, Close, Reset, ZeroIndices, BetweenCalls
<1>1. TypeOK
  BY DEF IInv
<1>2. Putting = <<>> /\ Getting = Fifo!NoRead
  BY <1>1, PuttingIsBlock, GettingIsRead
<1>3. Putting' = Putting /\ Getting' = Getting
  BY DEF Putting, Getting
<1>4. Queued' = <<>>
  <2>1. (IInv => ReadsStream)'
    BY QueuedIsStream, PTL
  <2>2. Queued' \in Seq(Nat) /\ Len(Queued') = 0
    BY <2>1 DEF ReadsStream
  <2> QED BY <2>2, EmptySeq
<1>5. droppedFrames' = 0 /\ underrunFrames' = 0
  OBVIOUS
<1> QED BY <1>2, <1>3, <1>4, <1>5 DEF Fifo!Clear, Queued, Putting, Getting

\* A queue never opened is an empty one.
LEMMA InitRefines == Init => Fifo!Init
<1> SUFFICES ASSUME Init PROVE Fifo!Init
  OBVIOUS
<1>1. IInv
  BY InitInv
<1>2. Putting = <<>> /\ Getting = Fifo!NoRead
  BY <1>1, PuttingIsBlock, GettingIsRead DEF Init, IInv, Writing, Reading, NoWrite, NoRead
<1>3. Queued = <<>>
  BY <1>1, QueuedIsStream, EmptySeq DEF ReadsStream, Init
<1> QED BY <1>2, <1>3 DEF Init, Fifo!Init, Queued, Putting, Getting

\* The memory steps of TryWrite, Read, Open, Close and Reset implement the bounded
\* first-in first-out queue: a block is queued whole at its release store, or
\* counted as dropped; a read takes the oldest frames, and counts what it lacks.
THEOREM QueueIsFifo == Spec => ImplementsFifo
<1>1. IInv /\ IInv' /\ [Next]_vars => [Fifo!Next]_(Fifo!vars)
  <2> SUFFICES ASSUME IInv, IInv', [Next]_vars PROVE [Fifo!Next]_(Fifo!vars)
    OBVIOUS
  <2>1. CASE Open \/ Close \/ Reset
    BY <2>1, ControlRefines DEF Fifo!Next
  <2>2. CASE \E n \in BlockSizes : TryWriteReject(n) \/ TryWriteBegin(n)
    BY <2>2, WriteRejectRefines, WriteBeginRefines DEF Fifo!Next
  <2>3. CASE TryWriteCopy
    BY <2>3, WriteCopyStutters
  <2>4. CASE TryWritePublish
    BY <2>4, WritePublishRefines DEF Fifo!Next
  <2>5. CASE \E n \in ReadSizes : ReadBegin(n)
    BY <2>5, ReadBeginRefines DEF Fifo!Next
  <2>6. CASE ReadCopy
    BY <2>6, ReadCopyStutters
  <2>7. CASE ReadPublish
    BY <2>7, ReadPublishRefines DEF Fifo!Next
  <2>8. CASE UNCHANGED vars
    <3>1. UNCHANGED <<indices, stream, counters, storage, writer, reader>>
      BY <2>8 DEF vars
    <3>2. Queued' = Queued /\ Putting' = Putting /\ Getting' = Getting
      BY <3>1, QueuedKept DEF Putting, Getting
    <3> QED BY <3>1, <3>2 DEF Fifo!vars, Queued, Putting, Getting, counters
  <2> QED BY <2>1, <2>2, <2>3, <2>4, <2>5, <2>6, <2>7, <2>8 DEF Next
<1> QED BY Invariance, InitRefines, <1>1, PTL DEF Spec, ImplementsFifo, Fifo!Spec
=============================================================================
