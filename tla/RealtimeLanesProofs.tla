------------------------ MODULE RealtimeLanesProofs ------------------------
(***************************************************************************)
(* Proofs about RealtimeLanes, for the three processors of the realtime    *)
(* library at once and for every size of ring, block, delay, look-ahead    *)
(* and callback.                                                           *)
(*                                                                         *)
(* The argument is that the frames in a lane are consecutive. What was     *)
(* rendered and not played, rendered and not pushed, held back, taken and  *)
(* not rendered, and accepted and not taken is one run of numbers, and it  *)
(* starts after the frame Due: the frame of Delay frames ago, less the     *)
(* turns the lane has missed. The worker moves frames along the run and    *)
(* never reorders it; the callback that drops the frames whose turn it     *)
(* missed brings Due back to the delay line. So the rendered frame that is *)
(* played is always the one the delay line would have played.              *)
(*                                                                         *)
(* The three processors have the same lane in them three times over. Each  *)
(* of their actions is shown to be one of a few shared steps first, and    *)
(* the invariant is shown to survive those.                                *)
(***************************************************************************)
EXTENDS RealtimeLanes, Integers, TLAPS

-----------------------------------------------------------------------------
(* Runs of frames.                                                           *)

\* The frames s are b + 1, b + 2, ...
Run(s, b) == \A k \in 1 .. Len(s) : s[k] = b + k

LEMMA EmptyRun ==
  ASSUME NEW b \in Int
  PROVE  <<>> \in Seq(Nat) /\ Len(<<>>) = 0 /\ Run(<<>>, b)
BY DEF Run

LEMMA DropRun ==
  ASSUME NEW s \in Seq(Nat), NEW n \in Nat, n <= Len(s)
  PROVE  /\ Drop(s, n) \in Seq(Nat) /\ Len(Drop(s, n)) = Len(s) - n
         /\ \A b \in Int : Run(s, b) => Run(Drop(s, n), b + n)
<1>1. Drop(s, n) \in Seq(Nat) /\ Len(Drop(s, n)) = Len(s) - n
  BY DEF Drop
<1>2. \A k \in 1 .. Len(s) - n : Drop(s, n)[k] = s[k + n]
  BY DEF Drop
<1>3. ASSUME NEW b \in Int, Run(s, b), NEW k \in 1 .. Len(s) - n
      PROVE  Drop(s, n)[k] = b + n + k
  <2>1. k + n \in 1 .. Len(s)
    OBVIOUS
  <2>2. s[k + n] = b + (k + n)
    BY <2>1, <1>3 DEF Run
  <2> QED
    BY <2>2, <1>2
<1> QED
  BY <1>1, <1>3 DEF Run

LEMMA FirstRun ==
  ASSUME NEW s \in Seq(Nat), NEW n \in Nat, n <= Len(s)
  PROVE  /\ First(s, n) \in Seq(Nat) /\ Len(First(s, n)) = n
         /\ \A b \in Int : Run(s, b) => Run(First(s, n), b)
<1>1. First(s, n) \in Seq(Nat) /\ Len(First(s, n)) = n
  BY DEF First
<1>2. \A k \in 1 .. n : First(s, n)[k] = s[k]
  BY DEF First
<1>3. ASSUME NEW b \in Int, Run(s, b), NEW k \in 1 .. n
      PROVE  First(s, n)[k] = b + k
  <2>1. k \in 1 .. Len(s)
    OBVIOUS
  <2> QED
    BY <2>1, <1>2, <1>3 DEF Run
<1> QED
  BY <1>1, <1>3 DEF Run

LEMMA JoinedRuns ==
  ASSUME NEW s \in Seq(Nat), NEW t \in Seq(Nat)
  PROVE  /\ s \o t \in Seq(Nat) /\ Len(s \o t) = Len(s) + Len(t)
         /\ \A b \in Int : Run(s, b) /\ Run(t, b + Len(s)) => Run(s \o t, b)
<1>1. s \o t \in Seq(Nat) /\ Len(s \o t) = Len(s) + Len(t)
  OBVIOUS
<1>2. \A k \in 1 .. Len(s) + Len(t) :
        (s \o t)[k] = IF k <= Len(s) THEN s[k] ELSE t[k - Len(s)]
  OBVIOUS
<1> QED
  BY <1>1, <1>2 DEF Run

\* The delay line, one frame later, holds the frames up to the new one.
LEMMA DelayedRun ==
  ASSUME NEW s \in Seq(Nat), NEW c \in Nat, Run(s, c - Len(s))
  PROVE  /\ Append(s, c + 1) \in Seq(Nat) /\ Len(Append(s, c + 1)) = Len(s) + 1
         /\ Run(Append(s, c + 1), c - Len(s))
         /\ s # <<>> =>
              /\ Head(s) = c - Len(s) + 1
              /\ Append(Tail(s), c + 1) \in Seq(Nat) /\ Len(Append(Tail(s), c + 1)) = Len(s)
              /\ Run(Append(Tail(s), c + 1), c + 1 - Len(s))
<1>1. Append(s, c + 1) \in Seq(Nat) /\ Len(Append(s, c + 1)) = Len(s) + 1
  OBVIOUS
<1>2. Run(Append(s, c + 1), c - Len(s))
  <2>1. \A k \in 1 .. Len(s) : Append(s, c + 1)[k] = s[k]
    OBVIOUS
  <2>2. Append(s, c + 1)[Len(s) + 1] = c + 1
    OBVIOUS
  <2> QED
    BY <1>1, <2>1, <2>2 DEF Run
<1>3. ASSUME s # <<>> 
      PROVE  /\ Head(s) = c - Len(s) + 1
             /\ Append(Tail(s), c + 1) \in Seq(Nat) /\ Len(Append(Tail(s), c + 1)) = Len(s)
             /\ Run(Append(Tail(s), c + 1), c + 1 - Len(s))
  <2>1. Tail(s) \in Seq(Nat) /\ Len(Tail(s)) = Len(s) - 1 /\ Len(s) >= 1
    BY <1>3
  <2>2. \A k \in 1 .. Len(s) - 1 : Tail(s)[k] = s[k + 1]
    BY <1>3
  <2>3. Append(Tail(s), c + 1) \in Seq(Nat) /\ Len(Append(Tail(s), c + 1)) = Len(s)
    BY <2>1
  <2>4. Head(s) = c - Len(s) + 1
    BY <2>1 DEF Run
  <2>5. ASSUME NEW k \in 1 .. Len(s)
        PROVE  Append(Tail(s), c + 1)[k] = c + 1 - Len(s) + k
    <3> DEFINE t == Tail(s)
    <3>1. t \in Seq(Nat) /\ Len(t) = Len(s) - 1
      BY <2>1
    <3>2. CASE k = Len(s)
      <4>1. Append(t, c + 1)[Len(t) + 1] = c + 1
        BY <3>1
      <4> QED
        BY <4>1, <3>1, <3>2
    <3>3. CASE k < Len(s)
      <4>1. k \in 1 .. Len(t) /\ k + 1 \in 1 .. Len(s)
        BY <3>1, <3>3
      <4>2. Append(t, c + 1)[k] = t[k]
        BY <3>1, <4>1
      <4>3. t[k] = s[k + 1] /\ s[k + 1] = c - Len(s) + (k + 1)
        BY <4>1, <2>2 DEF Run
      <4> QED
        BY <4>2, <4>3
    <3> QED
      BY <3>2, <3>3
  <2> QED
    BY <2>3, <2>4, <2>5 DEF Run
<1> QED
  BY <1>1, <1>2, <1>3

-----------------------------------------------------------------------------
(* A lane.                                                                   *)

Lane ==
  [input : Seq(Nat), output : Seq(Nat), delay : Seq(Nat), missed : Nat,
   stop : BOOLEAN, failed : BOOLEAN, ready : BOOLEAN, observed : BOOLEAN,
   worker : WorkerStates, block : Seq(Nat), kept : Seq(Nat), rendered : Seq(Nat)]

\* What a lane holds for which phase of its worker.
Phase(l) ==
  /\ l.worker \in {"building", "waiting", "rendering"} => l.rendered = <<>>
  /\ l.worker \in {"building", "waiting", "pushing"} => l.block = <<>>
  /\ l.observed => l.ready

\* The frames that entered the lane and were neither played nor discarded ...
Held(l) == Len(l.output) + Len(l.rendered) + Len(l.kept) + Len(l.block) + Len(l.input)

\* ... are b + 1, b + 2, ... in the order of their way through it.
Chained(l, b) ==
  /\ Run(l.output, b)
  /\ Run(l.rendered, b + Len(l.output))
  /\ Run(l.kept, b + Len(l.output) + Len(l.rendered))
  /\ Run(l.block, b + Len(l.output) + Len(l.rendered) + Len(l.kept))
  /\ Run(l.input, b + Len(l.output) + Len(l.rendered) + Len(l.kept) + Len(l.block))

\* What a step of its worker does to a lane, as its callback sees it: unless the
\* lane fails, the same frames are in it in the same order.
Advances(l, m) ==
  /\ m \in Lane /\ Phase(m)
  /\ m.delay = l.delay /\ m.missed = l.missed /\ m.observed = l.observed
  /\ l.failed => m.failed
  /\ Running(l) /\ m.worker # "none"
  /\ Held(m) <= Held(l)
  /\ ~m.failed => Held(m) = Held(l) /\ \A b \in Int : Chained(l, b) => Chained(m, b)

LEMMA HeldNat ==
  ASSUME NEW l \in Lane
  PROVE  Held(l) \in Nat /\ (Held(l) = 0 =>
           Len(l.output) = 0 /\ Len(l.rendered) = 0 /\ Len(l.kept) = 0 /\ Len(l.block) = 0
           /\ Len(l.input) = 0)
<1> DEFINE o == Len(l.output)
           r == Len(l.rendered)
           k == Len(l.kept)
           b == Len(l.block)
           i == Len(l.input)
<1>1. o \in Nat /\ r \in Nat /\ k \in Nat /\ b \in Nat /\ i \in Nat
  BY DEF Lane
<1>2. Held(l) = o + r + k + b + i
  BY DEF Held
<1>3. Held(l) \in Nat /\ (Held(l) = 0 => o = 0 /\ r = 0 /\ k = 0 /\ b = 0 /\ i = 0)
  <2> HIDE DEF o, r, k, b, i
  <2> QED
    BY <1>1, <1>2
<1> QED
  BY <1>3

LEMMA EmptyChained ==
  ASSUME NEW l \in Lane, Held(l) = 0, NEW b \in Int
  PROVE  Chained(l, b)
<1>1. /\ Len(l.output) = 0 /\ Len(l.rendered) = 0 /\ Len(l.kept) = 0 /\ Len(l.block) = 0
      /\ Len(l.input) = 0
  BY HeldNat
<1> QED
  BY <1>1 DEF Chained, Run

LEMMA BuildAdvances ==
  ASSUME NEW l \in Lane, Phase(l), l.worker = "building"
  PROVE  /\ Advances(l, [l EXCEPT !.worker = "waiting", !.ready = TRUE])
         /\ Advances(l, [l EXCEPT !.worker = "done", !.failed = TRUE])
<1> DEFINE m == [l EXCEPT !.worker = "waiting", !.ready = TRUE]
           n == [l EXCEPT !.worker = "done", !.failed = TRUE]
<1>1. m \in Lane /\ n \in Lane
  BY DEF Lane, WorkerStates
<1>2. /\ m.output = l.output /\ m.rendered = l.rendered /\ m.kept = l.kept
      /\ m.block = l.block /\ m.input = l.input /\ m.delay = l.delay /\ m.missed = l.missed
      /\ m.observed = l.observed /\ m.failed = l.failed /\ m.worker = "waiting" /\ m.ready
  BY DEF Lane
<1>3. /\ n.output = l.output /\ n.rendered = l.rendered /\ n.kept = l.kept
      /\ n.block = l.block /\ n.input = l.input /\ n.delay = l.delay /\ n.missed = l.missed
      /\ n.observed = l.observed /\ n.failed /\ n.worker = "done" /\ n.ready = l.ready
  BY DEF Lane
<1> HIDE DEF m, n
<1>4. Held(m) = Held(l) /\ Held(n) = Held(l) /\ Held(l) \in Nat
  BY <1>2, <1>3, HeldNat DEF Held
<1>5. \A b : Chained(l, b) => Chained(m, b)
  BY <1>2 DEF Chained
<1>6. Phase(m) /\ Phase(n)
  BY <1>2, <1>3 DEF Phase
<1>7. Advances(l, m) /\ Advances(l, n)
  BY <1>1, <1>2, <1>3, <1>4, <1>5, <1>6 DEF Advances, Running
<1> QED
  BY <1>7 DEF m, n

LEMMA TakenAdvances ==
  ASSUME NEW l \in Lane, Phase(l), MayTake(l)
  PROVE  Advances(l, Taken(l))
<1> DEFINE m == Taken(l)
<1>1. l.input \in Seq(Nat) /\ Block \in Nat /\ Block <= Len(l.input) /\ Len(l.input) \in Nat
  BY LaneAssumption DEF Lane, MayTake
<1>2. /\ Drop(l.input, Block) \in Seq(Nat) /\ Len(Drop(l.input, Block)) = Len(l.input) - Block
      /\ \A b \in Int : Run(l.input, b) => Run(Drop(l.input, Block), b + Block)
  BY <1>1, DropRun
<1>3. /\ First(l.input, Block) \in Seq(Nat) /\ Len(First(l.input, Block)) = Block
      /\ \A b \in Int : Run(l.input, b) => Run(First(l.input, Block), b)
  BY <1>1, FirstRun
<1>4. m \in Lane
  BY <1>2, <1>3 DEF Lane, WorkerStates, Taken
<1>5. /\ m.output = l.output /\ m.rendered = l.rendered /\ m.kept = l.kept
      /\ m.block = First(l.input, Block) /\ m.input = Drop(l.input, Block)
      /\ m.delay = l.delay /\ m.missed = l.missed /\ m.observed = l.observed
      /\ m.failed = l.failed /\ m.worker = "rendering" /\ m.ready = l.ready
  BY DEF Lane, Taken
<1>6. l.rendered = <<>> /\ l.block = <<>> /\ l.worker = "waiting"
  BY DEF Phase, MayTake
<1> HIDE DEF m
<1>7. /\ Len(l.output) \in Nat /\ Len(l.rendered) \in Nat /\ Len(l.kept) \in Nat
      /\ Len(l.block) = 0
  BY <1>6 DEF Lane
<1>8. Held(m) = Held(l) /\ Held(l) \in Nat
  <2>1. /\ Len(m.output) = Len(l.output) /\ Len(m.rendered) = Len(l.rendered)
        /\ Len(m.kept) = Len(l.kept) /\ Len(m.block) = Block
        /\ Len(m.input) = Len(l.input) - Block
    BY <1>2, <1>3, <1>5
  <2> DEFINE o == Len(l.output)
             r == Len(l.rendered)
             k == Len(l.kept)
             i == Len(l.input)
  <2>2. Held(m) = o + r + k + Block + (i - Block)
    BY <2>1 DEF Held
  <2>3. Held(l) = o + r + k + 0 + i
    BY <1>7 DEF Held
  <2>4. o \in Nat /\ r \in Nat /\ k \in Nat /\ i \in Nat
    BY <1>1, <1>7
  <2>5. Held(m) = Held(l)
    <3> HIDE DEF o, r, k, i
    <3> QED
      BY <2>2, <2>3, <2>4, <1>1
  <2> QED
    BY <2>5, HeldNat
<1>9. ASSUME NEW b \in Int, Chained(l, b)
      PROVE  Chained(m, b)
  <2> DEFINE e == b + Len(l.output) + Len(l.rendered) + Len(l.kept)
  <2>1. e \in Int /\ e + Len(l.block) = e
    BY <1>7
  <2>2. Run(l.input, e)
    BY <2>1, <1>9 DEF Chained
  <2>3. Run(m.block, e) /\ Run(m.input, e + Block)
    BY <2>1, <2>2, <1>2, <1>3, <1>5
  <2> QED
    BY <2>3, <1>3, <1>5, <1>9 DEF Chained
<1>10. Phase(m)
  BY <1>5, <1>6 DEF Phase
<1>11. Advances(l, m)
  BY <1>4, <1>5, <1>6, <1>8, <1>9, <1>10 DEF Advances, Running
<1> QED
  BY <1>11 DEF m

LEMMA RenderedAdvances ==
  ASSUME NEW l \in Lane, Phase(l), l.worker = "rendering"
  PROVE  Advances(l, Rendered(l))
<1> DEFINE frames == l.kept \o l.block
           ready  == Len(frames) - Lesser(Holdback, Len(frames))
           m == Rendered(l)
<1>1. /\ Len(l.output) \in Nat /\ l.kept \in Seq(Nat) /\ l.block \in Seq(Nat)
      /\ Len(l.kept) \in Nat /\ Len(l.block) \in Nat
      /\ Len(l.input) \in Nat /\ l.rendered = <<>> /\ Len(l.rendered) = 0
  BY DEF Lane, Phase
<1>17. Len(frames) \in Nat /\ Len(frames) = Len(l.kept) + Len(l.block)
  <2>1. Len(frames) = Len(l.kept) + Len(l.block)
    BY <1>1, JoinedRuns
  <2> DEFINE k == Len(l.kept)
             t == Len(l.block)
  <2>2. k \in Nat /\ t \in Nat /\ Len(frames) = k + t
    BY <1>1, <2>1
  <2> HIDE DEF frames, k, t
  <2>3. Len(frames) \in Nat /\ Len(frames) = k + t
    BY <2>2
  <2> QED
    BY <2>3 DEF k, t
<1>2. /\ frames \in Seq(Nat)
      /\ \A b \in Int : Run(l.kept, b) /\ Run(l.block, b + Len(l.kept)) => Run(frames, b)
  BY <1>1, JoinedRuns
<1> HIDE DEF frames
<1>3. ready \in Nat /\ ready <= Len(frames) /\ Len(frames) \in Nat
  <2>1. Holdback \in Nat
    BY LaneAssumption
  <2>2. Len(frames) \in Nat
    BY <1>17
  <2> QED
    BY <2>1, <2>2 DEF Lesser
<1> HIDE DEF ready
<1>4. /\ Drop(frames, ready) \in Seq(Nat) /\ Len(Drop(frames, ready)) = Len(frames) - ready
      /\ \A b \in Int : Run(frames, b) => Run(Drop(frames, ready), b + ready)
  BY <1>2, <1>3, DropRun
<1>5. /\ First(frames, ready) \in Seq(Nat) /\ Len(First(frames, ready)) = ready
      /\ \A b \in Int : Run(frames, b) => Run(First(frames, ready), b)
  BY <1>2, <1>3, FirstRun
<1>6. m = [l EXCEPT !.block = <<>>, !.kept = Drop(frames, ready),
                    !.rendered = First(frames, ready),
                    !.worker = IF ready = 0 THEN "waiting" ELSE "pushing"]
  BY DEF Rendered, frames, ready
<1>7. <<>> \in Seq(Nat) /\ Len(<<>>) = 0 /\ \A b \in Int : Run(<<>>, b)
  BY EmptyRun
<1>8. m \in Lane
  BY <1>4, <1>5, <1>6, <1>7 DEF Lane, WorkerStates
<1>9. /\ m.output = l.output /\ m.rendered = First(frames, ready)
      /\ m.kept = Drop(frames, ready) /\ m.block = <<>> /\ m.input = l.input
      /\ m.delay = l.delay /\ m.missed = l.missed /\ m.observed = l.observed
      /\ m.failed = l.failed /\ m.worker = (IF ready = 0 THEN "waiting" ELSE "pushing")
      /\ m.ready = l.ready
  BY <1>6 DEF Lane
<1> HIDE DEF m
<1> DEFINE o == Len(l.output)
           k == Len(l.kept)
           t == Len(l.block)
           i == Len(l.input)
<1>16. o \in Nat /\ k \in Nat /\ t \in Nat /\ i \in Nat
  BY <1>1
<1>15. /\ Len(m.output) = Len(l.output) /\ Len(m.rendered) = ready
       /\ Len(m.kept) = Len(l.kept) + Len(l.block) - ready /\ Len(m.block) = 0
       /\ Len(m.input) = Len(l.input)
  <2>1. Len(First(frames, ready)) = ready
    BY <1>5
  <2>2. Len(Drop(frames, ready)) = Len(frames) - ready
    BY <1>4
  <2>3. Len(frames) = Len(l.kept) + Len(l.block)
    BY <1>17
  <2>4. Len(m.rendered) = ready
    BY <2>1, <1>9
  <2>5. Len(m.kept) = Len(l.kept) + Len(l.block) - ready
    <3>1. m.kept = Drop(frames, ready) /\ Len(frames) = k + t
      BY <1>9, <1>17
    <3>2. Len(m.kept) = k + t - ready
      <4> HIDE DEF k, t
      <4> QED
        BY <3>1, <2>2, <1>3, <1>16
    <3> QED
      BY <3>2
  <2>6. Len(m.block) = 0
    BY <1>7, <1>9
  <2> QED
    BY <2>4, <2>5, <2>6, <1>9
<1>10. Held(m) = Held(l) /\ Held(l) \in Nat
  <2>1. Held(m) = o + ready + (k + t - ready) + 0 + i
    BY <1>15 DEF Held
  <2>2. Held(l) = o + 0 + k + t + i
    BY <1>1 DEF Held
  <2>3. Held(m) = Held(l)
    <3> HIDE DEF o, k, t, i
    <3> QED
      BY <2>1, <2>2, <1>3, <1>16
  <2> QED
    BY <2>3, HeldNat
<1>11. ASSUME NEW b \in Int, Chained(l, b)
       PROVE  Chained(m, b)
  <2> DEFINE e == b + Len(l.output)
  <2>1. e \in Int /\ e + Len(l.rendered) = e
    BY <1>1
  <2>2. Run(l.kept, e) /\ Run(l.block, e + Len(l.kept))
        /\ Run(l.input, e + Len(l.kept) + Len(l.block))
    BY <2>1, <1>11 DEF Chained
  <2>3. Run(m.rendered, e) /\ Run(m.kept, e + ready)
    BY <2>1, <2>2, <1>2, <1>4, <1>5, <1>9
  <2>4. /\ Len(m.rendered) = ready /\ Len(m.block) = 0
        /\ e + ready + Len(m.kept) = e + Len(l.kept) + Len(l.block)
        /\ e + ready + Len(m.kept) + Len(m.block) = e + Len(l.kept) + Len(l.block)
    <3>1. Len(m.rendered) = ready /\ Len(m.block) = 0 /\ Len(m.kept) = k + t - ready
      BY <1>15
    <3> HIDE DEF e, k, t
    <3>2. /\ e + ready + (k + t - ready) = e + k + t
          /\ e + ready + (k + t - ready) + 0 = e + k + t
      BY <2>1, <1>3, <1>16
    <3> QED
      BY <3>1, <3>2 DEF k, t
  <2>5. Run(m.block, e + ready + Len(m.kept))
    BY <2>1, <2>4, <1>1, <1>7, <1>9
  <2> QED
    BY <2>2, <2>3, <2>4, <2>5, <1>9, <1>11 DEF Chained
<1>12. ready = 0 => m.rendered = <<>>
  <2> SUFFICES ASSUME ready = 0 PROVE m.rendered = <<>>
    OBVIOUS
  <2>1. m.rendered \in Seq(Nat) /\ Len(m.rendered) = 0
    BY <1>5, <1>9
  <2> QED
    BY <2>1
<1>13. Phase(m)
  BY <1>9, <1>12 DEF Phase
<1>14. Advances(l, m)
  BY <1>8, <1>9, <1>10, <1>11, <1>13 DEF Advances, Running
<1> QED
  BY <1>14 DEF m

LEMMA RenderFailedAdvances ==
  ASSUME NEW l \in Lane, Phase(l), l.worker = "rendering"
  PROVE  Advances(l, RenderFailed(l))
<1> DEFINE m == RenderFailed(l)
<1>1. <<>> \in Seq(Nat) /\ Len(<<>>) = 0
  BY EmptyRun
<1>2. m \in Lane
  BY <1>1 DEF Lane, WorkerStates, RenderFailed
<1>3. /\ m.output = l.output /\ m.rendered = l.rendered /\ m.kept = l.kept
      /\ m.block = <<>> /\ m.input = l.input /\ m.delay = l.delay /\ m.missed = l.missed
      /\ m.observed = l.observed /\ m.failed /\ m.worker = "done" /\ m.ready = l.ready
  BY DEF Lane, RenderFailed
<1> HIDE DEF m
<1> DEFINE o == Len(l.output)
           r == Len(l.rendered)
           k == Len(l.kept)
           t == Len(l.block)
           i == Len(l.input)
<1>4. o \in Nat /\ r \in Nat /\ k \in Nat /\ t \in Nat /\ i \in Nat
  BY DEF Lane
<1>5. Held(m) = o + r + k + 0 + i /\ Held(l) = o + r + k + t + i
  BY <1>1, <1>3 DEF Held
<1>6. Held(m) <= Held(l)
  <2> HIDE DEF o, r, k, t, i
  <2> QED
    BY <1>4, <1>5
<1>7. Phase(m)
  BY <1>3 DEF Phase
<1>8. Advances(l, m)
  BY <1>2, <1>3, <1>6, <1>7 DEF Advances, Running
<1> QED
  BY <1>8 DEF m

LEMMA PushedAdvances ==
  ASSUME NEW l \in Lane, Phase(l), MayPush(l)
  PROVE  Advances(l, Pushed(l))
<1> DEFINE m == Pushed(l)
           out == l.output \o l.rendered
<1>1. l.output \in Seq(Nat) /\ l.rendered \in Seq(Nat)
  BY DEF Lane
<1>2. /\ out \in Seq(Nat) /\ Len(out) = Len(l.output) + Len(l.rendered)
      /\ \A b \in Int : Run(l.output, b) /\ Run(l.rendered, b + Len(l.output)) => Run(out, b)
  BY <1>1, JoinedRuns
<1>3. <<>> \in Seq(Nat) /\ Len(<<>>) = 0 /\ \A b \in Int : Run(<<>>, b)
  BY EmptyRun
<1>4. m = [l EXCEPT !.output = out, !.rendered = <<>>, !.worker = "waiting"]
  BY DEF Pushed, Lane
<1> HIDE DEF out
<1>5. m \in Lane
  BY <1>2, <1>3, <1>4 DEF Lane, WorkerStates
<1>6. /\ m.output = out /\ m.rendered = <<>> /\ m.kept = l.kept
      /\ m.block = l.block /\ m.input = l.input /\ m.delay = l.delay /\ m.missed = l.missed
      /\ m.observed = l.observed /\ m.failed = l.failed /\ m.worker = "waiting"
      /\ m.ready = l.ready
  BY <1>4 DEF Lane
<1> HIDE DEF m
<1>7. l.worker = "pushing"
  BY DEF MayPush, SeesStopPushing
<1> DEFINE o == Len(l.output)
           r == Len(l.rendered)
           k == Len(l.kept)
           t == Len(l.block)
           i == Len(l.input)
<1>8. o \in Nat /\ r \in Nat /\ k \in Nat /\ t \in Nat /\ i \in Nat
  BY DEF Lane
<1>9. Len(m.output) = o + r /\ Len(m.rendered) = 0 /\ Len(m.kept) = k /\ Len(m.block) = t
  BY <1>2, <1>3, <1>6
<1>10. Held(m) = (o + r) + 0 + k + t + i /\ Held(l) = o + r + k + t + i
  BY <1>9, <1>6 DEF Held
<1>11. Held(m) = Held(l)
  <2> HIDE DEF o, r, k, t, i
  <2> QED
    BY <1>8, <1>10
<1>12. ASSUME NEW b \in Int, Chained(l, b)
       PROVE  Chained(m, b)
  <2>1. /\ Run(l.output, b) /\ Run(l.rendered, b + o) /\ Run(l.kept, b + o + r)
        /\ Run(l.block, b + o + r + k) /\ Run(l.input, b + o + r + k + t)
    BY <1>12 DEF Chained
  <2>2. Run(m.output, b)
    BY <2>1, <1>2, <1>6
  <2>3. Run(m.rendered, b + (o + r))
    <3>1. b + (o + r) \in Int
      <4> HIDE DEF o, r
      <4> QED
        BY <1>8
    <3> QED
      BY <3>1, <1>3, <1>6
  <2>4. /\ b + (o + r) + 0 = b + o + r /\ b + (o + r) + 0 + k = b + o + r + k
        /\ b + (o + r) + 0 + k + t = b + o + r + k + t
    <3> HIDE DEF o, r, k, t, i
    <3> QED
      BY <1>8
  <2> QED
    BY <2>1, <2>2, <2>3, <2>4, <1>6, <1>9 DEF Chained
<1>13. Phase(m)
  BY <1>6, <1>7 DEF Phase
<1>14. Advances(l, m)
  BY <1>5, <1>6, <1>7, <1>11, <1>12, <1>13, HeldNat DEF Advances, Running
<1> QED
  BY <1>14 DEF m

LEMMA ExitAdvances ==
  ASSUME NEW l \in Lane, Phase(l), SeesStop(l)
  PROVE  Advances(l, Exited(l))
<1> DEFINE m == Exited(l)
<1>1. m \in Lane
  BY DEF Lane, WorkerStates, Exited
<1>2. /\ m.output = l.output /\ m.rendered = l.rendered /\ m.kept = l.kept
      /\ m.block = l.block /\ m.input = l.input /\ m.delay = l.delay /\ m.missed = l.missed
      /\ m.observed = l.observed /\ m.failed = l.failed /\ m.worker = "done"
      /\ m.ready = l.ready
  BY DEF Lane, Exited
<1> HIDE DEF m
<1>3. Held(m) = Held(l) /\ Held(l) \in Nat
  BY <1>2, HeldNat DEF Held
<1>4. \A b : Chained(l, b) => Chained(m, b)
  BY <1>2 DEF Chained
<1>5. Phase(m)
  BY <1>2 DEF Phase
<1>6. Advances(l, m)
  BY <1>1, <1>2, <1>3, <1>4, <1>5 DEF Advances, Running, SeesStop, SeesStopPushing
<1> QED
  BY <1>6 DEF m

-----------------------------------------------------------------------------
(* The callback's side of a lane, at clock c with left frames to play.       *)

\* The delay line holds the last frames, and none from before the boundary.
Delayed(l, c, start) == Run(l.delay, c - Len(l.delay)) /\ Len(l.delay) <= c - start

\* The last frame whose turn to play a rendered frame has come and which is not
\* in the lane any more.
Due(l, c) == c - Len(l.delay) - l.missed

\* The frames in the lane are those from there on, up to the callback's last.
InStep(l, c, left) ==
  /\ Chained(l, Due(l, c))
  /\ Held(l) = Len(l.delay) + l.missed + left
  /\ ~Primed(l) => l.missed = 0

LEMMA LaneNumbers ==
  ASSUME NEW l \in Lane
  PROVE  /\ Len(l.output) \in Nat /\ Len(l.rendered) \in Nat /\ Len(l.kept) \in Nat
         /\ Len(l.block) \in Nat /\ Len(l.input) \in Nat /\ Len(l.delay) \in Nat
         /\ l.missed \in Nat
BY DEF Lane

LEMMA DelayPushed ==
  ASSUME NEW l \in Lane, NEW c \in Nat, Run(l.delay, c - Len(l.delay))
  PROVE  /\ DelayPush(l, c + 1) \in Seq(Nat)
         /\ Len(DelayPush(l, c + 1)) = IF Primed(l) THEN Len(l.delay) ELSE Len(l.delay) + 1
         /\ Run(DelayPush(l, c + 1), c + 1 - Len(DelayPush(l, c + 1)))
         /\ Primed(l) => Head(l.delay) = c + 1 - Delay
<1> DEFINE s == l.delay
           n == Len(s)
<1>1. s \in Seq(Nat) /\ n \in Nat
  BY DEF Lane
<1>2. /\ Append(s, c + 1) \in Seq(Nat) /\ Len(Append(s, c + 1)) = n + 1
      /\ Run(Append(s, c + 1), c - n)
      /\ s # <<>> =>
           /\ Head(s) = c - n + 1
           /\ Append(Tail(s), c + 1) \in Seq(Nat) /\ Len(Append(Tail(s), c + 1)) = n
           /\ Run(Append(Tail(s), c + 1), c + 1 - n)
  BY <1>1, DelayedRun
<1>3. CASE Primed(l)
  <2>1. n = Delay /\ n # 0
    BY <1>3, LaneAssumption DEF Primed
  <2>2. s # <<>>
    BY <2>1
  <2>3. DelayPush(l, c + 1) = Append(Tail(s), c + 1)
    BY <1>3 DEF DelayPush
  <2>4. c - n + 1 = c + 1 - Delay
    <3> HIDE DEF n
    <3> QED
      BY <1>1, <2>1
  <2> QED
    BY <2>1, <2>2, <2>3, <2>4, <1>2, <1>3
<1>4. CASE ~Primed(l)
  <2>1. DelayPush(l, c + 1) = Append(s, c + 1)
    BY <1>4 DEF DelayPush
  <2>2. c - n = c + 1 - (n + 1)
    <3> HIDE DEF n
    <3> QED
      BY <1>1
  <2> QED
    BY <2>1, <2>2, <1>2, <1>4
<1> QED
  BY <1>3, <1>4

\* The turn of a frame: how much is dropped, and what is missed afterwards.
LEMMA TurnTaken ==
  ASSUME NEW l \in Lane
  PROVE  /\ Len(l.output) > l.missed =>
              InTime(l) /\ Stale(l) = l.missed /\ MissedAfter(l) = 0
         /\ ~(Len(l.output) > l.missed) =>
              ~InTime(l) /\ Stale(l) = Len(l.output)
              /\ MissedAfter(l) = l.missed - Len(l.output) + 1
<1> DEFINE o == Len(l.output)
           x == l.missed
<1>1. o \in Nat /\ x \in Nat
  BY DEF Lane
<1>2. Stale(l) = IF x < o THEN x ELSE o
  BY DEF Stale, Lesser
<1>3. InTime(l) <=> x = Stale(l) /\ o > Stale(l)
  BY DEF InTime
<1>4. MissedAfter(l) = x - Stale(l) + (IF InTime(l) THEN 0 ELSE 1)
  BY DEF MissedAfter
<1> HIDE DEF o, x
<1>5. CASE o > x
  <2>1. Stale(l) = x
    BY <1>1, <1>2, <1>5
  <2>2. InTime(l)
    BY <1>3, <1>5, <2>1
  <2>3. MissedAfter(l) = x - x + 0
    BY <1>4, <2>1, <2>2
  <2>4. MissedAfter(l) = 0
    BY <2>3, <1>1
  <2> QED
    BY <2>1, <2>2, <2>4, <1>5, <1>1 DEF o, x
<1>6. CASE ~(o > x)
  <2>1. Stale(l) = o
    BY <1>1, <1>2, <1>6
  <2>2. ~InTime(l)
    BY <1>1, <1>3, <1>6, <2>1
  <2>3. MissedAfter(l) = x - o + 1
    BY <1>4, <2>1, <2>2
  <2> QED
    BY <2>1, <2>2, <2>3, <1>6 DEF o, x
<1> QED
  BY <1>5, <1>6

\* Frames dropped from the front of the output ring are the next of the chain.
LEMMA DropChained ==
  ASSUME NEW l \in Lane, NEW m \in Lane, NEW d \in Nat, d <= Len(l.output),
         m.output = Drop(l.output, d), m.rendered = l.rendered, m.kept = l.kept,
         m.block = l.block, m.input = l.input, NEW b \in Int, Chained(l, b)
  PROVE  Chained(m, b + d) /\ Held(m) = Held(l) - d
<1> DEFINE o == Len(l.output)
           r == Len(l.rendered)
           k == Len(l.kept)
           t == Len(l.block)
           i == Len(l.input)
<1>1. o \in Nat /\ r \in Nat /\ k \in Nat /\ t \in Nat /\ i \in Nat /\ l.output \in Seq(Nat)
  BY DEF Lane
<1>2. /\ Len(m.output) = o - d
      /\ \A e \in Int : Run(l.output, e) => Run(m.output, e + d)
  <2>1. l.output \in Seq(Nat)
    BY <1>1
  <2>2. /\ Len(Drop(l.output, d)) = Len(l.output) - d
        /\ \A e \in Int : Run(l.output, e) => Run(Drop(l.output, d), e + d)
    BY <2>1, DropRun
  <2> QED
    BY <2>2
<1>3. /\ Run(l.output, b) /\ Run(l.rendered, b + o) /\ Run(l.kept, b + o + r)
      /\ Run(l.block, b + o + r + k) /\ Run(l.input, b + o + r + k + t)
  BY DEF Chained
<1>4. Run(m.output, b + d)
  BY <1>2, <1>3
<1>5. /\ b + d + (o - d) = b + o /\ b + d + (o - d) + r = b + o + r
      /\ b + d + (o - d) + r + k = b + o + r + k
      /\ b + d + (o - d) + r + k + t = b + o + r + k + t
  <2> HIDE DEF o, r, k, t, i
  <2> QED
    BY <1>1
<1>6. Chained(m, b + d)
  BY <1>2, <1>3, <1>4, <1>5 DEF Chained
<1>7. Held(m) = (o - d) + r + k + t + i /\ Held(l) = o + r + k + t + i
  BY <1>2 DEF Held
<1>8. Held(m) = Held(l) - d
  <2> HIDE DEF o, r, k, t, i
  <2> QED
    BY <1>1, <1>7
<1> QED
  BY <1>6, <1>8

\* One frame of the callback's loop keeps the lane's shape, whatever it plays.
LEMMA FrameKeepsShape ==
  ASSUME NEW l \in Lane, Phase(l), NEW c \in Nat, NEW use \in BOOLEAN,
         NEW start \in Nat, Delayed(l, c, start)
  PROVE  LET m == AfterFrame(l, c + 1, use)
         IN  /\ m \in Lane /\ Phase(m) /\ Delayed(m, c + 1, start)
             /\ m.worker = l.worker /\ m.failed = l.failed /\ m.observed = l.observed
             /\ m.rendered = l.rendered /\ m.kept = l.kept /\ m.block = l.block
             /\ m.input = l.input /\ m.delay = DelayPush(l, c + 1)
             /\ IF Primed(l) /\ use /\ ~l.failed
                THEN /\ m.missed = MissedAfter(l)
                     /\ m.output = Drop(l.output, Stale(l) + (IF InTime(l) THEN 1 ELSE 0))
                ELSE m.missed = l.missed /\ m.output = l.output
<1> DEFINE m == AfterFrame(l, c + 1, use)
           line == DelayPush(l, c + 1)
           out == Drop(l.output, Stale(l) + (IF InTime(l) THEN 1 ELSE 0))
           pushed == [l EXCEPT !.delay = line]
           played == [pushed EXCEPT !.output = out, !.missed = MissedAfter(l)]
<1>1. /\ line \in Seq(Nat) /\ Run(line, c + 1 - Len(line))
      /\ Len(line) \in {Len(l.delay), Len(l.delay) + 1}
  BY DelayPushed DEF Delayed
<1>2. m = IF Primed(l) /\ use /\ ~l.failed THEN played ELSE pushed
  BY DEF AfterFrame, Lane
<1>3. out \in Seq(Nat) /\ MissedAfter(l) \in Nat
  <2>1. Len(l.output) \in Nat /\ l.missed \in Nat /\ l.output \in Seq(Nat)
    BY DEF Lane
  <2>2. /\ Stale(l) + (IF InTime(l) THEN 1 ELSE 0) \in Nat
        /\ Stale(l) + (IF InTime(l) THEN 1 ELSE 0) <= Len(l.output)
        /\ MissedAfter(l) \in Nat
    <3> DEFINE o == Len(l.output)
               x == l.missed
    <3>1. /\ o > x => InTime(l) /\ Stale(l) = x /\ MissedAfter(l) = 0
          /\ ~(o > x) => ~InTime(l) /\ Stale(l) = o /\ MissedAfter(l) = x - o + 1
      BY TurnTaken
    <3>2. o \in Nat /\ x \in Nat
      BY <2>1
    <3>3. /\ Stale(l) + (IF InTime(l) THEN 1 ELSE 0) \in Nat
          /\ Stale(l) + (IF InTime(l) THEN 1 ELSE 0) <= o
          /\ MissedAfter(l) \in Nat
      <4> HIDE DEF o, x
      <4>1. CASE o > x
        BY <4>1, <3>1, <3>2
      <4>2. CASE ~(o > x)
        BY <4>2, <3>1, <3>2
      <4> QED
        BY <4>1, <4>2
    <3> QED
      BY <3>3
  <2> QED
    BY <2>1, <2>2, DropRun
<1> HIDE DEF line, out
<1>4. pushed \in Lane /\ played \in Lane
  BY <1>1, <1>3 DEF Lane
<1>5. /\ pushed.worker = l.worker /\ pushed.failed = l.failed
      /\ pushed.observed = l.observed /\ pushed.ready = l.ready
      /\ pushed.rendered = l.rendered /\ pushed.kept = l.kept /\ pushed.block = l.block
      /\ pushed.input = l.input /\ pushed.delay = line
      /\ pushed.output = l.output /\ pushed.missed = l.missed
  BY DEF Lane
<1>6. /\ played.worker = l.worker /\ played.failed = l.failed
      /\ played.observed = l.observed /\ played.ready = l.ready
      /\ played.rendered = l.rendered /\ played.kept = l.kept /\ played.block = l.block
      /\ played.input = l.input /\ played.delay = line
      /\ played.output = out /\ played.missed = MissedAfter(l)
  BY DEF Lane
<1> HIDE DEF pushed, played, m
<1>7. /\ m \in Lane /\ m.worker = l.worker /\ m.failed = l.failed
      /\ m.observed = l.observed /\ m.ready = l.ready
      /\ m.rendered = l.rendered /\ m.kept = l.kept /\ m.block = l.block
      /\ m.input = l.input /\ m.delay = line
      /\ IF Primed(l) /\ use /\ ~l.failed
         THEN m.output = out /\ m.missed = MissedAfter(l)
         ELSE m.output = l.output /\ m.missed = l.missed
  BY <1>2, <1>4, <1>5, <1>6
<1>8. Phase(m)
  BY <1>7 DEF Phase
<1>9. Delayed(m, c + 1, start)
  <2> DEFINE n == Len(l.delay)
  <2>1. n \in Nat /\ n <= c - start
    BY DEF Lane, Delayed
  <2>2. Len(line) \in {n, n + 1}
    BY <1>1
  <2>3. Len(line) <= c + 1 - start
    <3> HIDE DEF n
    <3> QED
      BY <2>1, <2>2
  <2> QED
    BY <2>3, <1>1, <1>7 DEF Delayed
<1> QED
  BY <1>7, <1>8, <1>9 DEF m, line, out

\* A frame played while the lane is in step leaves it in step: a frame that was
\* rendered in time is dropped with its turn, and a late one when it comes.
LEMMA FrameInStep ==
  ASSUME NEW l \in Lane, Phase(l), NEW c \in Nat, NEW start \in Nat, Delayed(l, c, start),
         ~l.failed, NEW left \in Nat, InStep(l, c, left + 1)
  PROVE  InStep(AfterFrame(l, c + 1, TRUE), c + 1, left)
<1> DEFINE m == AfterFrame(l, c + 1, TRUE)
           n == Len(l.delay)
           o == Len(l.output)
           x == l.missed
           h == Held(l)
<1>1. /\ m \in Lane
      /\ m.rendered = l.rendered /\ m.kept = l.kept /\ m.block = l.block
      /\ m.input = l.input /\ m.delay = DelayPush(l, c + 1)
      /\ IF Primed(l)
         THEN /\ m.missed = MissedAfter(l)
              /\ m.output = Drop(l.output, Stale(l) + (IF InTime(l) THEN 1 ELSE 0))
         ELSE m.missed = l.missed /\ m.output = l.output
  BY FrameKeepsShape
<1>2. Len(m.delay) = IF Primed(l) THEN n ELSE n + 1
  BY <1>1, DelayPushed DEF Delayed
<1>3. n \in Nat /\ o \in Nat /\ x \in Nat /\ h \in Nat
  BY LaneNumbers, HeldNat
<1>4. Chained(l, c - n - x) /\ h = n + x + (left + 1)
  BY DEF InStep, Due
<1>5. c - n - x \in Int
  <2> HIDE DEF n, x
  <2> QED
    BY <1>3
<1> HIDE DEF m
<1>6. CASE ~Primed(l)
  <2>1. x = 0
    BY <1>6 DEF InStep
  <2>2. m.missed = 0 /\ Len(m.delay) = n + 1 /\ m.output = l.output
    BY <2>1, <1>1, <1>2, <1>6
  <2>3. Held(m) = h /\ \A b : Chained(l, b) => Chained(m, b)
    BY <2>2, <1>1 DEF Held, Chained
  <2>4. (c + 1) - (n + 1) - 0 = c - n - x /\ h = (n + 1) + 0 + left
    <3> HIDE DEF n, o, x, h
    <3> QED
      BY <1>3, <1>4, <2>1
  <2>5. Due(m, c + 1) = c - n - x
    BY <2>2, <2>4 DEF Due
  <2> QED
    BY <2>2, <2>3, <2>4, <2>5, <1>4 DEF InStep, m
<1>7. CASE Primed(l)
  <2> DEFINE d == Stale(l) + (IF InTime(l) THEN 1 ELSE 0)
             y == MissedAfter(l)
  <2>1. m.missed = y /\ Len(m.delay) = n /\ m.output = Drop(l.output, d)
    BY <1>1, <1>2, <1>7
  <2>2. d \in Nat /\ d <= o /\ y \in Nat /\ y = x - d + 1
    <3>1. /\ o > x => InTime(l) /\ Stale(l) = x /\ y = 0
          /\ ~(o > x) => ~InTime(l) /\ Stale(l) = o /\ y = x - o + 1
      BY TurnTaken
    <3> HIDE DEF o, x, y
    <3>2. CASE o > x
      BY <3>1, <3>2, <1>3
    <3>3. CASE ~(o > x)
      BY <3>1, <3>3, <1>3
    <3> QED
      BY <3>2, <3>3
  <2> HIDE DEF d, y
  <2>3. Chained(m, c - n - x + d) /\ Held(m) = h - d
    BY <1>1, <1>4, <1>5, <2>1, <2>2, DropChained
  <2>4. (c + 1) - n - y = c - n - x + d /\ h - d = n + y + left
    <3> HIDE DEF n, o, x, h
    <3> QED
      BY <1>3, <1>4, <2>2
  <2>5. Due(m, c + 1) = c - n - x + d
    BY <2>1, <2>4 DEF Due
  <2>6. Primed(m)
    BY <2>1, <1>7 DEF Primed
  <2> QED
    BY <2>1, <2>3, <2>4, <2>5, <2>6 DEF InStep, m
<1> QED
  BY <1>6, <1>7

\* What that frame is: with the delay line full, the frame of Delay frames ago.
LEMMA PlayedFrame ==
  ASSUME NEW l \in Lane, NEW c \in Nat, NEW start \in Nat, Delayed(l, c, start),
         NEW use \in BOOLEAN, NEW left \in Nat, use /\ ~l.failed => InStep(l, c, left)
  PROVE  LET h == Played(l, use)
         IN  h = Silence \/ /\ h.from \in {"delayed", "rendered"}
                            /\ h.frame + Delay = c + 1 /\ h.frame > start
<1> DEFINE h == Played(l, use)
           n == Len(l.delay)
           o == Len(l.output)
           x == l.missed
<1>1. n \in Nat /\ o \in Nat /\ x \in Nat /\ n <= c - start
  BY LaneNumbers DEF Delayed
<1>2. CASE ~Primed(l)
  BY <1>2 DEF Played
<1>3. CASE Primed(l) /\ use /\ ~l.failed /\ InTime(l)
  <2>1. h = [from |-> "rendered", frame |-> l.output[Stale(l) + 1]]
    BY <1>3 DEF Played
  <2>2. o > x /\ Stale(l) = x
    BY <1>3, TurnTaken
  <2>3. \A k \in 1 .. o : l.output[k] = c - n - x + k
    BY <1>3 DEF InStep, Chained, Run, Due
  <2>4. n = Delay
    BY <1>3 DEF Primed
  <2>5. l.output[x + 1] = c - n - x + (x + 1)
    <3>1. x + 1 \in 1 .. o
      <4> HIDE DEF o, x
      <4> QED
        BY <1>1, <2>2
    <3> HIDE DEF o, x, n
    <3> QED
      BY <2>3, <3>1
  <2>6. /\ l.output[x + 1] + Delay = c + 1
        /\ l.output[x + 1] > start
    <3> HIDE DEF o, x, n
    <3> QED
      BY <1>1, <2>4, <2>5
  <2> QED
    BY <2>1, <2>2, <2>6
<1>4. CASE Primed(l) /\ ~(use /\ ~l.failed /\ InTime(l))
  <2>1. h = [from |-> "delayed", frame |-> Head(l.delay)]
    BY <1>4 DEF Played
  <2>2. Head(l.delay) = c + 1 - Delay /\ n = Delay
    BY <1>4, DelayPushed DEF Delayed, Primed
  <2>3. Head(l.delay) + Delay = c + 1 /\ Head(l.delay) > start
    <3> HIDE DEF n
    <3> QED
      BY <1>1, <2>2
  <2> QED
    BY <2>1, <2>3
<1> QED
  BY <1>2, <1>3, <1>4

\* A rendered frame whose turn it is in the output ring is played.
LEMMA PlayedWhenThere ==
  ASSUME NEW l \in Lane, NEW c \in Nat, NEW left \in Nat, InStep(l, c, left),
         Primed(l), ~l.failed, NEW k \in DOMAIN l.output, l.output[k] + Delay = c + 1
  PROVE  Played(l, TRUE).from = "rendered"
<1> DEFINE n == Len(l.delay)
           o == Len(l.output)
           x == l.missed
<1>1. n \in Nat /\ o \in Nat /\ x \in Nat /\ n = Delay
  BY LaneNumbers DEF Primed
<1>2. k \in 1 .. o
  BY DEF Lane
<1>3. l.output[k] = c - n - x + k
  BY <1>2 DEF InStep, Chained, Run, Due
<1>4. o > x
  <2> HIDE DEF n, o, x
  <2> QED
    BY <1>1, <1>2, <1>3
<1>5. InTime(l)
  BY <1>4, TurnTaken
<1> QED
  BY <1>5 DEF Played

\* The callback's frames enter the lane, or the lane fails.
LEMMA AcceptedFrames ==
  ASSUME NEW l \in Lane, Phase(l), NEW c \in Nat, NEW q \in Nat
  PROVE  LET m == Accept(l, [k \in 1 .. q |-> c + k])
         IN  /\ m \in Lane /\ Phase(m) /\ m.delay = l.delay
             /\ m.worker = l.worker /\ m.observed = l.observed
             /\ l.failed => m.failed
             /\ ~m.failed => (InStep(l, c, 0) => InStep(m, c, q))
<1> DEFINE f == [k \in 1 .. q |-> c + k]
           m == Accept(l, f)
           refused == [l EXCEPT !.failed = TRUE]
           accepted == [l EXCEPT !.input = l.input \o f]
<1>1. f \in Seq(Nat) /\ Len(f) = q /\ Run(f, c)
  <2>1. f \in Seq(Nat)
    <3>1. \A k \in 1 .. q : c + k \in Nat
      OBVIOUS
    <3> QED
      BY <3>1
  <2>2. Len(f) = q
    OBVIOUS
  <2> QED
    BY <2>1, <2>2 DEF Run
<1> HIDE DEF f
<1>2. l.input \in Seq(Nat)
  BY DEF Lane
<1>3. /\ l.input \o f \in Seq(Nat) /\ Len(l.input \o f) = Len(l.input) + q
      /\ \A b \in Int : Run(l.input, b) /\ Run(f, b + Len(l.input)) => Run(l.input \o f, b)
  BY <1>1, <1>2, JoinedRuns
<1>4. (m = l /\ l.failed) \/ m = refused \/ (m = accepted /\ ~l.failed)
  <2>1. m = IF l.failed THEN l
            ELSE IF Len(f) > InputCapacity - Len(l.input) THEN refused ELSE accepted
    BY DEF Accept
  <2> DEFINE full == Len(f) > InputCapacity - Len(l.input)
  <2>2. m = IF l.failed THEN l ELSE IF full THEN refused ELSE accepted
    BY <2>1
  <2> HIDE DEF m, refused, accepted, full
  <2>3. CASE l.failed
    BY <2>2, <2>3
  <2>4. CASE ~l.failed
    BY <2>2, <2>4
  <2> QED
    BY <2>3, <2>4
<1>5. CASE m = l /\ l.failed
  BY <1>5 DEF f
<1>6. CASE m = refused
  <2>1. refused \in Lane
    BY DEF Lane
  <2>2. /\ refused.output = l.output /\ refused.rendered = l.rendered
        /\ refused.block = l.block /\ refused.delay = l.delay /\ refused.worker = l.worker
        /\ refused.observed = l.observed /\ refused.ready = l.ready /\ refused.failed
    BY DEF Lane
  <2> HIDE DEF refused, m
  <2>3. Phase(refused)
    BY <2>2 DEF Phase
  <2> QED
    BY <2>1, <2>2, <2>3, <1>6 DEF m, f
<1>7. CASE m = accepted /\ ~l.failed
  <2>1. accepted \in Lane
    BY <1>3 DEF Lane
  <2>2. /\ accepted.output = l.output /\ accepted.rendered = l.rendered
        /\ accepted.kept = l.kept /\ accepted.block = l.block
        /\ accepted.input = l.input \o f
        /\ accepted.delay = l.delay /\ accepted.missed = l.missed
        /\ accepted.worker = l.worker /\ accepted.observed = l.observed
        /\ accepted.ready = l.ready /\ accepted.failed = l.failed
    BY DEF Lane
  <2> HIDE DEF accepted, m
  <2>3. Phase(accepted)
    BY <2>2 DEF Phase
  <2>4. ASSUME InStep(l, c, 0)
        PROVE  InStep(accepted, c, q)
    <3> DEFINE o == Len(l.output)
               r == Len(l.rendered)
               k == Len(l.kept)
               t == Len(l.block)
               i == Len(l.input)
               n == Len(l.delay)
               x == l.missed
               b == c - n - x
    <3>1. /\ o \in Nat /\ r \in Nat /\ k \in Nat /\ t \in Nat /\ i \in Nat /\ n \in Nat
          /\ x \in Nat
      BY LaneNumbers
    <3>2. /\ Run(l.output, b) /\ Run(l.rendered, b + o) /\ Run(l.kept, b + o + r)
          /\ Run(l.block, b + o + r + k) /\ Run(l.input, b + o + r + k + t)
      BY <2>4 DEF InStep, Chained, Due
    <3>3. o + r + k + t + i = n + x + 0
      BY <2>4 DEF InStep, Held
    <3>4. /\ b \in Int /\ b + o + r + k + t \in Int /\ b + o + r + k + t + i = c
          /\ o + r + k + t + (i + q) = n + x + q
      <4> HIDE DEF o, r, k, t, i, n, x
      <4> QED
        BY <3>1, <3>3
    <3> HIDE DEF b
    <3>5. Run(accepted.input, b + o + r + k + t)
      BY <3>2, <3>4, <1>1, <1>3, <2>2
    <3>6. Chained(accepted, b)
      BY <3>2, <3>5, <2>2 DEF Chained
    <3>7. Held(accepted) = n + x + q
      BY <3>4, <2>2, <1>3 DEF Held
    <3>8. Due(accepted, c) = b
      BY <2>2 DEF Due, b
    <3> QED
      BY <3>6, <3>7, <3>8, <2>2, <2>4 DEF InStep, Primed
  <2> QED
    BY <2>1, <2>2, <2>3, <2>4, <1>7 DEF m, f
<1> QED
  BY <1>4, <1>5, <1>6, <1>7

\* The first callback that finds the worker ready starts over.
Observed(l) ==
  IF l.ready /\ ~l.observed
  THEN [l EXCEPT !.observed = TRUE, !.delay = <<>>, !.missed = 0, !.output = <<>>]
  ELSE l

\* A lane without frames is in step wherever it starts.
LEMMA NothingHeld ==
  ASSUME NEW l \in Lane, Held(l) = 0, l.missed = 0, Len(l.delay) = 0,
         NEW c \in Nat, NEW start \in Nat, start <= c
  PROVE  InStep(l, c, 0) /\ Delayed(l, c, start)
<1>1. c - 0 \in Int /\ c - 0 - 0 \in Int /\ 0 <= c - start /\ 0 = 0 + 0 + 0
  OBVIOUS
<1>2. Delayed(l, c, start)
  BY <1>1 DEF Delayed, Run
<1>3. Chained(l, c - 0 - 0)
  BY <1>1, EmptyChained
<1>4. Held(l) = 0 + 0 + 0
  BY <1>1
<1> QED
  BY <1>2, <1>3, <1>4 DEF InStep, Due

LEMMA ObservedLane ==
  ASSUME NEW l \in Lane, Phase(l), NEW c \in Nat, NEW start \in Nat, start <= c
  PROVE  LET m == Observed(l)
         IN  /\ m \in Lane /\ Phase(m)
             /\ m.worker = l.worker /\ m.failed = l.failed /\ m.ready = l.ready
             /\ l.ready => m.observed
             /\ l.observed => m = l
             /\ ~l.ready => m = l
             /\ l.ready /\ ~l.observed /\ Held(l) = 0 =>
                  InStep(m, c, 0) /\ Delayed(m, c, start)
             /\ l.ready /\ ~l.observed => Delayed(m, c, start)
<1> DEFINE over == [l EXCEPT !.observed = TRUE, !.delay = <<>>, !.missed = 0, !.output = <<>>]
<1>1. <<>> \in Seq(Nat) /\ Len(<<>>) = 0
  BY EmptyRun
<1>2. over \in Lane
  BY <1>1 DEF Lane
<1>3. /\ over.output = <<>> /\ over.rendered = l.rendered /\ over.kept = l.kept
      /\ over.block = l.block /\ over.input = l.input /\ over.delay = <<>>
      /\ over.missed = 0 /\ over.worker = l.worker /\ over.observed
      /\ over.ready = l.ready /\ over.failed = l.failed
  BY DEF Lane
<1> HIDE DEF over
<1>4. CASE l.ready /\ ~l.observed
  <2>1. Observed(l) = over
    BY <1>4 DEF Observed, over
  <2>2. Phase(over)
    BY <1>3, <1>4 DEF Phase
  <2>3. Delayed(over, c, start)
    <3>1. 0 <= c - start
      OBVIOUS
    <3> QED
      BY <3>1, <1>1, <1>3 DEF Delayed, Run
  <2>4. ASSUME Held(l) = 0 PROVE InStep(over, c, 0)
    <3>1. Held(over) = 0
      BY <2>4, HeldNat, <1>1, <1>3 DEF Held
    <3> QED
      BY <3>1, <1>1, <1>2, <1>3, NothingHeld
  <2> QED
    BY <2>1, <2>2, <2>3, <2>4, <1>2, <1>3, <1>4
<1>5. CASE ~(l.ready /\ ~l.observed)
  BY <1>5 DEF Observed, Phase
<1> QED
  BY <1>4, <1>5

LEMMA NewLaneOK ==
  /\ NewLane \in Lane /\ NoLane \in Lane /\ Phase(NewLane) /\ Phase(NoLane)
  /\ Held(NewLane) = 0 /\ NewLane.missed = 0 /\ Len(NewLane.delay) = 0
  /\ ~NewLane.failed /\ ~NewLane.observed /\ NewLane.worker = "building"
  /\ NoLane.worker = "none"
<1>1. <<>> \in Seq(Nat) /\ Len(<<>>) = 0
  BY EmptyRun
<1>2. /\ NewLane.output = <<>> /\ NewLane.rendered = <<>> /\ NewLane.kept = <<>>
      /\ NewLane.block = <<>> /\ NewLane.input = <<>> /\ NewLane.delay = <<>>
      /\ NewLane.missed = 0 /\ ~NewLane.failed /\ ~NewLane.observed
      /\ NewLane.worker = "building"
  BY DEF NewLane
<1>3. NewLane \in Lane
  BY <1>1 DEF NewLane, Lane, WorkerStates
<1>4. /\ NoLane \in Lane /\ NoLane.worker = "none" /\ ~NoLane.observed
  BY <1>3, <1>2 DEF NoLane, Lane, WorkerStates
<1>5. Phase(NewLane) /\ Phase(NoLane)
  BY <1>2, <1>4 DEF Phase
<1>6. Held(NewLane) = 0 + 0 + 0 + 0 + 0
  BY <1>1, <1>2 DEF Held
<1>7. Held(NewLane) = 0
  BY <1>6
<1> QED
  BY <1>1, <1>2, <1>3, <1>4, <1>5, <1>7

-----------------------------------------------------------------------------
(* The lane that plays.                                                      *)

\* It is in step once its frames count: from the start for the object lane,
\* which is built before it is used (direct), and from the callback that
\* observed its worker ready for the other two; nothing enters it before.
Plays(l, direct, c, start, left, use) ==
  /\ l.worker # "none"
  /\ Delayed(l, c, start)
  /\ (direct \/ l.observed) /\ ~l.failed => InStep(l, c, left) /\ (left # 0 => use)
  /\ ~(direct \/ l.observed) => Held(l) = 0 /\ (left # 0 => ~use)

LEMMA AdvancesPlays ==
  ASSUME NEW l \in Lane, NEW m, Advances(l, m), NEW direct \in BOOLEAN, NEW c \in Nat,
         NEW start \in Nat, NEW left \in Nat, NEW use \in BOOLEAN,
         Plays(l, direct, c, start, left, use)
  PROVE  Plays(m, direct, c, start, left, use)
<1>1. /\ m \in Lane /\ m.delay = l.delay /\ m.missed = l.missed /\ m.observed = l.observed
      /\ l.failed => m.failed
      /\ m.worker # "none" /\ Held(m) <= Held(l)
      /\ ~m.failed => Held(m) = Held(l) /\ \A b \in Int : Chained(l, b) => Chained(m, b)
  BY DEF Advances
<1>2. Delayed(m, c, start)
  BY <1>1 DEF Plays, Delayed
<1>3. ASSUME direct \/ m.observed, ~m.failed
      PROVE  InStep(m, c, left) /\ (left # 0 => use)
  <2>1. InStep(l, c, left) /\ (left # 0 => use)
    BY <1>1, <1>3 DEF Plays
  <2>2. Due(l, c) \in Int
    BY LaneNumbers DEF Due
  <2>3. Due(m, c) = Due(l, c) /\ (Primed(m) <=> Primed(l))
    BY <1>1 DEF Due, Primed
  <2>4. InStep(m, c, left)
    BY <2>1, <2>2, <2>3, <1>1, <1>3 DEF InStep
  <2> QED
    BY <2>1, <2>4
<1>4. ASSUME ~(direct \/ m.observed)
      PROVE  Held(m) = 0 /\ (left # 0 => ~use)
  <2>1. Held(l) = 0 /\ (left # 0 => ~use)
    BY <1>1, <1>4 DEF Plays
  <2>2. Held(m) \in Nat
    BY <1>1, HeldNat
  <2>3. Held(m) = 0
    BY <2>1, <2>2, <1>1
  <2> QED
    BY <2>1, <2>3
<1> QED
  BY <1>1, <1>2, <1>3, <1>4 DEF Plays

LEMMA FramePlays ==
  ASSUME NEW l \in Lane, Phase(l), NEW direct \in BOOLEAN, NEW c \in Nat,
         NEW start \in Nat, NEW left \in Nat, NEW use \in BOOLEAN, NEW after \in BOOLEAN,
         Plays(l, direct, c, start, left + 1, use), left # 0 => after = use
  PROVE  Plays(AfterFrame(l, c + 1, use), direct, c + 1, start, left, after)
<1> DEFINE m == AfterFrame(l, c + 1, use)
<1>1. Delayed(l, c, start) /\ l.worker # "none" /\ left + 1 # 0
  BY DEF Plays
<1>2. /\ m \in Lane /\ Delayed(m, c + 1, start)
      /\ m.worker = l.worker /\ m.failed = l.failed /\ m.observed = l.observed
      /\ m.rendered = l.rendered /\ m.kept = l.kept /\ m.block = l.block
      /\ m.input = l.input
      /\ ~(Primed(l) /\ use /\ ~l.failed) => m.output = l.output
  BY <1>1, FrameKeepsShape
<1>3. ASSUME direct \/ m.observed, ~m.failed
      PROVE  InStep(m, c + 1, left) /\ (left # 0 => after)
  <2>1. InStep(l, c, left + 1) /\ use /\ ~l.failed
    BY <1>1, <1>2, <1>3 DEF Plays
  <2>2. use = TRUE
    BY <2>1
  <2>3. InStep(AfterFrame(l, c + 1, TRUE), c + 1, left)
    BY <2>1, <1>1, FrameInStep
  <2> QED
    BY <2>1, <2>2, <2>3
<1>4. ASSUME ~(direct \/ m.observed)
      PROVE  Held(m) = 0 /\ (left # 0 => ~after)
  <2>1. Held(l) = 0 /\ ~use
    BY <1>1, <1>2, <1>4 DEF Plays
  <2>2. Held(m) = Held(l)
    BY <2>1, <1>2 DEF Held
  <2> QED
    BY <2>1, <2>2
<1> HIDE DEF m
<1>5. Plays(m, direct, c + 1, start, left, after)
  BY <1>1, <1>2, <1>3, <1>4 DEF Plays
<1> QED
  BY <1>5 DEF m

\* A new lane, or one that was built and has played nothing.
LEMMA StartsPlaying ==
  ASSUME NEW l \in Lane, Held(l) = 0, l.missed = 0, Len(l.delay) = 0, l.worker # "none",
         NEW direct \in BOOLEAN, direct \/ ~l.observed,
         NEW c \in Nat, NEW use \in BOOLEAN
  PROVE  Plays(l, direct, c, c, 0, use)
BY NothingHeld DEF Plays

\* The callback of the stereo lane and of the bed lane begins.
Entered(l, c, q) ==
  IF Observed(l).ready THEN Accept(Observed(l), [k \in 1 .. q |-> c + k]) ELSE Observed(l)

LEMMA BeginsPlaying ==
  ASSUME NEW l \in Lane, Phase(l), NEW c \in Nat, NEW start \in Nat, start <= c,
         NEW q \in Nat, NEW use \in BOOLEAN, Plays(l, FALSE, c, start, 0, use),
         NEW after \in BOOLEAN, after <=> Observed(l).ready /\ ~Entered(l, c, q).failed
  PROVE  LET m == Entered(l, c, q)
         IN  /\ m \in Lane /\ Phase(m) /\ m.worker = l.worker
             /\ Plays(m, FALSE, c, start, q, after)
<1> DEFINE n == Observed(l)
           a == Accept(n, [k \in 1 .. q |-> c + k])
           m == Entered(l, c, q)
<1>1. /\ n \in Lane /\ Phase(n)
      /\ n.worker = l.worker /\ n.failed = l.failed /\ n.ready = l.ready
      /\ l.ready => n.observed
      /\ l.observed => n = l
      /\ ~l.ready => n = l
      /\ l.ready /\ ~l.observed /\ Held(l) = 0 => InStep(n, c, 0)
      /\ l.ready /\ ~l.observed => Delayed(n, c, start)
  BY ObservedLane
<1> HIDE DEF n
<1>2. /\ a \in Lane /\ Phase(a) /\ a.delay = n.delay
      /\ a.worker = n.worker /\ a.observed = n.observed
      /\ n.failed => a.failed
      /\ ~a.failed => (InStep(n, c, 0) => InStep(a, c, q))
  BY <1>1, AcceptedFrames
<1>3. m = IF n.ready THEN a ELSE n
  BY DEF Entered, n
<1>7. after <=> n.ready /\ ~m.failed
  BY DEF n
<1> HIDE DEF a, m
<1>4. /\ l.worker # "none" /\ Delayed(l, c, start)
      /\ l.observed /\ ~l.failed => InStep(l, c, 0)
      /\ ~l.observed => Held(l) = 0
  BY DEF Plays
<1>5. CASE l.ready
  <2>1. m = a /\ n.ready /\ n.observed
    BY <1>1, <1>3, <1>5
  <2>2. Delayed(n, c, start)
    BY <1>1, <1>4, <1>5
  <2>3. ~n.failed => InStep(n, c, 0)
    BY <1>1, <1>4, <1>5
  <2>4. Delayed(a, c, start)
    BY <2>2, <1>2 DEF Delayed
  <2>5. ~a.failed => InStep(a, c, q)
    BY <2>3, <1>2
  <2>6. Plays(a, FALSE, c, start, q, after)
    BY <2>1, <2>4, <2>5, <1>1, <1>2, <1>4, <1>7 DEF Plays
  <2> QED
    BY <2>1, <2>6, <1>1, <1>2 DEF m
<1>6. CASE ~l.ready
  <2>1. m = l /\ n = l /\ ~n.ready /\ ~l.observed
    BY <1>1, <1>3, <1>6 DEF Phase
  <2>2. Plays(l, FALSE, c, start, q, after)
    BY <2>1, <1>4, <1>7 DEF Plays
  <2> QED
    BY <2>1, <2>2 DEF m
<1> QED
  BY <1>5, <1>6

\* The call that processes a packet begins.
LEMMA BeginsDirect ==
  ASSUME NEW l \in Lane, Phase(l), NEW c \in Nat, NEW start \in Nat,
         NEW q \in Nat, NEW use \in BOOLEAN, Plays(l, TRUE, c, start, 0, use),
         NEW after \in BOOLEAN, after <=> ~Accept(l, [k \in 1 .. q |-> c + k]).failed
  PROVE  LET m == Accept(l, [k \in 1 .. q |-> c + k])
         IN  /\ m \in Lane /\ Phase(m) /\ m.worker = l.worker
             /\ Plays(m, TRUE, c, start, q, after)
<1> DEFINE m == Accept(l, [k \in 1 .. q |-> c + k])
<1>1. /\ m \in Lane /\ Phase(m) /\ m.delay = l.delay
      /\ m.worker = l.worker /\ m.observed = l.observed
      /\ l.failed => m.failed
      /\ ~m.failed => (InStep(l, c, 0) => InStep(m, c, q))
  BY AcceptedFrames
<1>5. after <=> ~m.failed
  OBVIOUS
<1> HIDE DEF m
<1>2. /\ l.worker # "none" /\ Delayed(l, c, start)
      /\ ~l.failed => InStep(l, c, 0)
  BY DEF Plays
<1>3. Delayed(m, c, start)
  BY <1>1, <1>2 DEF Delayed
<1>4. Plays(m, TRUE, c, start, q, after)
  BY <1>1, <1>2, <1>3, <1>5 DEF Plays
<1> QED
  BY <1>1, <1>4 DEF m

-----------------------------------------------------------------------------
(* The inductive invariant.                                                  *)

Direct == kind = "objects"

Types ==
  /\ kind \in {"stereo", "bed", "objects"} /\ Direct \in BOOLEAN
  /\ alive \in BOOLEAN /\ mapped \in BOOLEAN
  /\ inner \in Lanes \cup {0}
  /\ lanes \in [Lanes -> Lane] /\ \A i \in Lanes : Phase(lanes[i])
  /\ pin \in {"untried", "ok", "refused"}
  /\ call \in [pc : {"idle", "building", "joining"}, lane : Lanes \cup {0}]
  /\ callback \in [left : Nat, use : BOOLEAN]
  /\ clock \in Nat /\ boundary \in Nat /\ boundary <= clock

Playing ==
  /\ callback.left # 0 => inner # 0
  /\ inner # 0 =>
       Plays(lanes[inner], Direct, clock, boundary, callback.left, callback.use)

\* A call on the object processor and the lane it is about. The lane it builds
\* has heard nothing yet and is not the one that plays.
Building(i) ==
  /\ i \in Lanes /\ i # inner /\ lanes[i].worker # "none"
  /\ Held(lanes[i]) = 0 /\ lanes[i].missed = 0 /\ Len(lanes[i].delay) = 0
Calls ==
  Direct =>
    /\ call.pc # "idle" => callback.left = 0
    /\ call.pc = "idle" => call.lane = 0
    /\ call.pc = "building" => Building(call.lane)
    /\ \A i \in Lanes : Running(lanes[i]) => i \in {inner, call.lane}

\* The code of the module is there as long as a worker may run it.
Mapping ==
  /\ Direct => mapped
  /\ kind = "stereo" /\ alive => mapped
  /\ pin = "ok" => mapped
  /\ ~Direct => \A i \in Lanes : Running(lanes[i]) => pin = "ok"

IInv == Types /\ Playing /\ Calls /\ Mapping /\ FixedDelay /\ NothingFromBefore

-----------------------------------------------------------------------------
(* The steps the three processors have in common.                            *)

WorkerStep(i) ==
  /\ \E m : Advances(lanes[i], m) /\ lanes' = [lanes EXCEPT ![i] = m]
  /\ UNCHANGED <<kind, alive, inner, pin, mapped, call, callback, clock, boundary, heard>>

FrameStep ==
  /\ callback.left > 0
  /\ clock' = clock + 1
  /\ heard' = Played(lanes[inner], callback.use)
  /\ lanes' = [lanes EXCEPT ![inner] = AfterFrame(lanes[inner], clock', callback.use)]
  /\ callback' = IF callback.left = 1 THEN [left |-> 0, use |-> FALSE]
                 ELSE [callback EXCEPT !.left = callback.left - 1]
  /\ UNCHANGED <<kind, alive, inner, pin, mapped, call, boundary>>

\* A callback that finds a lane, or a processed packet.
BeginStep ==
  /\ inner # 0 /\ callback.left = 0 /\ (Direct => call.pc = "idle")
  /\ \E q \in Nat, m \in Lane, use \in BOOLEAN :
       /\ Phase(m) /\ m.worker = lanes[inner].worker
       /\ Plays(m, Direct, clock, boundary, q, use)
       /\ lanes' = [lanes EXCEPT ![inner] = m]
       /\ callback' = [left |-> q, use |-> use]
  /\ UNCHANGED <<kind, alive, inner, pin, mapped, call, clock, boundary, heard>>

\* A control call on a processor whose workers are pinned: the lanes are what
\* they were, told to stop, or new; it plays none, a new one, or the one it had.
Stopped(l) == [l EXCEPT !.stop = TRUE]
SwitchStep ==
  /\ ~Direct
  /\ lanes' = [i \in Lanes |-> lanes'[i]]
  /\ \A i \in Lanes :
       \/ lanes'[i] = lanes[i]
       \/ lanes'[i] = Stopped(lanes[i])
       \/ lanes'[i] = NewLane /\ pin' = "ok"
  /\ \/ inner' = inner /\ lanes' = lanes /\ boundary' = boundary
     \/ inner' = 0 /\ boundary' \in {boundary, clock} /\ callback.left = 0
     \/ inner' \in Lanes /\ lanes'[inner'] = NewLane /\ boundary' = clock /\ callback.left = 0
  /\ pin' \in {"untried", "ok", "refused"} /\ alive' \in BOOLEAN /\ mapped' \in BOOLEAN
  /\ pin = "ok" => pin' = "ok"
  /\ pin' = "ok" => mapped'
  /\ kind = "stereo" /\ alive' => mapped'
  /\ UNCHANGED <<kind, call, callback, clock, heard>>

IdentityStep ==
  /\ callback.left = 0 /\ inner = 0
  /\ clock' \in Nat /\ clock' > clock
  /\ heard' = [from |-> "identity", frame |-> clock']
  /\ UNCHANGED <<kind, alive, inner, lanes, pin, mapped, call, callback, boundary>>

LEMMA StoppedLane ==
  ASSUME NEW l \in Lane, Phase(l)
  PROVE  /\ Stopped(l) \in Lane /\ Phase(Stopped(l)) /\ Stopped(l).worker = l.worker
BY DEF Stopped, Lane, Phase

LEMMA ZeroIsNoLane ==
  0 \notin Lanes
BY HostAssumption

LEMMA WorkerKeeps ==
  ASSUME IInv, NEW i \in Lanes, WorkerStep(i)
  PROVE  IInv'
<1> USE DEF IInv
<1>1. PICK m : Advances(lanes[i], m) /\ lanes' = [lanes EXCEPT ![i] = m]
  BY DEF WorkerStep
<1>2. /\ lanes[i] \in Lane /\ m \in Lane /\ Phase(m) /\ m.worker # "none"
      /\ m.delay = lanes[i].delay /\ m.missed = lanes[i].missed
      /\ Held(m) <= Held(lanes[i]) /\ Running(lanes[i])
  BY <1>1 DEF Types, Advances
<1>3. UNCHANGED <<kind, alive, inner, pin, mapped, call, callback, clock, boundary, heard>>
  BY DEF WorkerStep
<1>4. lanes' \in [Lanes -> Lane] /\ \A j \in Lanes : lanes'[j] = IF j = i THEN m ELSE lanes[j]
  BY <1>1, <1>2 DEF Types
<1>5. Types'
  BY <1>2, <1>3, <1>4 DEF Types, Direct
<1>6. Playing'
  <2>1. CASE inner = i
    <3>1. inner # 0
      BY <2>1, ZeroIsNoLane
    <3>2. Plays(lanes[i], Direct, clock, boundary, callback.left, callback.use)
      BY <2>1, <3>1 DEF Playing
    <3>3. /\ Direct \in BOOLEAN /\ clock \in Nat /\ boundary \in Nat
          /\ callback.left \in Nat /\ callback.use \in BOOLEAN
      BY DEF Types
    <3>4. Plays(m, Direct, clock, boundary, callback.left, callback.use)
      BY <1>1, <1>2, <3>2, <3>3, AdvancesPlays
    <3>5. lanes'[inner'] = m
      BY <1>3, <1>4, <2>1
    <3> QED
      BY <3>1, <3>4, <3>5, <1>3 DEF Playing, Direct
  <2>2. CASE inner # i
    <3>1. inner # 0 => lanes'[inner'] = lanes[inner]
      BY <1>3, <1>4, <2>2 DEF Types
    <3> QED
      BY <3>1, <1>3 DEF Playing, Direct
  <2> QED
    BY <2>1, <2>2
<1>7. Calls'
  <2>1. ASSUME Direct, call.pc = "building" PROVE Building(call.lane)'
    <3>1. Building(call.lane) /\ call.lane \in Lanes
      BY <2>1 DEF Calls, Building
    <3>2. CASE call.lane = i
      <4>1. Held(m) \in Nat
        BY <1>2, HeldNat
      <4>2. Held(m) = 0
        BY <4>1, <3>1, <3>2, <1>2 DEF Building
      <4> QED
        BY <4>2, <3>1, <3>2, <1>2, <1>3, <1>4 DEF Building
    <3>3. CASE call.lane # i
      BY <3>1, <3>3, <1>3, <1>4 DEF Building
    <3> QED
      BY <3>2, <3>3
  <2>2. ASSUME Direct, NEW j \in Lanes, Running(lanes'[j])
        PROVE  j \in {inner, call.lane}
    BY <2>2, <1>2, <1>4 DEF Calls
  <2> QED
    BY <2>1, <2>2, <1>3 DEF Calls, Direct
<1>8. Mapping'
  <2>1. \A j \in Lanes : Running(lanes'[j]) => Running(lanes[j])
    BY <1>2, <1>4
  <2> QED
    BY <2>1, <1>3 DEF Mapping, Direct
<1>9. FixedDelay' /\ NothingFromBefore'
  BY <1>3 DEF FixedDelay, NothingFromBefore
<1> QED
  BY <1>5, <1>6, <1>7, <1>8, <1>9

LEMMA FrameKeeps ==
  ASSUME IInv, FrameStep
  PROVE  IInv'
<1> USE DEF IInv
<1> DEFINE l == lanes[inner]
           m == AfterFrame(l, clock + 1, callback.use)
           left == callback.left
           use == callback.use
<1>1. /\ UNCHANGED <<kind, alive, inner, pin, mapped, call, boundary>>
      /\ left > 0 /\ clock' = clock + 1 /\ heard' = Played(l, use)
      /\ lanes' = [lanes EXCEPT ![inner] = m]
  BY DEF FrameStep
<1>2. /\ left \in Nat /\ use \in BOOLEAN /\ clock \in Nat /\ boundary \in Nat
      /\ boundary <= clock /\ Direct \in BOOLEAN
  BY DEF Types
<1>3. inner # 0 /\ inner \in Lanes
  BY <1>1, <1>2 DEF Playing, Types
<1>4. l \in Lane /\ Phase(l)
  BY <1>3 DEF Types
<1>5. Plays(l, Direct, clock, boundary, left, use) /\ Delayed(l, clock, boundary)
  BY <1>3 DEF Playing, Plays
<1>6. m \in Lane /\ Phase(m) /\ m.worker = l.worker
  BY <1>2, <1>4, <1>5, FrameKeepsShape
<1>7. PICK rest \in Nat, after \in BOOLEAN :
        callback' = [left |-> rest, use |-> after] /\ left = rest + 1
        /\ (rest # 0 => after = use)
  <2>1. CASE left = 1
    <3>1. callback' = [left |-> 0, use |-> FALSE] /\ left = 0 + 1
      BY <2>1 DEF FrameStep
    <3> QED
      BY <3>1
  <2>2. CASE left # 1
    <3>1. left - 1 \in Nat /\ left = (left - 1) + 1
      BY <1>1, <1>2
    <3>2. callback' = [callback EXCEPT !.left = callback.left - 1]
      BY <2>2 DEF FrameStep
    <3>3. callback' = [left |-> left - 1, use |-> use]
      BY <3>2 DEF Types
    <3> QED
      BY <3>1, <3>3, <1>2
  <2> QED
    BY <2>1, <2>2
<1>8. Plays(m, Direct, clock + 1, boundary, rest, after)
  BY <1>2, <1>4, <1>5, <1>7, FramePlays
<1> HIDE DEF m, l
<1>9. lanes' \in [Lanes -> Lane] /\ \A j \in Lanes : lanes'[j] = IF j = inner THEN m ELSE lanes[j]
  BY <1>1, <1>3, <1>6 DEF Types
<1>10. callback' \in [left : Nat, use : BOOLEAN] /\ callback'.left = rest /\ callback'.use = after
  BY <1>7
<1>11. Types'
  <2>1. clock' \in Nat /\ boundary' \in Nat /\ boundary' <= clock'
    BY <1>1, <1>2
  <2>2. \A j \in Lanes : Phase(lanes'[j])
    BY <1>6, <1>9 DEF Types
  <2> QED
    BY <2>1, <2>2, <1>1, <1>9, <1>10 DEF Types, Direct
<1>12. Playing'
  <2>1. lanes'[inner'] = m /\ inner' # 0
    BY <1>1, <1>3, <1>9
  <2>2. Plays(m, Direct', clock', boundary', callback'.left, callback'.use)
    BY <1>1, <1>8, <1>10 DEF Direct
  <2> QED
    BY <2>1, <2>2 DEF Playing
<1>13. \A j \in Lanes : lanes'[j].worker = lanes[j].worker
  BY <1>6, <1>9 DEF l
<1>14. Calls'
  <2>1. Direct => call.pc = "idle"
    BY <1>1, <1>2 DEF Calls, Types
  <2> QED
    BY <2>1, <1>1, <1>13 DEF Calls, Direct, Running
<1>15. Mapping'
  BY <1>1, <1>13 DEF Mapping, Direct, Running
<1>16. \/ heard' = Silence
       \/ /\ heard'.from \in {"delayed", "rendered"}
          /\ heard'.frame + Delay = clock' /\ heard'.frame > boundary
  <2>1. (use /\ ~l.failed) => InStep(l, clock, left)
    BY <1>1, <1>2, <1>5 DEF Plays
  <2> QED
    BY <2>1, <1>1, <1>2, <1>4, <1>5, PlayedFrame
<1>17. FixedDelay' /\ NothingFromBefore'
  BY <1>1, <1>16 DEF FixedDelay, NothingFromBefore, Silence
<1> QED
  BY <1>11, <1>12, <1>14, <1>15, <1>17

LEMMA BeginKeeps ==
  ASSUME IInv, BeginStep
  PROVE  IInv'
<1> USE DEF IInv
<1>1. PICK q \in Nat, m \in Lane, use \in BOOLEAN :
        /\ Phase(m) /\ m.worker = lanes[inner].worker
        /\ Plays(m, Direct, clock, boundary, q, use)
        /\ lanes' = [lanes EXCEPT ![inner] = m]
        /\ callback' = [left |-> q, use |-> use]
  BY DEF BeginStep
<1>2. /\ UNCHANGED <<kind, alive, inner, pin, mapped, call, clock, boundary, heard>>
      /\ inner # 0 /\ inner \in Lanes /\ (Direct => call.pc = "idle")
  BY DEF BeginStep, Types
<1>3. lanes' \in [Lanes -> Lane] /\ \A j \in Lanes : lanes'[j] = IF j = inner THEN m ELSE lanes[j]
  BY <1>1, <1>2 DEF Types
<1>4. callback' \in [left : Nat, use : BOOLEAN] /\ callback'.left = q /\ callback'.use = use
  BY <1>1
<1>5. Types'
  BY <1>1, <1>2, <1>3, <1>4 DEF Types, Direct
<1>6. Playing'
  <2>1. lanes'[inner'] = m
    BY <1>2, <1>3
  <2> QED
    BY <2>1, <1>1, <1>2, <1>4 DEF Playing, Direct
<1>7. \A j \in Lanes : lanes'[j].worker = lanes[j].worker
  BY <1>1, <1>3
<1>8. Calls'
  BY <1>2, <1>7 DEF Calls, Direct, Running
<1>9. Mapping'
  BY <1>2, <1>7 DEF Mapping, Direct, Running
<1>10. FixedDelay' /\ NothingFromBefore'
  BY <1>2 DEF FixedDelay, NothingFromBefore
<1> QED
  BY <1>5, <1>6, <1>8, <1>9, <1>10

LEMMA SwitchKeeps ==
  ASSUME IInv, SwitchStep
  PROVE  IInv'
<1> USE DEF IInv
<1>1. /\ ~Direct /\ ~Direct'
      /\ pin' \in {"untried", "ok", "refused"} /\ alive' \in BOOLEAN /\ mapped' \in BOOLEAN
      /\ pin = "ok" => pin' = "ok"
      /\ pin' = "ok" => mapped'
      /\ kind = "stereo" /\ alive' => mapped'
      /\ UNCHANGED <<kind, call, callback, clock, heard>>
  BY DEF SwitchStep, Direct
<1>2. \A i \in Lanes :
        \/ lanes'[i] = lanes[i]
        \/ lanes'[i] = Stopped(lanes[i])
        \/ lanes'[i] = NewLane /\ pin' = "ok"
  BY DEF SwitchStep
<1>3. \A i \in Lanes : lanes[i] \in Lane /\ Phase(lanes[i])
  BY DEF Types
<1>4. ASSUME NEW i \in Lanes
      PROVE  /\ lanes'[i] \in Lane /\ Phase(lanes'[i])
             /\ Running(lanes'[i]) => Running(lanes[i]) \/ pin' = "ok"
  BY <1>2, <1>3, StoppedLane, NewLaneOK DEF Running
<1>5. \/ inner' = inner /\ lanes' = lanes /\ boundary' = boundary
      \/ inner' = 0 /\ boundary' \in {boundary, clock} /\ callback.left = 0
      \/ inner' \in Lanes /\ lanes'[inner'] = NewLane /\ boundary' = clock /\ callback.left = 0
  BY DEF SwitchStep
<1>6. lanes' \in [Lanes -> Lane]
  <2>1. lanes' = [i \in Lanes |-> lanes'[i]]
    BY DEF SwitchStep
  <2> QED
    BY <2>1, <1>4
<1>7. boundary' \in Nat /\ boundary' <= clock' /\ boundary' \in {boundary, clock}
  BY <1>1, <1>5 DEF Types
<1>8. Types'
  <2>1. inner' \in Lanes \cup {0}
    BY <1>5 DEF Types
  <2> QED
    BY <2>1, <1>1, <1>4, <1>6, <1>7 DEF Types, Direct
<1>9. Playing'
  <2>1. CASE inner' = inner /\ lanes' = lanes /\ boundary' = boundary
    BY <2>1, <1>1 DEF Playing, Direct
  <2>2. CASE inner' = 0 /\ callback.left = 0
    BY <2>2, <1>1 DEF Playing
  <2>3. CASE inner' \in Lanes /\ lanes'[inner'] = NewLane /\ boundary' = clock /\ callback.left = 0
    <3>1. clock \in Nat /\ callback.use \in BOOLEAN /\ inner' # 0
      BY <2>3, ZeroIsNoLane DEF Types
    <3>2. Plays(NewLane, FALSE, clock, clock, 0, callback.use)
      BY <3>1, NewLaneOK, StartsPlaying
    <3>3. Direct' = FALSE
      BY <1>1
    <3> QED
      BY <2>3, <3>1, <3>2, <3>3, <1>1 DEF Playing
  <2> QED
    BY <2>1, <2>2, <2>3, <1>5
<1>10. Calls'
  BY <1>1 DEF Calls
<1>11. Mapping'
  BY <1>1, <1>4 DEF Mapping
<1>12. FixedDelay' /\ NothingFromBefore'
  <2>1. FixedDelay'
    BY <1>1 DEF FixedDelay
  <2>2. boundary' = boundary \/ boundary' = clock
    BY <1>7
  <2>3. clock \in Nat /\ ~(clock > clock)
    BY DEF Types
  <2> QED
    BY <2>1, <2>2, <2>3, <1>1 DEF NothingFromBefore
<1> QED
  BY <1>8, <1>9, <1>10, <1>11, <1>12

LEMMA IdentityKeeps ==
  ASSUME IInv, IdentityStep
  PROVE  IInv'
<1> USE DEF IInv
<1>1. /\ UNCHANGED <<kind, alive, inner, lanes, pin, mapped, call, callback, boundary>>
      /\ callback.left = 0 /\ inner = 0 /\ clock' \in Nat /\ clock' > clock
      /\ heard'.from = "identity" /\ heard'.frame = clock'
  BY DEF IdentityStep
<1>2. clock \in Nat /\ boundary \in Nat /\ boundary <= clock
  BY DEF Types
<1>3. boundary' <= clock' /\ clock' > boundary'
  BY <1>1, <1>2
<1>4. Types'
  BY <1>1, <1>3 DEF Types, Direct
<1>5. Playing' /\ Calls' /\ Mapping'
  BY <1>1 DEF Playing, Calls, Mapping, Direct, Building
<1>6. FixedDelay' /\ NothingFromBefore'
  BY <1>1, <1>3 DEF FixedDelay, NothingFromBefore
<1> QED
  BY <1>4, <1>5, <1>6

LEMMA StutterKeeps ==
  ASSUME IInv, UNCHANGED vars
  PROVE  IInv'
BY DEF IInv, Types, Playing, Calls, Mapping, Building, Direct, FixedDelay,
       NothingFromBefore, vars, moving

-----------------------------------------------------------------------------
(* The steps of the stereo lane.                                             *)

LEMMA StereoLane ==
  /\ Stereo!NewLane = NewLane /\ Stereo!NoLane = NoLane /\ Stereo!Silence = Silence
  /\ \A l : /\ Stereo!MayTake(l) <=> MayTake(l)
            /\ Stereo!Taken(l) = Taken(l)
            /\ Stereo!Rendered(l) = Rendered(l)
            /\ Stereo!RenderFailed(l) = RenderFailed(l)
            /\ Stereo!MayPush(l) <=> MayPush(l)
            /\ Stereo!Pushed(l) = Pushed(l)
            /\ Stereo!SeesStop(l) <=> SeesStop(l)
            /\ Stereo!Exited(l) = Exited(l)
            /\ Stereo!ObservedReady(l) = Observed(l)
  /\ \A l, frames : Stereo!Accept(l, frames) = Accept(l, frames)
  /\ \A l, use : Stereo!Played(l, use) = Played(l, use)
  /\ \A l, frame, use : Stereo!AfterFrame(l, frame, use) = AfterFrame(l, frame, use)
<1>1. Stereo!NewLane = NewLane /\ Stereo!Silence = Silence
  BY DEF Stereo!NewLane, NewLane, Stereo!Silence, Silence
<1>2. Stereo!NoLane = NoLane
  BY <1>1 DEF Stereo!NoLane, NoLane
<1>3. /\ \A s, n : Stereo!Drop(s, n) = Drop(s, n) /\ Stereo!First(s, n) = First(s, n)
      /\ \A a, b : Stereo!Lesser(a, b) = Lesser(a, b)
  BY DEF Stereo!Drop, Drop, Stereo!First, First, Stereo!Lesser, Lesser
<1>4. \A l : /\ Stereo!MayTake(l) <=> MayTake(l)
             /\ Stereo!MayPush(l) <=> MayPush(l)
             /\ Stereo!SeesStop(l) <=> SeesStop(l)
             /\ Stereo!Primed(l) <=> Primed(l)
  BY DEF Stereo!MayTake, MayTake, Stereo!MayPush, MayPush, Stereo!SeesStop, SeesStop,
         Stereo!SeesStopPushing, SeesStopPushing,
         Stereo!Primed, Primed
<1>5. \A l : /\ Stereo!Taken(l) = Taken(l) /\ Stereo!RenderFailed(l) = RenderFailed(l)
             /\ Stereo!Pushed(l) = Pushed(l) /\ Stereo!Exited(l) = Exited(l)
             /\ Stereo!ObservedReady(l) = Observed(l)
  BY <1>3 DEF Stereo!Taken, Taken, Stereo!RenderFailed, RenderFailed, Stereo!Pushed, Pushed,
              Stereo!Exited, Exited, Stereo!ObservedReady, Observed
<1>6. \A l : Stereo!Rendered(l) = Rendered(l)
  BY <1>3 DEF Stereo!Rendered, Rendered
<1>7. \A l : Stereo!Stale(l) = Stale(l)
  BY <1>3 DEF Stereo!Stale, Stale
<1>8. \A l : Stereo!InTime(l) <=> InTime(l)
  BY <1>7 DEF Stereo!InTime, InTime
<1>9. \A l : Stereo!MissedAfter(l) = MissedAfter(l)
  BY <1>7, <1>8 DEF Stereo!MissedAfter, MissedAfter
<1>10. \A l, frame : Stereo!DelayPush(l, frame) = DelayPush(l, frame)
  BY <1>4 DEF Stereo!DelayPush, DelayPush
<1>11. \A l, frames : Stereo!Accept(l, frames) = Accept(l, frames)
  BY DEF Stereo!Accept, Accept
<1>12. \A l, use : Stereo!Played(l, use) = Played(l, use)
  BY <1>1, <1>4, <1>7, <1>8 DEF Stereo!Played, Played
<1>13. ASSUME NEW l, NEW frame, NEW use
       PROVE  Stereo!AfterFrame(l, frame, use) = AfterFrame(l, frame, use)
  <2>1. /\ Stereo!DelayPush(l, frame) = DelayPush(l, frame) /\ Stereo!Stale(l) = Stale(l)
        /\ Stereo!InTime(l) <=> InTime(l)
        /\ Stereo!MissedAfter(l) = MissedAfter(l) /\ (Stereo!Primed(l) <=> Primed(l))
    BY <1>4, <1>7, <1>8, <1>9, <1>10
  <2>2. CASE Primed(l) /\ use /\ ~l.failed
    BY <2>1, <2>2, <1>3 DEF Stereo!AfterFrame, AfterFrame
  <2>3. CASE ~(Primed(l) /\ use /\ ~l.failed)
    BY <2>1, <2>3 DEF Stereo!AfterFrame, AfterFrame
  <2> QED
    BY <2>2, <2>3
<1> QED
  BY <1>1, <1>2, <1>4, <1>5, <1>6, <1>11, <1>12, <1>13

LEMMA StereoWorker ==
  ASSUME IInv, kind = "stereo", NEW i \in Lanes, Stereo!Worker(i), UNCHANGED <<kind, call>>
  PROVE  WorkerStep(i)
<1> DEFINE l == lanes[i]
           Becomes(m) == Stereo!WorkerBecomes(i, m)
<1>1. l \in Lane /\ Phase(l)
  BY DEF IInv, Types
<1>2. ASSUME NEW m, Advances(l, m), Becomes(m)
      PROVE  WorkerStep(i)
  BY <1>2 DEF WorkerStep, Stereo!WorkerBecomes
<1> HIDE DEF Becomes
<1>3. CASE Stereo!WorkerBuilds(i)
  <2>1. l.worker = "building"
    BY <1>3 DEF Stereo!WorkerBuilds
  <2>2. \/ Becomes([l EXCEPT !.worker = "waiting", !.ready = TRUE])
        \/ Becomes([l EXCEPT !.worker = "done", !.failed = TRUE])
    BY <1>3 DEF Stereo!WorkerBuilds, Becomes
  <2> HIDE DEF l
  <2>3. /\ Advances(l, [l EXCEPT !.worker = "waiting", !.ready = TRUE])
        /\ Advances(l, [l EXCEPT !.worker = "done", !.failed = TRUE])
    BY <1>1, <2>1, BuildAdvances
  <2> QED
    BY <2>2, <2>3, <1>2
<1>4. CASE Stereo!WorkerTakes(i)
  <2>1. MayTake(l) /\ Becomes(Taken(l))
    BY <1>4, StereoLane DEF Stereo!WorkerTakes, Becomes
  <2> QED
    BY <2>1, <1>1, <1>2, TakenAdvances
<1>5. CASE Stereo!WorkerRenders(i)
  <2>1. l.worker = "rendering" /\ (Becomes(Rendered(l)) \/ Becomes(RenderFailed(l)))
    BY <1>5, StereoLane DEF Stereo!WorkerRenders, Becomes
  <2> QED
    BY <2>1, <1>1, <1>2, RenderedAdvances, RenderFailedAdvances
<1>6. CASE Stereo!WorkerPushes(i)
  <2>1. MayPush(l) /\ Becomes(Pushed(l))
    BY <1>6, StereoLane DEF Stereo!WorkerPushes, Becomes
  <2> QED
    BY <2>1, <1>1, <1>2, PushedAdvances
<1>7. CASE Stereo!WorkerExits(i)
  <2>1. SeesStop(l) /\ Becomes(Exited(l))
    BY <1>7, StereoLane DEF Stereo!WorkerExits, Becomes
  <2> QED
    BY <2>1, <1>1, <1>2, ExitAdvances
<1> QED
  BY <1>3, <1>4, <1>5, <1>6, <1>7 DEF Stereo!Worker

LEMMA StereoFrame ==
  ASSUME IInv, kind = "stereo", Stereo!CallbackFrame, UNCHANGED <<kind, call>>
  PROVE  FrameStep
<1>1. /\ Stereo!Played(lanes[inner], callback.use) = Played(lanes[inner], callback.use)
      /\ Stereo!AfterFrame(lanes[inner], clock', callback.use)
           = AfterFrame(lanes[inner], clock', callback.use)
  BY StereoLane
<1> QED
  BY <1>1 DEF Stereo!CallbackFrame, Stereo!Between, FrameStep

LEMMA StereoBegins ==
  ASSUME IInv, kind = "stereo", NEW q \in Quanta, Stereo!CallbackBegins(q),
         UNCHANGED <<kind, call>>
  PROVE  BeginStep
<1> DEFINE l == lanes[inner]
           m == Entered(l, clock, q)
           use == Observed(l).ready /\ ~m.failed
<1>1. inner # 0 /\ callback.left = 0
  BY DEF Stereo!CallbackBegins, Stereo!Called, Stereo!Between
<1>2. /\ inner \in Lanes /\ l \in Lane /\ Phase(l) /\ clock \in Nat /\ boundary \in Nat
      /\ boundary <= clock /\ callback.use \in BOOLEAN /\ q \in Nat
  BY <1>1, HostAssumption DEF IInv, Types
<1>3. ~Direct /\ Direct = FALSE
  BY DEF Direct
<1>4. Plays(l, FALSE, clock, boundary, 0, callback.use)
  BY <1>1, <1>3 DEF IInv, Playing
<1>8. use \in BOOLEAN /\ (use <=> Observed(l).ready /\ ~Entered(l, clock, q).failed)
  OBVIOUS
<1>6. lanes' = [lanes EXCEPT ![inner] = m] /\ callback' = [left |-> q, use |-> use]
  BY StereoLane DEF Stereo!CallbackBegins, Entered
<1>7. UNCHANGED <<kind, alive, inner, pin, mapped, call, clock, boundary, heard>>
  BY DEF Stereo!CallbackBegins
<1> HIDE DEF use
<1>5. m \in Lane /\ Phase(m) /\ m.worker = l.worker /\ Plays(m, FALSE, clock, boundary, q, use)
  BY <1>2, <1>4, <1>8, BeginsPlaying
<1> HIDE DEF m
<1> QED
  BY <1>1, <1>2, <1>3, <1>5, <1>6, <1>7, <1>8 DEF BeginStep

LEMMA StereoIdentity ==
  ASSUME IInv, kind = "stereo", NEW q \in Quanta, Stereo!ProcessIdentity(q),
         UNCHANGED <<kind, call>>
  PROVE  IdentityStep
<1>1. q \in Nat /\ q > 0 /\ clock \in Nat
  BY HostAssumption DEF IInv, Types
<1>2. clock + q \in Nat /\ clock + q > clock
  BY <1>1
<1> QED
  BY <1>2 DEF Stereo!ProcessIdentity, Stereo!Called, Stereo!Between, IdentityStep

\* Every control call of the stereo processor, the library's release included.
LEMMA StereoDrops ==
  ASSUME IInv, kind = "stereo"
  PROVE  Stereo!LanesDropped =
           [i \in Lanes |-> IF i = inner THEN Stopped(lanes[i]) ELSE lanes[i]]
BY DEF Stereo!LanesDropped, Stopped

LEMMA StereoReplaces ==
  ASSUME IInv, kind = "stereo", Stereo!ReplaceLane, Stereo!Called,
         UNCHANGED <<kind, call, alive, mapped, callback, clock, heard>>
  PROVE  SwitchStep
<1>1. /\ alive /\ callback.left = 0
  BY DEF Stereo!Called, Stereo!Between
<1>2. /\ mapped /\ (pin = "ok" => mapped) /\ ~Direct
      /\ mapped \in BOOLEAN /\ alive \in BOOLEAN
      /\ pin \in {"untried", "ok", "refused"} /\ lanes \in [Lanes -> Lane]
  BY <1>1 DEF IInv, Mapping, Types, Direct
<1>3. PICK answer \in {"ok", "refused"} :
        /\ Stereo!Pinned(answer) /\ pin' = answer
        /\ \/ /\ Stereo!MayStart(answer)
              /\ \E i \in Lanes \ Stereo!Used :
                   /\ lanes' = [Stereo!LanesDropped EXCEPT ![i] = Stereo!FreshLane]
                   /\ inner' = i
                   /\ boundary' = clock
           \/ UNCHANGED <<lanes, inner, boundary>>
  BY DEF Stereo!ReplaceLane
<1>4. /\ pin' \in {"untried", "ok", "refused"} /\ alive' \in BOOLEAN /\ mapped'
      /\ pin = "ok" => pin' = "ok"
  BY <1>2, <1>3 DEF Stereo!Pinned
<1>5. CASE UNCHANGED <<lanes, inner, boundary>>
  <2>1. lanes' = [i \in Lanes |-> lanes'[i]]
    BY <1>2, <1>5
  <2> QED
    BY <2>1, <1>2, <1>4, <1>5 DEF SwitchStep
<1>6. ASSUME Stereo!MayStart(answer), NEW i \in Lanes,
             lanes' = [Stereo!LanesDropped EXCEPT ![i] = Stereo!FreshLane],
             inner' = i, boundary' = clock
      PROVE  SwitchStep
  <2>1. pin' = "ok"
    BY <1>3, <1>6 DEF Stereo!MayStart
  <2>2. Stereo!FreshLane = NewLane
    BY StereoLane DEF Stereo!FreshLane
  <2>3. lanes' = [j \in Lanes |-> IF j = i THEN NewLane
                                  ELSE IF j = inner THEN Stopped(lanes[j]) ELSE lanes[j]]
    BY <1>6, <2>2, StereoDrops
  <2>4. lanes' = [j \in Lanes |-> lanes'[j]]
    BY <2>3
  <2>5. ASSUME NEW j \in Lanes
        PROVE  \/ lanes'[j] = lanes[j]
               \/ lanes'[j] = Stopped(lanes[j])
               \/ lanes'[j] = NewLane /\ pin' = "ok"
    BY <2>1, <2>3
  <2>6. lanes'[inner'] = NewLane /\ inner' \in Lanes
    BY <2>3, <1>6
  <2> QED
    BY <2>1, <2>4, <2>5, <2>6, <1>1, <1>2, <1>4, <1>6 DEF SwitchStep
<1> QED
  BY <1>3, <1>5, <1>6

\* The processor plays no lane any more.
LEMMA StereoLeaves ==
  ASSUME IInv, kind = "stereo", Stereo!Called, lanes' = Stereo!LanesDropped, inner' = 0,
         boundary' \in {boundary, clock}, alive' \in BOOLEAN,
         UNCHANGED <<kind, call, pin, mapped, callback, clock, heard>>
  PROVE  SwitchStep
<1>1. /\ alive /\ callback.left = 0
  BY DEF Stereo!Called, Stereo!Between
<1>2. /\ mapped /\ ~Direct /\ mapped \in BOOLEAN
      /\ pin \in {"untried", "ok", "refused"} /\ lanes \in [Lanes -> Lane]
  BY <1>1 DEF IInv, Mapping, Types, Direct
<1>3. lanes' = [j \in Lanes |-> IF j = inner THEN Stopped(lanes[j]) ELSE lanes[j]]
  BY StereoDrops
<1>4. lanes' = [j \in Lanes |-> lanes'[j]]
  BY <1>3
<1> QED
  BY <1>1, <1>2, <1>3, <1>4 DEF SwitchStep

LEMMA StereoControl ==
  ASSUME IInv, kind = "stereo", Stereo!Control, UNCHANGED <<kind, call>>
  PROVE  SwitchStep
<1>1. CASE Stereo!SetModeCurrent
  <2>1. Stereo!Called /\ UNCHANGED <<alive, mapped, callback, clock, heard>>
    BY <1>1 DEF Stereo!SetModeCurrent
  <2>2. \/ Stereo!ReplaceLane
        \/ /\ lanes' = Stereo!LanesDropped /\ inner' = 0 /\ boundary' = clock
           /\ UNCHANGED pin
    BY <1>1 DEF Stereo!SetModeCurrent
  <2>3. alive' \in BOOLEAN
    BY <2>1 DEF IInv, Types
  <2> QED
    BY <2>1, <2>2, <2>3, StereoReplaces, StereoLeaves
<1>2. CASE Stereo!SetModeIdentity
  <2>1. alive' \in BOOLEAN
    BY <1>2 DEF Stereo!SetModeIdentity, IInv, Types
  <2> QED
    BY <1>2, <2>1, StereoLeaves DEF Stereo!SetModeIdentity
<1>3. CASE Stereo!Reset
  BY <1>3, StereoReplaces DEF Stereo!Reset
<1>4. CASE Stereo!Destroy
  BY <1>4, StereoLeaves DEF Stereo!Destroy
<1>5. CASE Stereo!FreeLibrary
  <2>1. /\ ~alive /\ mapped' = (pin = "ok")
        /\ UNCHANGED <<alive, inner, lanes, pin, callback, clock, boundary, heard>>
    BY <1>5 DEF Stereo!FreeLibrary
  <2>2. ~Direct /\ pin \in {"untried", "ok", "refused"} /\ lanes \in [Lanes -> Lane]
    BY DEF IInv, Types, Direct
  <2>3. lanes' = [i \in Lanes |-> lanes'[i]]
    BY <2>1, <2>2
  <2>4. mapped' \in BOOLEAN /\ (pin' = "ok" => mapped') /\ alive' \in BOOLEAN /\ ~alive'
    BY <2>1 DEF IInv, Types
  <2> QED
    BY <2>1, <2>2, <2>3, <2>4 DEF SwitchStep
<1> QED
  BY <1>1, <1>2, <1>3, <1>4, <1>5 DEF Stereo!Control

LEMMA StereoKeeps ==
  ASSUME IInv, StereoStep, UNCHANGED kind
  PROVE  IInv'
<1>1. kind = "stereo" /\ UNCHANGED <<kind, call>>
  BY DEF StereoStep
<1>2. CASE Stereo!Control
  BY <1>1, <1>2, StereoControl, SwitchKeeps
<1>3. CASE \E q \in Quanta : Stereo!ProcessIdentity(q) \/ Stereo!CallbackBegins(q)
  BY <1>1, <1>3, StereoIdentity, StereoBegins, IdentityKeeps, BeginKeeps
<1>4. CASE Stereo!CallbackFrame
  BY <1>1, <1>4, StereoFrame, FrameKeeps
<1>5. CASE \E i \in Lanes : Stereo!Worker(i)
  BY <1>1, <1>5, StereoWorker, WorkerKeeps
<1> QED
  BY <1>2, <1>3, <1>4, <1>5 DEF StereoStep, Stereo!Next, Stereo!Callback

-----------------------------------------------------------------------------
(* The steps of the bed lane.                                                *)

LEMMA BedLane ==
  /\ Bed!NewLane = NewLane /\ Bed!NoLane = NoLane /\ Bed!Silence = Silence
  /\ \A l : /\ Bed!MayTake(l) <=> MayTake(l)
            /\ Bed!Taken(l) = Taken(l)
            /\ Bed!Rendered(l) = Rendered(l)
            /\ Bed!RenderFailed(l) = RenderFailed(l)
            /\ Bed!MayPush(l) <=> MayPush(l)
            /\ Bed!Pushed(l) = Pushed(l)
            /\ Bed!SeesStop(l) <=> SeesStop(l)
            /\ Bed!Exited(l) = Exited(l)
            /\ Bed!ObservedReady(l) = Observed(l)
  /\ \A l, frames : Bed!Accept(l, frames) = Accept(l, frames)
  /\ \A l, use : Bed!Played(l, use) = Played(l, use)
  /\ \A l, frame, use : Bed!AfterFrame(l, frame, use) = AfterFrame(l, frame, use)
<1>1. Bed!NewLane = NewLane /\ Bed!Silence = Silence
  BY DEF Bed!NewLane, NewLane, Bed!Silence, Silence
<1>2. Bed!NoLane = NoLane
  BY <1>1 DEF Bed!NoLane, NoLane
<1>3. /\ \A s, n : Bed!Drop(s, n) = Drop(s, n) /\ Bed!First(s, n) = First(s, n)
      /\ \A a, b : Bed!Lesser(a, b) = Lesser(a, b)
  BY DEF Bed!Drop, Drop, Bed!First, First, Bed!Lesser, Lesser
<1>4. \A l : /\ Bed!MayTake(l) <=> MayTake(l)
             /\ Bed!MayPush(l) <=> MayPush(l)
             /\ Bed!SeesStop(l) <=> SeesStop(l)
             /\ Bed!Primed(l) <=> Primed(l)
  BY DEF Bed!MayTake, MayTake, Bed!MayPush, MayPush, Bed!SeesStop, SeesStop,
         Bed!SeesStopPushing, SeesStopPushing,
         Bed!Primed, Primed
<1>5. \A l : /\ Bed!Taken(l) = Taken(l) /\ Bed!RenderFailed(l) = RenderFailed(l)
             /\ Bed!Pushed(l) = Pushed(l) /\ Bed!Exited(l) = Exited(l)
             /\ Bed!ObservedReady(l) = Observed(l)
  BY <1>3 DEF Bed!Taken, Taken, Bed!RenderFailed, RenderFailed, Bed!Pushed, Pushed,
              Bed!Exited, Exited, Bed!ObservedReady, Observed
<1>6. \A l : Bed!Rendered(l) = Rendered(l)
  BY <1>3 DEF Bed!Rendered, Rendered
<1>7. \A l : Bed!Stale(l) = Stale(l)
  BY <1>3 DEF Bed!Stale, Stale
<1>8. \A l : Bed!InTime(l) <=> InTime(l)
  BY <1>7 DEF Bed!InTime, InTime
<1>9. \A l : Bed!MissedAfter(l) = MissedAfter(l)
  BY <1>7, <1>8 DEF Bed!MissedAfter, MissedAfter
<1>10. \A l, frame : Bed!DelayPush(l, frame) = DelayPush(l, frame)
  BY <1>4 DEF Bed!DelayPush, DelayPush
<1>11. \A l, frames : Bed!Accept(l, frames) = Accept(l, frames)
  BY DEF Bed!Accept, Accept
<1>12. \A l, use : Bed!Played(l, use) = Played(l, use)
  BY <1>1, <1>4, <1>7, <1>8 DEF Bed!Played, Played
<1>13. ASSUME NEW l, NEW frame, NEW use
       PROVE  Bed!AfterFrame(l, frame, use) = AfterFrame(l, frame, use)
  <2>1. /\ Bed!DelayPush(l, frame) = DelayPush(l, frame) /\ Bed!Stale(l) = Stale(l)
        /\ Bed!InTime(l) <=> InTime(l)
        /\ Bed!MissedAfter(l) = MissedAfter(l) /\ (Bed!Primed(l) <=> Primed(l))
    BY <1>4, <1>7, <1>8, <1>9, <1>10
  <2>2. CASE Primed(l) /\ use /\ ~l.failed
    BY <2>1, <2>2, <1>3 DEF Bed!AfterFrame, AfterFrame
  <2>3. CASE ~(Primed(l) /\ use /\ ~l.failed)
    BY <2>1, <2>3 DEF Bed!AfterFrame, AfterFrame
  <2> QED
    BY <2>2, <2>3
<1> QED
  BY <1>1, <1>2, <1>4, <1>5, <1>6, <1>11, <1>12, <1>13

LEMMA BedWorker ==
  ASSUME IInv, kind = "bed", NEW i \in Lanes, Bed!Worker(i), UNCHANGED <<kind, alive, call>>
  PROVE  WorkerStep(i)
<1> DEFINE l == lanes[i]
           Becomes(m) == lanes' = [lanes EXCEPT ![i] = m]
<1>1. l \in Lane /\ Phase(l)
  BY DEF IInv, Types
<1>2. UNCHANGED <<kind, alive, inner, pin, mapped, call, callback, clock, boundary, heard>>
  BY DEF Bed!Worker
<1>3. ASSUME NEW m, Advances(l, m), Becomes(m)
      PROVE  WorkerStep(i)
  BY <1>2, <1>3 DEF WorkerStep
<1>4. \/ l.worker = "building" /\ \E built \in Bed!Built(l) : Becomes(built)
      \/ Bed!MayTake(l) /\ Becomes(Bed!Taken(l))
      \/ /\ l.worker = "rendering"
         /\ \E next \in {Bed!Rendered(l), Bed!RenderFailed(l)} : Becomes(next)
      \/ Bed!MayPush(l) /\ Becomes(Bed!Pushed(l))
      \/ Bed!SeesStop(l) /\ Becomes(Bed!Exited(l))
  BY DEF Bed!Worker
<1> HIDE DEF Becomes, l
<1>5. CASE l.worker = "building" /\ \E built \in Bed!Built(l) : Becomes(built)
  <2>1. /\ Advances(l, [l EXCEPT !.worker = "waiting", !.ready = TRUE])
        /\ Advances(l, [l EXCEPT !.worker = "done", !.failed = TRUE])
    BY <1>1, <1>5, BuildAdvances
  <2>2. \/ Becomes([l EXCEPT !.worker = "waiting", !.ready = TRUE])
        \/ Becomes([l EXCEPT !.worker = "done", !.failed = TRUE])
    BY <1>5 DEF Bed!Built
  <2> QED
    BY <2>1, <2>2, <1>3
<1>6. CASE Bed!MayTake(l) /\ Becomes(Bed!Taken(l))
  BY <1>1, <1>3, <1>6, BedLane, TakenAdvances
<1>7. CASE /\ l.worker = "rendering"
           /\ \E next \in {Bed!Rendered(l), Bed!RenderFailed(l)} : Becomes(next)
  <2>1. Becomes(Rendered(l)) \/ Becomes(RenderFailed(l))
    BY <1>7, BedLane
  <2> QED
    BY <2>1, <1>1, <1>3, <1>7, RenderedAdvances, RenderFailedAdvances
<1>8. CASE Bed!MayPush(l) /\ Becomes(Bed!Pushed(l))
  BY <1>1, <1>3, <1>8, BedLane, PushedAdvances
<1>9. CASE Bed!SeesStop(l) /\ Becomes(Bed!Exited(l))
  BY <1>1, <1>3, <1>9, BedLane, ExitAdvances
<1> QED
  BY <1>4, <1>5, <1>6, <1>7, <1>8, <1>9

LEMMA BedFrame ==
  ASSUME IInv, kind = "bed", Bed!CallbackFrame, UNCHANGED <<kind, alive, call>>
  PROVE  FrameStep
<1>1. /\ Bed!Played(lanes[inner], callback.use) = Played(lanes[inner], callback.use)
      /\ Bed!AfterFrame(lanes[inner], clock', callback.use)
           = AfterFrame(lanes[inner], clock', callback.use)
  BY BedLane
<1> QED
  BY <1>1 DEF Bed!CallbackFrame, Bed!Between, FrameStep

LEMMA BedBegins ==
  ASSUME IInv, kind = "bed", NEW q \in Quanta, Bed!CallbackBegins(q),
         UNCHANGED <<kind, alive, call>>
  PROVE  BeginStep
<1> DEFINE l == lanes[inner]
           m == Entered(l, clock, q)
           use == Observed(l).ready /\ ~m.failed
<1>1. inner # 0 /\ callback.left = 0
  BY DEF Bed!CallbackBegins, Bed!Between
<1>2. /\ inner \in Lanes /\ l \in Lane /\ Phase(l) /\ clock \in Nat /\ boundary \in Nat
      /\ boundary <= clock /\ callback.use \in BOOLEAN /\ q \in Nat
  BY <1>1, HostAssumption DEF IInv, Types
<1>3. ~Direct /\ Direct = FALSE
  BY DEF Direct
<1>4. Plays(l, FALSE, clock, boundary, 0, callback.use)
  BY <1>1, <1>3 DEF IInv, Playing
<1>5. use \in BOOLEAN /\ (use <=> Observed(l).ready /\ ~Entered(l, clock, q).failed)
  OBVIOUS
<1>6. lanes' = [lanes EXCEPT ![inner] = m] /\ callback' = [left |-> q, use |-> use]
  BY BedLane DEF Bed!CallbackBegins, Entered
<1>7. UNCHANGED <<kind, alive, inner, pin, mapped, call, clock, boundary, heard>>
  BY DEF Bed!CallbackBegins
<1> HIDE DEF use
<1>8. m \in Lane /\ Phase(m) /\ m.worker = l.worker /\ Plays(m, FALSE, clock, boundary, q, use)
  BY <1>2, <1>4, <1>5, BeginsPlaying
<1> HIDE DEF m
<1> QED
  BY <1>1, <1>2, <1>3, <1>5, <1>6, <1>7, <1>8 DEF BeginStep

LEMMA BedControl ==
  ASSUME IInv, kind = "bed", Bed!Create \/ Bed!Destroy \/ Bed!FreeLibrary,
         UNCHANGED <<kind, alive, call>>
  PROVE  SwitchStep
<1>1. /\ ~Direct /\ alive \in BOOLEAN /\ mapped \in BOOLEAN /\ (pin = "ok" => mapped)
      /\ pin \in {"untried", "ok", "refused"} /\ lanes \in [Lanes -> Lane]
      /\ inner \in Lanes \cup {0} /\ callback.left \in Nat
      /\ inner = 0 => callback.left = 0
      /\ kind # "stereo"
  BY DEF IInv, Types, Mapping, Playing, Direct
<1>2. CASE Bed!Create
  <2>1. inner = 0 /\ mapped /\ UNCHANGED <<mapped, callback, clock, heard>>
    BY <1>2 DEF Bed!Create
  <2>2. PICK answer \in {"ok", "refused"} :
          /\ answer = (IF pin = "untried" THEN answer ELSE pin)
          /\ pin' = answer
          /\ \/ /\ answer = "ok"
                /\ \E i \in Bed!Uncreated :
                     /\ \A j \in Bed!Uncreated : i <= j
                     /\ lanes' = [lanes EXCEPT ![i] = Bed!NewLane]
                     /\ inner' = i
                /\ boundary' = clock
             \/ UNCHANGED <<inner, lanes, boundary>>
    BY <1>2 DEF Bed!Create
  <2>3. /\ pin' \in {"untried", "ok", "refused"} /\ (pin = "ok" => pin' = "ok")
        /\ alive' \in BOOLEAN /\ mapped' \in BOOLEAN /\ mapped'
    BY <2>1, <2>2, <1>1
  <2>4. CASE UNCHANGED <<inner, lanes, boundary>>
    <3>1. lanes' = [i \in Lanes |-> lanes'[i]]
      BY <1>1, <2>4
    <3> QED
      BY <3>1, <2>1, <2>3, <2>4, <1>1 DEF SwitchStep
  <2>5. ASSUME answer = "ok", NEW i \in Bed!Uncreated,
               lanes' = [lanes EXCEPT ![i] = Bed!NewLane], inner' = i, boundary' = clock
        PROVE  SwitchStep
    <3>1. i \in Lanes
      BY <2>5 DEF Bed!Uncreated
    <3>2. lanes' = [j \in Lanes |-> IF j = i THEN NewLane ELSE lanes[j]]
      BY <2>5, <1>1, BedLane
    <3>3. lanes' = [j \in Lanes |-> lanes'[j]]
      BY <3>2
    <3> QED
      BY <3>1, <3>2, <3>3, <2>1, <2>2, <2>3, <2>5, <1>1 DEF SwitchStep
  <2> QED
    BY <2>2, <2>4, <2>5
<1>3. CASE Bed!Destroy
  <2>1. /\ inner # 0 /\ callback.left = 0
        /\ lanes' = [lanes EXCEPT ![inner].stop = TRUE]
        /\ inner' = 0
        /\ UNCHANGED <<pin, mapped, callback, clock, boundary, heard>>
    BY <1>3 DEF Bed!Destroy, Bed!Between
  <2>2. lanes' = [j \in Lanes |-> IF j = inner THEN Stopped(lanes[j]) ELSE lanes[j]]
    BY <2>1, <1>1 DEF Stopped
  <2>3. lanes' = [j \in Lanes |-> lanes'[j]]
    BY <2>2
  <2> QED
    BY <2>1, <2>2, <2>3, <1>1 DEF SwitchStep
<1>4. CASE Bed!FreeLibrary
  <2>1. /\ mapped' = (pin = "ok")
        /\ UNCHANGED <<inner, lanes, pin, callback, clock, boundary, heard>>
    BY <1>4 DEF Bed!FreeLibrary
  <2>2. lanes' = [i \in Lanes |-> lanes'[i]]
    BY <2>1, <1>1
  <2>3. mapped' \in BOOLEAN /\ (pin' = "ok" => mapped') /\ alive' \in BOOLEAN
    BY <2>1, <1>1
  <2> QED
    BY <2>1, <2>2, <2>3, <1>1 DEF SwitchStep
<1> QED
  BY <1>2, <1>3, <1>4

LEMMA BedKeeps ==
  ASSUME IInv, BedStep, UNCHANGED kind
  PROVE  IInv'
<1>1. kind = "bed" /\ UNCHANGED <<kind, alive, call>>
  BY DEF BedStep
<1>2. CASE Bed!Create \/ Bed!Destroy \/ Bed!FreeLibrary
  BY <1>1, <1>2, BedControl, SwitchKeeps
<1>3. CASE \E q \in Quanta : Bed!CallbackBegins(q)
  BY <1>1, <1>3, BedBegins, BeginKeeps
<1>4. CASE Bed!CallbackFrame
  BY <1>1, <1>4, BedFrame, FrameKeeps
<1>5. CASE \E i \in Lanes : Bed!Worker(i)
  BY <1>1, <1>5, BedWorker, WorkerKeeps
<1> QED
  BY <1>2, <1>3, <1>4, <1>5 DEF BedStep, Bed!Next

-----------------------------------------------------------------------------
(* The steps of the object lane.                                             *)

LEMMA ObjectsLane ==
  /\ Objects!NewLane = NewLane /\ Objects!NoLane = NoLane /\ Objects!Silence = Silence
  /\ \A l : /\ Objects!MayTake(l) <=> MayTake(l)
            /\ Objects!Taken(l) = Taken(l)
            /\ Objects!Rendered(l) = Rendered(l)
            /\ Objects!RenderFailed(l) = RenderFailed(l)
            /\ Objects!MayPush(l) <=> MayPush(l)
            /\ Objects!Pushed(l) = Pushed(l)
            /\ Objects!SeesStop(l) <=> SeesStop(l)
            /\ Objects!Exited(l) = Exited(l)
  /\ \A l, frames : Objects!Accept(l, frames) = Accept(l, frames)
  /\ \A l, use : Objects!Played(l, use) = Played(l, use)
  /\ \A l, frame, use : Objects!AfterFrame(l, frame, use) = AfterFrame(l, frame, use)
<1>1. Objects!NewLane = NewLane /\ Objects!Silence = Silence
  BY DEF Objects!NewLane, NewLane, Objects!Silence, Silence
<1>2. Objects!NoLane = NoLane
  BY <1>1 DEF Objects!NoLane, NoLane
<1>3. /\ \A s, n : Objects!Drop(s, n) = Drop(s, n) /\ Objects!First(s, n) = First(s, n)
      /\ \A a, b : Objects!Lesser(a, b) = Lesser(a, b)
  BY DEF Objects!Drop, Drop, Objects!First, First, Objects!Lesser, Lesser
<1>4. \A l : /\ Objects!MayTake(l) <=> MayTake(l)
             /\ Objects!MayPush(l) <=> MayPush(l)
             /\ Objects!SeesStop(l) <=> SeesStop(l)
             /\ Objects!Primed(l) <=> Primed(l)
  BY DEF Objects!MayTake, MayTake, Objects!MayPush, MayPush, Objects!SeesStop, SeesStop,
         Objects!SeesStopPushing, SeesStopPushing,
         Objects!Primed, Primed
<1>5. \A l : /\ Objects!Taken(l) = Taken(l) /\ Objects!RenderFailed(l) = RenderFailed(l)
             /\ Objects!Pushed(l) = Pushed(l) /\ Objects!Exited(l) = Exited(l)
   BY <1>3 DEF Objects!Taken, Taken, Objects!RenderFailed, RenderFailed, Objects!Pushed, Pushed,
              Objects!Exited, Exited
<1>6. \A l : Objects!Rendered(l) = Rendered(l)
  BY <1>3 DEF Objects!Rendered, Rendered
<1>7. \A l : Objects!Stale(l) = Stale(l)
  BY <1>3 DEF Objects!Stale, Stale
<1>8. \A l : Objects!InTime(l) <=> InTime(l)
  BY <1>7 DEF Objects!InTime, InTime
<1>9. \A l : Objects!MissedAfter(l) = MissedAfter(l)
  BY <1>7, <1>8 DEF Objects!MissedAfter, MissedAfter
<1>10. \A l, frame : Objects!DelayPush(l, frame) = DelayPush(l, frame)
  BY <1>4 DEF Objects!DelayPush, DelayPush
<1>11. \A l, frames : Objects!Accept(l, frames) = Accept(l, frames)
  BY DEF Objects!Accept, Accept
<1>12. \A l, use : Objects!Played(l, use) = Played(l, use)
  BY <1>1, <1>4, <1>7, <1>8 DEF Objects!Played, Played
<1>13. ASSUME NEW l, NEW frame, NEW use
       PROVE  Objects!AfterFrame(l, frame, use) = AfterFrame(l, frame, use)
  <2>1. /\ Objects!DelayPush(l, frame) = DelayPush(l, frame) /\ Objects!Stale(l) = Stale(l)
        /\ Objects!InTime(l) <=> InTime(l)
        /\ Objects!MissedAfter(l) = MissedAfter(l) /\ (Objects!Primed(l) <=> Primed(l))
    BY <1>4, <1>7, <1>8, <1>9, <1>10
  <2>2. CASE Primed(l) /\ use /\ ~l.failed
    BY <2>1, <2>2, <1>3 DEF Objects!AfterFrame, AfterFrame
  <2>3. CASE ~(Primed(l) /\ use /\ ~l.failed)
    BY <2>1, <2>3 DEF Objects!AfterFrame, AfterFrame
  <2> QED
    BY <2>2, <2>3
<1> QED
  BY <1>1, <1>2, <1>4, <1>5, <1>6, <1>11, <1>12, <1>13

LEMMA ObjectsWorker ==
  ASSUME IInv, kind = "objects", NEW i \in Lanes, Objects!Worker(i),
         UNCHANGED <<kind, alive, pin, mapped>>
  PROVE  WorkerStep(i)
<1> DEFINE l == lanes[i]
           Becomes(m) == Objects!WorkerBecomes(i, m)
<1>1. l \in Lane /\ Phase(l)
  BY DEF IInv, Types
<1>2. ASSUME NEW m, Advances(l, m), Becomes(m)
      PROVE  WorkerStep(i)
  BY <1>2 DEF WorkerStep, Objects!WorkerBecomes
<1> HIDE DEF Becomes
<1>3. CASE Objects!WorkerBuilds(i)
  <2>1. l.worker = "building"
    BY <1>3 DEF Objects!WorkerBuilds
  <2>2. \/ Becomes([l EXCEPT !.worker = "waiting", !.ready = TRUE])
        \/ Becomes([l EXCEPT !.worker = "done", !.failed = TRUE])
    BY <1>3 DEF Objects!WorkerBuilds, Becomes
  <2> HIDE DEF l
  <2>3. /\ Advances(l, [l EXCEPT !.worker = "waiting", !.ready = TRUE])
        /\ Advances(l, [l EXCEPT !.worker = "done", !.failed = TRUE])
    BY <1>1, <2>1, BuildAdvances
  <2> QED
    BY <2>2, <2>3, <1>2
<1>4. CASE Objects!WorkerTakes(i)
  <2>1. MayTake(l) /\ Becomes(Taken(l))
    BY <1>4, ObjectsLane DEF Objects!WorkerTakes, Becomes
  <2> QED
    BY <2>1, <1>1, <1>2, TakenAdvances
<1>5. CASE Objects!WorkerRenders(i)
  <2>1. l.worker = "rendering" /\ (Becomes(Rendered(l)) \/ Becomes(RenderFailed(l)))
    BY <1>5, ObjectsLane DEF Objects!WorkerRenders, Becomes
  <2> QED
    BY <2>1, <1>1, <1>2, RenderedAdvances, RenderFailedAdvances
<1>6. CASE Objects!WorkerPushes(i)
  <2>1. MayPush(l) /\ Becomes(Pushed(l))
    BY <1>6, ObjectsLane DEF Objects!WorkerPushes, Becomes
  <2> QED
    BY <2>1, <1>1, <1>2, PushedAdvances
<1>7. CASE Objects!WorkerExits(i)
  <2>1. SeesStop(l) /\ Becomes(Exited(l))
    BY <1>7, ObjectsLane DEF Objects!WorkerExits, Becomes
  <2> QED
    BY <2>1, <1>1, <1>2, ExitAdvances
<1> QED
  BY <1>3, <1>4, <1>5, <1>6, <1>7 DEF Objects!Worker

LEMMA ObjectsFrame ==
  ASSUME IInv, kind = "objects", Objects!ProcessFrame, UNCHANGED <<kind, alive, pin, mapped>>
  PROVE  FrameStep
<1>1. /\ Objects!Played(lanes[inner], callback.use) = Played(lanes[inner], callback.use)
      /\ Objects!AfterFrame(lanes[inner], clock', callback.use)
           = AfterFrame(lanes[inner], clock', callback.use)
  BY ObjectsLane
<1> QED
  BY <1>1 DEF Objects!ProcessFrame, Objects!Between, FrameStep

LEMMA ObjectsBegins ==
  ASSUME IInv, kind = "objects", Objects!ProcessBegins, UNCHANGED <<kind, alive, pin, mapped>>
  PROVE  BeginStep
<1> DEFINE l == lanes[inner]
           m == Accept(l, [k \in 1 .. Block |-> clock + k])
           use == ~m.failed
<1>1. inner # 0 /\ callback.left = 0 /\ call.pc = "idle"
  BY DEF Objects!ProcessBegins, Objects!Called, Objects!Between, Objects!Idle
<1>2. /\ inner \in Lanes /\ l \in Lane /\ Phase(l) /\ clock \in Nat /\ boundary \in Nat
      /\ callback.use \in BOOLEAN /\ Block \in Nat
  BY <1>1, LaneAssumption DEF IInv, Types
<1>3. Direct = TRUE
  BY DEF Direct
<1>4. Plays(l, TRUE, clock, boundary, 0, callback.use)
  BY <1>1, <1>3 DEF IInv, Playing
<1>5. use \in BOOLEAN /\ (use <=> ~Accept(l, [k \in 1 .. Block |-> clock + k]).failed)
  OBVIOUS
<1>6. lanes' = [lanes EXCEPT ![inner] = m] /\ callback' = [left |-> Block, use |-> use]
  BY ObjectsLane DEF Objects!ProcessBegins
<1>7. UNCHANGED <<kind, alive, inner, pin, mapped, call, clock, boundary, heard>>
  BY DEF Objects!ProcessBegins
<1> HIDE DEF use
<1>8. m \in Lane /\ Phase(m) /\ m.worker = l.worker /\ Plays(m, TRUE, clock, boundary, Block, use)
  BY <1>2, <1>4, <1>5, BeginsDirect
<1> HIDE DEF m
<1> QED
  BY <1>1, <1>2, <1>3, <1>5, <1>6, <1>7, <1>8 DEF BeginStep

\* What the calls that wait for a worker leave alone.
CallFrame == UNCHANGED <<kind, alive, pin, mapped, callback, clock, heard>>

LEMMA StartKeeps ==
  ASSUME IInv, kind = "objects", Objects!StartsWorker, CallFrame
  PROVE  IInv'
<1> USE DEF IInv, CallFrame
<1>1. /\ call.pc = "idle" /\ call.lane = 0 /\ callback.left = 0
      /\ UNCHANGED <<inner, callback, clock, boundary, heard>>
  BY DEF Objects!StartsWorker, Objects!Called, Objects!Idle, Objects!Between
<1>2. PICK i \in Lanes : /\ lanes[i].worker = "none"
                         /\ lanes' = [lanes EXCEPT ![i] = NewLane]
                         /\ call' = [pc |-> "building", lane |-> i]
  BY ObjectsLane DEF Objects!StartsWorker, Objects!Unstarted, Objects!FreshLane
<1>3. i # inner /\ i # 0
  BY <1>2, ZeroIsNoLane DEF Playing, Plays
<1>4. /\ lanes' \in [Lanes -> Lane]
      /\ \A j \in Lanes : lanes'[j] = IF j = i THEN NewLane ELSE lanes[j]
  BY <1>2, NewLaneOK DEF Types
<1>5. Types'
  BY <1>1, <1>2, <1>4, NewLaneOK DEF Types, Direct
<1>6. Playing'
  <2>1. inner # 0 => lanes'[inner'] = lanes[inner]
    BY <1>1, <1>3, <1>4 DEF Types
  <2> QED
    BY <2>1, <1>1 DEF Playing, Direct
<1>7. Calls'
  <2>1. Building(i)'
    BY <1>1, <1>3, <1>4, NewLaneOK DEF Building
  <2>2. call'.pc = "building" /\ call'.lane = i
    BY <1>2
  <2>3. \A j \in Lanes : Running(lanes[j]) => j = inner
    BY <1>1, ZeroIsNoLane DEF Calls, Direct
  <2>4. ASSUME NEW j \in Lanes, Running(lanes'[j])
        PROVE  j \in {inner, i}
    BY <2>3, <2>4, <1>4
  <2> QED
    BY <2>1, <2>2, <2>4, <1>1 DEF Calls, Direct
<1>8. Mapping'
  BY DEF Mapping, Direct
<1>9. FixedDelay' /\ NothingFromBefore'
  BY <1>1 DEF FixedDelay, NothingFromBefore
<1> QED
  BY <1>5, <1>6, <1>7, <1>8, <1>9

LEMMA BuildSucceedsKeeps ==
  ASSUME IInv, kind = "objects", Objects!BuildSucceeds, CallFrame
  PROVE  IInv'
<1> USE DEF IInv, CallFrame
<1> DEFINE i == call.lane
<1>1. /\ call.pc = "building" /\ inner' = i /\ boundary' = clock
      /\ IF inner = 0
         THEN call' = [pc |-> "idle", lane |-> 0] /\ lanes' = lanes
         ELSE /\ call' = [pc |-> "joining", lane |-> inner]
              /\ lanes' = [lanes EXCEPT ![inner].stop = TRUE]
  BY DEF Objects!BuildSucceeds, Objects!Idle
<1>2. Building(i) /\ callback.left = 0
  BY <1>1 DEF Calls, Direct
<1>3. /\ lanes \in [Lanes -> Lane] /\ inner \in Lanes \cup {0} /\ clock \in Nat
      /\ callback.use \in BOOLEAN
  BY DEF Types
<1>4. i \in Lanes /\ i # inner /\ i # 0
  BY <1>2, ZeroIsNoLane DEF Building
<1>5. /\ lanes' \in [Lanes -> Lane]
      /\ \A j \in Lanes : lanes'[j] = IF j = inner THEN Stopped(lanes[j]) ELSE lanes[j]
  <2>1. CASE inner = 0
    BY <2>1, <1>1, <1>3, ZeroIsNoLane
  <2>2. CASE inner # 0
    <3>1. lanes' = [lanes EXCEPT ![inner] = Stopped(lanes[inner])]
      BY <2>2, <1>1 DEF Stopped
    <3>2. inner \in Lanes /\ Stopped(lanes[inner]) \in Lane
      BY <2>2, <1>3, StoppedLane DEF Types
    <3> QED
      BY <3>1, <3>2, <1>3
  <2> QED
    BY <2>1, <2>2
<1>6. ASSUME NEW j \in Lanes
      PROVE  Phase(lanes'[j]) /\ lanes'[j].worker = lanes[j].worker
  BY <1>5, StoppedLane DEF Types
<1>7. /\ call'.pc = (IF inner = 0 THEN "idle" ELSE "joining") /\ call'.lane = inner
      /\ call' \in [pc : {"idle", "building", "joining"}, lane : Lanes \cup {0}]
  BY <1>1, <1>3
<1> HIDE DEF i
<1>8. Types'
  BY <1>1, <1>3, <1>4, <1>5, <1>6, <1>7 DEF Types, Direct
<1>9. Playing'
  <2>1. lanes'[inner'] = lanes[i] /\ lanes[i] \in Lane
    BY <1>1, <1>3, <1>4, <1>5
  <2>2. Plays(lanes[i], TRUE, clock, clock, 0, callback.use)
    BY <2>1, <1>2, <1>3, StartsPlaying DEF Building
  <2>3. Direct' = TRUE
    BY DEF Direct
  <2> QED
    BY <2>1, <2>2, <2>3, <1>1, <1>2, <1>4 DEF Playing
<1>10. Calls'
  <2>1. \A j \in Lanes : Running(lanes'[j]) => j \in {inner, i}
    BY <1>6 DEF Calls, Direct, Running, i
  <2> QED
    BY <2>1, <1>1, <1>2, <1>7 DEF Calls, Direct
<1>11. Mapping'
  BY DEF Mapping, Direct
<1>12. FixedDelay' /\ NothingFromBefore'
  <2>1. ~(clock' > boundary')
    BY <1>1, <1>3
  <2> QED
    BY <2>1 DEF FixedDelay, NothingFromBefore
<1> QED
  BY <1>8, <1>9, <1>10, <1>11, <1>12

\* A lane that does not play is told to stop, and its worker is joined.
LEMMA JoinKeeps ==
  ASSUME IInv, kind = "objects", CallFrame, NEW i \in Lanes, boundary' = boundary,
         callback.left = 0,
         lanes' = [lanes EXCEPT ![i].stop = TRUE],
         call' = [pc |-> "joining", lane |-> i],
         \/ inner' = inner /\ inner # i /\ call.lane = i
         \/ inner' = 0 /\ inner = i /\ call.lane = 0
  PROVE  IInv'
<1> USE DEF IInv, CallFrame
<1>1. lanes \in [Lanes -> Lane] /\ lanes[i] \in Lane /\ Phase(lanes[i])
  BY DEF Types
<1>2. lanes' = [lanes EXCEPT ![i] = Stopped(lanes[i])]
  BY DEF Stopped
<1>3. /\ lanes' \in [Lanes -> Lane]
      /\ \A j \in Lanes : lanes'[j] = IF j = i THEN Stopped(lanes[i]) ELSE lanes[j]
  BY <1>1, <1>2, StoppedLane
<1>4. ASSUME NEW j \in Lanes
      PROVE  Phase(lanes'[j]) /\ lanes'[j].worker = lanes[j].worker
  BY <1>1, <1>3, StoppedLane DEF Types
<1>5. Types'
  BY <1>3, <1>4 DEF Types, Direct
<1>6. Playing'
  <2>1. CASE inner' = inner /\ inner # i
    <3>1. inner # 0 => lanes'[inner'] = lanes[inner]
      BY <2>1, <1>3 DEF Types
    <3> QED
      BY <2>1, <3>1 DEF Playing, Direct
  <2>2. CASE inner' = 0
    BY <2>2 DEF Playing
  <2> QED
    BY <2>1, <2>2
<1>7. Calls'
  <2>1. ASSUME NEW j \in Lanes, Running(lanes'[j])
        PROVE  j \in {inner', i}
    <3>1. j \in {inner, call.lane}
      BY <2>1, <1>4 DEF Calls, Direct, Running
    <3> QED
      BY <3>1, ZeroIsNoLane
  <2> QED
    BY <2>1 DEF Calls, Direct
<1>8. Mapping'
  BY DEF Mapping, Direct
<1>9. FixedDelay' /\ NothingFromBefore'
  BY DEF FixedDelay, NothingFromBefore
<1> QED
  BY <1>5, <1>6, <1>7, <1>8, <1>9

LEMMA JoinReturnsKeeps ==
  ASSUME IInv, kind = "objects", Objects!JoinReturns, CallFrame
  PROVE  IInv'
<1> USE DEF IInv, CallFrame
<1>1. /\ call.pc = "joining" /\ ~Running(lanes[call.lane])
      /\ call' = [pc |-> "idle", lane |-> 0]
      /\ UNCHANGED <<inner, lanes, callback, clock, boundary, heard>>
  BY DEF Objects!JoinReturns, Objects!Idle, Objects!Running, Running
<1>2. call'.pc = "idle" /\ call'.lane = 0
  BY <1>1
<1>3. Types'
  BY <1>1 DEF Types, Direct
<1>4. Playing' /\ Mapping' /\ FixedDelay' /\ NothingFromBefore'
  BY <1>1 DEF Playing, Mapping, FixedDelay, NothingFromBefore, Direct
<1>5. Calls'
  BY <1>1, <1>2 DEF Calls, Direct
<1> QED
  BY <1>3, <1>4, <1>5

LEMMA ObjectsKeeps ==
  ASSUME IInv, ObjectsStep, UNCHANGED kind
  PROVE  IInv'
<1>1. kind = "objects" /\ UNCHANGED <<kind, alive, pin, mapped>>
  BY DEF ObjectsStep
<1>2. CASE Objects!Create \/ Objects!Reset
  <2>1. Objects!StartsWorker /\ CallFrame
    BY <1>1, <1>2 DEF Objects!Create, Objects!Reset, Objects!StartsWorker, CallFrame
  <2> QED
    BY <2>1, <1>1, StartKeeps
<1>3. CASE Objects!Destroy
  <2>1. /\ call.pc = "idle" /\ callback.left = 0 /\ inner # 0
        /\ lanes' = [lanes EXCEPT ![inner].stop = TRUE]
        /\ call' = [pc |-> "joining", lane |-> inner]
        /\ inner' = 0 /\ boundary' = boundary /\ CallFrame
    BY <1>1, <1>3 DEF Objects!Destroy, Objects!Called, Objects!Idle, Objects!Between, CallFrame
  <2>2. inner \in Lanes /\ call.lane = 0
    BY <2>1, <1>1 DEF IInv, Types, Calls, Direct
  <2> QED
    BY <2>1, <2>2, <1>1, JoinKeeps
<1>4. CASE Objects!BuildSucceeds
  <2>1. CallFrame
    BY <1>1, <1>4 DEF Objects!BuildSucceeds, CallFrame
  <2> QED
    BY <2>1, <1>1, <1>4, BuildSucceedsKeeps
<1>5. CASE Objects!BuildFails
  <2>1. /\ call.pc = "building"
        /\ lanes' = [lanes EXCEPT ![call.lane].stop = TRUE]
        /\ call' = [pc |-> "joining", lane |-> call.lane]
        /\ inner' = inner /\ boundary' = boundary /\ CallFrame
    BY <1>1, <1>5 DEF Objects!BuildFails, Objects!GivenUp, CallFrame
  <2>2. call.lane \in Lanes /\ call.lane # inner /\ callback.left = 0
    BY <2>1, <1>1 DEF IInv, Calls, Building, Direct
  <2> QED
    BY <2>1, <2>2, <1>1, JoinKeeps
<1>6. CASE Objects!JoinReturns
  <2>1. CallFrame
    BY <1>1, <1>6 DEF Objects!JoinReturns, CallFrame
  <2> QED
    BY <2>1, <1>1, <1>6, JoinReturnsKeeps
<1>7. CASE Objects!ProcessBegins
  BY <1>1, <1>7, ObjectsBegins, BeginKeeps
<1>8. CASE Objects!ProcessFrame
  BY <1>1, <1>8, ObjectsFrame, FrameKeeps
<1>9. CASE \E i \in Lanes : Objects!Worker(i)
  BY <1>1, <1>9, ObjectsWorker, WorkerKeeps
<1> QED
  BY <1>2, <1>3, <1>4, <1>5, <1>6, <1>7, <1>8, <1>9
     DEF ObjectsStep, Objects!Next, Objects!CallGoesOn

-----------------------------------------------------------------------------
(* The theorems.                                                             *)

LEMMA Initially ==
  ASSUME Init
  PROVE  IInv
<1>1. kind \in {"stereo", "bed", "objects"}
  BY KindsAssumption DEF Init
<1>2. /\ inner = 0 /\ lanes = [i \in Lanes |-> NoLane]
      /\ callback = [left |-> 0, use |-> FALSE]
      /\ clock = 0 /\ boundary = 0 /\ heard = Silence
  <2>1. CASE kind = "stereo"
    BY <2>1, StereoLane DEF Init, Stereo!Init, Stereo!Between
  <2>2. CASE kind = "bed"
    BY <2>2, BedLane DEF Init, Bed!Init, Bed!Between
  <2>3. CASE kind = "objects"
    BY <2>3, ObjectsLane DEF Init, Objects!Init, Objects!Between
  <2> QED
    BY <1>1, <2>1, <2>2, <2>3
<1>3. alive = TRUE /\ pin = "untried" /\ mapped = TRUE /\ call = [pc |-> "idle", lane |-> 0]
  BY DEF Init, Objects!Idle
<1>4. \A i \in Lanes : lanes[i] = NoLane
  BY <1>2
<1>5. callback.left = 0 /\ callback \in [left : Nat, use : BOOLEAN]
  BY <1>2
<1>6. call.pc = "idle" /\ call.lane = 0
      /\ call \in [pc : {"idle", "building", "joining"}, lane : Lanes \cup {0}]
  BY <1>3
<1>7. Types
  BY <1>1, <1>2, <1>3, <1>5, <1>6, NewLaneOK DEF Types, Direct
<1>8. Playing
  BY <1>2, <1>5 DEF Playing
<1>9. \A i \in Lanes : ~Running(lanes[i])
  BY <1>4, NewLaneOK DEF Running
<1>10. Calls
  BY <1>6, <1>9 DEF Calls
<1>11. Mapping
  BY <1>3, <1>9 DEF Mapping
<1>12. FixedDelay /\ NothingFromBefore
  BY <1>2 DEF FixedDelay, NothingFromBefore, Silence
<1> QED
  BY <1>7, <1>8, <1>10, <1>11, <1>12 DEF IInv

\* The inductive invariant: the frames of the lane that plays are consecutive
\* and start where the delay line and the missed turns say, for every processor
\* and under every interleaving of calls, callbacks and workers.
THEOREM Invariance == Spec => []IInv
<1>1. Init => IInv
  BY Initially
<1>2. IInv /\ [Next]_vars => IInv'
  BY StereoKeeps, BedKeeps, ObjectsKeeps, StutterKeeps DEF Next
<1> QED
  BY <1>1, <1>2, PTL DEF Spec

\* The latency the library reports is the real one: whatever a lane plays,
\* rendered or not, is the frame that entered exactly Delay frames ago.
THEOREM LatencyIsFixed == Spec => []FixedDelay
<1>1. IInv => FixedDelay
  BY DEF IInv
<1> QED
  BY <1>1, Invariance, PTL

\* A reset, a change of mode and a new processor are stream boundaries: nothing
\* that entered before is played after.
THEOREM BoundariesHold == Spec => []NothingFromBefore
<1>1. IInv => NothingFromBefore
  BY DEF IInv
<1> QED
  BY <1>1, Invariance, PTL

\* No worker thread runs code of the library after the host has unloaded it.
THEOREM CodeStaysMapped == Spec => []WorkerCodeMapped
<1>1. IInv => WorkerCodeMapped
  BY DEF IInv, Mapping, WorkerCodeMapped, Direct
<1> QED
  BY <1>1, Invariance, PTL

\* Between two calls on the object processor no worker runs but its own.
THEOREM NoWorkerLeft == Spec => []NoOrphanWorker
<1>1. ASSUME IInv PROVE NoOrphanWorker
  <2>1. ASSUME kind = "objects", call = Objects!Idle, NEW i \in Lanes, Running(lanes[i])
        PROVE  i = inner
    <3>1. call.lane = 0
      BY <2>1 DEF Objects!Idle
    <3>2. i \in {inner, call.lane}
      BY <1>1, <2>1 DEF IInv, Calls, Direct
    <3> QED
      BY <3>1, <3>2, ZeroIsNoLane
  <2> QED
    BY <2>1 DEF NoOrphanWorker
<1> QED
  BY <1>1, Invariance, PTL

\* Only a callback's frame and an identity callback move the clock.
LEMMA ClockMoves ==
  ASSUME IInv, Next, callback.left > 0, clock' > clock
  PROVE  FrameStep
<1>1. clock \in Nat /\ callback.left \in Nat
  BY DEF IInv, Types
<1>2. clock' # clock /\ callback.left # 0
  BY <1>1
<1>3. CASE StereoStep
  <2>1. kind = "stereo" /\ UNCHANGED <<kind, call>>
    BY <1>3 DEF StereoStep, Next
  <2>2. CASE Stereo!Control
    BY <2>1, <2>2, <1>2, StereoControl DEF SwitchStep
  <2>3. CASE \E q \in Quanta : Stereo!ProcessIdentity(q) \/ Stereo!CallbackBegins(q)
    BY <2>3, <1>2 DEF Stereo!ProcessIdentity, Stereo!CallbackBegins, Stereo!Called,
       Stereo!Between
  <2>4. CASE Stereo!CallbackFrame
    BY <2>1, <2>4, StereoFrame
  <2>5. CASE \E i \in Lanes : Stereo!Worker(i)
    BY <2>1, <2>5, <1>2, StereoWorker DEF WorkerStep
  <2> QED
    BY <2>2, <2>3, <2>4, <2>5, <1>3 DEF StereoStep, Stereo!Next, Stereo!Callback
<1>4. CASE BedStep
  <2>1. kind = "bed" /\ UNCHANGED <<kind, alive, call>>
    BY <1>4 DEF BedStep, Next
  <2>2. CASE Bed!Create \/ Bed!Destroy \/ Bed!FreeLibrary
    BY <2>1, <2>2, <1>2, BedControl DEF SwitchStep
  <2>3. CASE \E q \in Quanta : Bed!CallbackBegins(q)
    BY <2>3, <1>2 DEF Bed!CallbackBegins
  <2>4. CASE Bed!CallbackFrame
    BY <2>1, <2>4, BedFrame
  <2>5. CASE \E i \in Lanes : Bed!Worker(i)
    BY <2>1, <2>5, <1>2, BedWorker DEF WorkerStep
  <2> QED
    BY <2>2, <2>3, <2>4, <2>5, <1>4 DEF BedStep, Bed!Next
<1>5. CASE ObjectsStep
  <2>1. kind = "objects" /\ UNCHANGED <<kind, alive, pin, mapped>>
    BY <1>5 DEF ObjectsStep, Next
  <2>2. CASE Objects!Create \/ Objects!Reset \/ Objects!Destroy \/ Objects!CallGoesOn
    BY <2>2, <1>2 DEF Objects!Create, Objects!Reset, Objects!StartsWorker, Objects!Destroy,
       Objects!CallGoesOn, Objects!BuildSucceeds, Objects!BuildFails, Objects!JoinReturns
  <2>3. CASE Objects!ProcessBegins
    BY <2>3, <1>2 DEF Objects!ProcessBegins
  <2>4. CASE Objects!ProcessFrame
    BY <2>1, <2>4, ObjectsFrame
  <2>5. CASE \E i \in Lanes : Objects!Worker(i)
    BY <2>1, <2>5, <1>2, ObjectsWorker DEF WorkerStep
  <2> QED
    BY <2>2, <2>3, <2>4, <2>5, <1>5 DEF ObjectsStep, Objects!Next
<1> QED
  BY <1>3, <1>4, <1>5 DEF Next

\* A rendered frame that is back in time for its turn is the one that is played:
\* a late worker is behind only as long as it is late.
THEOREM ReadyIsPlayed == Spec => PlaysWhatIsReady
<1> DEFINE lane == lanes[inner]
           ReadyPlays ==
             callback.left > 0 /\ clock' > clock =>
               (/\ Primed(lane) /\ callback.use /\ ~lane.failed
                /\ (\E k \in DOMAIN lane.output : lane.output[k] + Delay = clock')
                => heard'.from = "rendered")
<1>1. ASSUME IInv, [Next]_vars PROVE [ReadyPlays]_vars
  <2>1. SUFFICES ASSUME Next, callback.left > 0, clock' > clock,
                        Primed(lane), callback.use, ~lane.failed,
                        NEW k \in DOMAIN lane.output, lane.output[k] + Delay = clock'
                 PROVE  heard'.from = "rendered"
    BY <1>1
  <2>2. FrameStep
    BY <1>1, <2>1, ClockMoves
  <2>3. /\ inner # 0 /\ lane \in Lane /\ clock \in Nat /\ callback.left \in Nat
        /\ callback.left # 0
    BY <1>1, <2>1 DEF IInv, Types, Playing
  <2>4. InStep(lane, clock, callback.left)
    BY <1>1, <2>1, <2>3 DEF IInv, Playing, Plays
  <2>5. clock' = clock + 1 /\ heard' = Played(lane, callback.use)
    BY <2>2 DEF FrameStep
  <2>6. callback.use = TRUE
    BY <1>1, <2>1 DEF IInv, Types
  <2> HIDE DEF lane
  <2>7. Played(lane, TRUE).from = "rendered"
    BY <2>1, <2>3, <2>4, <2>5, PlayedWhenThere
  <2> QED
    BY <2>5, <2>6, <2>7
<1>2. [ReadyPlays]_vars => [callback.left > 0 /\ clock' > clock =>
        LET l == lanes[inner]
        IN  Primed(l) /\ callback.use /\ ~l.failed
            /\ (\E k \in DOMAIN l.output : l.output[k] + Delay = clock')
            => heard'.from = "rendered"]_vars
  OBVIOUS
<1> QED
  BY <1>1, <1>2, Invariance, PTL DEF Spec, PlaysWhatIsReady
=============================================================================
