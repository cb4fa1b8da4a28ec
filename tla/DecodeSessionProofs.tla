------------------------ MODULE DecodeSessionProofs ------------------------
(***************************************************************************)
(* Proofs about a run of the command line renderer, for every session,     *)
(* channel capacity, chunk size and bootstrap length.                      *)
(*                                                                         *)
(* The wiring of the direct trigger is safe because of the order in which  *)
(* the render loop treats its output: whatever drops the writer leaves the *)
(* wiring in place (a standby) or undoes it (a new segment, the end of a   *)
(* stream), and sync_all, which runs before a writer may be built, undoes  *)
(* it when there is no writer.  So a lemma for each of the operators on    *)
(* the output says what it keeps of Seen and Follows, and PlayFrame chains *)
(* them in the order of handle_decoded_frame.                              *)
(***************************************************************************)
EXTENDS DecodeSession, TLAPS


Messages == {"bridge", "live", "end"}
Outputs == [writer : BOOLEAN, seen : Nat, refused : BOOLEAN, wired : BOOLEAN,
            active : BOOLEAN, counter : {"none", "current", "old"}, due : BOOLEAN]
\* The bootstrap count ends with the writer or with the device's refusal.
Seen(o) == o.seen <= Bootstrap /\ (~o.refused => o.seen < Bootstrap)
\* TriggerFollowsWriter, of an output.
Follows(o) == o.wired /\ o.writer => o.counter = "current"

Captures == [mode : Modes \cup {"none"}, running : BOOLEAN, stop : BOOLEAN]

\* What the threads and the manager hold.
Threads ==
  /\ session \in Sessions /\ quit \in {"no", "shutdown", "restart"}
  /\ dec \in {"reading", "sending", "ending", "done"}
  /\ outbox \in 0 .. PerChunk /\ (dec = "sending" => outbox # 0)
  /\ at \in {"loop", "frame", "standby", "resuming", "leaving", "failing", "joining", "over"}
  /\ requested \in Modes /\ plan \in Modes /\ applied \in Modes
  /\ manager \in {"look", "reconcile", "joining", "done"}
  /\ capture \in Captures
  /\ registered \in BOOLEAN
Channel == queue \in Seq(Messages) /\ Len(queue) <= Capacity
Output == out \in Outputs /\ Seen(out) /\ Follows(out)

-----------------------------------------------------------------------------
(* The operators on the output, one by one.                                  *)

LEMMA WithoutWriterOutput ==
  ASSUME NEW o \in Outputs
  PROVE  /\ WithoutWriter(o) \in Outputs /\ ~WithoutWriter(o).writer
         /\ WithoutWriter(o).seen = o.seen /\ WithoutWriter(o).refused = o.refused
BY DEF WithoutWriter, Outputs

LEMMA InvalidatedOutput ==
  ASSUME NEW o \in Outputs
  PROVE  /\ Invalidated(o) \in Outputs /\ ~Invalidated(o).writer
         /\ Seen(Invalidated(o))
<1>1. WithoutWriter(o) \in Outputs /\ ~WithoutWriter(o).writer
  BY WithoutWriterOutput
<1>2. Invalidated(o) \in Outputs /\ ~Invalidated(o).writer /\ Invalidated(o).seen = 0
  BY <1>1 DEF Invalidated, Outputs
<1> QED
  BY <1>2, SessionAssumption DEF Seen

LEMMA UnwiredOutput ==
  ASSUME NEW o \in Outputs, Seen(o)
  PROVE  /\ Unwired(o) \in Outputs /\ ~Unwired(o).wired
         /\ Unwired(o).writer = o.writer /\ Seen(Unwired(o))
BY DEF Unwired, Outputs, Seen

LEMMA WiredOutput ==
  ASSUME NEW o \in Outputs, Seen(o), Follows(o)
  PROVE  Wired(o) \in Outputs /\ Seen(Wired(o)) /\ Follows(Wired(o))
<1>1. CASE ~OutputDriven
  BY <1>1, UnwiredOutput DEF Wired, Follows
<1>2. CASE OutputDriven
  BY <1>2 DEF Wired, Outputs, Seen, Follows
<1> QED
  BY <1>1, <1>2

\* After sync_all, what is wired has a writer.
LEMMA SyncedOutput ==
  ASSUME NEW o \in Outputs, Seen(o), Follows(o), NEW changed \in BOOLEAN
  PROVE  LET s == Synced(o, changed)
         IN  s \in Outputs /\ Seen(s) /\ Follows(s) /\ (s.wired => s.writer)
<1>1. CASE changed
  BY <1>1, InvalidatedOutput, UnwiredOutput DEF Synced, Follows
<1>2. CASE ~changed
  BY <1>2, UnwiredOutput DEF Synced, Follows
<1> QED
  BY <1>1, <1>2

\* So a writer built after it is not wired yet.
LEMMA CreatedOutput ==
  ASSUME NEW o \in Outputs, Seen(o), Follows(o), o.wired => o.writer, NEW opens \in BOOLEAN
  PROVE  Created(o, opens) \in Outputs /\ Seen(Created(o, opens)) /\ Follows(Created(o, opens))
<1>0. Bootstrap \in Nat /\ 0 < Bootstrap
  BY SessionAssumption
<1> USE <1>0 DEF Outputs, Seen, Follows
<1>1. CASE o.writer \/ o.refused
  BY <1>1 DEF Created
<1>2. CASE ~(o.writer \/ o.refused) /\ o.seen + 1 < Bootstrap
  BY <1>2 DEF Created
<1>3. CASE ~(o.writer \/ o.refused) /\ ~(o.seen + 1 < Bootstrap) /\ opens
  <2> DEFINE c == [o EXCEPT !.writer = TRUE, !.seen = 0]
  <2>1. Created(o, opens) = c
    BY <1>3 DEF Created
  <2>2. c \in Outputs
    OBVIOUS
  <2>3. c.seen = 0 /\ ~c.wired
    BY <1>3
  <2> HIDE DEF c
  <2> QED
    BY <2>1, <2>2, <2>3
<1>4. CASE ~(o.writer \/ o.refused) /\ ~(o.seen + 1 < Bootstrap) /\ ~opens
  <2> DEFINE c == [o EXCEPT !.seen = @ + 1, !.refused = TRUE]
  <2>1. Created(o, opens) = c
    BY <1>4 DEF Created
  <2>2. o.seen + 1 \in Nat /\ o.seen + 1 <= Bootstrap
    BY <1>4
  <2>3. c \in Outputs
    BY <2>2
  <2>4. c.seen = o.seen + 1 /\ ~c.wired /\ c.refused
    BY <1>4
  <2> HIDE DEF c
  <2> QED
    BY <2>1, <2>2, <2>3, <2>4
<1> QED
  BY <1>1, <1>2, <1>3, <1>4

LEMMA RestartedOutput ==
  ASSUME NEW o \in Outputs
  PROVE  Restarted(o) \in Outputs /\ Seen(Restarted(o)) /\ Follows(Restarted(o))
<1>1. /\ Unwired(Invalidated(o)) \in Outputs /\ ~Unwired(Invalidated(o)).wired
      /\ Seen(Unwired(Invalidated(o)))
  BY InvalidatedOutput, UnwiredOutput
<1> QED
  BY <1>1 DEF Restarted, Outputs, Seen, Follows

LEMMA EndedOutput ==
  ASSUME NEW o \in Outputs
  PROVE  Ended(o) \in Outputs /\ Seen(Ended(o)) /\ Follows(Ended(o))
<1>1. WithoutWriter(o) \in Outputs
  BY WithoutWriterOutput
<1>2. Ended(o) \in Outputs /\ Ended(o).seen = 0 /\ ~Ended(o).wired
  BY <1>1 DEF Ended, Silent, Outputs
<1> QED
  BY <1>2, SessionAssumption DEF Seen, Follows

-----------------------------------------------------------------------------
(* The steps.                                                                *)

LEMMA PlayFrameOutput ==
  ASSUME Output, PlayFrame
  PROVE  Output'
<1>1. PICK opens \in BOOLEAN, changed \in BOOLEAN, segment \in BOOLEAN :
        LET started == IF segment THEN Restarted(out) ELSE out
        IN  out' \in {Invalidated(out), Unwired(Invalidated(out)), started,
                      Created(Synced(Wired(started), changed), opens)}
  BY DEF PlayFrame
<1> DEFINE started == IF segment THEN Restarted(out) ELSE out
           synced == Synced(Wired(started), changed)
<1>2. /\ Invalidated(out) \in Outputs /\ Seen(Invalidated(out)) /\ Follows(Invalidated(out))
      /\ LET o == Unwired(Invalidated(out)) IN o \in Outputs /\ Seen(o) /\ Follows(o)
  BY InvalidatedOutput, UnwiredOutput DEF Output, Follows
<1>3. started \in Outputs /\ Seen(started) /\ Follows(started)
  BY RestartedOutput DEF Output
<1>4. Wired(started) \in Outputs /\ Seen(Wired(started)) /\ Follows(Wired(started))
  BY <1>3, WiredOutput
<1>5. synced \in Outputs /\ Seen(synced) /\ Follows(synced) /\ (synced.wired => synced.writer)
  BY <1>4, SyncedOutput
<1>6. LET o == Created(synced, opens) IN o \in Outputs /\ Seen(o) /\ Follows(o)
  BY <1>5, CreatedOutput
<1> QED
  BY <1>1, <1>2, <1>3, <1>6 DEF Output

LEMMA OutputStep ==
  ASSUME Output, Next
  PROVE  Output'
<1>1. CASE TakeStreamEnd
  BY <1>1, EndedOutput DEF TakeStreamEnd, Output
<1>2. CASE PlayFrame
  BY <1>2, PlayFrameOutput
<1>3. CASE BeginStandby
  BY <1>3, WithoutWriterOutput DEF BeginStandby, Output, Seen, Follows
<1>4. CASE CaptureRuns \/ OutputCallback
  <2>1. out' = out \/ out' = [out EXCEPT !.due = FALSE] \/ out' = [out EXCEPT !.due = TRUE]
    BY <1>4 DEF CaptureRuns, OutputCallback
  <2> QED
    BY <2>1 DEF Output, Outputs, Seen, Follows
<1>5. CASE UNCHANGED out
  BY <1>5 DEF Output
<1>6. TakeStreamEnd \/ PlayFrame \/ BeginStandby \/ CaptureRuns \/ OutputCallback \/ UNCHANGED out
  BY DEF Next, RenderLoop, Manager, ReadChunk, Send, StreamEnds, SendStreamEnd, SendFails,
         TakeFrame, LeaveLoop, PollFails, StopManager, Leave, StandbyTick, ResumeReturns, Resume,
         Look, StopCapture, Spawn, SetInputState, CaptureFinished, ManagerLeaves, CaptureExits,
         RequestMode, RequestQuit, DecoderRest, LoopRest, Others, ManagerRest, CaptureRest, Untouched
<1> QED
  BY <1>1, <1>2, <1>3, <1>4, <1>5, <1>6
LEMMA ThreadsStep ==
  ASSUME Threads, Next
  PROVE  Threads'
<1> USE SessionAssumption DEF Threads, Modes, DecoderRest, LoopRest, Others, ManagerRest,
        CaptureRest, Untouched, decoder, loop, control, Asked, NoCapture
<1>1. CASE ReadChunk
  BY <1>1 DEF ReadChunk
<1>2. CASE Send
  BY <1>2 DEF Send
<1>3. CASE StreamEnds
  BY <1>3 DEF StreamEnds, AfterStream
<1>4. CASE SendStreamEnd
  BY <1>4 DEF SendStreamEnd
<1>5. CASE SendFails
  BY <1>5 DEF SendFails
<1>6. CASE TakeFrame
  <2>1. /\ UNCHANGED <<Others, applied>>
        /\ at' \in {"frame", "failing", at}
    BY <1>6 DEF TakeFrame, GoesOn, Fails
  <2> QED
    BY <2>1
<1>7. CASE TakeStreamEnd
  BY <1>7 DEF TakeStreamEnd, GoesOn, Fails
<1>8. CASE PlayFrame
  <2>1. /\ UNCHANGED Others
        /\ at' \in {"loop", "failing"}
        /\ applied' \in {applied, Applied}
    BY <1>8 DEF PlayFrame, Fails
  <2> QED
    BY <2>1 DEF Applied
<1>9. CASE LeaveLoop
  BY <1>9 DEF LeaveLoop
<1>10. CASE StopManager
  BY <1>10 DEF StopManager
<1>11. CASE Leave
  BY <1>11 DEF Leave
<1>12. CASE StandbyTick
  BY <1>12 DEF StandbyTick
<1>13. CASE ResumeReturns
  BY <1>13 DEF ResumeReturns
<1>14. CASE BeginStandby
  BY <1>14 DEF BeginStandby
<1>15. CASE Resume
  BY <1>15 DEF Resume
<1>16. CASE Look
  BY <1>16 DEF Look
<1>17. CASE StopCapture
  <2>1. [capture EXCEPT !.stop = TRUE] \in Captures
    BY DEF Captures
  <2> QED
    BY <1>17, <2>1 DEF StopCapture
<1>18. CASE Spawn
  <2>1. plan' \in {plan, "bridge"} /\ registered' \in BOOLEAN
    BY <1>18 DEF Spawn
  <2>2. capture' = NoCapture
        \/ \E connects \in BOOLEAN : capture' = [mode |-> plan, running |-> connects, stop |-> FALSE]
    BY <1>18 DEF Spawn
  <2>3. capture' \in Captures
    <3>1. NoCapture \in Captures
      BY DEF Captures
    <3>2. ASSUME NEW connects \in BOOLEAN
          PROVE  [mode |-> plan, running |-> connects, stop |-> FALSE] \in Captures
      BY DEF Captures
    <3> QED
      BY <2>2, <3>1, <3>2
  <2>4. UNCHANGED <<session, quit, dec, outbox, at, requested, applied, manager>>
    BY <1>18 DEF Spawn
  <2> QED
    BY <2>1, <2>3, <2>4
<1>19. CASE SetInputState
  <2>1. capture' \in {NoCapture, capture} /\ NoCapture \in Captures
    BY <1>19 DEF SetInputState, Captures
  <2> QED
    BY <1>19, <2>1 DEF SetInputState
<1>20. CASE CaptureFinished
  <2>1. NoCapture \in Captures
    BY DEF Captures
  <2> QED
    BY <1>20, <2>1 DEF CaptureFinished
<1>21. CASE ManagerLeaves
  <2>1. [capture EXCEPT !.stop = Exists] \in Captures
    BY DEF Captures, Exists
  <2> QED
    BY <1>21, <2>1 DEF ManagerLeaves
<1>22. CASE CaptureExits
  <2>1. [capture EXCEPT !.running = FALSE] \in Captures
    BY DEF Captures
  <2> QED
    BY <1>22, <2>1 DEF CaptureExits
<1>23. CASE CaptureRuns
  BY <1>23 DEF CaptureRuns
<1>24. CASE OutputCallback
  BY <1>24 DEF OutputCallback
<1>25. CASE RequestMode
  BY <1>25 DEF RequestMode
<1>26. CASE RequestQuit
  BY <1>26 DEF RequestQuit
<1>27. CASE PollFails
  BY <1>27 DEF PollFails, Fails
<1> HIDE DEF Threads
<1> QED
  BY <1>1, <1>2, <1>3, <1>4, <1>5, <1>6, <1>7, <1>8, <1>9, <1>10, <1>11, <1>12, <1>13, <1>14,
     <1>15, <1>16, <1>17, <1>18, <1>19, <1>20, <1>21, <1>22, <1>23, <1>24, <1>25, <1>26, <1>27
  DEF Next, RenderLoop, Manager

LEMMA AppendedChannel ==
  ASSUME Channel, HasRoom, NEW m \in Messages, queue' = Append(queue, m)
  PROVE  Channel'
BY SessionAssumption DEF Channel, HasRoom

LEMMA TakenChannel ==
  ASSUME Channel, queue # <<>>, queue' = Tail(queue)
  PROVE  Channel' /\ Head(queue) \in Messages
BY SessionAssumption DEF Channel

LEMMA ChannelStep ==
  ASSUME Channel, Next
  PROVE  Channel'
<1>1. CASE Send \/ SendStreamEnd
  BY <1>1, AppendedChannel DEF Send, SendStreamEnd, Messages
<1>2. CASE TakeFrame \/ TakeStreamEnd
  BY <1>2, TakenChannel DEF TakeFrame, TakeStreamEnd
<1>3. CASE StandbyTick
  <2>1. queue' = queue \/ queue' = <<>>
    BY <1>3 DEF StandbyTick, Drained
  <2>2. CASE queue' = queue
    BY <2>2 DEF Channel
  <2>3. CASE queue' = <<>>
    <3>1. <<>> \in Seq(Messages) /\ Len(<<>>) = 0 /\ 0 <= Capacity
      BY SessionAssumption
    <3> QED
      BY <2>3, <3>1 DEF Channel
  <2> QED
    BY <2>1, <2>2, <2>3
<1>4. CASE CaptureRuns
  BY <1>4, AppendedChannel DEF CaptureRuns, TrySend, Messages, Channel
<1>5. CASE UNCHANGED queue
  BY <1>5 DEF Channel
<1>6. \/ Send \/ SendStreamEnd \/ TakeFrame \/ TakeStreamEnd \/ StandbyTick \/ CaptureRuns
      \/ UNCHANGED queue
  BY DEF Next, RenderLoop, Manager, ReadChunk, StreamEnds, SendFails,
         PlayFrame, LeaveLoop, PollFails, StopManager, Leave, ResumeReturns, Resume, BeginStandby,
         Look, StopCapture, Spawn, SetInputState, CaptureFinished, ManagerLeaves, CaptureExits,
         OutputCallback, RequestMode, RequestQuit, DecoderRest, LoopRest, Others, ManagerRest,
         CaptureRest, Untouched
<1> QED
  BY <1>1, <1>2, <1>3, <1>4, <1>5, <1>6

-----------------------------------------------------------------------------
(* The invariant and the theorems.                                           *)

IInv == Threads /\ Channel /\ Output

LEMMA InitIInv ==
  ASSUME Init PROVE IInv
<1> USE DEF Init
<1>1. Threads
  <2>1. session.mode \in Modes
    BY SessionAssumption
  <2>2. NoCapture \in Captures
    BY DEF Captures, NoCapture
  <2>3. 0 \in 0 .. PerChunk
    BY SessionAssumption
  <2> QED
    BY <2>1, <2>2, <2>3 DEF Threads, Modes
<1>2. Channel
  BY SessionAssumption DEF Channel
<1>3. Output
  BY SessionAssumption DEF Output, Silent, Outputs, Seen, Follows
<1> QED
  BY <1>1, <1>2, <1>3 DEF IInv

LEMMA IInvStep ==
  ASSUME IInv, [Next]_vars PROVE IInv'
<1>1. CASE Next
  BY <1>1, ThreadsStep, ChannelStep, OutputStep DEF IInv
<1>2. CASE UNCHANGED vars
  BY <1>2 DEF vars, decoder, loop, control, IInv, Threads, Channel, Output
<1> QED
  BY <1>1, <1>2

\* The invariant: the threads and the channel keep their types, and the output is
\* wired to no counter but its writer's.
THEOREM Invariance == Spec => []IInv
BY InitIInv, IInvStep, PTL DEF Spec

\* Every variable keeps its type: the channel stays within decode_queue_capacity,
\* whoever sends, and the bootstrap count within its bound.
THEOREM TypeCorrect == Spec => []TypeOK
<1>1. IInv => TypeOK
  <2> SUFFICES ASSUME IInv PROVE TypeOK
    OBVIOUS
  <2>1. out.seen \in 0 .. Bootstrap
    BY SessionAssumption DEF IInv, Output, Outputs, Seen
  <2>2. out \in [writer : BOOLEAN, seen : 0 .. Bootstrap, refused : BOOLEAN, wired : BOOLEAN,
              active : BOOLEAN, counter : {"none", "current", "old"}, due : BOOLEAN]
    BY <2>1 DEF IInv, Output, Outputs
  <2> QED
    BY <2>2 DEF IInv, Threads, Captures, Channel, TypeOK
<1> QED
  BY Invariance, <1>1, PTL

\* The capture is never paced by the counter of an output that has been replaced,
\* through standbys, segments, stream ends and changes of the output in any order.
THEOREM TriggerFollows == Spec => []TriggerFollowsWriter
<1>1. IInv => TriggerFollowsWriter
  BY DEF IInv, Output, Follows, TriggerFollowsWriter
<1> QED
  BY Invariance, <1>1, PTL

=============================================================================
