--------------------------- MODULE NativeBedLane ---------------------------
(***************************************************************************)
(* realtime_ffi/src/native_bed_ffi.rs: the processor of an authored        *)
(* multichannel bed. It is one lane from its creation to its destruction,  *)
(* without modes and resets: a new stream makes a new processor. Creation  *)
(* does not wait for the worker, destruction detaches it, so the module is *)
(* pinned first, as for the stereo lane.                                   *)
(***************************************************************************)
EXTENDS RenderLane

CONSTANTS
  Lanes,        \* processors the host may create in turn: 1 .. n
  Quanta,       \* the callback sizes the host uses
  MaxFrames     \* bound on the frames played

VARIABLES
  inner,        \* the lane of the processor; 0 when there is none
  lanes, pin, mapped, callback, clock, boundary, heard    \* as in CurrentLane

vars == <<inner, lanes, pin, mapped, callback, clock, boundary, heard>>

Between == [left |-> 0, use |-> FALSE]
Uncreated == {i \in Lanes : lanes[i].worker = "none"}

Init ==
  /\ inner = 0
  /\ lanes = [i \in Lanes |-> NoLane]
  /\ pin = "untried" /\ mapped = TRUE
  /\ callback = Between
  /\ clock = 0 /\ boundary = 0 /\ heard = Silence

-----------------------------------------------------------------------------
\* AsyncNativeBed::new: pinned, or no processor. The first answer stays.
Create ==
  /\ inner = 0 /\ mapped
  /\ \E answer \in {"ok", "refused"} :
       /\ answer = (IF pin = "untried" THEN answer ELSE pin)
       /\ pin' = answer
       /\ \/ /\ answer = "ok"
             /\ \E i \in Uncreated :
                  /\ \A j \in Uncreated : i <= j
                  /\ lanes' = [lanes EXCEPT ![i] = NewLane]
                  /\ inner' = i
             /\ boundary' = clock
          \/ UNCHANGED <<inner, lanes, boundary>>
  /\ UNCHANGED <<mapped, callback, clock, heard>>

\* Drop: graph teardown never waits for a worker.
Destroy ==
  /\ inner # 0 /\ callback = Between
  /\ lanes' = [lanes EXCEPT ![inner].stop = TRUE]
  /\ inner' = 0
  /\ UNCHANGED <<pin, mapped, callback, clock, boundary, heard>>

FreeLibrary ==
  /\ inner = 0 /\ mapped
  /\ mapped' = (pin = "ok")
  /\ UNCHANGED <<inner, lanes, pin, callback, clock, boundary, heard>>

-----------------------------------------------------------------------------
(* process_raw.                                                              *)

\* Callbacks that ran during construction must not make the rendered frames
\* look late for ever: at the worker's becoming ready everything starts over.
ObservedReady(lane) ==
  IF lane.ready /\ ~lane.observed
  THEN [lane EXCEPT !.observed = TRUE, !.delay = <<>>, !.missed = 0, !.output = <<>>]
  ELSE lane

CallbackBegins(quantum) ==
  /\ inner # 0 /\ callback = Between /\ clock + quantum <= MaxFrames
  /\ LET lane    == ObservedReady(lanes[inner])
         entered == IF lane.ready
                    THEN Accept(lane, [k \in 1 .. quantum |-> clock + k]) ELSE lane
     IN  /\ lanes' = [lanes EXCEPT ![inner] = entered]
         /\ callback' = [left |-> quantum, use |-> lane.ready /\ ~entered.failed]
  /\ UNCHANGED <<inner, pin, mapped, clock, boundary, heard>>

CallbackFrame ==
  /\ callback.left > 0
  /\ clock' = clock + 1
  /\ heard' = Played(lanes[inner], callback.use)
  /\ lanes' = [lanes EXCEPT ![inner] = AfterFrame(@, clock', callback.use)]
  /\ callback' = IF callback.left = 1 THEN Between ELSE [callback EXCEPT !.left = @ - 1]
  /\ UNCHANGED <<inner, pin, mapped, boundary>>

-----------------------------------------------------------------------------
(* The worker thread.                                                        *)

\* NativeBedPipeline::new works or not.
Built(lane) ==
  {[lane EXCEPT !.worker = "waiting", !.ready = TRUE],
   [lane EXCEPT !.worker = "done", !.failed = TRUE]}

Worker(i) ==
  /\ LET lane == lanes[i]
     IN  \/ /\ lane.worker = "building"
            /\ \E built \in Built(lane) : lanes' = [lanes EXCEPT ![i] = built]
         \/ MayTake(lane) /\ lanes' = [lanes EXCEPT ![i] = Taken(lane)]
         \/ /\ lane.worker = "rendering"
            /\ \E next \in {Rendered(lane), RenderFailed(lane)} :
                 lanes' = [lanes EXCEPT ![i] = next]
         \/ MayPush(lane) /\ lanes' = [lanes EXCEPT ![i] = Pushed(lane)]
         \/ SeesStop(lane) /\ lanes' = [lanes EXCEPT ![i] = Exited(lane)]
  /\ UNCHANGED <<inner, pin, mapped, callback, clock, boundary, heard>>

Next ==
  \/ Create \/ Destroy \/ FreeLibrary
  \/ \E quantum \in Quanta : CallbackBegins(quantum)
  \/ CallbackFrame
  \/ \E i \in Lanes : Worker(i)

-----------------------------------------------------------------------------
TypeOK ==
  /\ inner \in Lanes \cup {0} /\ mapped \in BOOLEAN
  /\ DOMAIN lanes = Lanes /\ \A i \in Lanes : LaneOK(lanes[i])
  /\ pin \in {"untried", "ok", "refused"}
  /\ callback.left \in Nat /\ callback.use \in BOOLEAN
  /\ clock \in 0 .. MaxFrames /\ boundary \in 0 .. clock
  /\ heard.from \in {"silence", "delayed", "rendered"} /\ heard.frame \in 0 .. clock
=============================================================================
