--------------------------- MODULE DecodeSession ---------------------------
(***************************************************************************)
(* One run of the command line renderer (src/cli/decode): the decoder      *)
(* thread reads the input pipe and sends frames through a bounded channel; *)
(* the render loop takes them, builds the audio writer when enough have    *)
(* come, and stands by for mpv; the live input manager starts and stops a  *)
(* PipeWire capture, whose frames go into the same channel.                *)
(*                                                                         *)
(* A capture of a bit stream (mode pipewire_bridge) is decoded by a worker *)
(* of its own and its frames count as those of a bridge. With the clock    *)
(* "dac" it is paced by the output: the writer's callback counts the       *)
(* triggers due in a counter that the render loop hands to InputControl,   *)
(* and the capture's main loop spends them (direct trigger).               *)
(* Nothing in the program sends the channel's FlushRequest.                *)
(*                                                                         *)
(* A thread's step between two things another thread can see is an action. *)
(* Waiting times are choices. A frame is its source; what it sounds like,  *)
(* the OSC traffic and the pacer of the output are left out.               *)
(***************************************************************************)
EXTENDS Naturals, Sequences

CONSTANTS
  Sessions,     \* the live input the user switches to, the run's kind, and how it ends
  Capacity,     \* decode_queue_capacity
  PerChunk,     \* frames decoded from one chunk of input, at most
  Bootstrap,    \* frames seen before the writer is built (8, or 3 with objects)
  MaxRequests   \* bound on what users, other processes and the system ask for

Modes == {"bridge", "live", "pipewire_bridge"}

\* The channel has room for what the decoder still sends once the loop has left it.
ASSUME SessionAssumption ==
  /\ Sessions \subseteq [mode : Modes \ {"bridge"}, clock : {"dac", "self"}, continuous : BOOLEAN,
                  quit : {"shutdown", "restart"}]
  /\ PerChunk \in Nat \ {0} /\ Bootstrap \in Nat \ {0}
  /\ Capacity \in Nat /\ Capacity > PerChunk /\ MaxRequests \in Nat

VARIABLES
  session,      \* the session of this run
  quit,         \* SHUTDOWN and RESTART_FROM_CONFIG of sys::shutdown
  queue,        \* the channel, in messages
  dec, outbox,  \* the decoder thread, and the messages it has of its chunk
  at, frame,    \* the render loop, and the frame it handles
  out,          \* its output and the direct trigger (see Silent)
  requested, applyPending, applied,     \* InputControl
  manager, plan,                        \* the live input manager
  stopManager,  \* its stop flag
  capture,      \* the capture thread, its decode worker included
  registered,   \* a capture has told InputControl its rate and quantum
  requests      \* bound: the requests made

decoder == <<dec, outbox>>
loop == <<at, frame>>
control == <<requested, applyPending>>
vars == <<session, quit, queue, decoder, loop, out, control, applied,
          manager, plan, stopManager, capture, registered, requests>>

\* writer: there is one; seen: bootstrap_frames_seen; refused: output_init_failed;
\* wired: direct_trigger_wired of the session; active, counter: direct_trigger_active
\* and whose counter InputControl has; due: a trigger is due on that counter.
Silent == [writer |-> FALSE, seen |-> 0, refused |-> FALSE, wired |-> FALSE,
           active |-> FALSE, counter |-> "none", due |-> FALSE]
NoCapture == [mode |-> "none", running |-> FALSE, stop |-> FALSE]
NoFrame == [source |-> "none", shown |-> TRUE]

Init ==
  /\ session \in Sessions
  /\ quit = "no"
  /\ queue = <<>> /\ dec = "reading" /\ outbox = 0
  /\ at = "loop" /\ frame = NoFrame
  /\ out = Silent
  /\ requested = session.mode            \* as configured
  /\ applyPending = TRUE                  \* the manager's bootstrap pass
  /\ applied = "bridge"
  /\ manager = "look" /\ plan = "bridge" /\ stopManager = FALSE
  /\ capture = NoCapture /\ registered = FALSE /\ requests = 0

HasRoom == Len(queue) < Capacity

\* A request is made, by the user, another process or the system.
Asked == requests < MaxRequests /\ at # "over" /\ requests' = requests + 1
Quitting == quit # "no"

-----------------------------------------------------------------------------
(* The decoder thread.                                                       *)

DecoderRest == <<session, quit, loop, out, control, applied, manager, plan,
                 stopManager, capture, registered, requests>>

\* process_chunk looks at the flags first, then decodes all of the chunk.
ReadChunk ==
  /\ dec = "reading" /\ ~Quitting
  /\ outbox' \in 1 .. PerChunk
  /\ dec' = "sending"
  /\ UNCHANGED <<queue, DecoderRest>>

\* A blocking send for every frame.
Send ==
  /\ dec = "sending" /\ HasRoom /\ at # "over"
  /\ queue' = Append(queue, "bridge")
  /\ outbox' = outbox - 1
  /\ dec' = IF outbox = 1 THEN "reading" ELSE "sending"
  /\ UNCHANGED DecoderRest

\* The input ends, is reloaded, or its wait is broken by a signal or a flag; an
\* input that cannot be opened or read ends the thread.
AfterStream == IF ~session.continuous \/ quit = "shutdown" THEN "done" ELSE "ending"
StreamEnds ==
  /\ dec = "reading"
  /\ dec' \in {AfterStream, "done"}
  /\ UNCHANGED <<queue, outbox, DecoderRest>>

\* Then it opens its input again, unless the run is to end.
SendStreamEnd ==
  /\ dec = "ending" /\ HasRoom /\ at # "over"
  /\ queue' = Append(queue, "end")
  /\ dec' = IF Quitting THEN "done" ELSE "reading"
  /\ UNCHANGED <<outbox, DecoderRest>>

\* The channel's receiver is dropped with a run that failed.
SendFails ==
  /\ dec \in {"sending", "ending"} /\ at = "over"
  /\ dec' = "done"
  /\ UNCHANGED <<queue, outbox, DecoderRest>>

-----------------------------------------------------------------------------
(* The output as the render loop changes it.                                 *)

\* The callback of a writer that is gone counts no more.
WithoutWriter(o) ==
  [o EXCEPT !.writer = FALSE, !.counter = IF @ = "current" THEN "old" ELSE @]

Invalidated(o) == [WithoutWriter(o) EXCEPT !.refused = FALSE, !.seen = 0]

\* reset_direct_trigger_wiring
Unwired(o) ==
  IF o.wired
  THEN [o EXCEPT !.active = FALSE, !.counter = "none", !.due = FALSE, !.wired = FALSE]
  ELSE o

\* wants_output_driven_bridge_clock
OutputDriven == requested = "pipewire_bridge" /\ session.clock = "dac"

Wired(o) ==
  IF ~OutputDriven THEN Unwired(o)
  ELSE IF ~o.wired /\ o.writer /\ registered
  THEN [o EXCEPT !.active = TRUE, !.counter = "current", !.due = FALSE, !.wired = TRUE]
  ELSE o

\* sync_all may drop the writer; without one the wiring goes too.
SyncedMutant(o, changed) == IF changed THEN Invalidated(o) ELSE o
Synced(o, changed) ==
  LET synced == IF changed THEN Invalidated(o) ELSE o
  IN  IF synced.writer THEN synced ELSE Unwired(synced)

\* create_audio_writer_if_needed: the device opens, or not until a change. Objects come
\* with their bed_indices (handle_spatial_metadata), so none resets the count.
Created(o, opens) ==
  IF o.writer \/ o.refused THEN o
  ELSE IF o.seen + 1 < Bootstrap THEN [o EXCEPT !.seen = @ + 1]
  ELSE IF opens THEN [o EXCEPT !.writer = TRUE, !.seen = 0]
  ELSE [o EXCEPT !.seen = @ + 1, !.refused = TRUE]

\* handle_stream_restart: a writer at once.
Restarted(o) == [Unwired(Invalidated(o)) EXCEPT !.writer = TRUE]

\* handle_stream_end: a handler as new, but what InputControl holds stays.
Ended(o) ==
  [Silent EXCEPT !.active = o.active, !.counter = WithoutWriter(o).counter, !.due = o.due]

-----------------------------------------------------------------------------
(* The render loop.                                                          *)

Others == <<session, quit, decoder, control, manager, plan, capture, registered>>
LoopRest == <<Others, requests>>

\* An error of the output, the metadata or the OSC clients is passed on and ends the
\* run; it is bounded with the requests.
Fails == Asked /\ at' = "failing"
GoesOn == UNCHANGED <<at, requests>>

\* should_accept_source
AcceptsMutant(source) == applied = source
Accepts(source) == (applied = "live") = (source = "live")

\* A frame is taken; sync_input_runtime_state looks whether what is applied
\* already shows what is decoded, mode and format. A frame of another source is
\* dropped; poll_runtime_state may fail.
TakeFrame ==
  /\ at = "loop" /\ queue # <<>> /\ Head(queue) # "end"
  /\ queue' = Tail(queue)
  /\ IF Accepts(Head(queue))
     THEN /\ at' = "frame" /\ UNCHANGED requests
          /\ \E shown \in IF applied = "bridge" THEN BOOLEAN ELSE {FALSE} :
               frame' = [source |-> Head(queue), shown |-> shown]
     ELSE (GoesOn \/ Fails) /\ UNCHANGED frame
  /\ UNCHANGED <<Others, out, applied, stopManager>>

\* The writer may fail to finish.
TakeStreamEnd ==
  /\ at = "loop" /\ queue # <<>> /\ Head(queue) = "end"
  /\ queue' = Tail(queue)
  /\ \/ /\ out' = IF Accepts("bridge") THEN Ended(out) ELSE out
        /\ GoesOn
     \/ Fails /\ UNCHANGED out
  /\ UNCHANGED <<Others, frame, applied, stopManager>>

\* The frame of a bridge shows what is decoded: it is set over whatever is
\* applied by then.
Applied == IF frame.source # "live" /\ ~frame.shown THEN "bridge" ELSE applied

\* handle_decoded_frame, after handle_stream_restart for a new segment, whose
\* writer opens or ends the run. The output's configuration may have changed. The old
\* writer's flush, the metadata and the OSC clients, and the write may fail, and end
\* the run with the output as it is by then; sync_all and
\* create_audio_writer_if_needed return no error.
PlayFrame ==
  /\ at = "frame"
  /\ \E opens, changed \in BOOLEAN, segment \in IF frame.source = "live" THEN {FALSE} ELSE BOOLEAN :
       LET started == IF segment THEN Restarted(out) ELSE out
       IN  IF segment /\ ~opens
           THEN /\ ~changed
                /\ out' \in {Invalidated(out), Unwired(Invalidated(out))}
                /\ at' = "failing"
                /\ UNCHANGED <<applied, requests>>
           ELSE /\ applied' = Applied
                /\ \/ /\ out' = Created(Synced(Wired(started), changed), opens)
                      /\ \/ at' = "loop" /\ (IF changed THEN Asked ELSE UNCHANGED requests)
                         \/ Fails
                   \/ Fails /\ ~changed /\ out' = started
  /\ frame' = NoFrame
  /\ UNCHANGED <<Others, queue, stopManager>>

\* Nothing came for 50 ms: the only place where the loop looks at the flags.
LeaveLoop ==
  /\ at = "loop" /\ queue = <<>> /\ Quitting
  /\ at' = "leaving"
  /\ UNCHANGED <<LoopRest, queue, frame, out,
                 applied, stopManager>>

\* Or an OSC client cannot be told of a new state.
PollFails ==
  /\ at = "loop" /\ queue = <<>> /\ ~Quitting
  /\ Fails
  /\ UNCHANGED <<Others, queue, frame, out, applied, stopManager>>

\* LiveInputManagerHandle::stop and, unless the loop failed, the join of the decoder.
StopManager ==
  /\ at \in {"leaving", "failing"} /\ ~stopManager
  /\ stopManager' = TRUE
  /\ UNCHANGED <<LoopRest, queue, loop, out, applied>>
Leave ==
  /\ \/ at = "leaving" /\ stopManager /\ manager = "done" /\ at' = "joining"
     \/ at = "failing" /\ stopManager /\ manager = "done" /\ at' = "over"
     \/ at = "joining" /\ dec = "done" /\ at' = "over"
  /\ UNCHANGED <<LoopRest, queue, frame, out,
                 applied, stopManager>>

\* run_standby_until_resume, on a yield request: the writer goes, the wiring
\* does not.
BeginStandby ==
  /\ at = "loop"
  /\ Asked
  /\ out' = WithoutWriter(out)
  /\ at' = "standby"
  /\ UNCHANGED <<Others, queue, frame, applied, stopManager>>

\* standby_idle_until_resume: every tick discards what was decoded, until a resume
\* request ends the standby, or a quit.
EndsStandbyMutant == quit = "shutdown"
EndsStandby == Quitting
DrainedMutant == queue
Drained == <<>>
StandbyTick ==
  /\ at = "standby"
  /\ IF EndsStandby THEN at' = "loop" /\ UNCHANGED queue
     ELSE queue' = Drained /\ UNCHANGED at
  /\ UNCHANGED <<LoopRest, frame, out, applied, stopManager>>
Resume ==
  /\ at = "standby" /\ ~EndsStandby
  /\ at' = "resuming"
  /\ UNCHANGED <<LoopRest, queue, frame, out, applied, stopManager>>

\* osc.resume() has the port again, or another process still holds it and standby
\* starts over.
ResumeReturns ==
  /\ at = "resuming"
  /\ \/ at' = "loop" /\ UNCHANGED requests
     \/ at' = "standby" /\ Asked
  /\ UNCHANGED <<Others, queue, frame, out, applied, stopManager>>

RenderLoop ==
  \/ TakeFrame \/ TakeStreamEnd \/ PlayFrame \/ LeaveLoop \/ StopManager \/ Leave
  \/ StandbyTick \/ ResumeReturns

-----------------------------------------------------------------------------
(* The live input manager.                                                   *)

ManagerRest == <<session, quit, queue, decoder, loop, out, requested, stopManager,
                 registered, requests>>

Exists == capture.mode # "none"
Told == stopManager \/ Quitting

\* A pass of the manager: an apply request starts a reconciliation with the
\* mode requested then.
Look ==
  /\ manager = "look" /\ ~Told
  /\ applyPending
  /\ applyPending' = FALSE
  /\ plan' = requested
  /\ manager' = "reconcile"
  /\ UNCHANGED <<ManagerRest, applied, capture>>

\* reconcile_live_input: a capture that is not the one wanted is stopped, and
\* joined before anything else.
Joined == ~Exists \/ (capture.stop /\ ~capture.running)
StopCapture ==
  /\ manager = "reconcile" /\ Exists /\ capture.mode # plan /\ ~capture.stop
  /\ capture' = [capture EXCEPT !.stop = TRUE]
  /\ UNCHANGED <<ManagerRest, applyPending, applied, manager, plan>>

\* Then the new one is spawned, if the configuration resolves; its stream
\* connects, or its thread ends.
Spawn ==
  /\ manager = "reconcile" /\ Joined /\ plan # "bridge"
  /\ \/ /\ \E connects \in BOOLEAN :
             /\ capture' = [mode |-> plan, running |-> connects, stop |-> FALSE]
             /\ registered' = (registered \/ (connects /\ session.clock = "dac"))
        /\ UNCHANGED plan
     \/ /\ plan' = "bridge"
        /\ capture' = NoCapture
        /\ UNCHANGED registered
  /\ UNCHANGED <<session, quit, queue, decoder, loop, out, requested, stopManager, requests,
                 applyPending, applied, manager>>

\* set_input_state with what came of it.
SetInputState ==
  /\ manager = "reconcile"
  /\ IF plan = "bridge" THEN Joined ELSE capture.mode = plan /\ ~capture.stop
  /\ applied' = plan
  /\ capture' = IF plan = "bridge" THEN NoCapture ELSE capture
  /\ manager' = "look" /\ plan' = "bridge"
  /\ UNCHANGED <<ManagerRest, applyPending>>

\* A capture thread that ended by itself is noticed.
CaptureFinished ==
  /\ manager = "look" /\ Exists /\ ~capture.running
  /\ capture' = NoCapture
  /\ applied' = IF requested # "bridge" THEN "bridge" ELSE applied
  /\ UNCHANGED <<ManagerRest, applyPending, manager, plan>>

\* On the way out the capture is asked to stop; a restart may wait for it.
ManagerLeaves ==
  /\ \/ /\ manager = "look" /\ Told
        /\ capture' = [capture EXCEPT !.stop = Exists]
        /\ manager' = IF Exists /\ quit = "restart" /\ ~stopManager THEN "joining" ELSE "done"
     \/ /\ manager = "joining" /\ ~capture.running
        /\ manager' = "done"
        /\ UNCHANGED capture
  /\ UNCHANGED <<ManagerRest, applyPending, applied, plan>>

Manager ==
  \/ Look \/ StopCapture \/ Spawn \/ SetInputState \/ CaptureFinished \/ ManagerLeaves

-----------------------------------------------------------------------------
(* The capture thread.                                                       *)

CaptureRest == <<session, quit, decoder, loop, control, applied, manager, plan,
                 stopManager, registered, requests>>

CaptureExits ==
  /\ capture.running /\ (capture.stop \/ Quitting)
  /\ capture' = [capture EXCEPT !.running = FALSE]
  /\ UNCHANGED <<CaptureRest, queue, out>>

\* try_send: a frame finds room or is lost. The real channel holds hundreds: what
\* a capture adds after the loop has left it never fills it.
TrySend(message) ==
  queue' = IF HasRoom /\ at \notin {"leaving", "failing", "joining", "over"}
           THEN Append(queue, message) ELSE queue

\* With the direct trigger on, the stream runs only for a trigger that is due.
Triggered == out.active => out.due
CaptureRuns ==
  /\ capture.running /\ ~capture.stop
  /\ \/ /\ capture.mode = "live"
        /\ TrySend("live")
        /\ UNCHANGED out
     \/ /\ capture.mode = "pipewire_bridge" /\ Triggered
        /\ TrySend("bridge")
        /\ out' = [out EXCEPT !.due = FALSE]
  /\ UNCHANGED <<CaptureRest, capture>>

\* The writer's callback: a capture quantum's worth of output has been played.
OutputCallback ==
  /\ out.writer /\ out.counter = "current" /\ ~out.due
  /\ out' = [out EXCEPT !.due = TRUE]
  /\ UNCHANGED <<CaptureRest, queue, capture>>

-----------------------------------------------------------------------------
(* The user and the system.                                                  *)

Untouched == <<session, queue, decoder, loop, out, applied, manager, plan, stopManager,
               registered>>

\* A mode is staged, and applied with it or later.
RequestMode ==
  /\ Asked
  /\ requested' \in {"bridge", session.mode}
  /\ applyPending' \in {applyPending, TRUE}
  /\ UNCHANGED <<Untouched, quit, capture>>
RequestQuit ==
  /\ ~Quitting /\ quit' = session.quit
  /\ UNCHANGED <<Untouched, control, capture, requests>>

Next ==
  \/ ReadChunk \/ Send \/ StreamEnds \/ SendStreamEnd \/ SendFails
  \/ RenderLoop \/ PollFails \/ BeginStandby \/ Resume
  \/ Manager
  \/ CaptureExits \/ CaptureRuns \/ OutputCallback
  \/ RequestMode \/ RequestQuit

\* Every thread gets on with what it has begun; a sender that waits for room is
\* woken when there is some, however often try_send comes first. The captured
\* source plays on; what the pipe brings is not promised.
Fairness ==
  /\ SF_vars(Send \/ SendStreamEnd)
  /\ WF_vars(SendFails \/ (Quitting /\ StreamEnds))
  /\ WF_vars(RenderLoop) /\ WF_vars(Manager)
  /\ WF_vars(CaptureExits \/ CaptureRuns) /\ WF_vars(OutputCallback)

Spec == Init /\ [][Next]_vars /\ Fairness

-----------------------------------------------------------------------------
TypeOK ==
  /\ session \in Sessions
  /\ quit \in {"no", "shutdown", "restart"}
  /\ Len(queue) <= Capacity
  /\ dec \in {"reading", "sending", "ending", "done"} /\ outbox \in 0 .. PerChunk
  /\ at \in {"loop", "frame", "standby", "resuming", "leaving", "failing", "joining", "over"}
  /\ out \in [writer : BOOLEAN, seen : 0 .. Bootstrap, refused : BOOLEAN, wired : BOOLEAN,
              active : BOOLEAN, counter : {"none", "current", "old"}, due : BOOLEAN]
  /\ requested \in Modes /\ plan \in Modes /\ applied \in Modes
  /\ manager \in {"look", "reconcile", "joining", "done"}
  /\ capture \in [mode : Modes \cup {"none"}, running : BOOLEAN, stop : BOOLEAN]
  /\ registered \in BOOLEAN

\* Between two frames, the counter the render loop has wired is that of the
\* writer it has, through every way a writer comes and goes: the capture is
\* not paced by an output that has been replaced.
TriggerFollowsWriter == out.wired /\ out.writer => out.counter = "current"

\* The decoder is never left blocked in a send, neither in a standby that may
\* last for ever nor when the run ends.
DecoderIsServed == [](dec \in {"sending", "ending"} => <>(dec \notin {"sending", "ending"}))

\* A quit or a restart ends the run with its threads joined.
QuitEnds == Quitting ~> at = "over"

\* The user has switched to the captured bit stream and leaves it running, and the
\* pipe brings nothing that resets the output.
Undisturbed ==
  /\ at \in {"loop", "frame"} /\ ~Quitting /\ ~out.refused
  /\ requested = "pipewire_bridge" /\ capture.mode = requested /\ capture.running
  /\ ~capture.stop
  /\ dec = "reading"
  /\ applied # "live"

\* The writer is built again after whatever dropped it: a standby, the end of a
\* stream in the pipe, a change of the output.
WriterComesBack == <>[]Undisturbed => <>[]out.writer

\* The same, where the capture does not wait for the output's clock.
SelfClockedComesBack == session.clock = "self" => WriterComesBack
=============================================================================
