# A TLA+ model of Omniphony

Omniphony takes the sound a Windows program plays (a stereo mix, or the separate
objects of a Windows Spatial Audio stream), renders it for headphones, and plays
it on the real endpoint. Beside it stands a command line renderer, which decodes
a pipe or captures a stream, and gives way to the same renderer embedded in mpv.
The difficult part of the program is not the signal processing. It is the
hand-over of audio between a real-time thread that may not wait, a worker that
may be late, an endpoint with a clock of its own, and control calls that arrive
at any moment; and the agreement between processes on who has the device, the
port and the latest settings. These modules model that part, check it with TLC
on small instances, and prove with TLAPS what can be proved for every value of
the constants.

Source paths below are shortened: *provider* is
`omniphony-renderer/windows_installer/spatial_provider_probe/`, *realtime_ffi*,
*windows_host* and *orender_engine* are crates of `omniphony-renderer/`, *decode* is its
directory `src/cli/decode/`. `PROJECT.json` maps every
definition to the lines it translates, and lists the hazards of the code at
their lines with the properties that guard them.

## 1. The system

```
 client program --ISpatialAudioObjectRenderStream-->  ProviderRuntime
                                                        | ObjectStream  (objects, updates, generations)
                                                        | ObjectLane    (realtime_ffi: worker thread)
                                                        |    ObjectScene, SourceSlots (object -> renderer lane)
                                                        | StereoQueue   (lock-free, two threads)
                                                        v
                                                      RAW output pump -> endpoint

 endpoint / stream APO --process_f32--> CurrentLane, NativeBedLane (realtime_ffi: worker, delay line)

 tray: supervisor --launches, watches, stops--> music engine process
                  --marker file, Run key------> Windows logon

 pipe ----> decoder thread --.
                              >-- bounded channel --> render loop --> audio writer
 PipeWire -> capture thread -'            ^               |               |
    ^   live input manager -- modes ------'               |               |
    '------------------- triggers of the output's clock --'---------------'
                                                          |
              PortHandoff: OSC port, device, sidecar file, resume datagram
                                                          |
                                     engines of one mpv process (orender_ffi)
```

### Components, their state, operations and what makes them correct

| component | state | operations | hard behaviour | correct when |
|---|---|---|---|---|
| stereo queue (*provider* `OmniphonySpatialStereoQueue.cpp`) | storage, two absolute indices, counters | TryWrite, Read, Open, Close, Reset | producer and consumer copy with no lock, around the wrap | no slot is copied from and to at once; reads are the accepted frames in order; it is a bounded FIFO |
| object stream (`OmniphonySpatialObjectStream.cpp`) | running / inUpdate / transportInFlight / destroyed, generation, registered objects and their buffers | Start, Stop, Reset, Begin, End, Activate, the objects' calls, Release | the transport runs outside the mutex; activation checks and registers under two takings of it | the audio of this update and no other is sent; buffers stand still at the transport; identities are unique; capacity and roles hold |
| provider runtime (`OmniphonySpatialProviderRuntime.cpp`) | running, demand flags, update flag, events, worker | Start, Stop, Reset, Begin, End, EndpointWorker | three threads, a demand protocol of two flags, failures anywhere | demand is never lost, the lead is bounded, Stop joins and leaves it restartable |
| RAW output pump | endpoint started or not | Start, DrainOnce, Stop | fails at any time | part of the above |
| stereo lane (*realtime_ffi* `lib.rs`, `music_lane.rs`) | mode, two rings, delay line, missed frames, flags, worker, module pin | create, set_mode, reset, destroy, process_f32 | worker late, failing, detached; becomes ready in mid-stream | what is played is always exactly the reported latency old and of this stream; no worker runs unmapped code |
| object lane (`windows_objects_ffi.rs`) | the same, with a constructor that waits and a drop that joins | create, reset, destroy, process | timeout against a late answer, reset that fails | no call leaves a worker behind or hangs; fixed delay |
| native bed lane (`native_bed_ffi.rs`) | as the stereo lane, for a bed of channels | create, reset, destroy, process | worker detached as the stereo lane's, but the module is pinned for every lane | as the stereo lane |
| stable source slots (`scene_contract/stable_source_slots.rs`) | slot -> identity | reconcile | release and admission in two loops, error in mid-call | survivors never move; all or nothing |
| object scene (`windows_objects_scene.rs`, `renderer/source_frame.rs`, `scene_contract/authored_scene.rs`) | slots, last blocks, lane histories and identities | process, process_silence | three layers that each decide to clear a lane's history | no object is heard through another's filters; only survivors glide |
| supervisor (*windows_host* `supervisor.rs`) | enabled, quitting, child, restart deadline and count | create, on/off, restart, exit, timer | launches and stops block; the engine or the supervisor dies at any point | one engine; OFF means none; sound comes back |
| autostart (`supervisor.rs`) | marker file, Run key | set_autostart, ensure_autostart | either of two calls fails, or the process ends between them | once off it stays off but for a fault, and is put right at the next start |
| OSC port hand-off (*orender_engine* `osc.rs`, `osc/dispatch.rs`, `renderer/src/config.rs`, `sys/src/shutdown.rs`) | the port, listener threads and their stop flags, the registry of the process, resume socket and watch thread, sidecar file and overlay, degraded reporter | bind_rx_socket, enter_standby, resume, the engine's and the reporter's creation and drop | two processes, lost datagrams, failed writes, engines that cannot be built, a crash of mpv, two engines at a track change | the device is free when the port is; what was handed over arrives; the renderer comes back and listens |
| command line renderer (*decode*) | channel, handler, writer, standby | the decoder thread's loop, the render loop, standby | sender and receiver wait for each other; a flag looked at in one place only | nobody is left blocked; a quit ends the run |
| live input (*decode* `live_input.rs`, `audio_input/`) | requested, staged and applied mode, capture, direct trigger | reconcile, spawn, stop, the capture's main loop | captures come and go while frames of both sources are queued; the trigger is the writer's | the capture is paced by the writer there is, and a writer comes back |
| music engine (`music_engine.rs`) | capture, two FIFOs, playback queue of 32 blocks, latency governor | main loop, playback callback | queue full, underrun, recovery thresholds | its life is in the supervisor's model; the governor is a servo over fill levels |
| APOs (`endpoint_apo/`) | lane handle, locked or not | LockForProcess, UnlockForProcess, APOProcess | the host's calls against the callback | not modelled beyond the lane's calls |
| audio output (`audio_output/`) | ring buffer, pacer flags, adaptive controller and its recovery phase | push, pop, flush, servo, recover | flush against refill; phases of recovery | the callback's trigger counter is part of live input; the rest is a servo over fill levels |
| runtime control and OSC clients | clients with deadlines, options | register, heartbeat, expire, save | expiry against heartbeat, under one mutex | not modelled |
| renderer, rendering engine, decoder bridges, spdif | filters, gains, tables | signal processing | numerical | out of a model checker's reach |
| COM registration, probes, installer, companion, fixtures | registry, files | set-up | I/O | not modelled |

How they interact. The client's update thread calls Begin, fills buffers and
calls End; End hands one quantum of planar buffers to the transport, which
encodes it into the object lane and writes the stereo result into the queue. The
endpoint worker drains the queue and, when little is left, signals the client's
event for one more quantum. Control calls come under `lifecycleMutex_` but do not
keep the update thread out. A lane's audio callback and its worker share only
two rings and a few atomic flags. The supervisor and the engine share only a
pipe and the engine's exit status. The command line renderer and mpv share a UDP
port, which one of them has bound, the audio device, and the directory of the
sidecar file; the engines of one mpv process share its statics besides. Inside the
command line renderer the decoder thread, the capture and the live input manager
reach the render loop through one bounded channel, and through `InputControl`.

## 2. The modules

| module | models | state and actions |
|---|---|---|
| `BoundedFifo` | what the queue promises | the frames queued; a write of a whole block is accepted or refused, a read returns what there is and then silence |
| `StereoQueue` | the queue's memory steps | `TryWriteBegin` loads the indices, `TryWriteCopy` copies one frame (so that a block that wraps is at both ends of the storage in turn), `TryWritePublish` is the release store; the same three steps for `Read`; `TryWriteReject`, `Open`, `Close`, `Reset` |
| `StereoQueueProofs` | theorems of the queue, and that it implements `BoundedFifo` | section 5 |
| `ObjectStream` | the object stream and its objects | every call one action, but the three that leave the mutex: End (snapshot, transport, finish), Reset (revoke, transport reset, return), Activate (check, register) |
| `ObjectStreamProofs` | theorems of the object stream | section 5 |
| `ProviderRuntime` | the three threads of the provider | one atomic access a step; `pc` says where each thread is; the object stream is its three lifecycle flags, the queue the number of its frames |
| `ProviderRuntimeProofs` | theorems of the provider | section 5 |
| `RenderLane` | what the three lanes share | the lane record, the delay line, the callback's two halves, the worker's steps |
| `CurrentLane` | the stereo lane under a host | mode changes create and drop lanes, dropped workers are detached, the library may be unloaded unless it was pinned |
| `NativeBedLane` | the native bed lane under a host | every lane pins the module first; create, reset and destroy |
| `ObjectLane` | the object lane under a host | the constructor waits for the worker's `ready`, an error or the timeout, and joins it in the last two cases; drop joins |
| `RealtimeLanes` | the library | one of the three, as instances of their modules over the same variables, and what they all promise |
| `RealtimeLanesProofs` | theorems of the three lanes | section 5 |
| `SlotReference` | `reconcile` as one step | the reference definition `Reconciled`, by ranks, and `Refused` |
| `SourceSlots` | `reconcile` loop by loop | one action for each iteration of each loop |
| `ObjectScene` | process and process_silence over the slots | extends `SourceSlots`: a quantum makes the loops run, then maps slots to lanes; `history` holds whose sound is in a lane's filters |
| `ObjectSceneProofs` | theorems of the slots and of the scene over them | section 5 |
| `Supervisor` | the window procedure and its processes | one action a handler, launch and stop in several steps; an engine is exited, running or told to end; marker and Run key are written one by one |
| `SupervisorProofs` | theorems of the supervisor | section 5 |
| `PortHandoff` | the OSC port between the command line renderer and mpv's engines | `bind` says where a party is in `bind_rx_socket`, `pc` where it is in standby, creation or drop; `release` is the registry of a process, `stop` the flag it points to; a place of mpv's holds an engine or a degraded reporter; datagrams arrive or do not, a write succeeds or not, an engine is built or not; `promised` is what the last holder to give up the port has to hand over |
| `PortHandoffProofs` | theorems of the hand-off | section 5 |
| `DecodeSession` | one run of the command line renderer | the threads' loops; `out` is the writer and the wiring of the direct trigger, `requested`, `applyPending` and `applied` are InputControl, `plan` what the manager is about to apply |
| `DecodeSessionProofs` | theorems of the direct trigger's wiring | section 5 |

The scene composes with the slots it calls: `ObjectScene` takes the states of
`SourceSlots` as its own, and `IsReconciled` compares what the loops leave with
the one-step definition. `RealtimeLanes` composes the three lanes as
alternatives. `PortHandoff` and `DecodeSession` meet in the standby: in the one the
render loop is a few steps and the port is everything, in the other the standby
is a state that may last, and how it ends is the other module's concern.
`ProviderRuntime` relies on `StereoQueue`: the
queue is correct if it is emptied only while neither caller is inside, and
`QueueControlIsQuiet` is that assumption as a property of the provider.

What is abstract. A PCM frame is its number; a rendered frame is the number of
the frame it was rendered from, so "played too early, too late, twice or from
another stream" can all be told apart, and loudness cannot. The pipeline keeps back
`Holdback` frames (its look-ahead) and is otherwise the identity on numbers. A
buffer is whose it is and in which update it was written. The rings of the
lanes move whole blocks; the step-by-step argument about such a ring is made
once, in `StereoQueue`. The atomics are sequentially consistent, and the queue's
acquire/release pair is taken at its C++ meaning. Absolute 64-bit indices do not
wrap in the model; at 48 kHz they do not in the program either. In `DecodeSession`
a frame is its source, and the errors that end a run (the decoder's input, the writers' flush and
write, the metadata, the OSC clients) are one action or alternative each where they are passed on,
counted with the requests (`Fails`), except a segment's writer and the end of the decoder thread, which
are not counted. `create_audio_writer_if_needed` starts its count again for objects without
`bed_indices`; `handle_spatial_metadata` sets the two together and `reset_for_segment` clears them
together, so no frame comes to that branch and it is left out. In `PortHandoff` a configuration is one of its unsaved
states, and every wait may end at any point, but a requester gives up only after it
has asked twice. A sidecar that is too old, or in pieces after a failed write, is as good as gone from
then on (`SidecarSpoils`, at any point): the read that finds it deletes it and applies nothing. The file is
always deleted when read. The slot of the degraded reporter is looked at and filled in one step, so that
a reporter whose slot is given up in between is not stored but dropped, or stays until a creation.

History variables, marked `history:` where declared, remember what was offered,
accepted, heard or dropped, and guard nothing.

## 3. The runs

Each cfg's constants are the bounds; where a counter needs a bound its name starts with `Max`.

| run | instance | shows |
|---|---|---|
| `stereo_queue` | capacity 3, blocks of 0 to 4, reads of 1, 2, 4, eight frames offered | `RaceFree`, `DeliversInOrder`, and that the queue implements `BoundedFifo` (`ImplementsFifo`). Three slots and blocks of two or three make a copy wrap at each possible place, a block of four is always refused, and eight frames go round the storage more than twice. |
| `object_stream` | two threads, one or both of which activate; three handles, one role, one dynamic object, two generations | with one activating thread every active object is in every quantum (`AllCurrentAudio`) and an object that missed an update has retired (`MissedUpdateRetires`); with overlapping activations, too, `BuffersHeldStill`, `OnlyCurrentAudio`, `IdsNeverReused`. Three handles are one more than can be active. |
| `object_stream_capacity` | both threads activate | **violation** of `DynamicCapacityBound`: finding 2 |
| `provider_runtime` | queue of eight quanta, target four, as in the code, counted in half quanta; clients that make control calls between updates, with the faults of those calls only or with all, and a client that makes them from another thread with all | no quantum is refused by the queue (`NoOverflow`); an empty queue is filled again, or the stream is stopped or failed, or the client was asked and the renderer refused its quantum, time after time (`DemandIsMet`; a client whose renderer refuses nothing has the first three only), control calls return (`ControlReturns`); for clients of the first kind the queue is emptied with nobody in it (`QueueControlIsQuiet`), and unless a drain fails the provider is left restartable (`RestartableUnlessDrainFails`) |
| `provider_runtime_wedge` | the drain may fail | **violation** of `StoppedIsRestartable`: finding 1 |
| `realtime_lanes` | each kind of lane; delay 2, blocks of 2, callbacks of 1 and 3 frames, look-ahead 1, rings of 4 frames, seven frames, two lanes one after the other | `FixedDelay`, `NothingFromBefore`, `WorkerCodeMapped`, `NoOrphanWorker`, `PlaysWhatIsReady`, `StoppedWorkersEnd`, `CallsReturn`. Seven frames fill the delay, miss turns, get them back and cross a reset. Rings of four, alike as in the code, fill both ways: a callback finds no room and the lane fails, and a late worker finds none for what it rendered. Of each kind of lane one is then told to stop, and on the object lane a drop or a reset joins it (`CallsReturn`). |
| `object_scene` | four identities on three slots, all valid requests in all orders and one of each refused kind, four quanta, with and without a static role | at every step of a call `NoIdTwice`, `SurvivorsStay`, `FailsWhole`, and after it `IsReconciled`; `LanesAreClean`, `OnlySurvivorsGlide`, `SurvivorsKeepHistory`. Four quanta let a lane be given away and taken back with a gap. With a static role slot and lane numbers differ; without, a quantum may be silent. |
| `supervisor` | three engine processes, failing status calls, a supervisor that may be killed and started again, two faults of the registry or the file system | `OffMeansNoEngine`, `OneEngine`, `OffStaysOff`, `SoundComesBack`, `NoEngineIsLeft`. Three engines: one given up and still ending, its successor ending too, and a third. |
| `port_handoff` | one command line renderer, two places in mpv, two dynamic ports and two settings, in three scenarios | `DeviceFollowsPort`, `YieldedEditsArrive`, `NoEarlyWake`, `RendererComesBack`. Yields, edits, lost datagrams, crashes and tracks are not bounded; to keep the run small `MCPortHandoff` lets one thing vary at a time. *settings*: one place, two settings, which the renderer and the engine write to the one file while an older one is in the overlay, writes that fail, files that spoil. *sockets*: a track and its successor, and two ports, which tell the resume socket of a watch thread from the one bound after it. *reporter*: two places, engines that cannot be built, their reporters, and one setting to hand over. What a scenario leaves out is never a step of the renderer's own threads, so fairness means the same in it. `EditsArrive` and `TrackChangeWakesNobody` are proved with all of it at once. |
| `port_handoff_deaf` | the same | **violation** of `ListeningIsReal`: finding 3 |
| `decode_session` | three kinds of run (captured bit stream with the output's clock or its own, captured PCM; endless pipe or one that is read once; ended by a quit or a restart), a channel of two, one frame a chunk, a writer at the first frame, one request besides the quit | `TriggerFollowsWriter`, `DecoderIsServed`, `QuitEnds`, `SelfClockedComesBack`. A channel of two fills at once, which is when the threads wait for each other. One request is a mode switch, a standby, a change of the output or a refused resume, at any point of the others' work; the ends of streams, segments and failing devices are not bounded. |
| `decode_session_stall` | the captured bit stream with the output's clock and a pipe that is read once | **violation** of `WriterComesBack`: finding 4 |

Every module with a state of its own has a `TypeOK`, which documents it; each of them is
proved (the lanes' as a part of their inductive invariant). Deadlock is checked in the runs of the queue, the
provider and the supervisor, where something can always be done. It is
not checked where the bound on frames, quanta or generations stops the instance,
where the host has destroyed everything, where a run of the renderer is over, or
where mpv may never come back.

Each property has a mutant (the operators named `...Mutant`, each standing before the
definition it would replace): a plausible slip in the code, under which the
run finds the property violated.

### Fairness

Nobody is forced to make a call: hosts, clients and the listener may stop
at any moment. Weak fairness is assumed only of what the program or the system
runs by itself:

- `ProviderRuntime`: each of the three threads, once inside a call, goes on;
  the client waits for its event and answers it, as the API asks of it; the
  endpoint keeps signalling.
- `PortHandoff`: the command line renderer's loop, its watch thread, its listener and a bind it
  has begun go on. Of mpv nothing is promised, nor a datagram, nor that a write succeeds:
  `RendererComesBack` supposes that in the end no engine, reporter or reserved port is left.
- `DecodeSession`: every thread goes on with what it has begun. A sender that waits
  for room is served in spite of the capture's try_send (strong fairness: the
  channel queues blocked senders). Nothing is assumed of the pipe, the user or another process,
  and `Resume` is not fair: a standby may last.
- lanes: the worker thread, and the constructor or drop once it may return.
  The audio callback has none.
- `Supervisor`: the timer ticks and finds what there is to find, a blocking
  launch or stop returns, an engine that saw the quit flag ends. Strong
  fairness of `Launch` is the one assumption about the outside: of a launch tried
  again and again, one works.

## 4. What was found

1. *A failure inside an update is for good* (`provider_runtime_wedge`). End
   returns at once when the endpoint has failed (`OmniphonySpatialProviderRuntime.cpp:247`)
   and does not end the object stream's update. Stop ignores that the object
   stream refuses to stop, and clears `running_`. From then on Start and Reset are
   refused. The documentation asks that temporary absence remain recoverable.
   A client could get out only by calling End again after a further, failing
   Start had cleared the failure.
2. *Capacity may be overshot* (`object_stream_capacity`). Activation counts the
   live objects under the mutex and registers the new one under another taking of
   it, so two overlapping activations both pass. By the same window two
   objects may take one role. The
   quantum stays within its array, and the surplus object is not heard.
3. *A renderer that believes it listens* (`port_handoff_deaf`). A renderer in standby
   is still in the registry `LOCAL_RX_RELEASE` of its own process. Woken while
   mpv still has the port, which a late datagram or a probe between two engines
   can do, `bind_rx_socket` takes its own registration for that of another engine
   of the process and sets the flag that will stop its own next
   listener (`osc.rs:174`). If the port comes free before that call gives up, the
   listener starts, sees the flag and ends, and `is_listening` says true. The
   renderer plays without a port; another engine may take the port unasked, and
   then both have the device: `DeviceFollowsPort` makes exactly this exception.
4. *A standby that nothing ends* (`decode_session_stall`). A capture with the output's
   clock runs for triggers that the writer's callback counts. A standby drops the
   writer and leaves the wiring (`session_run.rs:478`), and so does the end of a
   stream. The capture then waits for a counter nobody advances, no frame is
   decoded, and the writer is built only by a frame. A frame of another source, or switching the input
   away and back, gets it out. With the capture's own clock the writer comes back (`SelfClockedComesBack`).

Behaviour that a reader should know of, none of it contradicting the documentation:

- `RestartableUnlessDrainFails` and `QueueControlIsQuiet` hold for clients that make
  control calls between updates (`serial`). With a control thread of its own
  a client may stop while its update is open, and Start's reset of the queue
  (line 141) may meet an End that is still writing. The demand protocol survives this.
- `ObjectStream`'s Reset calls the transport's Reset outside its mutex; it is the
  provider's `lifecycleMutex_` that keeps a Start out.
- When a status call fails, the supervisor drops the engine's handle without
  killing it. OFF then returns while that engine is still ending;
  `OffMeansNoEngine` makes exactly this exception, and `OneEngine` and
  `NoEngineIsLeft` show that the engine does end and never means to stay.
- The object lane's thirty seconds of initialization bound nothing: after the timeout the call joins the worker.
- A lane whose input ring was full for one callback plays the unrendered
  signal until it is reset.
- After a refused resume the renderer writes its sidecar again, from settings that
  may be older than those of the engine it found the port held by. `resume()` reads
  no sidecar, so edits made in mpv reach the command line renderer only by a restart.
- An edit that arrives between the sidecar and the join of the listener is kept
  by the renderer and not handed over; if mpv crashes, a sidecar it has consumed is gone.
- An engine that is refused the port reads its configuration all the same, and tries the port
  once more when it enables OSC (`orender_ffi/src/lib.rs:290`, `:331`). If the renderer has released
  it in between, that engine listens in the renderer's place with the configuration of
  before, and its own sidecar may later replace the unread one, although the comment of `enter_standby`
  says that writing the file first guarantees that the successor sees it. `YieldedEditsArrive` is
  about an engine that is built with the port.
- Unsaved settings are lost on several paths, which the code accepts with a warning or without. The write of
  the sidecar fails and the port is given up all the same (`osc.rs:669-681`); the file is older than ten
  minutes, or unparsable, and is deleted unapplied (`config.rs:656-674`); what mpv has consumed goes
  with a crash; a party without the port replaces the file. An engine may then be built on an *older* state,
  the overlay of its process. `YieldedEditsArrive` promises nothing on these paths
  (`promised` becomes `Nobody`), and everything on the others: what the renderer has when it begins to
  stand by, and what an engine writes while it has the port.
- A creation whose engine cannot be built has consumed the sidecar. It is in the overlay of the process, and
  the next engine has it.
- If neither the engine nor a degraded reporter can be built, the port stays reserved
  (`PORT_RESERVATION`) with nobody behind it until the next creation or the end of mpv, and the
  renderer stays in standby: `MpvGone` does not hold.
- A degraded reporter never asks for the port (`degraded.rs:91-93`), but takes one that is free, the one its failed
  engine has reserved included. When the last track's engine then goes, the renderer may be woken
  while the reporter has the port; `NoEarlyWake` makes this exception.
- Frames decoded while `osc.resume()` waits for the port are played afterwards,
  although the drain is there so that "no stale audio is played on resume"
  (`session_run.rs:479-481`): they are at most a channel full.
- The state shown of a bit stream is set over whatever mode is applied by then
  (`handler.rs:193-219`), which may be one the live input manager set in between.
- The end of a stream makes a new handler without the channel of the DRC commands.
- A stereo lane whose worker becomes ready in mid-stream starts its delay line over: forty milliseconds of silence.

## 5. The proofs

Every safety invariant and every action property that a passing run checks, and the
refinement, is also a theorem for every value of the constants. Assumptions are the named
`ASSUME`s of the modules and nothing else. Sizes are natural numbers, a queue's capacity
is positive, identities are positive (zero is reserved by the contract), requests are
sequences of identities, model values of different kinds differ. One of them is a fact
about the code's numbers: `HeadroomAssumption`, that the provider's queue holds the target
and three quanta more (in the code it holds eight quanta and the target is four). TLC
evaluates each assumption in each instance.

In each proof module an inductive invariant (`IInv`; `SlotInv` and `SceneInv` for the
slots and the scene) holds initially and is kept by every step, one lemma for each
action or for each part of it. TLC finds each of them invariant on the instances of the
runs (the queue's with its quantifiers over numbers bounded).

**The queue** (`StereoQueueProofs`), for every capacity, every set of block
sizes and every set of read sizes: `TypeCorrect`, `LeadIsBounded`, `NoDataRace`,
`FramesInOrder`, all from `Invariance`. None of the properties is inductive: that
a read delivers in order depends on what is in the storage, which depends on
what the producer may have overwritten meanwhile. The inductive invariant `IInv`
adds what each thread knows of itself, and what the storage holds:

- `WriterInv`: inside TryWrite the snapshot of the own index is still the
  index, and the block granted fits beside what is queued;
- `ReaderInv`: inside Read what was granted is still queued;
- `StorageInv`: queued frame number k is in slot k modulo the capacity, and so is
  the part of a block copied so far;
- `DeliversInOrder`: what a read has copied so far are the frames it should.

The crux is that a copy of the producer cannot change the slot of a queued
frame. Its slot is that of a number at least `writeFrame`, and less than
`readFrame + Capacity`; two different numbers within one capacity of each other
have different remainders (`SlotsDiffer`, proved from the definition of division). `SlotOf` is written as the code computes it, in two
pieces, and `WrapIsModulo` shows it to be the remainder. One lemma for each action.

**The queue is a queue** (in the same module): `QueueIsFifo`, that `StereoQueue`
implements `BoundedFifo`. `ReadsStream` follows from `StorageInv`: the frames
between the two indices, read off the storage, are the accepted frames of these
numbers. So a publishing write appends its block, a publishing read removes what
it granted, a refused block and the missing tail of a read go to the counters, and
the copies of single frames change nothing of the abstract queue. One lemma for
each action, under the hypothesis that `IInv` holds before and after it.

**The object stream** (`ObjectStreamProofs`), for every set of threads, handles and roles
and every bound: `HeldStill`, `Identity`, `NothingStale`, `NothingLost`,
`MissedRetires`, and `CapacityKept`. `Flight` says that at most one thread is at the
transport, with the buffers as they are, and that no update is open meanwhile. `Registry` and
`Construction` say where an object is on its way: in construction by one thread, then
once in the registry, then released. `Buffers` has the stale-audio argument: an active
object's generation never exceeds the stream's, and equals it in an open update only if
the buffer was granted in that update. A reset that starts the
generations over must therefore revoke every object; drop that and `Buffers` breaks. For
one activating thread `RolesOnce` and `Capacity` count the object in construction as if it were
registered, which is what makes the check and the registration, two takings of the
mutex, safe. `CapacityKept` is the other half of finding 2: overlapping
activations are the only way past the capacity.

**The provider** (`ProviderRuntimeProofs`), for every quantum, capacity, target, drain
size and kind of client: `NoRefusal`, `QuietControl`, `Restartable`. `Protocol` says which places of
the three threads go together: a worker lives only while the provider runs and no call unwinds
it, a serial client is never in a control call and an update at once. `Demand` counts
what is queued and what may still be asked for. Each of the three threads tests the queue against the
target before it claims the request, and the test may be old when it claims; so a
quantum is counted for each thread past its test and for the request itself, which
is where the three quanta of `HeadroomAssumption` come from. `InnerFollows` ties the
object stream's flags to the place of the update thread, unless a drain failed.

**The lanes** (`RealtimeLanesProofs`), for the three lanes and every delay, block, ring,
look-ahead and set of callback sizes: `LatencyIsFixed`, `BoundariesHold`, `CodeStaysMapped`,
`NoWorkerLeft`, `ReadyIsPlayed`. What is rendered and not played, rendered and not
pushed, kept back, taken and not rendered, and queued for the worker is *one run of consecutive
frames*, and it starts at the frame due now less the turns the lane has missed. The worker
moves frames along the run; a callback that misses a turn leaves the run where it is and
counts; one that discards a late block catches up. So a rendered frame that is
played is the one the delay line would have played. The actions of the three lanes
are shown to be instances of a few shared steps (of the worker, and of the two halves of the callback),
and the run is shown to survive those. For the object lane the invariant
also says which call may leave a worker unjoined: none that has returned.

**The slots and the scene** (`ObjectSceneProofs`), for every set of identities, every capacity
and every request: `OneLaneEach`, `SurvivorsKeepLanes`, `NeverHalfWay`, `LoopsReconcile`. Reconcile
has an error return in the middle of its second loop, after slots were released and
others filled. It is unreachable: `ALaneIsFree` is a pigeonhole argument. After
the first loop only wanted identities hold slots, no identity holds two, the one
to be admitted holds none, and a served request is no longer than the capacity; were
all slots taken, they would map injectively into the other positions of the
request, which are fewer. `LoopsReconcile` shows that the loops leave what the
one-step definition says, in which the newcomer of rank k takes the free slot of rank k. The loops
search for the lowest free slot each time, so the invariant says that what was free
is filled from below, in the order of the request (`InOrder`), and lemmas on ranks
(`RankOfNext`, `RankGrows`, `LowestIsNext`) connect "the lowest left" with "the next rank". Minima and maxima
are taken from the well-foundedness of `<`, since induction is not available.

`SceneCallsReconcile`: the scene's steps are steps of the slots or leave them alone, so
all of this holds in the pipeline. On top of it, with and without static roles:
`NoForeignHistory`, `NoMotionInvented`, `SurvivorsSoundOn`. Three layers each
clear a lane by a test of their own; `Linked`, `Follows` and `HeardLast` say what the renderer's
lanes, the scene's last blocks and the slots know of one another between quanta, and that
the three tests agree.

**The run of the command line renderer** (`DecodeSessionProofs`), for every channel capacity,
chunk, bootstrap and kind of run: `TriggerFollows`. It depends on the order in which the
render loop treats its output: whatever drops the writer leaves the wiring or undoes
it, and `sync_all`, which comes before a writer may be built, undoes it where there is
no writer. A lemma for each of the operators on the output; `PlayFrame` chains them as
`handle_decoded_frame` does.

**The hand-off** (`PortHandoffProofs`), for every set of places in mpv, ports and settings,
with datagrams lost, writes failing, files spoiling, engines that cannot be built and mpv ending anywhere: `DeviceGoesFirst`, `EditsArrive`,
`TrackChangeWakesNobody`. The invariant adds

- `PortIsHeld`: whoever has the port has the socket in hand or a listener on it, and nobody
  else has either, across `bind_rx_socket`'s polling and the joins of the listeners; a socket from
  `negotiate_rx_port` is the reservation of the process;
- `OneCreate`: mpv creates one engine at a time, so a reservation taken while an engine is built is its own;
- `Registered`: no other engine than the one that listens is in the registry of its process;
- `PromiseKept`: what is promised is what a configuration read now would bring, the file if there is one and
  else the overlay, or what a renderer that still has the port is about to write.

Both reads of a creation keep the last. A renderer that begins to stand by owes its settings from then on,
and has written them, or failed to, before its listener can let the port go.
That the drop of an engine wakes nobody while its successor has the port follows from the third:
the successor listens, so no other is registered.

**The supervisor** (`SupervisorProofs`), for every set of engine processes and every
bound: `AtMostOneEngine`, `OffStopsTheEngine`, `OffIsKept`. None of the three is
inductive: whether OFF leaves an engine depends on who holds which process in the
middle of a launch, a stop or a kill. The invariant adds

- `HandsInv`: an engine is in the thread's hands only during a launch or a stop, and none is
  recorded then, so that recorded and in hand exclude each other;
- `KeptInv`: an engine that lives is recorded, in hand or given up, and one not told to end is
  one of the first two;
- `OffInv`: what is not wanted is not recorded;
- `AutostartInv`: for the marker and the Run key the fault comes before the harm. `Owed`
  says when a start against the marker has become possible; while it is, there are fewer such
  starts than faults. Between a toggle's two calls it is the marker to come that counts.

One lemma for each group of handlers; `PreferenceKept` and `GivenUpKeeps` are what they share.

**Only model-checked**: liveness, which rests on fairness and ENABLED and is out of the
prover's reach: `DemandIsMet`, `ControlReturns`, `StoppedWorkersEnd`, `CallsReturn`,
`SoundComesBack`, `NoEngineIsLeft`, `RendererComesBack`, `DecoderIsServed`, `QuitEnds`,
`SelfClockedComesBack`; and what the runs refute.

## 6. What is left

To prove:

1. that `ProviderRuntime` uses `StereoQueue` as it must be used, as a composition of
   the two and not only as `QueueControlIsQuiet`;
2. the safety part of the liveness properties: that a thread that waits is owed a wake-up
   (a lost demand, a sender on a full channel) as an invariant, for every value of the constants;
3. an abstract lane (a delay of fixed length) that the three lanes implement.

Not modelled, and why:

- **Signal processing**: panning, filters, convolution, limiters, object generation,
  loudness, the virtual bed. This is most of the code by lines. It computes on samples, and a
  model of it would say nothing a numerical test does not.
- **Servo loops**: the adaptive latency controller of `audio_output`, the music engine's
  governor, the pacer. Their states are fill levels in milliseconds under thresholds of
  seconds; the thresholds can be tested, and stability is an analytical question.
- **Formats**: decoder bridges, burst parsing, layouts, option files.
- **Platform I/O**: WASAPI, PipeWire, ASIO, COM registration, the installer, the
  tray icon, the OSC parameter set and its clients.
- **User interfaces**: the companion, Studio's desktop and web code.
- Of `DecodeSession`: DRC commands, the owner of the pacer's drain, captures
  restarted for a new latency, the runtime without a bridge, file rendering. Of
  `PortHandoff`: an explicit save and reload of the configuration, an mpv without OSC, and the quit or restart of
  the command line renderer.

`PROJECT.json` lists the components with their status and the reason.
