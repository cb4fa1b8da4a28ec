----------------------- MODULE ProviderRuntimeProofs -----------------------
(***************************************************************************)
(* Proofs about the provider runtime, for every quantum, capacity, target, *)
(* drain size and client.                                                  *)
(*                                                                         *)
(* The invariant IInv has three layers.  Protocol says where the threads   *)
(* can be together: which label belongs to which thread, that a worker     *)
(* lives only while running_ is set and no call unwinds, and that a serial *)
(* client is never in a control call and an update at once.  Demand counts *)
(* the quanta that are asked for and not queued yet: a caller tests the    *)
(* queue against the target before it claims the request, so all three     *)
(* callers and the client's event can each stand for a quantum, and the    *)
(* capacity must hold the target and three quanta more.  InnerFollows ties *)
(* the object stream's flags to the place of the update thread, for a      *)
(* client no asynchronous failure reaches.                                 *)
(***************************************************************************)
EXTENDS ProviderRuntime, TLAPS

-----------------------------------------------------------------------------
(* The places of each thread.                                                *)

Starting ==
  {"start_queue", "start_inner", "start_pump", "start_flags", "start_updating", "start_worker"}
Resetting == {"reset_queue", "reset_requested", "reset_updating", "reset_event"}
Joining == {"stop_join", "abort_join", "start_abort"}
Unwinding ==
  {"stop_requested", "stop_updating", "stop_event", "stop_pump", "abort_pump", "stop_inner"}
Requesting == {"req_check", "req_queue", "req_claim", "req_signal"}
InUpdate == {"begin_requested", "begin_updating", "authoring", "end_inner"}
InFlight == {"write", "publish", "flight", "flight_failed"}

ControlLabels == {"idle"} \cup Starting \cup Resetting \cup Joining \cup Unwinding \cup Requesting
UpdateLabels ==
  {"wait", "woken", "begin_inner", "end_updating", "end_failed"}
    \cup InUpdate \cup InFlight \cup Requesting
WorkerLabels == {"none", "waiting", "draining", "failing", "fail_stop", "done"} \cup Requesting

\* Each thread is at one of its own places.
Labels ==
  /\ pc \in [Threads -> ControlLabels \cup UpdateLabels \cup WorkerLabels]
  /\ pc["control"] \in ControlLabels
  /\ pc["update"] \in UpdateLabels
  /\ pc["worker"] \in WorkerLabels

\* Start and Reset work on a stopped provider, and a worker that was not joined
\* keeps it running.
Calls ==
  /\ pc["control"] \in Starting \cup Resetting => ~outerRunning
  /\ pc["worker"] # "none" => outerRunning /\ pc["control"] \notin Unwinding

\* A serial client is never in a control call and an update at once.
Serial == client.serial => pc["control"] = "idle" \/ OutsideUpdate

Protocol == Labels /\ Calls /\ Serial

\* Type correctness but for the queue, whose bound is a consequence of Demand.
Flags ==
  /\ client \in Clients
  /\ outerRunning \in BOOLEAN /\ asyncFailed \in BOOLEAN
  /\ requested \in BOOLEAN /\ updating \in BOOLEAN
  /\ stopEvent \in BOOLEAN /\ clientEvent \in BOOLEAN
  /\ pumpStarted \in BOOLEAN /\ overflowed \in BOOLEAN
  /\ inner \in [running : BOOLEAN, inUpdate : BOOLEAN, inFlight : BOOLEAN]

-----------------------------------------------------------------------------
(* The threads' places and the flags.                                        *)

LEMMA ProtocolStep ==
  ASSUME Protocol, Next PROVE Protocol'
<1> USE DEF Protocol, Labels, Calls, Serial, OutsideUpdate, Goto, Threads,
            ControlLabels, UpdateLabels, WorkerLabels, Starting, Resetting, Joining,
            Unwinding, Requesting, InUpdate, InFlight
<1> UNCHANGED client
  BY DEF Next
<1>1. CASE Start
  BY <1>1 DEF Start, EnterControl, OutsideUpdate
<1>2. CASE StartQueue
  BY <1>2 DEF StartQueue
<1>3. CASE StartInner
  BY <1>3 DEF StartInner
<1>4. CASE StartPump
  BY <1>4 DEF StartPump
<1>5. CASE StartRequested
  BY <1>5 DEF StartRequested
<1>6. CASE StartUpdating
  BY <1>6 DEF StartUpdating
<1>7. CASE StartWorker
  BY <1>7 DEF StartWorker
<1>8. CASE StartAbort
  BY <1>8 DEF StartAbort
<1>9. CASE Stop
  BY <1>9 DEF Stop, EnterControl, OutsideUpdate
<1>10. CASE JoinWorkers
  BY <1>10 DEF JoinWorkers, WorkerReturned
<1>11. CASE ClearRequested
  BY <1>11 DEF ClearRequested
<1>12. CASE ClearUpdating
  BY <1>12 DEF ClearUpdating
<1>13. CASE ResetClientEvent
  BY <1>13 DEF ResetClientEvent
<1>14. CASE StopPump
  BY <1>14 DEF StopPump
<1>15. CASE StopInner
  BY <1>15 DEF StopInner
<1>16. CASE Reset
  BY <1>16 DEF Reset, EnterControl, OutsideUpdate
<1>17. CASE ResetQueue
  BY <1>17 DEF ResetQueue
<1>18. CASE ClientWakes
  BY <1>18 DEF ClientWakes
<1>19. CASE BeginUpdatingAudioObjects
  BY <1>19 DEF BeginUpdatingAudioObjects
<1>20. CASE BeginInner
  BY <1>20 DEF BeginInner
<1>21. CASE BeginRequested
  BY <1>21 DEF BeginRequested
<1>22. CASE BeginUpdating
  BY <1>22 DEF BeginUpdating
<1>23. CASE EndUpdatingAudioObjects
  BY <1>23 DEF EndUpdatingAudioObjects
<1>24. CASE EndInner
  BY <1>24 DEF EndInner
<1>25. CASE Write
  BY <1>25 DEF Write
<1>26. CASE Publish
  BY <1>26 DEF Publish
<1>27. CASE EndFlight
  BY <1>27 DEF EndFlight
<1>28. CASE EndUpdating
  BY <1>28 DEF EndUpdating
<1>29. CASE WorkerStops
  BY <1>29 DEF WorkerStops
<1>30. CASE SampleReady
  BY <1>30 DEF SampleReady
<1>31. CASE DrainOnce
  BY <1>31 DEF DrainOnce
<1>32. CASE SetAsyncFailure
  BY <1>32 DEF SetAsyncFailure
<1>33. CASE SignalStop
  BY <1>33 DEF SignalStop
<1>34. ASSUME NEW t \in Threads, RequestCheck(t) PROVE Protocol'
  BY <1>34 DEF RequestCheck, RequestDone
<1>35. ASSUME NEW t \in Threads, RequestQueue(t) PROVE Protocol'
  BY <1>35 DEF RequestQueue, RequestDone
<1>36. ASSUME NEW t \in Threads, RequestClaim(t) PROVE Protocol'
  BY <1>36 DEF RequestClaim, RequestDone
<1>37. ASSUME NEW t \in Threads, RequestSignal(t) PROVE Protocol'
  BY <1>37 DEF RequestSignal, RequestDone, RequestFailed
<1> HIDE DEF Protocol
<1> QED
  BY <1>1, <1>2, <1>3, <1>4, <1>5, <1>6, <1>7, <1>8, <1>9, <1>10, <1>11,
         <1>12, <1>13, <1>14, <1>15, <1>16, <1>17, <1>18, <1>19, <1>20,
         <1>21, <1>22, <1>23, <1>24, <1>25, <1>26, <1>27, <1>28, <1>29,
         <1>30, <1>31, <1>32, <1>33, <1>34, <1>35, <1>36, <1>37
  DEF Next, ControlCall, ControlStep, UpdateStep, WorkerStep, RequestSourceIfNeeded

LEMMA FlagsStep ==
  ASSUME Flags, Next PROVE Flags'
<1> USE DEF Flags, flags, Threads, InnerStopped, OutstandingAfterBegin, StopSignal
<1> UNCHANGED client
  BY DEF Next
<1>1. CASE Start
  BY <1>1 DEF Start, EnterControl, OutsideUpdate
<1>2. CASE StartQueue
  BY <1>2 DEF StartQueue
<1>3. CASE StartInner
  BY <1>3 DEF StartInner
<1>4. CASE StartPump
  BY <1>4 DEF StartPump
<1>5. CASE StartRequested
  BY <1>5 DEF StartRequested
<1>6. CASE StartUpdating
  BY <1>6 DEF StartUpdating
<1>7. CASE StartWorker
  BY <1>7 DEF StartWorker
<1>8. CASE StartAbort
  BY <1>8 DEF StartAbort
<1>9. CASE Stop
  BY <1>9 DEF Stop, EnterControl, OutsideUpdate
<1>10. CASE JoinWorkers
  BY <1>10 DEF JoinWorkers, WorkerReturned
<1>11. CASE ClearRequested
  BY <1>11 DEF ClearRequested
<1>12. CASE ClearUpdating
  BY <1>12 DEF ClearUpdating
<1>13. CASE ResetClientEvent
  BY <1>13 DEF ResetClientEvent
<1>14. CASE StopPump
  BY <1>14 DEF StopPump
<1>15. CASE StopInner
  BY <1>15 DEF StopInner
<1>16. CASE Reset
  BY <1>16 DEF Reset, EnterControl, OutsideUpdate
<1>17. CASE ResetQueue
  BY <1>17 DEF ResetQueue
<1>18. CASE ClientWakes
  BY <1>18 DEF ClientWakes
<1>19. CASE BeginUpdatingAudioObjects
  BY <1>19 DEF BeginUpdatingAudioObjects
<1>20. CASE BeginInner
  BY <1>20 DEF BeginInner
<1>21. CASE BeginRequested
  BY <1>21 DEF BeginRequested
<1>22. CASE BeginUpdating
  BY <1>22 DEF BeginUpdating
<1>23. CASE EndUpdatingAudioObjects
  BY <1>23 DEF EndUpdatingAudioObjects
<1>24. CASE EndInner
  BY <1>24 DEF EndInner
<1>25. CASE Write
  BY <1>25 DEF Write
<1>26. CASE Publish
  BY <1>26 DEF Publish
<1>27. CASE EndFlight
  BY <1>27 DEF EndFlight
<1>28. CASE EndUpdating
  BY <1>28 DEF EndUpdating
<1>29. CASE WorkerStops
  BY <1>29 DEF WorkerStops
<1>30. CASE SampleReady
  BY <1>30 DEF SampleReady
<1>31. CASE DrainOnce
  BY <1>31 DEF DrainOnce
<1>32. CASE SetAsyncFailure
  BY <1>32 DEF SetAsyncFailure
<1>33. CASE SignalStop
  BY <1>33 DEF SignalStop
<1>34. ASSUME NEW t \in Threads, RequestCheck(t) PROVE Flags'
  BY <1>34 DEF RequestCheck, RequestDone
<1>35. ASSUME NEW t \in Threads, RequestQueue(t) PROVE Flags'
  BY <1>35 DEF RequestQueue, RequestDone
<1>36. ASSUME NEW t \in Threads, RequestClaim(t) PROVE Flags'
  BY <1>36 DEF RequestClaim, RequestDone
<1>37. ASSUME NEW t \in Threads, RequestSignal(t) PROVE Flags'
  BY <1>37 DEF RequestSignal, RequestDone, RequestFailed
<1> HIDE DEF Flags
<1> QED
  BY <1>1, <1>2, <1>3, <1>4, <1>5, <1>6, <1>7, <1>8, <1>9, <1>10, <1>11,
         <1>12, <1>13, <1>14, <1>15, <1>16, <1>17, <1>18, <1>19, <1>20,
         <1>21, <1>22, <1>23, <1>24, <1>25, <1>26, <1>27, <1>28, <1>29,
         <1>30, <1>31, <1>32, <1>33, <1>34, <1>35, <1>36, <1>37
  DEF Next, ControlCall, ControlStep, UpdateStep, WorkerStep, RequestSourceIfNeeded

-----------------------------------------------------------------------------
(* The queue and the demand.                                                 *)

LEMMA DrainLeavesNat ==
  ASSUME queued \in Nat, NEW n \in DrainSizes
  PROVE  LeftAfter(n) \in Nat /\ LeftAfter(n) <= queued
BY InstanceAssumption DEF LeftAfter

\* Only Publish makes the queue longer.
LEMMA QueueStep ==
  ASSUME queued \in Nat, Next
  PROVE  /\ queued' \in Nat
         /\ queued' <= queued \/ Publish
<1> USE DEF flags
<1>1. CASE StartQueue \/ ResetQueue
  BY <1>1 DEF StartQueue, ResetQueue
<1>2. CASE Publish
  BY <1>2, QueueAssumption DEF Publish
<1>3. CASE DrainOnce
  <2>1. (\E n \in DrainSizes : queued' = LeftAfter(n)) \/ queued' = queued
    BY <1>3 DEF DrainOnce
  <2> QED
    BY <2>1, DrainLeavesNat
<1>4. CASE UNCHANGED queued
  BY <1>4
<1>5. UNCHANGED queued \/ StartQueue \/ ResetQueue \/ Publish \/ DrainOnce
  BY DEF Next, ControlCall, ControlStep, UpdateStep, WorkerStep, RequestSourceIfNeeded,
         RequestCheck, RequestQueue, RequestClaim, RequestSignal, Start, StartInner, StartPump,
         StartRequested, StartUpdating, StartWorker, StartAbort, Stop, JoinWorkers, ClearRequested,
         ClearUpdating, ResetClientEvent, StopPump, StopInner, Reset, ClientWakes,
         BeginUpdatingAudioObjects, BeginInner, BeginRequested, BeginUpdating,
         EndUpdatingAudioObjects, EndInner, Write, EndFlight, EndUpdating, WorkerStops, SampleReady,
         SetAsyncFailure, SignalStop
<1> QED
  BY <1>1, <1>2, <1>3, <1>4, <1>5

\* The places at which a thread stands for a quantum on its way to the queue: it
\* found room below the target, or it answers a request until it has published.
Claims == {"req_claim", "req_signal"}
Answering == {"woken", "begin_inner", "write", "publish"} \cup InUpdate
ControlClaims == pc["control"] \in Claims
WorkerClaims == pc["worker"] \in Claims
UpdateOwes == pc["update"] \in Claims \cup Answering

Quanta(owed) == IF owed THEN Quantum ELSE 0
\* The frames queued and those on their way stay three quanta above the target.
Covered(q, c, w, u, e) == q + c + w + u + e <= Target + 3 * Quantum
Demand ==
  Covered(queued, Quanta(ControlClaims), Quanta(WorkerClaims), Quanta(UpdateOwes),
          Quanta(clientEvent))

LEMMA QuantaOwed ==
  ASSUME NEW owed
  PROVE  /\ Quanta(owed) \in {0, Quantum}
         /\ owed => Quanta(owed) = Quantum
         /\ ~owed => Quanta(owed) = 0
BY DEF Quanta

\* A thread found room; nothing grows; a claim becomes the event, the event the
\* client's answer, and the answer a quantum in the queue.
LEMMA CoverArithmetic ==
  ASSUME NEW q \in Nat, NEW c \in {0, Quantum}, NEW w \in {0, Quantum},
         NEW u \in {0, Quantum}, NEW e \in {0, Quantum},
         NEW r \in Nat, NEW c1 \in {0, Quantum}, NEW w1 \in {0, Quantum},
         NEW u1 \in {0, Quantum}, NEW e1 \in {0, Quantum}
  PROVE  /\ q + Quantum <= Target => Covered(q, c1, w1, u1, e1)
         /\ Covered(q, c, w, u, e) =>
              /\ r <= q /\ c1 <= c /\ w1 <= w /\ u1 <= u /\ e1 <= e => Covered(r, c1, w1, u1, e1)
              /\ c = Quantum /\ c1 = 0 => Covered(q, c1, w, u, e1)
              /\ w = Quantum /\ w1 = 0 => Covered(q, c, w1, u, e1)
              /\ u = Quantum /\ u1 = 0 => Covered(q, c, w, u1, e1)
              /\ e = Quantum /\ e1 = 0 => Covered(q, c, w, u1, e1)
              /\ u = Quantum /\ u1 = 0 => Covered(q + Quantum, c, w, u1, e)
              /\ u = Quantum => q + Quantum <= Capacity
BY QueueAssumption, HeadroomAssumption DEF Covered

\* No thread and no event comes to stand for a quantum.
NoNewClaim ==
  /\ ControlClaims' => ControlClaims
  /\ WorkerClaims' => WorkerClaims
  /\ UpdateOwes' => UpdateOwes
  /\ clientEvent' => clientEvent

\* Only a test of the queue, the signal, the client's waking and the publication
\* change who stands for a quantum.
LEMMA NoNewClaimStep ==
  ASSUME Labels, Next
  PROVE  \/ NoNewClaim
         \/ \E t \in Threads : RequestQueue(t) \/ RequestSignal(t)
         \/ ClientWakes \/ Publish
<1> USE DEF NoNewClaim, ControlClaims, WorkerClaims, UpdateOwes, Claims, Answering, Labels,
            OutsideUpdate, Goto, Threads, flags,
            ControlLabels, UpdateLabels, WorkerLabels, Starting, Resetting, Joining,
            Unwinding, Requesting, InUpdate, InFlight
<1> DEFINE Goal ==
      \/ NoNewClaim
      \/ \E t \in Threads : RequestQueue(t) \/ RequestSignal(t)
      \/ ClientWakes \/ Publish
<1> SUFFICES Goal
  OBVIOUS
<1>1. CASE Start
  BY <1>1 DEF Start, EnterControl, OutsideUpdate
<1>2. CASE StartQueue
  BY <1>2 DEF StartQueue
<1>3. CASE StartInner
  BY <1>3 DEF StartInner
<1>4. CASE StartPump
  BY <1>4 DEF StartPump
<1>5. CASE StartRequested
  BY <1>5 DEF StartRequested
<1>6. CASE StartUpdating
  BY <1>6 DEF StartUpdating
<1>7. CASE StartWorker
  BY <1>7 DEF StartWorker
<1>8. CASE StartAbort
  BY <1>8 DEF StartAbort
<1>9. CASE Stop
  BY <1>9 DEF Stop, EnterControl, OutsideUpdate
<1>10. CASE JoinWorkers
  BY <1>10 DEF JoinWorkers, WorkerReturned
<1>11. CASE ClearRequested
  BY <1>11 DEF ClearRequested
<1>12. CASE ClearUpdating
  BY <1>12 DEF ClearUpdating
<1>13. CASE ResetClientEvent
  BY <1>13 DEF ResetClientEvent
<1>14. CASE StopPump
  BY <1>14 DEF StopPump
<1>15. CASE StopInner
  BY <1>15 DEF StopInner
<1>16. CASE Reset
  BY <1>16 DEF Reset, EnterControl, OutsideUpdate
<1>17. CASE ResetQueue
  BY <1>17 DEF ResetQueue
<1>18. CASE BeginUpdatingAudioObjects
  BY <1>18 DEF BeginUpdatingAudioObjects
<1>19. CASE BeginInner
  BY <1>19 DEF BeginInner
<1>20. CASE BeginRequested
  BY <1>20 DEF BeginRequested
<1>21. CASE BeginUpdating
  BY <1>21 DEF BeginUpdating
<1>22. CASE EndUpdatingAudioObjects
  BY <1>22 DEF EndUpdatingAudioObjects
<1>23. CASE EndInner
  BY <1>23 DEF EndInner
<1>24. CASE Write
  BY <1>24 DEF Write
<1>25. CASE EndFlight
  BY <1>25 DEF EndFlight
<1>26. CASE EndUpdating
  BY <1>26 DEF EndUpdating
<1>27. CASE WorkerStops
  BY <1>27 DEF WorkerStops
<1>28. CASE SampleReady
  BY <1>28 DEF SampleReady
<1>29. CASE DrainOnce
  BY <1>29 DEF DrainOnce
<1>30. CASE SetAsyncFailure
  BY <1>30 DEF SetAsyncFailure
<1>31. CASE SignalStop
  BY <1>31 DEF SignalStop
<1>32. ASSUME NEW t \in Threads, RequestCheck(t) PROVE Goal
  BY <1>32 DEF RequestCheck, RequestDone
<1>33. ASSUME NEW t \in Threads, RequestClaim(t) PROVE Goal
  BY <1>33 DEF RequestClaim, RequestDone
<1> HIDE DEF NoNewClaim
<1> QED
  BY <1>1, <1>2, <1>3, <1>4, <1>5, <1>6, <1>7, <1>8, <1>9, <1>10, <1>11, <1>12, <1>13, <1>14,
     <1>15, <1>16, <1>17, <1>18, <1>19, <1>20, <1>21, <1>22, <1>23, <1>24, <1>25, <1>26, <1>27,
     <1>28, <1>29, <1>30, <1>31, <1>32, <1>33
  DEF Next, ControlCall, ControlStep, UpdateStep, WorkerStep, RequestSourceIfNeeded

LEMMA DemandStep ==
  ASSUME Labels, Flags, queued \in Nat, Demand, Next
  PROVE  Demand'
<1> DEFINE c == Quanta(ControlClaims)
           w == Quanta(WorkerClaims)
           u == Quanta(UpdateOwes)
           e == Quanta(clientEvent)
<1>1. /\ Covered(queued, c, w, u, e)
      /\ queued' \in Nat
      /\ queued' <= queued \/ Publish
      /\ {c, w, u, e, c', w', u', e'} \subseteq {0, Quantum}
  BY QueueStep, QuantaOwed DEF Demand
<1>2. SUFFICES Covered(queued', c', w', u', e')
  BY DEF Demand
<1>3. CASE NoNewClaim /\ ~Publish
  <2>1. c' <= c /\ w' <= w /\ u' <= u /\ e' <= e
    BY <1>3, QueueAssumption DEF NoNewClaim, Quanta
  <2> HIDE DEF c, w, u, e
  <2> QED
    BY <1>1, <1>3, <2>1, CoverArithmetic
<1>4. ASSUME NEW t \in Threads, RequestQueue(t) PROVE Covered(queued', c', w', u', e')
  <2>1. CASE NeedsSource
    <3>1. queued' = queued /\ queued + Quantum <= Target
      BY <1>4, <2>1 DEF RequestQueue, NeedsSource
    <3> HIDE DEF c, w, u, e
    <3> QED
      BY <1>1, <3>1, CoverArithmetic
  <2>2. CASE ~NeedsSource
    <3>1. NoNewClaim /\ queued' = queued
      BY <1>4, <2>2 DEF RequestQueue, RequestDone, NoNewClaim, ControlClaims, WorkerClaims,
         UpdateOwes, Claims, Answering, InUpdate, Labels, Goto, Threads
    <3>2. c' <= c /\ w' <= w /\ u' <= u /\ e' <= e
      BY <3>1, QueueAssumption DEF NoNewClaim, Quanta
    <3> HIDE DEF c, w, u, e
    <3> QED
      BY <1>1, <3>1, <3>2, CoverArithmetic
  <2> QED
    BY <2>1, <2>2
<1>5. ASSUME NEW t \in Threads, RequestSignal(t) PROVE Covered(queued', c', w', u', e')
  <2>1. queued' = queued /\ pc[t] = "req_signal"
    BY <1>5 DEF RequestSignal
  <2>2. CASE NoNewClaim
    <3>1. c' <= c /\ w' <= w /\ u' <= u /\ e' <= e
      BY <2>2, QueueAssumption DEF NoNewClaim, Quanta
    <3> HIDE DEF c, w, u, e
    <3> QED
      BY <1>1, <2>1, <3>1, CoverArithmetic
  <2>3. CASE t = "control" /\ ~NoNewClaim
    <3>1. ControlClaims /\ ~ControlClaims' /\ UNCHANGED <<WorkerClaims, UpdateOwes>>
      BY <1>5, <2>1, <2>3 DEF RequestSignal, NoNewClaim, Goto, RequestDone, RequestFailed,
        ControlClaims, WorkerClaims, UpdateOwes, Claims, Answering, InUpdate, Labels, Threads
    <3>2. c = Quantum /\ c' = 0 /\ w' = w /\ u' = u
      BY <3>1, QuantaOwed DEF Quanta
    <3> HIDE DEF c, w, u, e
    <3> QED
      BY <1>1, <2>1, <3>2, CoverArithmetic
  <2>4. CASE t = "worker" /\ ~NoNewClaim
    <3>1. WorkerClaims /\ ~WorkerClaims' /\ UNCHANGED <<ControlClaims, UpdateOwes>>
      BY <1>5, <2>1, <2>4 DEF RequestSignal, NoNewClaim, Goto, RequestDone, RequestFailed,
        ControlClaims, WorkerClaims, UpdateOwes, Claims, Answering, InUpdate, Labels, Threads
    <3>2. w = Quantum /\ w' = 0 /\ c' = c /\ u' = u
      BY <3>1, QuantaOwed DEF Quanta
    <3> HIDE DEF c, w, u, e
    <3> QED
      BY <1>1, <2>1, <3>2, CoverArithmetic
  <2>5. CASE t = "update" /\ ~NoNewClaim
    <3>1. UpdateOwes /\ ~UpdateOwes' /\ UNCHANGED <<ControlClaims, WorkerClaims>>
      BY <1>5, <2>1, <2>5 DEF RequestSignal, NoNewClaim, Goto, RequestDone, RequestFailed,
        ControlClaims, WorkerClaims, UpdateOwes, Claims, Answering, InUpdate, Labels, Threads
    <3>2. u = Quantum /\ u' = 0 /\ c' = c /\ w' = w
      BY <3>1, QuantaOwed DEF Quanta
    <3> HIDE DEF c, w, u, e
    <3> QED
      BY <1>1, <2>1, <3>2, CoverArithmetic
  <2> QED
    BY <2>2, <2>3, <2>4, <2>5 DEF Threads
<1>6. CASE ClientWakes
  <2>1. /\ queued' = queued /\ UNCHANGED <<ControlClaims, WorkerClaims>>
        /\ clientEvent /\ ~clientEvent'
    BY <1>6 DEF ClientWakes, Goto, ControlClaims, WorkerClaims, Labels, Threads
  <2>2. queued' = queued /\ c' = c /\ w' = w /\ e = Quantum /\ e' = 0
    BY <2>1, QuantaOwed DEF Quanta
  <2> HIDE DEF c, w, u, e
  <2> QED
    BY <1>1, <2>2, CoverArithmetic
<1>7. CASE Publish
  <2>1. /\ queued' = queued + Quantum /\ UNCHANGED <<ControlClaims, WorkerClaims, clientEvent>>
        /\ UpdateOwes /\ ~UpdateOwes'
    BY <1>7 DEF Publish, Goto, ControlClaims, WorkerClaims, UpdateOwes, Claims, Answering,
              InUpdate, Labels, Threads
  <2>2. queued' = queued + Quantum /\ c' = c /\ w' = w /\ e' = e /\ u = Quantum /\ u' = 0
    BY <2>1, QuantaOwed DEF Quanta
  <2> HIDE DEF c, w, u, e
  <2> QED
    BY <1>1, <2>2, CoverArithmetic
<1> HIDE DEF c, w, u, e
<1> QED
  BY <1>3, <1>4, <1>5, <1>6, <1>7, NoNewClaimStep

LEMMA CoveredQueue ==
  ASSUME queued \in Nat, Demand
  PROVE  queued \in 0 .. Capacity
<1> DEFINE c == Quanta(ControlClaims)
           w == Quanta(WorkerClaims)
           u == Quanta(UpdateOwes)
           e == Quanta(clientEvent)
<1>1. Covered(queued, c, w, u, e) /\ {c, w, u, e} \subseteq {0, Quantum}
  BY QuantaOwed DEF Demand
<1> HIDE DEF c, w, u, e
<1>2. queued <= Target + 3 * Quantum
  BY <1>1, QueueAssumption DEF Covered
<1> QED
  BY <1>2, QueueAssumption, HeadroomAssumption

LEMMA RoomAtWrite ==
  ASSUME queued \in Nat, Demand, pc["update"] = "write"
  PROVE  RoomForQuantum
<1> DEFINE c == Quanta(ControlClaims)
           w == Quanta(WorkerClaims)
           u == Quanta(UpdateOwes)
           e == Quanta(clientEvent)
<1>1. Covered(queued, c, w, u, e) /\ {c, w, u, e} \subseteq {0, Quantum}
  BY QuantaOwed DEF Demand
<1>2. u = Quantum
  BY QuantaOwed DEF UpdateOwes, Answering
<1> HIDE DEF c, w, u, e
<1> QED
  BY <1>1, <1>2, CoverArithmetic DEF RoomForQuantum

\* A quantum that reaches TryWrite has its room.
LEMMA OverflowStep ==
  ASSUME queued \in Nat, Demand, NoOverflow, Next
  PROVE  NoOverflow'
<1> USE DEF NoOverflow
<1>1. CASE Write
  BY <1>1, RoomAtWrite DEF Write
<1>2. CASE UNCHANGED overflowed \/ StartQueue
  BY <1>2 DEF StartQueue
<1>3. Write \/ UNCHANGED overflowed \/ StartQueue
  BY DEF Next, ControlCall, ControlStep, UpdateStep, WorkerStep, RequestSourceIfNeeded,
         RequestCheck, RequestQueue, RequestClaim, RequestSignal, Start, StartInner, StartPump,
         StartRequested, StartUpdating, StartWorker, StartAbort, Stop, JoinWorkers, ClearRequested,
         ClearUpdating, ResetClientEvent, StopPump, StopInner, Reset, ResetQueue, ClientWakes,
         BeginUpdatingAudioObjects, BeginInner, BeginRequested, BeginUpdating,
         EndUpdatingAudioObjects, EndInner, Publish, EndFlight, EndUpdating, WorkerStops, SampleReady,
         DrainOnce, SetAsyncFailure, SignalStop
<1> QED
  BY <1>1, <1>2, <1>3

-----------------------------------------------------------------------------
(* The object stream's lifecycle.                                            *)

\* No failure reaches the client inside an update.
Faultless == client.serial /\ client.faults \cap {"drain", "set_event"} = {}

\* The object stream is in an update, or in the transport, exactly while the update
\* thread is, and runs only for a provider that runs or is being started or undone.
InnerFollows ==
  Faultless =>
    /\ ~asyncFailed /\ pc["worker"] \notin {"failing", "fail_stop"}
    /\ inner.inUpdate <=> pc["update"] \in InUpdate
    /\ inner.inFlight <=> pc["update"] \in InFlight
    /\ inner.running =>
         \/ outerRunning
         \/ pc["control"] \in Starting \ {"start_queue", "start_inner"}
         \/ pc["control"] \in {"abort_pump", "stop_inner"}
    /\ pc["update"] \in InUpdate \cup InFlight => outerRunning

LEMMA InnerFollowsStep ==
  ASSUME Protocol, Flags, InnerFollows, Next
  PROVE  InnerFollows'
<1> SUFFICES ASSUME Faultless PROVE InnerFollows'
  BY DEF Next, Faultless, InnerFollows
<1> USE DEF InnerFollows, Faultless, Protocol, Labels, Calls, Serial, OutsideUpdate, Flags, Goto, Threads,
            InnerStopped, InnerMayStart, InnerMayStop, InnerMayReset, InnerMayBegin, InnerMayEnd,
            InnerBetweenUpdates, flags,
            ControlLabels, UpdateLabels, WorkerLabels, Starting, Resetting, Joining,
            Unwinding, Requesting, InUpdate, InFlight
<1> UNCHANGED client
  BY DEF Next
<1>1. CASE Start
  BY <1>1 DEF Start, EnterControl, OutsideUpdate
<1>2. CASE StartQueue
  BY <1>2 DEF StartQueue
<1>3. CASE StartInner
  BY <1>3 DEF StartInner
<1>4. CASE StartPump
  BY <1>4 DEF StartPump
<1>5. CASE StartRequested
  BY <1>5 DEF StartRequested
<1>6. CASE StartUpdating
  BY <1>6 DEF StartUpdating
<1>7. CASE StartWorker
  BY <1>7 DEF StartWorker
<1>8. CASE StartAbort
  BY <1>8 DEF StartAbort
<1>9. CASE Stop
  BY <1>9 DEF Stop, EnterControl, OutsideUpdate
<1>10. CASE JoinWorkers
  BY <1>10 DEF JoinWorkers, WorkerReturned
<1>11. CASE ClearRequested
  BY <1>11 DEF ClearRequested
<1>12. CASE ClearUpdating
  BY <1>12 DEF ClearUpdating
<1>13. CASE ResetClientEvent
  BY <1>13 DEF ResetClientEvent
<1>14. CASE StopPump
  BY <1>14 DEF StopPump
<1>15. CASE StopInner
  BY <1>15 DEF StopInner
<1>16. CASE Reset
  BY <1>16 DEF Reset, EnterControl, OutsideUpdate
<1>17. CASE ResetQueue
  BY <1>17 DEF ResetQueue
<1>18. CASE ClientWakes
  BY <1>18 DEF ClientWakes
<1>19. CASE BeginUpdatingAudioObjects
  BY <1>19 DEF BeginUpdatingAudioObjects
<1>20. CASE BeginInner
  BY <1>20 DEF BeginInner
<1>21. CASE BeginRequested
  BY <1>21 DEF BeginRequested
<1>22. CASE BeginUpdating
  BY <1>22 DEF BeginUpdating
<1>23. CASE EndUpdatingAudioObjects
  BY <1>23 DEF EndUpdatingAudioObjects
<1>24. CASE EndInner
  <2>1. InnerMayEnd /\ outerRunning
    BY <1>24 DEF EndInner
  <2>2. /\ pc' = [pc EXCEPT !["update"] = "write"]
        /\ inner' = [inner EXCEPT !.inUpdate = FALSE, !.inFlight = TRUE]
        /\ UNCHANGED <<outerRunning, asyncFailed>>
    BY <1>24, <2>1 DEF EndInner
  <2>3. inner'.running = inner.running /\ ~inner'.inUpdate /\ inner'.inFlight
    BY <2>2
  <2>4. pc'["control"] = pc["control"] /\ pc'["update"] = "write" /\ pc'["worker"] = pc["worker"]
    BY <2>2
  <2> QED
    BY <2>1, <2>2, <2>3, <2>4
<1>25. CASE Write
  BY <1>25 DEF Write
<1>26. CASE Publish
  BY <1>26 DEF Publish
<1>27. CASE EndFlight
  BY <1>27 DEF EndFlight
<1>28. CASE EndUpdating
  BY <1>28 DEF EndUpdating
<1>29. CASE WorkerStops
  BY <1>29 DEF WorkerStops
<1>30. CASE SampleReady
  BY <1>30 DEF SampleReady
<1>31. CASE DrainOnce
  BY <1>31 DEF DrainOnce
<1>32. CASE SetAsyncFailure
  BY <1>32 DEF SetAsyncFailure
<1>33. CASE SignalStop
  BY <1>33 DEF SignalStop
<1>34. ASSUME NEW t \in Threads, RequestCheck(t) PROVE InnerFollows'
  BY <1>34 DEF RequestCheck, RequestDone
<1>35. ASSUME NEW t \in Threads, RequestQueue(t) PROVE InnerFollows'
  BY <1>35 DEF RequestQueue, RequestDone
<1>36. ASSUME NEW t \in Threads, RequestClaim(t) PROVE InnerFollows'
  BY <1>36 DEF RequestClaim, RequestDone
<1>37. ASSUME NEW t \in Threads, RequestSignal(t) PROVE InnerFollows'
  BY <1>37 DEF RequestSignal, RequestDone, RequestFailed
<1> HIDE DEF InnerFollows
<1> QED
  BY <1>1, <1>2, <1>3, <1>4, <1>5, <1>6, <1>7, <1>8, <1>9, <1>10, <1>11,
         <1>12, <1>13, <1>14, <1>15, <1>16, <1>17, <1>18, <1>19, <1>20,
         <1>21, <1>22, <1>23, <1>24, <1>25, <1>26, <1>27, <1>28, <1>29,
         <1>30, <1>31, <1>32, <1>33, <1>34, <1>35, <1>36, <1>37
  DEF Next, ControlCall, ControlStep, UpdateStep, WorkerStep, RequestSourceIfNeeded

-----------------------------------------------------------------------------
(* The invariant and the theorems.                                           *)

IInv == Protocol /\ Flags /\ queued \in Nat /\ Demand /\ NoOverflow /\ InnerFollows

LEMMA InitIInv ==
  ASSUME Init PROVE IInv
<1> USE DEF Init
<1>1. Protocol
  BY DEF Protocol, Labels, Calls, Serial, OutsideUpdate, Threads, ControlLabels, UpdateLabels,
         WorkerLabels, Starting, Resetting
<1>2. Flags /\ NoOverflow /\ queued \in Nat
  BY DEF Flags, NoOverflow
<1>3. Demand
  <2>1. ~ControlClaims /\ ~WorkerClaims /\ ~UpdateOwes /\ ~clientEvent
    BY DEF ControlClaims, WorkerClaims, UpdateOwes, Claims, Answering, InUpdate
  <2>2. Quanta(ControlClaims) = 0 /\ Quanta(WorkerClaims) = 0 /\ Quanta(UpdateOwes) = 0
        /\ Quanta(clientEvent) = 0
    BY <2>1, QuantaOwed
  <2> QED
    BY <2>2, QueueAssumption DEF Demand, Covered
<1>4. InnerFollows
  BY DEF InnerFollows, InUpdate, InFlight
<1> QED
  BY <1>1, <1>2, <1>3, <1>4 DEF IInv

LEMMA IInvStep ==
  ASSUME IInv, [Next]_vars PROVE IInv'
<1>1. CASE Next
  BY <1>1, ProtocolStep, FlagsStep, QueueStep, DemandStep, OverflowStep, InnerFollowsStep
  DEF IInv, Protocol
<1>2. CASE UNCHANGED vars
  BY <1>2 DEF vars, moving, IInv, Protocol, Labels, Calls, Serial, OutsideUpdate, Flags, Demand,
              ControlClaims, WorkerClaims, UpdateOwes, NoOverflow, InnerFollows, Faultless
<1> QED
  BY <1>1, <1>2

\* The invariant: the threads' places, the flags, the demand in flight and the object
\* stream's lifecycle agree in every state, in every interleaving of the three threads.
THEOREM Invariance == Spec => []IInv
BY InitIInv, IInvStep, PTL DEF Spec

\* Every variable keeps its type, and the stereo queue never holds more frames than
\* kProviderQueueFrames.
THEOREM TypeCorrect == Spec => []TypeOK
<1>1. IInv => TypeOK
  <2> SUFFICES ASSUME IInv PROVE TypeOK
    OBVIOUS
  <2>1. queued \in 0 .. Capacity
    BY CoveredQueue DEF IInv
  <2>2. DOMAIN pc = Threads
    BY DEF IInv, Protocol, Labels
  <2> QED
    BY <2>1, <2>2 DEF IInv, Flags, TypeOK
<1> QED
  BY Invariance, <1>1, PTL

\* TryWrite never refuses a quantum: RequestSourceIfNeeded asks for one by the target
\* and not by the capacity, and at most four quanta can be on their way when it does.
THEOREM NoRefusal == Spec => []NoOverflow
<1>1. IInv => NoOverflow
  BY DEF IInv
<1> QED
  BY Invariance, <1>1, PTL

\* Start and Reset empty the queue only while neither TryWrite nor the endpoint's
\* drain is inside it, when the client makes its control calls between its updates.
THEOREM QuietControl == Spec => []QueueControlIsQuiet
<1>1. IInv => QueueControlIsQuiet
  BY DEF IInv, Protocol, Calls, Serial, OutsideUpdate, Starting, Resetting, QueueControlIsQuiet
<1> QED
  BY Invariance, <1>1, PTL

\* However Start and Stop fail half-way, a stopped provider's object stream is stopped
\* and its worker joined, unless a failure reached the client inside an update.
THEOREM Restartable == Spec => []RestartableUnlessDrainFails
<1>1. IInv => RestartableUnlessDrainFails
  BY DEF IInv, Protocol, Calls, Flags, InnerFollows, Faultless, Starting, RestartableUnlessDrainFails,
         StoppedIsRestartable, InnerMayReset, InnerBetweenUpdates
<1> QED
  BY Invariance, <1>1, PTL

=============================================================================
