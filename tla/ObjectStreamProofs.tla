------------------------- MODULE ObjectStreamProofs -------------------------
(***************************************************************************)
(* What the spatial object stream promises, proved for every number of     *)
(* client threads, handles, roles and dynamic objects.                     *)
(*                                                                         *)
(* The inductive invariant IInv has ten parts besides the types: who is at *)
(* the transport (Flight), what the registry holds (Registry), which       *)
(* objects are between the two halves of their activation (Construction),  *)
(* the identities given out (Identities), what the buffers' generations    *)
(* tell (Buffers, Authored) and, for a client with one activating thread,  *)
(* that no role and no more than the capacity is taken (RolesOnce,         *)
(* Capacity); the last two are the properties themselves.  Each part has   *)
(* one lemma for its step.                                                 *)
(***************************************************************************)
EXTENDS ObjectStream, FiniteSetTheorems, FunctionTheorems, SequenceTheorems, 
        WellFoundedInduction, TLAPS

ObjRecords == [state : States, type : Types, id : Nat, active : BOOLEAN,
               lastBufferGeneration : Nat, endOfStream : BOOLEAN,
               position : Positions, volume : Volumes]
ThreadRecords == [pc : {"idle", "processing", "resetting", "constructing"},
                  object : Handles \cup {NoObject}, quantum : Quanta]

\* Thread t is between the two halves of an activation.
Constructing(t) == thread[t].pc = "constructing"

\* At most one thread is inside Process, on the buffers as they are, and no
\* update is open meanwhile.
Flight ==
  /\ \A t \in Processing : transportInFlight /\ thread[t].quantum = planar
  /\ \A t, u \in Processing : t = u
  /\ ~ (inUpdate /\ transportInFlight)
  /\ destroyed => ~inUpdate

\* The registry lists the live objects, each once.
Registry ==
  /\ \A i \in DOMAIN objects : Registered(objects[i])
  /\ \A i, j \in DOMAIN objects : objects[i] = objects[j] => i = j
  /\ \A o \in Handles : Registered(o) => \E i \in DOMAIN objects : objects[i] = o

\* The pending objects are those being constructed, each by one thread.
Construction ==
  /\ \A t \in Threads : Constructing(t) =>
       /\ t \in activators
       /\ thread[t].object \in Handles
       /\ obj[thread[t].object].state = "pending"
  /\ \A t, u \in Threads : Constructing(t) /\ Constructing(u) /\ thread[t].object = thread[u].object => t = u
  /\ \A o \in Handles : obj[o].state = "pending" => \E t \in Threads : Constructing(t) /\ thread[t].object = o

\* No identity has been given out that is not below the next one.
Identities ==
  /\ \A o \in Handles : obj[o].state = "unused" => obj[o] = Unused
  /\ \A o \in Handles : obj[o].id < nextDynamicId
  /\ IdsNeverReused

\* An active object's generation is not ahead of the stream's, and equals it
\* within an update only if GetBuffer was called in that update.
Buffers ==
  /\ \A o \in Handles : Registered(o) /\ obj[o].active => obj[o].lastBufferGeneration <= generation
  /\ \A o \in Handles : obj[o].state = "pending" => obj[o].lastBufferGeneration = 0
  /\ inUpdate => generation > 0
  /\ inUpdate => \A o \in Handles : Contributes(o) => o \in obtained
  /\ OnlyCurrentAudio

\* The object holds its role, or will once it is constructed.
Wanted(o) == obj[o].state = "pending" \/ (Registered(o) /\ obj[o].active)
\* The dynamic objects that count, or will once they are constructed.
DynamicsHeld == {o \in Handles : obj[o].state \in {"pending", "live"} /\ obj[o].type = Dynamic}

\* What GetBuffer granted in the open update contributes to it.
Authored ==
  /\ \A o \in obtained : obj[o].state \in {"live", "released"}
  /\ inUpdate => \A o \in obtained : Registered(o) => Contributes(o)

\* With one activating thread, no role is held twice ...
RolesOnce ==
  OneActivates => \A o, p \in Handles :
    Wanted(o) /\ Wanted(p) /\ obj[o].type = obj[p].type /\ obj[o].type # Dynamic => o = p

\* ... and the capacity is kept.
Capacity ==
  OneActivates => IsFiniteSet(DynamicsHeld) /\ Cardinality(DynamicsHeld) <= MaxDynamic

-----------------------------------------------------------------------------
(* Types.                                                                    *)

LEMMA Constants ==
  /\ NoQuantum \in Quanta /\ Idle \in ThreadRecords /\ Unused \in ObjRecords
<1>1. NoQuantum \in Quanta
  BY DEF NoQuantum, Quanta
<1>2. Idle \in ThreadRecords
  BY <1>1 DEF Idle, ThreadRecords
<1>3. Unused \in ObjRecords
  BY AttributeAssumption DEF Unused, ObjRecords, States, Types, Dynamic
<1>4. QED BY <1>1, <1>2, <1>3

\* A nonempty set of places has a last one: its least upper bound, which
\* exists because < is well founded, is in it.
LEMMA LastExists ==
  ASSUME NEW n \in Nat, NEW T \in SUBSET (1 .. n), T # {}
  PROVE  LastOf(T) \in T /\ \A j \in T : j <= LastOf(T)
<1> DEFINE B == {m \in Nat : \A j \in T : j <= m}
           Less == OpToRel(<, Nat)
<1>1. B \subseteq Nat /\ n \in B
  OBVIOUS
<1>2. PICK m \in B : \A k \in B : ~ (<<k, m>> \in Less)
  <2> HIDE DEF Less, B
  <2>1. IsWellFoundedOn(Less, Nat)
    BY NatLessThanWellFounded DEF Less
  <2>2. QED BY <1>1, <2>1, WFMin, Zenon
<1>3. \A k \in B : ~ (k < m)
  BY <1>2 DEF OpToRel
<1>4. m \in T
  <2>1. PICK j \in T : TRUE
    OBVIOUS
  <2>2. SUFFICES ASSUME m \notin T PROVE FALSE
    OBVIOUS
  <2>3. m \in Nat /\ j <= m /\ j \in 1 .. n
    BY <2>1
  <2>4. m - 1 \in Nat /\ \A k \in T : k <= m - 1
    BY <2>2, <2>3
  <2>5. QED BY <2>4, <1>3
<1>5. QED
  BY <1>4 DEF LastOf

\* EndUpdatingAudioObjects gathers a quantum.
LEMMA GatheredType ==
  ASSUME TypeOK
  PROVE  GatheredQuantum \in Quanta
<1>1. \A r \in Roles : StaticInput(r) \in Handles \cup {NoObject}
  <2> TAKE r \in Roles
  <2>1. CASE FreshPlaces(r) = {}
    BY <2>1 DEF StaticInput
  <2>2. CASE FreshPlaces(r) # {}
    <3>1. Len(objects) \in Nat /\ FreshPlaces(r) \in SUBSET (1 .. Len(objects))
      BY DEF FreshPlaces, TypeOK
    <3>2. LastOf(FreshPlaces(r)) \in FreshPlaces(r)
      BY <3>1, <2>2, LastExists
    <3>3. LastOf(FreshPlaces(r)) \in DOMAIN objects
      BY <3>2 DEF FreshPlaces
    <3>4. QED BY <3>3, <2>2 DEF StaticInput, TypeOK
  <2>3. QED BY <2>1, <2>2
<1>2. \A i \in TakenPlaces : Descriptor(objects[i]) \in [object : Handles, id : Nat, position : Positions]
  BY DEF TakenPlaces, FreshPlaces, Descriptor, TypeOK
<1>3. generation \in Nat
  BY DynamicAssumption DEF TypeOK
<1>4. QED BY <1>1, <1>2, <1>3 DEF GatheredQuantum, Quanta

\* Erasing an object from the registry leaves a registry.
LEMMA UnregisteredType ==
  ASSUME TypeOK, NEW o \in Handles
  PROVE  Unregistered(o) \in Seq(Handles)
<1> DEFINE place == CHOOSE i \in DOMAIN objects : objects[i] = o
           rest(i) == IF i < place THEN objects[i] ELSE objects[i + 1]
<1>0. objects \in Seq(Handles) /\ Len(objects) \in Nat
  BY DEF TypeOK
<1>1. Unregistered(o) = [i \in 1 .. Len(objects) - 1 |-> rest(i)]
  BY DEF Unregistered
<1>2. \A i \in 1 .. Len(objects) - 1 : rest(i) \in Handles
  BY <1>0
<1>3. CASE Len(objects) = 0
  <2> HIDE DEF rest
  <2>1. 1 .. Len(objects) - 1 = 1 .. 0
    BY <1>3
  <2>2. [i \in 1 .. 0 |-> rest(i)] \in Seq(Handles)
    BY IsASeq
  <2>3. QED BY <1>1, <2>1, <2>2
<1>4. CASE Len(objects) # 0
  <2> HIDE DEF rest
  <2>1. Len(objects) - 1 \in Nat
    BY <1>0, <1>4
  <2>2. [i \in 1 .. Len(objects) - 1 |-> rest(i)] \in Seq(Handles)
    BY <2>1, <1>2, IsASeq
  <2>3. QED BY <1>1, <2>2
<1>5. QED BY <1>3, <1>4

\* The types hold initially ...
LEMMA TypeInit == Init => TypeOK
<1> SUFFICES ASSUME Init PROVE TypeOK
  OBVIOUS
<1>1. /\ obj \in [Handles -> ObjRecords] /\ thread \in [Threads -> ThreadRecords]
      /\ planar \in Quanta
  BY Constants DEF Init
<1>2. generation \in 0 .. MaxGeneration /\ nextDynamicId \in Nat \ {0} /\ objects \in Seq(Handles)
  BY DynamicAssumption DEF Init
<1>3. QED
  BY <1>1, <1>2 DEF Init, TypeOK, ObjRecords, ThreadRecords

\* ... and every step keeps them.
LEMMA TypeStep == TypeOK /\ Construction /\ [Next]_vars => TypeOK'
<1> SUFFICES ASSUME TypeOK, Construction, [Next]_vars PROVE TypeOK'
  OBVIOUS
<1>0. /\ activators \in ActivatorSets
      /\ destroyed \in BOOLEAN /\ running \in BOOLEAN
      /\ inUpdate \in BOOLEAN /\ transportInFlight \in BOOLEAN
      /\ generation \in 0 .. MaxGeneration /\ nextDynamicId \in Nat \ {0}
      /\ objects \in Seq(Handles)
      /\ obj \in [Handles -> ObjRecords]
      /\ planar \in Quanta
      /\ thread \in [Threads -> ThreadRecords]
      /\ obtained \subseteq Handles
  BY DEF TypeOK, ObjRecords, ThreadRecords
<1>1. ASSUME NEW t \in Threads, Start(t), UNCHANGED activators PROVE TypeOK'
  BY <1>1 DEF Start, TypeOK
<1>2. ASSUME NEW t \in Threads, Stop(t), UNCHANGED activators PROVE TypeOK'
  BY <1>2 DEF Stop, TypeOK
<1>3. ASSUME NEW t \in Threads, Reset(t), UNCHANGED activators PROVE TypeOK'
  <2>1. \A o \in Handles : Revoked(o) \in ObjRecords
    BY <1>0 DEF Revoked, ObjRecords
  <2>2. [Idle EXCEPT !.pc = "resetting"] \in ThreadRecords
    BY Constants DEF ThreadRecords
  <2>3. /\ obj' \in [Handles -> ObjRecords] /\ thread' \in [Threads -> ThreadRecords]
    BY <1>0, <1>3, <2>1, <2>2 DEF Reset
  <2>4. /\ generation' \in 0 .. MaxGeneration /\ planar' \in Quanta
        /\ nextDynamicId' \in Nat \ {0} /\ objects' \in Seq(Handles) /\ obtained' \subseteq Handles
        /\ UNCHANGED lifecycle
    BY <1>0, <1>3, Constants, DynamicAssumption DEF Reset, IdAfterReset
  <2>5. QED BY <1>0, <1>3, <2>3, <2>4 DEF TypeOK, ObjRecords, ThreadRecords, lifecycle
<1>4. ASSUME NEW t \in Threads, ResetTransport(t), UNCHANGED activators PROVE TypeOK'
  <2>1. thread' \in [Threads -> ThreadRecords]
    BY <1>0, <1>4, Constants DEF ResetTransport
  <2>2. QED BY <1>0, <1>4, <2>1 DEF ResetTransport, TypeOK, ObjRecords, ThreadRecords, lifecycle
<1>5. ASSUME NEW t \in Threads, BeginUpdatingAudioObjects(t), UNCHANGED activators PROVE TypeOK'
  BY <1>5, DynamicAssumption DEF BeginUpdatingAudioObjects, TypeOK
<1>6. ASSUME NEW t \in Threads, EndUpdatingAudioObjects(t), UNCHANGED activators PROVE TypeOK'
  <2>1. \A o \in Handles : Snapshot(o) \in ObjRecords
    BY <1>0 DEF Snapshot, ObjRecords, Contributes, Registered
  <2>2. [Idle EXCEPT !.pc = "processing", !.quantum = GatheredQuantum] \in ThreadRecords
    BY Constants, GatheredType DEF ThreadRecords
  <2>3. /\ obj' \in [Handles -> ObjRecords] /\ thread' \in [Threads -> ThreadRecords]
        /\ planar' \in Quanta
    BY <1>0, <1>6, <2>1, <2>2, GatheredType DEF EndUpdatingAudioObjects
  <2>4. QED BY <1>0, <1>6, <2>3 DEF EndUpdatingAudioObjects, TypeOK, ObjRecords, ThreadRecords
<1>7. ASSUME NEW t \in Threads, ProcessReturns(t), UNCHANGED activators PROVE TypeOK'
  <2>1. thread' \in [Threads -> ThreadRecords]
    BY <1>0, <1>7, Constants DEF ProcessReturns
  <2>2. QED BY <1>0, <1>7, <2>1 DEF ProcessReturns, TypeOK, ObjRecords, ThreadRecords
<1>8. ASSUME NEW t \in Threads, NEW type \in Types, NEW o \in Handles,
             ActivateSpatialAudioObject(t, type, o), UNCHANGED activators
      PROVE  TypeOK'
  <2>1. /\ [Unused EXCEPT !.state = "pending", !.type = type, 
             !.id = IF type = Dynamic THEN nextDynamicId ELSE 0] \in ObjRecords
        /\ [Idle EXCEPT !.pc = "constructing", !.object = o] \in ThreadRecords
    BY <1>0, Constants DEF ObjRecords, ThreadRecords, States
  <2>2. /\ obj' \in [Handles -> ObjRecords] /\ thread' \in [Threads -> ThreadRecords]
        /\ nextDynamicId' \in Nat \ {0}
    BY <1>0, <1>8, <2>1 DEF ActivateSpatialAudioObject, NextId
  <2>3. QED BY <1>0, <1>8, <2>2 DEF ActivateSpatialAudioObject, TypeOK, ObjRecords, ThreadRecords, lifecycle
<1>9. ASSUME NEW t \in Threads, ConstructObject(t), UNCHANGED activators PROVE TypeOK'
  <2>1. thread[t].object \in Handles
    BY <1>9 DEF ConstructObject, Construction, Constructing
  <2>2. \A r \in ObjRecords : [r EXCEPT !.state = "live", !.active = TRUE] \in ObjRecords
    BY DEF ObjRecords, States
  <2>3. Append(objects, thread[t].object) \in Seq(Handles)
    BY <1>0, <2>1
  <2>4. /\ obj' \in [Handles -> ObjRecords] /\ thread' \in [Threads -> ThreadRecords]
        /\ objects' \in Seq(Handles)
    BY <1>0, <1>9, <2>1, <2>2, <2>3, Constants DEF ConstructObject
  <2>5. QED BY <1>0, <1>9, <2>4 DEF ConstructObject, TypeOK, ObjRecords, ThreadRecords, lifecycle
<1>10. ASSUME NEW t \in Threads, ConstructFails(t), UNCHANGED activators PROVE TypeOK'
  <2>1. \A r \in ObjRecords : [r EXCEPT !.state = "released"] \in ObjRecords
    BY DEF ObjRecords, States
  <2>2. obj' \in [Handles -> ObjRecords] /\ thread' \in [Threads -> ThreadRecords]
    BY <1>0, <1>10, <2>1, Constants DEF ConstructFails
  <2>3. QED BY <1>0, <1>10, <2>2 DEF ConstructFails, TypeOK, ObjRecords, ThreadRecords, lifecycle
<1>11. ASSUME NEW t \in Threads, NEW o \in Handles, ObjectCall(t, o), UNCHANGED activators PROVE TypeOK'
  <2>0. generation \in Nat
    BY <1>0, DynamicAssumption
  <2>1. \A r \in ObjRecords : 
          /\ [r EXCEPT !.lastBufferGeneration = generation, !.endOfStream = FALSE] \in ObjRecords
          /\ [r EXCEPT !.endOfStream = TRUE] \in ObjRecords
          /\ \A position \in Positions : [r EXCEPT !.position = position] \in ObjRecords
          /\ \A volume \in Volumes : [r EXCEPT !.volume = volume] \in ObjRecords
          /\ [r EXCEPT !.state = "released", !.active = FALSE] \in ObjRecords
    BY <2>0 DEF ObjRecords, States
  <2>2. CASE GetBuffer(t, o)
    <3>1. obj' \in [Handles -> ObjRecords]
      BY <1>0, <2>1, <2>2 DEF GetBuffer
    <3>2. QED BY <1>0, <1>11, <2>2, <3>1 DEF GetBuffer, TypeOK, ObjRecords, ThreadRecords, lifecycle
  <2>3. CASE SetEndOfStream(t, o)
    <3>1. obj' \in [Handles -> ObjRecords]
      BY <1>0, <2>1, <2>3 DEF SetEndOfStream
    <3>2. QED BY <1>0, <1>11, <2>3, <3>1 DEF SetEndOfStream, TypeOK, ObjRecords, ThreadRecords, lifecycle
  <2>4. ASSUME NEW position \in Positions, SetPosition(t, o, position) PROVE TypeOK'
    <3>1. obj' \in [Handles -> ObjRecords]
      BY <1>0, <2>1, <2>4 DEF SetPosition
    <3>2. QED BY <1>0, <1>11, <2>4, <3>1 DEF SetPosition, TypeOK, ObjRecords, ThreadRecords, lifecycle
  <2>5. ASSUME NEW volume \in Volumes, SetVolume(t, o, volume) PROVE TypeOK'
    <3>1. obj' \in [Handles -> ObjRecords]
      BY <1>0, <2>1, <2>5 DEF SetVolume
    <3>2. QED BY <1>0, <1>11, <2>5, <3>1 DEF SetVolume, TypeOK, ObjRecords, ThreadRecords, lifecycle
  <2>6. CASE ReleaseObject(t, o)
    <3>1. obj' \in [Handles -> ObjRecords]
      BY <1>0, <2>1, <2>6 DEF ReleaseObject
    <3>2. objects' \in Seq(Handles)
      BY <2>6, UnregisteredType DEF ReleaseObject
    <3>3. QED BY <1>0, <1>11, <2>6, <3>1, <3>2 DEF ReleaseObject, TypeOK, ObjRecords, ThreadRecords, lifecycle
  <2>7. QED BY <1>11, <2>2, <2>3, <2>4, <2>5, <2>6 DEF ObjectCall
<1>12. ASSUME NEW t \in Threads, DestroyStream(t), UNCHANGED activators PROVE TypeOK'
  <2>1. \A o \in Handles : Revoked(o) \in ObjRecords
    BY <1>0 DEF Revoked, ObjRecords
  <2>2. obj' \in [Handles -> ObjRecords]
    BY <1>0, <1>12, <2>1 DEF DestroyStream
  <2>3. QED BY <1>0, <1>12, <2>2 DEF DestroyStream, TypeOK, ObjRecords, ThreadRecords
<1>13. CASE UNCHANGED vars
  BY <1>13 DEF vars, lifecycle, TypeOK
<1>14. QED
  BY <1>1, <1>2, <1>3, <1>4, <1>5, <1>6, <1>7, <1>8, <1>9, <1>10, <1>11, <1>12, <1>13 
  DEF Next, StreamCall

-----------------------------------------------------------------------------
(* The parts of the invariant, one lemma for the step of each.               *)

\* Every step keeps Flight: End and Reset refuse while a quantum is at the
\* transport, and the stream is destroyed only when every thread is out.
LEMMA FlightStep == TypeOK /\ Flight /\ Construction /\ [Next]_vars => Flight'
<1> SUFFICES ASSUME TypeOK, Flight, Construction, [Next]_vars PROVE Flight'
  OBVIOUS
<1> DEFINE InProcess(t) == thread[t].pc = "processing"
<1>0. /\ thread \in [Threads -> ThreadRecords]
      /\ inUpdate \in BOOLEAN /\ transportInFlight \in BOOLEAN /\ destroyed \in BOOLEAN
      /\ \A t \in Threads : InProcess(t) => transportInFlight /\ thread[t].quantum = planar
      /\ \A t, u \in Threads : InProcess(t) /\ InProcess(u) => t = u
      /\ ~ (inUpdate /\ transportInFlight) /\ (destroyed => ~inUpdate)
  BY DEF TypeOK, ThreadRecords, Flight, Processing
<1>2. ASSUME UNCHANGED <<thread, planar, transportInFlight, inUpdate, destroyed>> 
      PROVE  Flight'
  BY <1>2 DEF Flight, Processing
<1>3. ASSUME NEW t \in Threads, NEW x \in ThreadRecords, x.pc # "processing",
             thread' = [thread EXCEPT ![t] = x],
             UNCHANGED <<planar, transportInFlight, inUpdate, destroyed>>
      PROVE  Flight'
  <2>1. \A u \in Threads : InProcess(u)' => InProcess(u) /\ thread'[u] = thread[u]
    BY <1>0, <1>3
  <2>2. QED BY <1>0, <1>3, <2>1 DEF Flight, Processing
<1>4. Idle \in ThreadRecords /\ Idle.pc = "idle"
  BY Constants DEF Idle
<1>5. ASSUME NEW t \in Threads, StreamCall(t) PROVE Flight'
  <2>1. CASE Start(t) \/ Stop(t)
    BY <2>1, <1>2 DEF Start, Stop
  <2>2. CASE Reset(t)
    <3>1. ~transportInFlight /\ \A u \in Threads : ~InProcess(u)
      BY <2>2, <1>0 DEF Reset, BetweenUpdates
    <3>2. [Idle EXCEPT !.pc = "resetting"] \in ThreadRecords /\ [Idle EXCEPT !.pc = "resetting"].pc = "resetting"
      BY Constants DEF ThreadRecords
    <3>3. \A u \in Threads : ~InProcess(u)'
      BY <1>0, <2>2, <3>1, <3>2 DEF Reset
    <3>4. QED BY <1>0, <2>2, <3>3 DEF Reset, lifecycle, Flight, Processing
  <2>3. CASE ResetTransport(t)
    BY <2>3, <1>3, <1>4 DEF ResetTransport, lifecycle
  <2>4. CASE BeginUpdatingAudioObjects(t)
    <3>1. ~transportInFlight /\ ~destroyed
      BY <2>4 DEF BeginUpdatingAudioObjects, BetweenUpdates
    <3>2. QED BY <1>0, <2>4, <3>1 DEF BeginUpdatingAudioObjects, Flight, Processing
  <2>5. CASE EndUpdatingAudioObjects(t)
    <3>1. ~transportInFlight /\ \A u \in Threads : ~InProcess(u)
      BY <2>5, <1>0 DEF EndUpdatingAudioObjects, Updating
    <3>2. /\ \A u \in Threads : u # t => thread'[u] = thread[u]
          /\ thread'[t].quantum = planar'
      BY <1>0, <2>5, <1>4 DEF EndUpdatingAudioObjects, Idle
    <3>3. \A u \in Threads : InProcess(u)' => u = t
      BY <3>1, <3>2
    <3>4. QED BY <1>0, <2>5, <3>2, <3>3 DEF EndUpdatingAudioObjects, Flight, Processing
  <2>6. CASE ProcessReturns(t)
    <3>1. \A u \in Threads : ~InProcess(u)'
      BY <1>0, <2>6, <1>4 DEF ProcessReturns
    <3>2. QED BY <1>0, <2>6, <3>1 DEF ProcessReturns, Flight, Processing
  <2>7. ASSUME NEW type \in Types, NEW o \in Handles, ActivateSpatialAudioObject(t, type, o) 
        PROVE  Flight'
    <3>1. /\ [Idle EXCEPT !.pc = "constructing", !.object = o] \in ThreadRecords
          /\ [Idle EXCEPT !.pc = "constructing", !.object = o].pc = "constructing"
      BY Constants DEF ThreadRecords
    <3>2. QED BY <2>7, <1>3, <3>1 DEF ActivateSpatialAudioObject, lifecycle
  <2>8. CASE ConstructObject(t) 
    BY <2>8, <1>3, <1>4 DEF ConstructObject, lifecycle
  <2>9. CASE ConstructFails(t)
    BY <2>9, <1>3, <1>4 DEF ConstructFails, lifecycle
  <2>10. CASE DestroyStream(t)
    <3>1. \A u \in Threads : thread[u] = Idle
      BY <2>10 DEF DestroyStream, Free
    <3>2. \A u \in Threads : ~InProcess(u)'
      BY <2>10, <3>1, <1>4 DEF DestroyStream
    <3>3. QED BY <1>0, <2>10, <3>2 DEF DestroyStream, Flight, Processing
  <2>11. QED
    BY <1>5, <2>1, <2>2, <2>3, <2>4, <2>5, <2>6, <2>7, <2>8, <2>9, <2>10 DEF StreamCall
<1>6. ASSUME NEW t \in Threads, NEW o \in Handles, ObjectCall(t, o) PROVE Flight'
  BY <1>6, <1>2 DEF ObjectCall, GetBuffer, SetEndOfStream, SetPosition, SetVolume, ReleaseObject, lifecycle
<1>7. CASE UNCHANGED vars
  BY <1>7, <1>2 DEF vars, lifecycle
<1>8. QED
  BY <1>5, <1>6, <1>7 DEF Next

\* Every step keeps Construction.
LEMMA ConstructionStep == TypeOK /\ Construction /\ Flight /\ [Next]_vars => Construction'
<1> SUFFICES ASSUME TypeOK, Construction, Flight, [Next]_vars PROVE Construction'
  OBVIOUS
<1> DEFINE state(o) == obj[o].state
<1>0. /\ thread \in [Threads -> ThreadRecords]
      /\ obj \in [Handles -> ObjRecords]
      /\ UNCHANGED activators
      /\ Idle \in ThreadRecords /\ Idle.pc = "idle"
  BY Constants DEF TypeOK, ThreadRecords, ObjRecords, Next, vars, Idle
<1>1. /\ \A t \in Threads : Constructing(t) => 
           t \in activators /\ thread[t].object \in Handles /\ state(thread[t].object) = "pending"
      /\ \A t, u \in Threads : 
           Constructing(t) /\ Constructing(u) /\ thread[t].object = thread[u].object => t = u
      /\ \A o \in Handles : state(o) = "pending" => 
           \E t \in Threads : Constructing(t) /\ thread[t].object = o
  BY DEF Construction
\* Nobody constructs more or less than before, and nothing pending changes.
<1>2. ASSUME \A t \in Threads : /\ Constructing(t)' <=> Constructing(t)
                                /\ Constructing(t) => thread'[t].object = thread[t].object,
             \A o \in Handles : (state(o) = "pending") <=> (state(o)' = "pending")
      PROVE  Construction'
  BY <1>0, <1>1, <1>2 DEF Construction
\* Only thread t is concerned, and it neither was nor is constructing.
<1>3. ASSUME NEW t \in Threads, ~Constructing(t), NEW x \in ThreadRecords, x.pc # "constructing",
             thread' = [thread EXCEPT ![t] = x],
             \A o \in Handles : (state(o) = "pending") <=> (state(o)' = "pending")
      PROVE  Construction'
  BY <1>0, <1>2, <1>3 DEF Constructing
\* Thread t finishes constructing its object.
<1>4. ASSUME NEW t \in Threads, Constructing(t), 
             thread' = [thread EXCEPT ![t] = Idle],
             \A o \in Handles : 
               (state(o)' = "pending") <=> (state(o) = "pending" /\ o # thread[t].object)
      PROVE  Construction'
  <2>1. \A u \in Threads : /\ Constructing(u)' <=> (Constructing(u) /\ u # t)
                           /\ u # t => thread'[u] = thread[u]
    BY <1>0, <1>4 DEF Constructing
  <2>2. QED BY <1>0, <1>1, <1>4, <2>1 DEF Construction
<1>5. ASSUME NEW t \in Threads, StreamCall(t) PROVE Construction'
  <2>1. CASE Start(t) \/ Stop(t) \/ BeginUpdatingAudioObjects(t)
    BY <2>1, <1>2 DEF Start, Stop, BeginUpdatingAudioObjects, Constructing
  <2>2. CASE Reset(t)
    <3>1. [Idle EXCEPT !.pc = "resetting"] \in ThreadRecords /\ [Idle EXCEPT !.pc = "resetting"].pc = "resetting"
      BY Constants DEF ThreadRecords
    <3>2. \A o \in Handles : state(o)' = state(o)
      BY <1>0, <2>2 DEF Reset, Revoked, ObjRecords
    <3>3. ~Constructing(t)
      BY <1>0, <2>2 DEF Reset, Free, Constructing
    <3>4. QED BY <2>2, <1>3, <3>1, <3>2, <3>3 DEF Reset
  <2>3. CASE ResetTransport(t) \/ ProcessReturns(t)
    <3>1. ~Constructing(t)
      BY <2>3 DEF ResetTransport, ProcessReturns, Constructing
    <3>2. QED BY <2>3, <3>1, <1>0, <1>3 DEF ResetTransport, ProcessReturns
  <2>4. CASE EndUpdatingAudioObjects(t)
    <3>1. /\ [Idle EXCEPT !.pc = "processing", !.quantum = GatheredQuantum] \in ThreadRecords 
          /\ [Idle EXCEPT !.pc = "processing", !.quantum = GatheredQuantum].pc = "processing"
      BY Constants, GatheredType DEF ThreadRecords
    <3>2. \A o \in Handles : state(o)' = state(o)
      BY <1>0, <2>4 DEF EndUpdatingAudioObjects, Snapshot, ObjRecords
    <3>3. ~Constructing(t)
      BY <1>0, <2>4 DEF EndUpdatingAudioObjects, Free, Constructing
    <3>4. QED BY <2>4, <1>3, <3>1, <3>2, <3>3 DEF EndUpdatingAudioObjects
  <2>5. ASSUME NEW type \in Types, NEW o \in Handles, ActivateSpatialAudioObject(t, type, o) 
        PROVE  Construction'
    <3>1. /\ t \in activators /\ state(o) = "unused" /\ ~Constructing(t)
          /\ thread' = [thread EXCEPT ![t] = [Idle EXCEPT !.pc = "constructing", !.object = o]]
      BY <1>0, <2>5 DEF ActivateSpatialAudioObject, Free, Constructing
    <3>2. \A p \in Handles : state(p)' = IF p = o THEN "pending" ELSE state(p)
      BY <1>0, <2>5 DEF ActivateSpatialAudioObject, Unused
    <3>3. /\ \A u \in Threads : u # t => thread'[u] = thread[u]
          /\ Constructing(t)' /\ thread'[t].object = o
      BY <1>0, <3>1 DEF Constructing, Idle
    <3>4. \A u \in Threads : u # t => (Constructing(u)' <=> Constructing(u))
      BY <3>3 DEF Constructing
    <3>5. \A u \in Threads : Constructing(u) => u # t /\ thread[u].object # o
      BY <1>1, <3>1
    <3>6. \A p \in Handles : p # o /\ state(p)' = "pending" => state(p) = "pending"
      BY <3>2
    <3>7. \A u \in Threads : Constructing(u)' => 
            u \in activators' /\ thread'[u].object \in Handles /\ state(thread[u].object)' = "pending"
      BY <1>0, <1>1, <3>1, <3>2, <3>3, <3>4, <3>5
    <3>8. \A u, w \in Threads : 
           Constructing(u)' /\ Constructing(w)' /\ thread'[u].object = thread'[w].object => u = w
      BY <1>1, <3>3, <3>4, <3>5
    <3>9. \A p \in Handles : state(p)' = "pending" => 
            \E u \in Threads : Constructing(u)' /\ thread'[u].object = p
      BY <1>1, <3>3, <3>4, <3>5, <3>6
    <3>10. QED BY <3>7, <3>8, <3>9 DEF Construction
  <2>6. CASE ConstructObject(t) \/ ConstructFails(t)
    <3>1. Constructing(t) /\ thread[t].object \in Handles
      BY <1>1, <2>6 DEF ConstructObject, ConstructFails, Constructing
    <3>2. \A o \in Handles : 
            /\ o # thread[t].object => state(o)' = state(o)
            /\ o = thread[t].object => state(o)' # "pending"
      BY <1>0, <2>6, <3>1 DEF ConstructObject, ConstructFails, ObjRecords
    <3>3. thread' = [thread EXCEPT ![t] = Idle]
      BY <2>6 DEF ConstructObject, ConstructFails
    <3>4. QED BY <1>4, <3>1, <3>2, <3>3
  <2>7. CASE DestroyStream(t)
    <3>1. \A o \in Handles : state(o)' = state(o)
      BY <1>0, <2>7 DEF DestroyStream, Revoked, ObjRecords
    <3>2. QED BY <2>7, <3>1, <1>2 DEF DestroyStream, Constructing
  <2>8. QED
    BY <1>5, <2>1, <2>2, <2>3, <2>4, <2>5, <2>6, <2>7 DEF StreamCall
<1>6. ASSUME NEW t \in Threads, NEW o \in Handles, ObjectCall(t, o) PROVE Construction'
  <2>1. UNCHANGED thread
    BY <1>6 DEF ObjectCall, GetBuffer, SetEndOfStream, SetPosition, SetVolume, ReleaseObject
  <2>2. state(o) = "live"
    BY <1>6 DEF ObjectCall, GetBuffer, SetEndOfStream, SetPosition, SetVolume, ReleaseObject, 
                MayAuthor, Registered
  <2>3. /\ \A p \in Handles : p # o => state(p)' = state(p)
        /\ state(o)' \in {"live", "released"}
    BY <1>0, <1>6, <2>2 DEF ObjectCall, GetBuffer, SetEndOfStream, SetPosition, SetVolume, ReleaseObject, ObjRecords
  <2>4. QED BY <1>2, <2>1, <2>2, <2>3 DEF Constructing
<1>7. CASE UNCHANGED vars
  BY <1>7, <1>2 DEF vars, Constructing
<1>8. QED
  BY <1>5, <1>6, <1>7 DEF Next

\* Which handles are live changes only when a constructor or a destructor runs.
LEMMA StatesKept ==
  ASSUME TypeOK, NEW t \in Threads,
         \/ Start(t) \/ Stop(t) \/ Reset(t) \/ ResetTransport(t) \/ BeginUpdatingAudioObjects(t)
         \/ EndUpdatingAudioObjects(t) \/ ProcessReturns(t) \/ DestroyStream(t)
         \/ \E o \in Handles : \/ GetBuffer(t, o) \/ SetEndOfStream(t, o)
                               \/ \E position \in Positions : SetPosition(t, o, position)
                               \/ \E volume \in Volumes : SetVolume(t, o, volume)
  PROVE  /\ UNCHANGED <<objects, nextDynamicId>>
         /\ \A o \in Handles : /\ obj'[o].state = obj[o].state
                               /\ obj'[o].id = obj[o].id
                               /\ obj'[o].type = obj[o].type
                               /\ obj[o].state # "live" => obj'[o] = obj[o]
<1>0. obj \in [Handles -> ObjRecords]
  BY DEF TypeOK, ObjRecords
<1>1. CASE Start(t) \/ Stop(t) \/ ResetTransport(t) \/ BeginUpdatingAudioObjects(t) \/ ProcessReturns(t)
  BY <1>1 DEF Start, Stop, ResetTransport, BeginUpdatingAudioObjects, ProcessReturns
<1>2. CASE Reset(t) \/ DestroyStream(t)
  BY <1>0, <1>2 DEF Reset, DestroyStream, Revoked, Registered, ObjRecords, IdAfterReset
<1>3. CASE EndUpdatingAudioObjects(t)
  BY <1>0, <1>3 DEF EndUpdatingAudioObjects, Snapshot, Registered, ObjRecords
<1>4. ASSUME NEW o \in Handles,
             \/ GetBuffer(t, o) \/ SetEndOfStream(t, o)
             \/ \E position \in Positions : SetPosition(t, o, position)
             \/ \E volume \in Volumes : SetVolume(t, o, volume)
      PROVE  /\ UNCHANGED <<objects, nextDynamicId>>
             /\ \A p \in Handles : /\ obj'[p].state = obj[p].state
                                   /\ obj'[p].id = obj[p].id
                                   /\ obj'[p].type = obj[p].type
                                   /\ obj[p].state # "live" => obj'[p] = obj[p]
  <2>1. MayAuthor(t, o) /\ UNCHANGED <<objects, nextDynamicId>>
    BY <1>4 DEF GetBuffer, SetEndOfStream, SetPosition, SetVolume
  <2>2. obj[o].state = "live"
    BY <2>1 DEF MayAuthor, Registered
  <2>3. \A p \in Handles : p # o => obj'[p] = obj[p]
    BY <1>0, <1>4 DEF GetBuffer, SetEndOfStream, SetPosition, SetVolume
  <2>4. obj'[o].state = obj[o].state /\ obj'[o].id = obj[o].id /\ obj'[o].type = obj[o].type
    BY <1>0, <1>4 DEF GetBuffer, SetEndOfStream, SetPosition, SetVolume, ObjRecords
  <2>5. QED BY <2>1, <2>2, <2>3, <2>4
<1>5. QED BY <1>1, <1>2, <1>3, <1>4

\* Erasing an object leaves all the others, each once.
LEMMA UnregisteredElements ==
  ASSUME TypeOK, Registry, NEW o \in Handles, Registered(o)
  PROVE  LET rest == Unregistered(o) IN
         /\ \A i \in DOMAIN rest : rest[i] # o /\ Registered(rest[i])
         /\ \A i, j \in DOMAIN rest : rest[i] = rest[j] => i = j
         /\ \A p \in Handles : Registered(p) /\ p # o => \E i \in DOMAIN rest : rest[i] = p
<1> DEFINE place == CHOOSE i \in DOMAIN objects : objects[i] = o
           rest == Unregistered(o)
           n == Len(objects)
<1>1. /\ objects \in Seq(Handles) /\ n \in Nat /\ DOMAIN objects = 1 .. n
      /\ place \in 1 .. n /\ objects[place] = o
  BY DEF TypeOK, Registry
<1>2. \A i, j \in 1 .. n : objects[i] = objects[j] => i = j
  BY <1>1 DEF Registry
<1>3. /\ DOMAIN rest = 1 .. n - 1
      /\ \A i \in 1 .. n - 1 : rest[i] = IF i < place THEN objects[i] ELSE objects[i + 1]
  BY DEF Unregistered
<1> HIDE DEF place, rest, n
<1>4. \A i \in 1 .. n - 1 : 
        \E k \in 1 .. n : /\ rest[i] = objects[k] /\ k # place
                          /\ k = IF i < place THEN i ELSE i + 1
  <2> TAKE i \in 1 .. n - 1
  <2>1. CASE i < place
    BY <2>1, <1>1, <1>3
  <2>2. CASE ~ (i < place)
    <3>1. i + 1 \in 1 .. n /\ i + 1 # place
      BY <2>2, <1>1
    <3>2. QED BY <3>1, <2>2, <1>3
  <2>3. QED BY <2>1, <2>2
<1>5. \A i \in DOMAIN rest : rest[i] # o /\ Registered(rest[i])
  <2> TAKE i \in DOMAIN rest
  <2>1. PICK k \in 1 .. n : rest[i] = objects[k] /\ k # place
    BY <1>3, <1>4
  <2>2. rest[i] # o
    BY <2>1, <1>1, <1>2
  <2>3. Registered(objects[k])
    BY <2>1, <1>1 DEF Registry
  <2>4. QED BY <2>1, <2>2, <2>3
<1>6. \A i, j \in DOMAIN rest : rest[i] = rest[j] => i = j
  <2> TAKE i, j \in DOMAIN rest
  <2> HAVE rest[i] = rest[j]
  <2>1. i \in 1 .. n - 1 /\ j \in 1 .. n - 1
    BY <1>3
  <2>2. PICK k \in 1 .. n : rest[i] = objects[k] /\ k = IF i < place THEN i ELSE i + 1
    BY <1>4, <2>1
  <2>3. PICK l \in 1 .. n : rest[j] = objects[l] /\ l = IF j < place THEN j ELSE j + 1
    BY <1>4, <2>1
  <2>4. k = l
    BY <1>2, <2>2, <2>3
  <2>5. QED BY <2>1, <2>2, <2>3, <2>4, <1>1
<1>7. \A p \in Handles : Registered(p) /\ p # o => \E i \in DOMAIN rest : rest[i] = p
  <2> TAKE p \in Handles
  <2> HAVE Registered(p) /\ p # o
  <2>1. PICK k \in 1 .. n : objects[k] = p
    BY <1>1 DEF Registry
  <2>2. k # place
    BY <2>1, <1>1
  <2>3. CASE k < place
    <3>1. k \in 1 .. n - 1
      BY <2>3, <1>1
    <3>2. QED BY <3>1, <2>1, <2>3, <1>3
  <2>4. CASE place < k
    <3>1. k - 1 \in 1 .. n - 1 /\ ~ (k - 1 < place) /\ (k - 1) + 1 = k
      BY <2>4, <1>1
    <3>2. QED BY <3>1, <2>1, <1>3
  <2>5. QED BY <2>1, <2>2, <2>3, <2>4, <1>1
<1>8. QED BY <1>5, <1>6, <1>7 DEF rest

\* Every step keeps Registry.
LEMMA RegistryStep == TypeOK /\ Construction /\ Registry /\ [Next]_vars => Registry'
<1> SUFFICES ASSUME TypeOK, Construction, Registry, [Next]_vars PROVE Registry'
  OBVIOUS
<1>0. /\ obj \in [Handles -> ObjRecords] /\ objects \in Seq(Handles)
  BY DEF TypeOK, ObjRecords
<1>1. ASSUME UNCHANGED objects, \A o \in Handles : (obj'[o].state = "live") <=> (obj[o].state = "live")
      PROVE  Registry'
  <2>1. \A i \in DOMAIN objects : objects[i] \in Handles
    BY <1>0
  <2>2. QED BY <1>1, <2>1 DEF Registry, Registered
<1>2. ASSUME NEW t \in Threads, StreamCall(t) PROVE Registry'
  <2>1. ASSUME NEW type \in Types, NEW o \in Handles, ActivateSpatialAudioObject(t, type, o) 
        PROVE  Registry'
    <3>1. UNCHANGED objects /\ obj[o].state = "unused"
      BY <2>1 DEF ActivateSpatialAudioObject
    <3>2. obj'[o].state = "pending" /\ \A p \in Handles : p # o => obj'[p] = obj[p]
      BY <1>0, <2>1 DEF ActivateSpatialAudioObject, Unused
    <3>3. QED BY <3>1, <3>2, <1>1
  <2>2. CASE ConstructObject(t)
    <3> DEFINE o == thread[t].object
               n == Len(objects)
    <3>1. o \in Handles /\ obj[o].state = "pending"
      BY <2>2 DEF ConstructObject, Construction, Constructing
    <3>2. objects' = Append(objects, o)
      BY <2>2 DEF ConstructObject
    <3>3. obj'[o].state = "live" /\ \A p \in Handles : p # o => obj'[p] = obj[p]
      BY <1>0, <2>2, <3>1 DEF ConstructObject, ObjRecords
    <3> HIDE DEF o
    <3>4. /\ n \in Nat /\ DOMAIN objects = 1 .. n /\ DOMAIN objects' = 1 .. n + 1
          /\ \A i \in 1 .. n : objects'[i] = objects[i] /\ objects[i] \in Handles
          /\ objects'[n + 1] = o
      BY <1>0, <3>1, <3>2
    <3> HIDE DEF n
    <3>5. \A i \in 1 .. n : objects[i] # o
      BY <3>1, <3>4 DEF Registry, Registered
    <3>6. \A i \in 1 .. n + 1 : i \in 1 .. n \/ i = n + 1
      BY <3>4
    <3>7. \A i \in DOMAIN objects' : Registered(objects[i])'
      BY <3>3, <3>4, <3>5, <3>6 DEF Registry, Registered
    <3>8. \A i, j \in DOMAIN objects' : objects'[i] = objects'[j] => i = j
      BY <3>4, <3>5, <3>6 DEF Registry
    <3>9. \A p \in Handles : Registered(p)' => \E i \in DOMAIN objects' : objects'[i] = p
      <4> TAKE p \in Handles
      <4> HAVE Registered(p)'
      <4>1. CASE p = o
        <5>1. n + 1 \in DOMAIN objects'
          BY <3>4
        <5>2. QED BY <4>1, <5>1, <3>4
      <4>2. CASE p # o
        <5>1. PICK i \in 1 .. n : objects[i] = p
          BY <4>2, <3>3, <3>4 DEF Registry, Registered
        <5>2. i \in DOMAIN objects' /\ objects'[i] = p
          BY <5>1, <3>4
        <5>3. QED BY <5>2
      <4>3. QED BY <4>1, <4>2
    <3>10. QED BY <3>7, <3>8, <3>9 DEF Registry
  <2>3. CASE ConstructFails(t)
    <3>1. thread[t].object \in Handles /\ obj[thread[t].object].state = "pending"
      BY <2>3 DEF ConstructFails, Construction, Constructing
    <3>2. /\ obj'[thread[t].object].state = "released" 
          /\ \A p \in Handles : p # thread[t].object => obj'[p] = obj[p]
          /\ UNCHANGED objects
      BY <1>0, <2>3, <3>1 DEF ConstructFails, ObjRecords
    <3>3. QED BY <1>1, <3>1, <3>2
  <2>4. CASE \/ Start(t) \/ Stop(t) \/ Reset(t) \/ ResetTransport(t) \/ BeginUpdatingAudioObjects(t)
             \/ EndUpdatingAudioObjects(t) \/ ProcessReturns(t) \/ DestroyStream(t)
    BY <2>4, <1>1, StatesKept
  <2>5. QED BY <1>2, <2>1, <2>2, <2>3, <2>4 DEF StreamCall
<1>3. ASSUME NEW t \in Threads, NEW o \in Handles, ObjectCall(t, o) PROVE Registry'
  <2>1. CASE ReleaseObject(t, o)
    <3>1. Registered(o) /\ objects' = Unregistered(o)
      BY <2>1 DEF ReleaseObject
    <3>2. obj'[o].state = "released" /\ \A p \in Handles : p # o => obj'[p] = obj[p]
      BY <1>0, <2>1 DEF ReleaseObject, ObjRecords
    <3>3. \A i \in DOMAIN objects' : objects'[i] \in Handles
      BY <3>1, UnregisteredType, ElementOfSeq
    <3>4. /\ \A i \in DOMAIN objects' : objects'[i] # o /\ Registered(objects'[i])
          /\ \A i, j \in DOMAIN objects' : objects'[i] = objects'[j] => i = j
          /\ \A p \in Handles : Registered(p) /\ p # o => \E i \in DOMAIN objects' : objects'[i] = p
      BY <3>1, UnregisteredElements
    <3>5. \A p \in Handles : Registered(p)' <=> Registered(p) /\ p # o
      BY <3>2 DEF Registered
    <3>6. QED BY <3>3, <3>4, <3>5 DEF Registry
  <2>2. CASE ~ReleaseObject(t, o)
    BY <2>2, <1>3, <1>1, StatesKept DEF ObjectCall
  <2>3. QED BY <2>1, <2>2
<1>4. CASE UNCHANGED vars
  BY <1>4, <1>1 DEF vars
<1>5. QED
  BY <1>2, <1>3, <1>4 DEF Next

\* Every step keeps Identities: Reset does not start them over.
LEMMA IdentitiesStep == TypeOK /\ Construction /\ Identities /\ [Next]_vars => Identities'
<1> SUFFICES ASSUME TypeOK, Construction, Identities, [Next]_vars PROVE Identities'
  OBVIOUS
<1>0. obj \in [Handles -> ObjRecords] /\ nextDynamicId \in Nat \ {0}
  BY DEF TypeOK, ObjRecords
<1>1. ASSUME UNCHANGED nextDynamicId,
             \A o \in Handles : /\ obj'[o].id = obj[o].id /\ obj'[o].type = obj[o].type
                                /\ obj'[o].state = "unused" => obj'[o] = obj[o]
      PROVE  Identities'
  BY <1>1 DEF Identities, IdsNeverReused
<1>2. ASSUME NEW t \in Threads, StreamCall(t) PROVE Identities'
  <2>1. ASSUME NEW type \in Types, NEW o \in Handles, ActivateSpatialAudioObject(t, type, o) 
        PROVE  Identities'
    <3>1. obj[o].state = "unused" /\ \A p \in Handles : p # o => obj'[p] = obj[p]
      BY <1>0, <2>1 DEF ActivateSpatialAudioObject
    <3>2. obj'[o].state = "pending" /\ obj'[o].type = type
          /\ obj'[o].id = IF type = Dynamic THEN nextDynamicId ELSE 0
      BY <1>0, <2>1 DEF ActivateSpatialAudioObject, Unused
    <3>3. nextDynamicId' = IF type = Dynamic THEN nextDynamicId + 1 ELSE nextDynamicId
      BY <2>1 DEF ActivateSpatialAudioObject, NextId
    <3>4. \A p \in Handles : obj[p].id \in Nat /\ obj[p].id < nextDynamicId
      BY <1>0 DEF Identities, ObjRecords
    <3>5. \A p \in Handles : obj'[p].state = "unused" => obj'[p] = Unused
      BY <3>1, <3>2 DEF Identities
    <3>6. \A p \in Handles : obj'[p].id < nextDynamicId'
      <4> TAKE p \in Handles
      <4>1. CASE p = o
        BY <4>1, <3>2, <3>3, <1>0
      <4>2. CASE p # o
        BY <4>2, <3>1, <3>3, <3>4, <1>0
      <4>3. QED BY <4>1, <4>2
    <3>7. \A p \in Handles : p # o /\ obj'[o].id # 0 => obj'[p].id # obj'[o].id
      BY <3>1, <3>2, <3>4, <1>0
    <3>8. IdsNeverReused'
      <4>1. SUFFICES ASSUME NEW p \in Handles, NEW q \in Handles, p # q,
                            obj'[p].type = Dynamic, obj'[p].id # 0,
                            obj'[q].type = Dynamic, obj'[q].id # 0
                     PROVE  obj'[p].id # obj'[q].id
        BY DEF IdsNeverReused
      <4>2. CASE p = o \/ q = o
        BY <4>1, <4>2, <3>7
      <4>3. CASE p # o /\ q # o
        BY <4>1, <4>3, <3>1 DEF Identities, IdsNeverReused
      <4>4. QED BY <4>2, <4>3
    <3>9. QED BY <3>5, <3>6, <3>8 DEF Identities
  <2>2. CASE ConstructObject(t) \/ ConstructFails(t)
    <3> DEFINE o == thread[t].object
    <3>1. o \in Handles /\ UNCHANGED nextDynamicId
      BY <2>2 DEF ConstructObject, ConstructFails, Construction, Constructing
    <3>2. /\ obj'[o].state # "unused" /\ obj'[o].id = obj[o].id /\ obj'[o].type = obj[o].type
          /\ \A p \in Handles : p # o => obj'[p] = obj[p]
      <4>1. CASE ConstructObject(t)
        BY <1>0, <4>1, <3>1 DEF ConstructObject, ObjRecords
      <4>2. CASE ConstructFails(t)
        BY <1>0, <4>2, <3>1 DEF ConstructFails, ObjRecords
      <4>3. QED BY <2>2, <4>1, <4>2
    <3> HIDE DEF o
    <3>3. QED BY <1>1, <3>1, <3>2
  <2>3. CASE \/ Start(t) \/ Stop(t) \/ Reset(t) \/ ResetTransport(t) \/ BeginUpdatingAudioObjects(t)
             \/ EndUpdatingAudioObjects(t) \/ ProcessReturns(t) \/ DestroyStream(t)
    BY <2>3, <1>1, StatesKept
  <2>4. QED BY <1>2, <2>1, <2>2, <2>3 DEF StreamCall
<1>3. ASSUME NEW t \in Threads, NEW o \in Handles, ObjectCall(t, o) PROVE Identities'
  <2>1. CASE ReleaseObject(t, o)
    <3>1. UNCHANGED nextDynamicId
      BY <2>1 DEF ReleaseObject
    <3>2. /\ obj'[o].state # "unused" /\ obj'[o].id = obj[o].id /\ obj'[o].type = obj[o].type
          /\ \A p \in Handles : p # o => obj'[p] = obj[p]
      BY <1>0, <2>1 DEF ReleaseObject, ObjRecords
    <3>3. QED BY <1>1, <3>1, <3>2
  <2>2. CASE ~ReleaseObject(t, o)
    BY <2>2, <1>3, <1>1, StatesKept DEF ObjectCall
  <2>3. QED BY <2>1, <2>2
<1>4. CASE UNCHANGED vars
  BY <1>4, <1>1 DEF vars
<1>5. QED
  BY <1>2, <1>3, <1>4 DEF Next

\* Everything in a quantum contributed to it.
LEMMA GatheredContribute ==
  ASSUME TypeOK, NEW o \in ObjectsOf(GatheredQuantum)
  PROVE  o \in Handles /\ Contributes(o)
<1>0. /\ objects \in Seq(Handles) /\ Len(objects) \in Nat /\ DOMAIN objects = 1 .. Len(objects)
      /\ NoObject \notin Handles
  BY ObjectAssumption DEF TypeOK
<1>1. CASE \E r \in Roles : o = StaticInput(r) /\ o # NoObject
  <2>1. PICK r \in Roles : o = StaticInput(r) /\ o # NoObject
    BY <1>1
  <2>2. FreshPlaces(r) # {} /\ o = objects[LastOf(FreshPlaces(r))]
    BY <2>1 DEF StaticInput
  <2>3. FreshPlaces(r) \in SUBSET (1 .. Len(objects))
    BY <1>0 DEF FreshPlaces
  <2>4. LastOf(FreshPlaces(r)) \in FreshPlaces(r)
    BY <1>0, <2>2, <2>3, LastExists
  <2>5. QED BY <1>0, <2>2, <2>4 DEF FreshPlaces
<1>2. CASE \E i \in TakenPlaces : o = Descriptor(objects[i]).object
  BY <1>0, <1>2 DEF TakenPlaces, FreshPlaces, Descriptor
<1>3. QED
  BY <1>1, <1>2 DEF ObjectsOf, GatheredQuantum

\* Every step keeps Buffers: Reset, which starts the generations over, leaves
\* no registered object active.
LEMMA BuffersStep == 
  TypeOK /\ Construction /\ Flight /\ Identities /\ Buffers /\ [Next]_vars => Buffers'
<1> SUFFICES ASSUME TypeOK, Construction, Flight, Identities, Buffers, [Next]_vars PROVE Buffers'
  OBVIOUS
<1>0. /\ obj \in [Handles -> ObjRecords] /\ thread \in [Threads -> ThreadRecords]
      /\ generation \in Nat /\ inUpdate \in BOOLEAN /\ transportInFlight \in BOOLEAN
      /\ Idle \in ThreadRecords /\ Idle.pc = "idle"
  BY Constants, DynamicAssumption DEF TypeOK, ObjRecords, ThreadRecords, Idle
\* No object gains audio, and nobody enters Process.
<1>1. ASSUME UNCHANGED <<generation, obtained>>, inUpdate' => inUpdate,
             \A o \in Handles : 
               /\ obj'[o].state = "live" /\ obj'[o].active =>
                    \/ obj'[o].lastBufferGeneration = 0
                    \/ /\ obj[o].state = "live" /\ obj[o].active
                       /\ obj'[o].lastBufferGeneration = obj[o].lastBufferGeneration
               /\ obj'[o].state = "pending" => 
                    \/ obj'[o].lastBufferGeneration = 0
                    \/ /\ obj[o].state = "pending" 
                       /\ obj'[o].lastBufferGeneration = obj[o].lastBufferGeneration,
             \A t \in Threads : thread'[t].pc = "processing" => thread'[t] = thread[t]
      PROVE  Buffers'
  <2>1. OnlyCurrentAudio'
    BY <1>1 DEF Buffers, OnlyCurrentAudio, Processing, ObjectsOf
  <2>2. inUpdate => \A o \in Handles : Contributes(o)' => Contributes(o)
    BY <1>0, <1>1 DEF Contributes, Registered, Buffers
  <2>3. \A o \in Handles : Registered(o)' /\ obj'[o].active => obj'[o].lastBufferGeneration <= generation'
    BY <1>0, <1>1 DEF Registered, Buffers
  <2>4. QED BY <1>1, <2>1, <2>2, <2>3 DEF Buffers
<1>2. ASSUME NEW t \in Threads, StreamCall(t) PROVE Buffers'
  <2>1. CASE Start(t) \/ Stop(t)
    BY <2>1, <1>1 DEF Start, Stop
  <2>2. CASE Reset(t)
    <3>1. ~inUpdate' /\ generation' = 0
      BY <2>2 DEF Reset, BetweenUpdates, lifecycle
    <3>2. \A o \in Handles : ~ (Registered(o)' /\ obj'[o].active)
      BY <1>0, <2>2 DEF Reset, Revoked, Registered, ObjRecords
    <3>3. \A o \in Handles : obj'[o].state = "pending" => obj'[o] = obj[o]
      BY <1>0, <2>2 DEF Reset, Revoked, Registered, ObjRecords
    <3>4. [Idle EXCEPT !.pc = "resetting"].pc = "resetting"
      BY <1>0 DEF ThreadRecords
    <3>5. \A u \in Threads : thread'[u].pc = "processing" => thread'[u] = thread[u]
      BY <2>2, <1>0, <3>4 DEF Reset
    <3>6. OnlyCurrentAudio'
      BY <2>2, <3>5 DEF Reset, Buffers, OnlyCurrentAudio, Processing, ObjectsOf
    <3>7. QED BY <3>1, <3>2, <3>3, <3>6 DEF Buffers
  <2>3. CASE ResetTransport(t)
    <3>1. \A u \in Threads : thread'[u].pc = "processing" => thread'[u] = thread[u]
      BY <2>3, <1>0 DEF ResetTransport
    <3>2. QED BY <2>3, <3>1, <1>1 DEF ResetTransport, lifecycle
  <2>4. CASE BeginUpdatingAudioObjects(t)
    <3>1. /\ generation' = generation + 1 /\ UNCHANGED <<obj, thread>>
          /\ \A u \in Threads : thread[u].pc # "processing"
      BY <2>4 DEF BeginUpdatingAudioObjects, BetweenUpdates, Flight, Processing
    <3>2. \A o \in Handles : Registered(o)' /\ obj'[o].active => 
                             obj'[o].lastBufferGeneration <= generation /\ obj'[o].lastBufferGeneration \in Nat
      BY <1>0, <3>1 DEF Buffers, Registered, ObjRecords
    <3>3. \A o \in Handles : ~Contributes(o)'
      BY <1>0, <3>1, <3>2 DEF Contributes
    <3>4. OnlyCurrentAudio'
      BY <3>1 DEF OnlyCurrentAudio, Processing
    <3>5. \A o \in Handles : Registered(o)' /\ obj'[o].active => obj'[o].lastBufferGeneration <= generation'
      BY <1>0, <3>1, <3>2
    <3>6. QED BY <1>0, <3>1, <3>3, <3>4, <3>5 DEF Buffers
  <2>5. CASE EndUpdatingAudioObjects(t)
    <3>1. /\ inUpdate /\ ~transportInFlight /\ ~inUpdate' /\ UNCHANGED <<generation, obtained>>
          /\ thread' = [thread EXCEPT ![t] = [Idle EXCEPT !.pc = "processing", !.quantum = GatheredQuantum]]
      BY <2>5 DEF EndUpdatingAudioObjects, Updating
    <3>2. ObjectsOf(GatheredQuantum) \subseteq obtained
      BY <3>1, GatheredContribute DEF Buffers
    <3>3. \A u \in Threads : u # t => thread'[u] = thread[u] /\ thread[u].pc # "processing"
      BY <1>0, <3>1 DEF Flight, Processing
    <3>4. thread'[t].quantum = GatheredQuantum
      BY <1>0, <3>1 DEF Idle
    <3>5. OnlyCurrentAudio'
      <4>1. SUFFICES ASSUME NEW u \in Threads, thread'[u].pc = "processing"
                     PROVE  ObjectsOf(thread'[u].quantum) \subseteq obtained'
        BY DEF OnlyCurrentAudio, Processing, ObjectsOf
      <4>2. u = t
        BY <4>1, <3>3
      <4>3. QED BY <4>2, <3>1, <3>2, <3>4
    <3>6. \A o \in Handles : /\ obj'[o].state = obj[o].state
                             /\ obj'[o].lastBufferGeneration = obj[o].lastBufferGeneration
                             /\ obj[o].state = "live" /\ obj'[o].active => obj[o].active
      <4>1. \A o \in Handles : obj'[o] = Snapshot(o)
        BY <2>5 DEF EndUpdatingAudioObjects
      <4>2. QED BY <1>0, <4>1 DEF Snapshot, Contributes, Registered, ObjRecords
    <3>7. \A o \in Handles : Registered(o)' /\ obj'[o].active => Registered(o) /\ obj[o].active
      BY <3>6 DEF Registered
    <3>8. QED BY <3>1, <3>5, <3>6, <3>7 DEF Buffers
  <2>6. CASE ProcessReturns(t)
    <3>1. \A u \in Threads : thread'[u].pc = "processing" => thread'[u] = thread[u]
      BY <2>6, <1>0 DEF ProcessReturns
    <3>2. QED BY <2>6, <3>1, <1>1 DEF ProcessReturns
  <2>7. ASSUME NEW type \in Types, NEW o \in Handles, ActivateSpatialAudioObject(t, type, o) 
        PROVE  Buffers'
    <3>1. obj'[o].state = "pending" /\ obj'[o].lastBufferGeneration = 0
          /\ \A p \in Handles : p # o => obj'[p] = obj[p]
      BY <1>0, <2>7 DEF ActivateSpatialAudioObject, Unused
    <3>2. \A u \in Threads : thread'[u].pc = "processing" => thread'[u] = thread[u]
      BY <2>7, <1>0 DEF ActivateSpatialAudioObject, Idle
    <3>3. UNCHANGED <<generation, obtained, inUpdate>>
      BY <2>7 DEF ActivateSpatialAudioObject, lifecycle
    <3>4. QED BY <3>1, <3>2, <3>3, <1>1
  <2>8. CASE ConstructObject(t) \/ ConstructFails(t)
    <3> DEFINE o == thread[t].object
    <3>1. o \in Handles /\ obj[o].state = "pending" /\ obj[o].lastBufferGeneration = 0
      BY <2>8 DEF ConstructObject, ConstructFails, Construction, Constructing, Buffers
    <3>2. /\ \A p \in Handles : p # o => obj'[p] = obj[p]
          /\ obj'[o].lastBufferGeneration = 0
      <4>1. CASE ConstructObject(t)
        BY <1>0, <4>1, <3>1 DEF ConstructObject, ObjRecords
      <4>2. CASE ConstructFails(t)
        BY <1>0, <4>2, <3>1 DEF ConstructFails, ObjRecords
      <4>3. QED BY <2>8, <4>1, <4>2
    <3>3. \A u \in Threads : thread'[u].pc = "processing" => thread'[u] = thread[u]
      BY <2>8, <1>0 DEF ConstructObject, ConstructFails
    <3>4. UNCHANGED <<generation, obtained, inUpdate>>
      BY <2>8 DEF ConstructObject, ConstructFails, lifecycle
    <3> HIDE DEF o
    <3>5. QED BY <3>2, <3>3, <3>4, <1>1
  <2>9. CASE DestroyStream(t)
    <3>1. \A o \in Handles : ~ (Registered(o)' /\ obj'[o].active)
      BY <1>0, <2>9 DEF DestroyStream, Revoked, Registered, ObjRecords
    <3>2. \A o \in Handles : obj'[o].state = "pending" => obj'[o] = obj[o]
      BY <1>0, <2>9 DEF DestroyStream, Revoked, Registered, ObjRecords
    <3>3. ~inUpdate' /\ UNCHANGED <<generation, obtained, thread>>
      BY <2>9 DEF DestroyStream
    <3>4. QED BY <3>1, <3>2, <3>3, <1>1 DEF Registered
  <2>10. QED
    BY <1>2, <2>1, <2>2, <2>3, <2>4, <2>5, <2>6, <2>7, <2>8, <2>9 DEF StreamCall
<1>3. ASSUME NEW t \in Threads, NEW o \in Handles, ObjectCall(t, o) PROVE Buffers'
  <2>1. CASE GetBuffer(t, o)
    <3>1. /\ inUpdate /\ ~transportInFlight /\ obtained' = obtained \cup {o} /\ Registered(o)
          /\ UNCHANGED <<generation, thread, inUpdate>>
      BY <2>1 DEF GetBuffer, MayAuthor, Updating, lifecycle
    <3>2. /\ obj'[o].state = "live" /\ obj'[o].lastBufferGeneration = generation
          /\ \A p \in Handles : p # o => obj'[p] = obj[p]
      BY <1>0, <2>1, <3>1 DEF GetBuffer, Registered, ObjRecords
    <3>3. OnlyCurrentAudio'
      BY <3>1 DEF Buffers, OnlyCurrentAudio, Processing, ObjectsOf
    <3>4. \A p \in Handles : Contributes(p)' => p \in obtained'
      BY <3>1, <3>2 DEF Contributes, Registered, Buffers
    <3>5. \A p \in Handles : Registered(p)' /\ obj'[p].active => obj'[p].lastBufferGeneration <= generation'
      BY <1>0, <3>1, <3>2 DEF Registered, Buffers
    <3>6. \A p \in Handles : obj'[p].state = "pending" => obj'[p].lastBufferGeneration = 0
      BY <3>2 DEF Buffers
    <3>7. QED BY <3>1, <3>3, <3>4, <3>5, <3>6 DEF Buffers
  <2>2. CASE ~GetBuffer(t, o)
    <3>1. UNCHANGED <<generation, obtained, thread, inUpdate>> /\ Registered(o)
      BY <1>3, <2>2 DEF ObjectCall, SetEndOfStream, SetPosition, SetVolume, ReleaseObject, lifecycle, MayAuthor
    <3>2. /\ \A p \in Handles : p # o => obj'[p] = obj[p]
          /\ obj'[o].lastBufferGeneration = obj[o].lastBufferGeneration
          /\ obj'[o].state \in {"live", "released"}
          /\ obj'[o].active => obj[o].active
      BY <1>0, <1>3, <2>2, <3>1 
      DEF ObjectCall, SetEndOfStream, SetPosition, SetVolume, ReleaseObject, Registered, ObjRecords
    <3>3. QED BY <1>1, <3>1, <3>2 DEF Registered
  <2>3. QED BY <2>1, <2>2
<1>4. CASE UNCHANGED vars
  BY <1>4, <1>1 DEF vars, lifecycle
<1>5. QED
  BY <1>2, <1>3, <1>4 DEF Next

\* Every step keeps Authored: within an update nothing retires an object.
LEMMA AuthoredStep == 
  TypeOK /\ Construction /\ Authored /\ [Next]_vars => Authored'
<1> SUFFICES ASSUME TypeOK, Construction, Authored, [Next]_vars PROVE Authored'
  OBVIOUS
<1>0. /\ obj \in [Handles -> ObjRecords] /\ obtained \subseteq Handles
      /\ generation \in Nat /\ inUpdate \in BOOLEAN
  BY DynamicAssumption DEF TypeOK, ObjRecords
<1>1. ASSUME UNCHANGED obtained,
             \A o \in obtained : obj'[o].state \in {"live", "released"},
             inUpdate' => /\ inUpdate /\ UNCHANGED generation
                          /\ \A o \in obtained : obj'[o].state = "live" => 
                               /\ obj[o].state = "live" /\ obj'[o].active = obj[o].active
                               /\ obj'[o].lastBufferGeneration = obj[o].lastBufferGeneration
      PROVE  Authored'
  BY <1>0, <1>1 DEF Authored, Contributes, Registered
<1>2. ASSUME NEW t \in Threads, StreamCall(t) PROVE Authored'
  <2>1. CASE Start(t) \/ Stop(t) \/ ResetTransport(t) \/ ProcessReturns(t)
    BY <2>1, <1>0, <1>1 DEF Start, Stop, ResetTransport, ProcessReturns, lifecycle, Authored
  <2>2. CASE Reset(t) \/ EndUpdatingAudioObjects(t) \/ DestroyStream(t)
    <3>1. \A o \in Handles : obj'[o].state = obj[o].state
      BY <2>2, StatesKept
    <3>2. UNCHANGED obtained /\ ~inUpdate'
      BY <2>2 DEF Reset, EndUpdatingAudioObjects, DestroyStream, BetweenUpdates, lifecycle
    <3>3. QED BY <1>0, <1>1, <3>1, <3>2 DEF Authored
  <2>3. CASE BeginUpdatingAudioObjects(t)
    BY <2>3 DEF BeginUpdatingAudioObjects, Authored
  <2>4. ASSUME NEW type \in Types, NEW o \in Handles, ActivateSpatialAudioObject(t, type, o) 
        PROVE  Authored'
    <3>1. obj[o].state = "unused" /\ \A p \in Handles : p # o => obj'[p] = obj[p]
      BY <1>0, <2>4 DEF ActivateSpatialAudioObject
    <3>2. UNCHANGED <<generation, obtained, inUpdate>>
      BY <2>4 DEF ActivateSpatialAudioObject, lifecycle
    <3>3. \A p \in obtained : p # o /\ p \in Handles
      BY <1>0, <3>1 DEF Authored
    <3>4. QED BY <3>1, <3>2, <3>3, <1>1 DEF Authored
  <2>5. CASE ConstructObject(t) \/ ConstructFails(t)
    <3> DEFINE o == thread[t].object
    <3>1. o \in Handles /\ obj[o].state = "pending" 
      BY <2>5 DEF ConstructObject, ConstructFails, Construction, Constructing
    <3>2. \A p \in Handles : p # o => obj'[p] = obj[p]
      BY <1>0, <2>5, <3>1 DEF ConstructObject, ConstructFails
    <3>3. UNCHANGED <<generation, obtained, inUpdate>>
      BY <2>5 DEF ConstructObject, ConstructFails, lifecycle
    <3> HIDE DEF o
    <3>4. \A p \in obtained : p # o /\ p \in Handles
      BY <1>0, <3>1 DEF Authored
    <3>5. QED BY <3>2, <3>3, <3>4, <1>1 DEF Authored
  <2>6. QED
    BY <1>2, <2>1, <2>2, <2>3, <2>4, <2>5 DEF StreamCall
<1>3. ASSUME NEW t \in Threads, NEW o \in Handles, ObjectCall(t, o) PROVE Authored'
  <2>1. CASE GetBuffer(t, o)
    <3>1. /\ obtained' = obtained \cup {o} /\ Registered(o) /\ obj[o].active 
          /\ UNCHANGED <<generation, inUpdate>>
      BY <2>1 DEF GetBuffer, MayAuthor, lifecycle
    <3>2. /\ obj'[o].state = "live" /\ obj'[o].lastBufferGeneration = generation /\ obj'[o].active
          /\ \A p \in Handles : p # o => obj'[p] = obj[p]
      BY <1>0, <2>1, <3>1 DEF GetBuffer, Registered, ObjRecords
    <3>3. \A p \in obtained' : p = o \/ (p \in obtained /\ obj'[p] = obj[p])
      BY <1>0, <3>1, <3>2
    <3>4. \A p \in obtained' : obj'[p].state \in {"live", "released"}
      BY <3>2, <3>3 DEF Authored
    <3>5. inUpdate' => \A p \in obtained' : Registered(p)' => Contributes(p)'
      BY <3>1, <3>2, <3>3 DEF Authored, Contributes, Registered
    <3>6. QED BY <3>4, <3>5 DEF Authored
  <2>2. CASE ~GetBuffer(t, o)
    <3>1. UNCHANGED <<generation, obtained, inUpdate>> /\ Registered(o)
      BY <1>3, <2>2 DEF ObjectCall, SetEndOfStream, SetPosition, SetVolume, ReleaseObject, lifecycle, MayAuthor
    <3>2. /\ \A p \in Handles : p # o => obj'[p] = obj[p]
          /\ obj'[o].lastBufferGeneration = obj[o].lastBufferGeneration
          /\ obj'[o].state \in {"live", "released"}
          /\ obj'[o].state = "live" => obj'[o].active = obj[o].active
      BY <1>0, <1>3, <2>2, <3>1 
      DEF ObjectCall, SetEndOfStream, SetPosition, SetVolume, ReleaseObject, Registered, ObjRecords
    <3>3. QED BY <1>0, <1>1, <3>1, <3>2 DEF Registered, Authored
  <2>3. QED BY <2>1, <2>2
<1>4. CASE UNCHANGED vars
  BY <1>4, <1>0, <1>1 DEF vars, lifecycle, Authored
<1>5. QED
  BY <1>2, <1>3, <1>4 DEF Next

\* While the one thread that activates is free, no object is being constructed.
LEMMA NothingPending ==
  ASSUME TypeOK, Construction, OneActivates, NEW t \in activators, Free(t), NEW o \in Handles
  PROVE  obj[o].state # "pending"
<1>1. IsFiniteSet(activators)
  BY ThreadsAssumption, FS_Subset DEF TypeOK
<1>2. PICK x : activators = {x}
  BY <1>1, FS_Singleton DEF OneActivates
<1>3. ~Constructing(t)
  BY DEF Free, Idle, Constructing
<1>4. QED BY <1>2, <1>3 DEF Construction

\* Every step keeps RolesOnce.
LEMMA RolesOnceStep == 
  TypeOK /\ Construction /\ RolesOnce /\ [Next]_vars => RolesOnce'
<1> SUFFICES ASSUME TypeOK, Construction, RolesOnce, [Next]_vars PROVE RolesOnce'
  OBVIOUS
<1>0. /\ obj \in [Handles -> ObjRecords] /\ UNCHANGED activators
  BY DEF TypeOK, ObjRecords, Next, vars
\* No object comes to be wanted.
<1>1. ASSUME \A o \in Handles : Wanted(o)' => Wanted(o) /\ obj'[o].type = obj[o].type
      PROVE  RolesOnce'
  BY <1>0, <1>1 DEF RolesOnce, OneActivates
<1>2. ASSUME NEW t \in Threads, StreamCall(t) PROVE RolesOnce'
  <2>1. CASE Start(t) \/ Stop(t) \/ ResetTransport(t) \/ ProcessReturns(t) \/ BeginUpdatingAudioObjects(t)
    BY <2>1, <1>1 
    DEF Start, Stop, ResetTransport, ProcessReturns, BeginUpdatingAudioObjects, Wanted, Registered
  <2>2. CASE Reset(t) \/ DestroyStream(t)
    BY <1>0, <2>2, <1>1 DEF Reset, DestroyStream, Revoked, Wanted, Registered, ObjRecords
  <2>3. CASE EndUpdatingAudioObjects(t)
    <3>1. \A o \in Handles : obj'[o] = Snapshot(o)
      BY <2>3 DEF EndUpdatingAudioObjects
    <3>2. \A o \in Handles : Wanted(o)' => Wanted(o) /\ obj'[o].type = obj[o].type
      BY <1>0, <3>1 DEF Snapshot, Contributes, Wanted, Registered, ObjRecords
    <3>3. QED BY <1>1, <3>2
  <2>4. ASSUME NEW type \in Types, NEW o \in Handles, ActivateSpatialAudioObject(t, type, o), OneActivates
        PROVE  RolesOnce'
    <3>1. /\ t \in activators /\ Free(t) /\ (type # Dynamic => RoleFree(type))
          /\ \A p \in Handles : p # o => obj'[p] = obj[p]
          /\ obj'[o].type = type
      BY <1>0, <2>4 DEF ActivateSpatialAudioObject, Unused
    <3>2. \A p \in Handles : obj[p].state # "pending"
      BY <2>4, <3>1, NothingPending
    <3>3. \A p \in Handles : p # o /\ Wanted(p)' /\ obj'[p].type # Dynamic => obj'[p].type # type
      BY <3>1, <3>2 DEF Wanted, Registered, RoleFree
    <3>4. \A p \in Handles : p # o => (Wanted(p)' <=> Wanted(p))
      BY <3>1 DEF Wanted, Registered
    <3>5. QED BY <1>0, <3>1, <3>3, <3>4 DEF RolesOnce, OneActivates
  <2>5. CASE ConstructObject(t) \/ ConstructFails(t)
    <3> DEFINE o == thread[t].object
    <3>1. o \in Handles /\ obj[o].state = "pending" 
      BY <2>5 DEF ConstructObject, ConstructFails, Construction, Constructing
    <3>2. \A p \in Handles : p # o => obj'[p] = obj[p]
      BY <1>0, <2>5, <3>1 DEF ConstructObject, ConstructFails
    <3>3. obj'[o].type = obj[o].type
      <4>1. CASE ConstructObject(t)
        BY <1>0, <4>1, <3>1 DEF ConstructObject, ObjRecords
      <4>2. CASE ConstructFails(t)
        BY <1>0, <4>2, <3>1 DEF ConstructFails, ObjRecords
      <4>3. QED BY <2>5, <4>1, <4>2
    <3> HIDE DEF o
    <3>4. QED BY <3>1, <3>2, <3>3, <1>1 DEF Wanted, Registered
  <2>6. QED
    BY <1>0, <1>2, <2>1, <2>2, <2>3, <2>4, <2>5 DEF StreamCall, RolesOnce, OneActivates
<1>3. ASSUME NEW t \in Threads, NEW o \in Handles, ObjectCall(t, o) PROVE RolesOnce'
  <2>1. /\ \A p \in Handles : p # o => obj'[p] = obj[p]
        /\ obj'[o].type = obj[o].type
        /\ obj[o].state = "live" /\ obj'[o].state \in {"live", "released"}
        /\ obj'[o].active => obj[o].active
    BY <1>0, <1>3 
    DEF ObjectCall, GetBuffer, SetEndOfStream, SetPosition, SetVolume, ReleaseObject, MayAuthor, 
        Registered, ObjRecords
  <2>2. QED BY <1>1, <2>1 DEF Wanted, Registered
<1>4. CASE UNCHANGED vars
  BY <1>4, <1>1 DEF vars, Wanted, Registered
<1>5. QED
  BY <1>2, <1>3, <1>4 DEF Next

\* Every step keeps Capacity.
LEMMA CapacityStep == 
  TypeOK /\ Construction /\ Capacity /\ [Next]_vars => Capacity'
<1> SUFFICES ASSUME TypeOK, Construction, Capacity, [Next]_vars, OneActivates
             PROVE  IsFiniteSet(DynamicsHeld)' /\ Cardinality(DynamicsHeld)' <= MaxDynamic
  BY DEF Capacity, OneActivates, Next, vars
<1> DEFINE Bounded(S) == IsFiniteSet(S) /\ Cardinality(S) <= MaxDynamic
<1>0. /\ obj \in [Handles -> ObjRecords] /\ MaxDynamic \in Nat /\ Bounded(DynamicsHeld)
  BY DynamicAssumption DEF TypeOK, ObjRecords, Capacity
<1>1. ASSUME NEW S \in SUBSET DynamicsHeld PROVE Bounded(S)
  <2>1. IsFiniteSet(S) /\ Cardinality(S) <= Cardinality(DynamicsHeld)
    BY <1>0, FS_Subset
  <2>2. Cardinality(S) \in Nat /\ Cardinality(DynamicsHeld) \in Nat
    BY <1>0, <2>1, FS_CardinalityType
  <2>3. QED BY <1>0, <2>1, <2>2
<1>2. ASSUME \A o \in Handles : 
               obj'[o].state \in {"pending", "live"} /\ obj'[o].type = Dynamic =>
               obj[o].state \in {"pending", "live"} /\ obj[o].type = Dynamic
      PROVE  Bounded(DynamicsHeld')
  <2>1. DynamicsHeld' \in SUBSET DynamicsHeld
    BY <1>2 DEF DynamicsHeld
  <2>2. QED BY <1>1, <2>1
<1>3. ASSUME NEW t \in Threads, StreamCall(t) PROVE Bounded(DynamicsHeld')
  <2>1. ASSUME NEW type \in Types, NEW o \in Handles, ActivateSpatialAudioObject(t, type, o)
        PROVE  Bounded(DynamicsHeld')
    <3>1. /\ t \in activators /\ Free(t) /\ (type = Dynamic => RoomForDynamic)
          /\ \A p \in Handles : p # o => obj'[p] = obj[p]
          /\ obj'[o].type = type
      BY <1>0, <2>1 DEF ActivateSpatialAudioObject, Unused
    <3>2. CASE type # Dynamic
      BY <3>1, <3>2, <1>2
    <3>3. CASE type = Dynamic
      <4>1. DynamicsHeld = LiveDynamic
        BY <3>1, NothingPending DEF DynamicsHeld, LiveDynamic, Registered
      <4>2. DynamicsHeld' \in SUBSET (DynamicsHeld \cup {o})
        BY <3>1 DEF DynamicsHeld
      <4>3. Cardinality(DynamicsHeld) < MaxDynamic
        BY <3>1, <3>3, <4>1 DEF RoomForDynamic
      <4>4. /\ IsFiniteSet(DynamicsHeld \cup {o})
            /\ Cardinality(DynamicsHeld) \in Nat
            /\ Cardinality(DynamicsHeld \cup {o}) = 
                 IF o \in DynamicsHeld THEN Cardinality(DynamicsHeld) ELSE Cardinality(DynamicsHeld) + 1
        BY <1>0, FS_AddElement, FS_CardinalityType
      <4>5. Cardinality(DynamicsHeld \cup {o}) \in Nat /\ Cardinality(DynamicsHeld \cup {o}) <= MaxDynamic
        BY <1>0, <4>3, <4>4
      <4>6. /\ IsFiniteSet(DynamicsHeld') 
            /\ Cardinality(DynamicsHeld') <= Cardinality(DynamicsHeld \cup {o})
        BY <4>2, <4>4, FS_Subset
      <4>7. Cardinality(DynamicsHeld') \in Nat
        BY <4>6, FS_CardinalityType
      <4>8. QED BY <1>0, <4>5, <4>6, <4>7
    <3>4. QED BY <3>2, <3>3
  <2>2. CASE ConstructObject(t) \/ ConstructFails(t)
    <3> DEFINE o == thread[t].object
    <3>1. o \in Handles /\ obj[o].state = "pending" 
      BY <2>2 DEF ConstructObject, ConstructFails, Construction, Constructing
    <3>2. \A p \in Handles : p # o => obj'[p] = obj[p]
      BY <1>0, <2>2, <3>1 DEF ConstructObject, ConstructFails
    <3>3. obj'[o].type = obj[o].type
      <4>1. CASE ConstructObject(t)
        BY <1>0, <4>1, <3>1 DEF ConstructObject, ObjRecords
      <4>2. CASE ConstructFails(t)
        BY <1>0, <4>2, <3>1 DEF ConstructFails, ObjRecords
      <4>3. QED BY <2>2, <4>1, <4>2
    <3> HIDE DEF o
    <3>4. QED BY <3>1, <3>2, <3>3, <1>2
  <2>3. CASE \/ Start(t) \/ Stop(t) \/ Reset(t) \/ ResetTransport(t) \/ BeginUpdatingAudioObjects(t)
             \/ EndUpdatingAudioObjects(t) \/ ProcessReturns(t) \/ DestroyStream(t)
    BY <2>3, <1>2, StatesKept
  <2>4. QED BY <1>3, <2>1, <2>2, <2>3 DEF StreamCall
<1>4. ASSUME NEW t \in Threads, NEW o \in Handles, ObjectCall(t, o) PROVE Bounded(DynamicsHeld')
  <2>1. CASE ReleaseObject(t, o)
    <3>1. /\ \A p \in Handles : p # o => obj'[p] = obj[p]
          /\ obj'[o].state = "released"
      BY <1>0, <2>1 DEF ReleaseObject, ObjRecords
    <3>2. QED BY <1>2, <3>1
  <2>2. CASE ~ReleaseObject(t, o)
    BY <2>2, <1>4, <1>2, StatesKept DEF ObjectCall
  <2>3. QED BY <2>1, <2>2
<1>5. CASE UNCHANGED vars
  BY <1>5, <1>2 DEF vars
<1>6. QED
  BY <1>3, <1>4, <1>5 DEF Next

\* Within the capacity the descriptor array is never full before the end of
\* the registry: no object is passed over.
LEMMA NothingPassedOver ==
  ASSUME TypeOK, Registry, Capacity, OneActivates,
         NEW i \in DOMAIN objects, obj[objects[i]].type = Dynamic
  PROVE  ~FullBefore(i)
<1> DEFINE S == {j \in FreshPlaces(Dynamic) : j < i} \cup {i}
           f == [j \in S |-> objects[j]]
<1>0. /\ objects \in Seq(Handles) /\ DOMAIN objects = 1 .. Len(objects) /\ Len(objects) \in Nat
      /\ MaxDynamic \in Nat
  BY DynamicAssumption DEF TypeOK
<1>1. \A j \in S : j \in DOMAIN objects /\ obj[objects[j]].type = Dynamic
  BY DEF FreshPlaces
<1>2. f \in [S -> DynamicsHeld]
  <2>1. \A j \in S : objects[j] \in DynamicsHeld
    BY <1>0, <1>1 DEF Registry, Registered, DynamicsHeld
  <2>2. QED BY <2>1
<1>3. \A j, k \in S : f[j] = f[k] => j = k
  BY <1>1 DEF Registry
<1>4. f \in Injection(S, DynamicsHeld)
  <2> HIDE DEF f, S
  <2>1. QED BY <1>2, <1>3, Fun_IsInj
<1>5. IsFiniteSet(S) /\ Cardinality(S) <= Cardinality(DynamicsHeld)
      /\ IsFiniteSet(DynamicsHeld) /\ Cardinality(DynamicsHeld) <= MaxDynamic
  <2> HIDE DEF f, S
  <2>1. IsFiniteSet(DynamicsHeld) /\ Cardinality(DynamicsHeld) <= MaxDynamic
    BY DEF Capacity
  <2>2. QED BY <1>4, <2>1, FS_Injection
<1> DEFINE T == {j \in FreshPlaces(Dynamic) : j < i}
<1>6. i \notin T /\ S = T \cup {i} /\ T \in SUBSET S
  BY <1>0
<1> HIDE DEF S, T
<1>7. IsFiniteSet(T) /\ Cardinality(S) = Cardinality(T) + 1
  <2>1. IsFiniteSet(T)
    BY <1>5, <1>6, FS_Subset
  <2>2. QED BY <2>1, <1>6, FS_AddElement
<1>8. Cardinality(T) \in Nat /\ Cardinality(DynamicsHeld) \in Nat
  BY <1>5, <1>7, FS_CardinalityType
<1>9. Cardinality(T) < MaxDynamic
  BY <1>0, <1>5, <1>7, <1>8
<1>10. QED BY <1>0, <1>8, <1>9 DEF FullBefore, T

\* And everything that contributes is in the quantum.
LEMMA ContributorsGathered ==
  ASSUME TypeOK, Registry, Capacity, RolesOnce, OneActivates, 
         NEW o \in Handles, Contributes(o)
  PROVE  o \in ObjectsOf(GatheredQuantum)
<1>0. /\ objects \in Seq(Handles) /\ DOMAIN objects = 1 .. Len(objects) /\ Len(objects) \in Nat
      /\ obj[o].type \in Types
  BY DEF TypeOK
<1>1. PICK i \in DOMAIN objects : objects[i] = o
  BY DEF Contributes, Registry
<1>2. i \in FreshPlaces(obj[o].type)
  BY <1>1 DEF FreshPlaces
<1>3. CASE obj[o].type = Dynamic
  <2>1. i \in TakenPlaces
    BY <1>1, <1>2, <1>3, NothingPassedOver DEF TakenPlaces
  <2>2. Descriptor(o) \in GatheredQuantum.dynamics
    BY <2>1, <1>1 DEF GatheredQuantum
  <2>3. Descriptor(o).object = o
    BY DEF Descriptor
  <2>4. QED BY <2>2, <2>3 DEF ObjectsOf
<1>4. CASE obj[o].type # Dynamic
  <2> DEFINE r == obj[o].type
             last == LastOf(FreshPlaces(r))
  <2>1. r \in Roles
    BY <1>0, <1>4 DEF Types
  <2>2. FreshPlaces(r) \in SUBSET (1 .. Len(objects)) /\ FreshPlaces(r) # {}
    BY <1>0, <1>2 DEF FreshPlaces
  <2>3. last \in FreshPlaces(r)
    BY <1>0, <2>2, LastExists
  <2>4. objects[last] \in Handles /\ obj[objects[last]].type = r /\ Contributes(objects[last])
    <3> HIDE DEF last, r
    <3>1. last \in DOMAIN objects /\ obj[objects[last]].type = r /\ Contributes(objects[last])
      BY <2>3 DEF FreshPlaces
    <3>2. QED BY <1>0, <3>1
  <2>5. objects[last] = o
    BY <1>4, <2>4 DEF RolesOnce, Wanted, Contributes
  <2>6. GatheredQuantum.statics[r] = o
    BY <2>1, <2>2, <2>5 DEF GatheredQuantum, StaticInput
  <2>7. o # NoObject
    BY ObjectAssumption
  <2>8. QED BY <2>1, <2>6, <2>7 DEF ObjectsOf
<1>5. QED BY <1>3, <1>4

\* Every step keeps AllCurrentAudio.
LEMMA AllCurrentStep ==
  /\ TypeOK /\ Flight /\ Construction /\ Registry /\ Authored /\ RolesOnce /\ Capacity 
  /\ AllCurrentAudio /\ [Next]_vars
  => AllCurrentAudio'
<1> SUFFICES ASSUME TypeOK, Flight, Construction, Registry, Authored, RolesOnce, Capacity,
                    AllCurrentAudio, [Next]_vars, OneActivates
             PROVE  AllCurrentAudio'
  BY DEF AllCurrentAudio, OneActivates, Next, vars
<1>0. /\ obj \in [Handles -> ObjRecords] /\ thread \in [Threads -> ThreadRecords]
      /\ obtained \subseteq Handles /\ Idle \in ThreadRecords /\ Idle.pc = "idle"
  BY Constants DEF TypeOK, ObjRecords, ThreadRecords, Idle
<1>1. ASSUME UNCHANGED obtained,
             \A o \in obtained : obj'[o].state = "live" => obj[o].state = "live",
             \A t \in Threads : thread'[t].pc = "processing" => thread'[t] = thread[t]
      PROVE  AllCurrentAudio'
  BY <1>1 DEF AllCurrentAudio, Processing, ObjectsOf, Registered, OneActivates
<1>2. ASSUME NEW t \in Threads, StreamCall(t) PROVE AllCurrentAudio'
  <2>1. CASE Start(t) \/ Stop(t) \/ ResetTransport(t) \/ ProcessReturns(t)
    BY <2>1, <1>0, <1>1 DEF Start, Stop, ResetTransport, ProcessReturns
  <2>2. CASE Reset(t) \/ DestroyStream(t)
    <3>1. \A o \in Handles : obj'[o].state = obj[o].state
      BY <2>2, StatesKept
    <3>2. [Idle EXCEPT !.pc = "resetting"].pc = "resetting"
      BY <1>0 DEF ThreadRecords
    <3>3. \A u \in Threads : thread'[u].pc = "processing" => thread'[u] = thread[u]
      BY <2>2, <1>0, <3>2 DEF Reset, DestroyStream
    <3>4. UNCHANGED obtained
      BY <2>2 DEF Reset, DestroyStream
    <3>5. QED BY <1>0, <1>1, <3>1, <3>3, <3>4
  <2>3. CASE BeginUpdatingAudioObjects(t)
    BY <2>3 DEF BeginUpdatingAudioObjects, AllCurrentAudio
  <2>4. CASE EndUpdatingAudioObjects(t)
    <3>1. /\ inUpdate /\ ~transportInFlight /\ UNCHANGED <<obtained, objects>>
          /\ thread' = [thread EXCEPT ![t] = [Idle EXCEPT !.pc = "processing", !.quantum = GatheredQuantum]]
      BY <2>4 DEF EndUpdatingAudioObjects, Updating
    <3>2. \A o \in Handles : obj'[o].state = obj[o].state
      BY <2>4, StatesKept
    <3>3. {o \in obtained : Registered(o)} \subseteq ObjectsOf(GatheredQuantum)
      BY <1>0, <3>1, ContributorsGathered DEF Authored
    <3>4. {o \in obtained' : Registered(o)'} \subseteq ObjectsOf(GatheredQuantum)
      BY <1>0, <3>1, <3>2, <3>3 DEF Registered
    <3>5. \A u \in Threads : u # t => thread'[u].pc # "processing"
      BY <1>0, <3>1 DEF Flight, Processing
    <3>6. thread'[t].quantum = GatheredQuantum
      BY <1>0, <3>1 DEF Idle
    <3>7. \A u \in Threads : thread'[u].pc = "processing" => 
            {o \in obtained' : Registered(o)'} \subseteq ObjectsOf(thread'[u].quantum)
      BY <3>4, <3>5, <3>6
    <3>8. QED BY <3>7 DEF AllCurrentAudio, Processing, ObjectsOf
  <2>5. ASSUME NEW type \in Types, NEW o \in Handles, ActivateSpatialAudioObject(t, type, o) 
        PROVE  AllCurrentAudio'
    <3>1. /\ obj'[o].state = "pending"
          /\ \A p \in Handles : p # o => obj'[p] = obj[p]
      BY <1>0, <2>5 DEF ActivateSpatialAudioObject, Unused
    <3>2. \A u \in Threads : thread'[u].pc = "processing" => thread'[u] = thread[u]
      BY <2>5, <1>0 DEF ActivateSpatialAudioObject, Idle
    <3>3. UNCHANGED obtained
      BY <2>5 DEF ActivateSpatialAudioObject
    <3>4. QED BY <1>0, <1>1, <3>1, <3>2, <3>3
  <2>6. CASE ConstructObject(t) \/ ConstructFails(t)
    <3> DEFINE o == thread[t].object
    <3>1. o \in Handles /\ obj[o].state = "pending" 
      BY <2>6 DEF ConstructObject, ConstructFails, Construction, Constructing
    <3>2. \A p \in Handles : p # o => obj'[p] = obj[p]
      BY <1>0, <2>6, <3>1 DEF ConstructObject, ConstructFails
    <3>3. \A u \in Threads : thread'[u].pc = "processing" => thread'[u] = thread[u]
      BY <2>6, <1>0 DEF ConstructObject, ConstructFails
    <3>4. UNCHANGED obtained
      BY <2>6 DEF ConstructObject, ConstructFails
    <3> HIDE DEF o
    <3>5. \A p \in obtained : p # o
      BY <3>1 DEF Authored
    <3>6. QED BY <1>0, <1>1, <3>2, <3>3, <3>4, <3>5
  <2>7. QED BY <1>2, <2>1, <2>2, <2>3, <2>4, <2>5, <2>6 DEF StreamCall
<1>3. ASSUME NEW t \in Threads, NEW o \in Handles, ObjectCall(t, o) PROVE AllCurrentAudio'
  <2>1. CASE GetBuffer(t, o)
    <3>1. UNCHANGED thread /\ ~transportInFlight
      BY <2>1 DEF GetBuffer, MayAuthor, Updating
    <3>2. \A u \in Threads : thread'[u].pc # "processing"
      BY <3>1 DEF Flight, Processing
    <3>3. QED BY <3>2 DEF AllCurrentAudio, Processing
  <2>2. CASE ~GetBuffer(t, o)
    <3>1. UNCHANGED <<obtained, thread>>
      BY <1>3, <2>2 DEF ObjectCall, SetEndOfStream, SetPosition, SetVolume, ReleaseObject
    <3>2. /\ \A p \in Handles : p # o => obj'[p] = obj[p]
          /\ obj[o].state = "live"
      BY <1>0, <1>3, <2>2
      DEF ObjectCall, SetEndOfStream, SetPosition, SetVolume, ReleaseObject, MayAuthor, Registered
    <3>3. QED BY <1>0, <1>1, <3>1, <3>2
  <2>3. QED BY <2>1, <2>2
<1>4. CASE UNCHANGED vars
  BY <1>4, <1>1 DEF vars
<1>5. QED
  BY <1>2, <1>3, <1>4 DEF Next

\* Every step keeps MissedUpdateRetires: End retires all that was not written.
LEMMA MissedUpdateStep ==
  /\ TypeOK /\ Construction /\ Registry /\ Buffers /\ RolesOnce /\ Capacity 
  /\ MissedUpdateRetires /\ [Next]_vars
  => MissedUpdateRetires'
<1> SUFFICES ASSUME TypeOK, Construction, Registry, Buffers, RolesOnce, Capacity,
                    MissedUpdateRetires, [Next]_vars, OneActivates, ~inUpdate'
             PROVE  \A o \in Handles : Registered(o)' /\ obj'[o].active => 
                      o \in obtained' \/ obj'[o].lastBufferGeneration = 0
  BY DEF MissedUpdateRetires, OneActivates, Next, vars
<1> DEFINE Kept == \A o \in Handles : obj'[o].state = "live" /\ obj'[o].active => 
                     o \in obtained' \/ obj'[o].lastBufferGeneration = 0
<1>0. obj \in [Handles -> ObjRecords]
  BY DEF TypeOK, ObjRecords
<1>1. ASSUME UNCHANGED <<obtained, inUpdate>>,
             \A o \in Handles : obj'[o].state = "live" /\ obj'[o].active => 
               \/ obj'[o].lastBufferGeneration = 0
               \/ /\ obj[o].state = "live" /\ obj[o].active 
                  /\ obj'[o].lastBufferGeneration = obj[o].lastBufferGeneration
      PROVE  Kept
  BY <1>1 DEF MissedUpdateRetires, Registered
<1>2. ASSUME NEW t \in Threads, StreamCall(t) PROVE Kept
  <2>1. CASE Start(t) \/ Stop(t) \/ ResetTransport(t) \/ ProcessReturns(t)
    BY <2>1, <1>1 DEF Start, Stop, ResetTransport, ProcessReturns, lifecycle
  <2>2. CASE Reset(t) \/ DestroyStream(t)
    BY <1>0, <2>2 DEF Reset, DestroyStream, Revoked, Registered, ObjRecords
  <2>3. CASE BeginUpdatingAudioObjects(t)
    BY <2>3 DEF BeginUpdatingAudioObjects
  <2>4. CASE EndUpdatingAudioObjects(t)
    <3>1. inUpdate /\ UNCHANGED obtained /\ \A o \in Handles : obj'[o] = Snapshot(o)
      BY <2>4 DEF EndUpdatingAudioObjects, Updating
    <3>2. \A o \in Handles : Registered(o) => ~PassedOver(o)
      BY NothingPassedOver DEF PassedOver
    <3>3. \A o \in Handles : obj'[o].state = "live" /\ obj'[o].active => Contributes(o)
      BY <1>0, <3>1, <3>2 DEF Snapshot, Registered, ObjRecords
    <3>4. QED BY <3>1, <3>3 DEF Buffers
  <2>5. ASSUME NEW type \in Types, NEW o \in Handles, ActivateSpatialAudioObject(t, type, o) 
        PROVE  Kept
    <3>1. obj'[o].state = "pending" /\ \A p \in Handles : p # o => obj'[p] = obj[p]
      BY <1>0, <2>5 DEF ActivateSpatialAudioObject, Unused
    <3>2. UNCHANGED <<obtained, inUpdate>>
      BY <2>5 DEF ActivateSpatialAudioObject, lifecycle
    <3>3. QED BY <3>1, <3>2, <1>1
  <2>6. CASE ConstructObject(t) \/ ConstructFails(t)
    <3> DEFINE o == thread[t].object
    <3>1. o \in Handles /\ obj[o].lastBufferGeneration = 0
      BY <2>6 DEF ConstructObject, ConstructFails, Construction, Constructing, Buffers
    <3>2. /\ \A p \in Handles : p # o => obj'[p] = obj[p]
          /\ obj'[o].lastBufferGeneration = 0
      <4>1. CASE ConstructObject(t)
        BY <1>0, <4>1, <3>1 DEF ConstructObject, ObjRecords
      <4>2. CASE ConstructFails(t)
        BY <1>0, <4>2, <3>1 DEF ConstructFails, ObjRecords
      <4>3. QED BY <2>6, <4>1, <4>2
    <3>3. UNCHANGED <<obtained, inUpdate>>
      BY <2>6 DEF ConstructObject, ConstructFails, lifecycle
    <3> HIDE DEF o
    <3>4. QED BY <3>2, <3>3, <1>1
  <2>7. QED BY <1>2, <2>1, <2>2, <2>3, <2>4, <2>5, <2>6 DEF StreamCall
<1>3. ASSUME NEW t \in Threads, NEW o \in Handles, ObjectCall(t, o) PROVE Kept
  <2>1. ReleaseObject(t, o)
    BY <1>3 DEF ObjectCall, GetBuffer, SetEndOfStream, SetPosition, SetVolume, MayAuthor, Updating, lifecycle
  <2>2. /\ UNCHANGED <<obtained, inUpdate>>
        /\ obj'[o].state = "released" /\ \A p \in Handles : p # o => obj'[p] = obj[p]
    BY <1>0, <2>1 DEF ReleaseObject, lifecycle, ObjRecords
  <2>3. QED BY <2>2, <1>1
<1>4. ASSUME UNCHANGED vars PROVE Kept
  <2>1. UNCHANGED <<obtained, inUpdate, obj>>
    BY <1>4 DEF vars, lifecycle
  <2>2. QED BY <2>1, <1>1
<1>5. QED
  BY <1>2, <1>3, <1>4 DEF Next, Registered

-----------------------------------------------------------------------------
(* The invariant and what follows from it.                                   *)

IInv ==
  /\ TypeOK /\ Flight /\ Registry /\ Construction /\ Identities /\ Buffers
  /\ Authored /\ RolesOnce /\ Capacity /\ AllCurrentAudio /\ MissedUpdateRetires

\* It holds in the initial states ...
LEMMA InitIInv == Init => IInv
<1> SUFFICES ASSUME Init PROVE IInv
  OBVIOUS
<1>1. /\ TypeOK 
      /\ \A o \in Handles : obj[o] = Unused
      /\ \A t \in Threads : thread[t].pc = "idle"
      /\ ~destroyed /\ ~inUpdate /\ ~transportInFlight
      /\ objects = <<>> /\ obtained = {} /\ generation = 0 /\ nextDynamicId = 1
  BY TypeInit DEF Init, Idle
<1>2. \A o \in Handles : /\ obj[o].state = "unused" /\ obj[o].id = 0
                         /\ ~Registered(o) /\ ~Wanted(o)
  BY <1>1 DEF Unused, Registered, Wanted
<1>3. Flight /\ OnlyCurrentAudio /\ AllCurrentAudio
  BY <1>1 DEF Flight, Processing, OnlyCurrentAudio, AllCurrentAudio
<1>4. Registry
  BY <1>1, <1>2 DEF Registry
<1>5. Construction
  BY <1>1, <1>2 DEF Construction, Constructing
<1>6. Identities
  BY <1>1, <1>2 DEF Identities, IdsNeverReused
<1>7. Buffers /\ Authored /\ RolesOnce /\ MissedUpdateRetires
  BY <1>1, <1>2, <1>3 DEF Buffers, Authored, RolesOnce, MissedUpdateRetires
<1>8. Capacity
  <2>1. DynamicsHeld = {}
    BY <1>2 DEF DynamicsHeld
  <2>2. QED BY <2>1, FS_EmptySet, DynamicAssumption DEF Capacity
<1>9. QED BY <1>1, <1>3, <1>4, <1>5, <1>6, <1>7, <1>8 DEF IInv

\* ... and is kept by every step.
LEMMA NextIInv == IInv /\ [Next]_vars => IInv'
  BY TypeStep, FlightStep, RegistryStep, ConstructionStep, IdentitiesStep, BuffersStep,
     AuthoredStep, RolesOnceStep, CapacityStep, AllCurrentStep, MissedUpdateStep DEF IInv

\* The inductive invariant of the object stream holds in every state.
THEOREM Invariance == Spec => []IInv
  BY InitIInv, NextIInv, PTL DEF Spec

\* The type invariant of the stream.
THEOREM TypeCorrect == Spec => []TypeOK
<1>1. IInv => TypeOK
  BY DEF IInv
<1>2. QED BY <1>1, Invariance, PTL

\* One thread at most is inside transport->Process, and the shared buffers stay
\* as its End left them although it holds no mutex.
THEOREM HeldStill == Spec => []BuffersHeldStill
<1>1. IInv => BuffersHeldStill
  <2> SUFFICES ASSUME Flight PROVE BuffersHeldStill
    BY DEF IInv
  <2>1. Cardinality(Processing) <= 1
    <3>1. CASE Processing = {}
      BY <3>1, FS_EmptySet
    <3>2. CASE Processing # {}
      <4>1. PICK t \in Processing : TRUE
        BY <3>2
      <4>2. Processing = {t}
        BY <4>1 DEF Flight
      <4>3. Cardinality(Processing) = 1
        BY <4>2, FS_Singleton
      <4>4. QED BY <4>3
    <3>3. QED BY <3>1, <3>2
  <2>2. QED BY <2>1 DEF Flight, BuffersHeldStill
<1>2. QED BY <1>1, Invariance, PTL

\* nextDynamicId is given out once, across Reset and overlapping activations.
THEOREM Identity == Spec => []IdsNeverReused
<1>1. IInv => IdsNeverReused
  BY DEF IInv, Identities
<1>2. QED BY <1>1, Invariance, PTL

\* A quantum carries only objects GetBuffer was granted in that very update.
THEOREM NothingStale == Spec => []OnlyCurrentAudio
<1>1. IInv => OnlyCurrentAudio
  BY DEF IInv, Buffers
<1>2. QED BY <1>1, Invariance, PTL

\* With one activating thread a quantum carries every such object still
\* registered: no role is written over and none is left out for want of room.
THEOREM NothingLost == Spec => []AllCurrentAudio
<1>1. IInv => AllCurrentAudio
  BY DEF IInv
<1>2. QED BY <1>1, Invariance, PTL

\* With one activating thread, an object still active after an update gave
\* audio in it or was registered too late to be asked.
THEOREM MissedRetires == Spec => []MissedUpdateRetires
<1>1. IInv => MissedUpdateRetires
  BY DEF IInv
<1>2. QED BY <1>1, Invariance, PTL

\* With one activating thread the dynamic objects registered stay within
\* maxDynamicObjects; with two they may not, as a run shows.
THEOREM CapacityKept == Spec => [](OneActivates => DynamicCapacityBound)
<1>1. IInv => (OneActivates => DynamicCapacityBound)
  <2> SUFFICES ASSUME Capacity, OneActivates PROVE DynamicCapacityBound
    BY DEF IInv
  <2>1. IsFiniteSet(DynamicsHeld) /\ Cardinality(DynamicsHeld) <= MaxDynamic
    BY DEF Capacity
  <2>2. LiveDynamic \in SUBSET DynamicsHeld
    BY DEF LiveDynamic, Registered, DynamicsHeld
  <2>3. IsFiniteSet(LiveDynamic) /\ Cardinality(LiveDynamic) <= Cardinality(DynamicsHeld)
    BY <2>1, <2>2, FS_Subset
  <2>4. Cardinality(LiveDynamic) \in Nat /\ Cardinality(DynamicsHeld) \in Nat
    BY <2>1, <2>3, FS_CardinalityType
  <2>5. QED BY <2>1, <2>3, <2>4, DynamicAssumption DEF DynamicCapacityBound
<1>2. QED BY <1>1, Invariance, PTL
=============================================================================
