---------------------------- MODULE ObjectStream ----------------------------
(***************************************************************************)
(* OmniphonySpatialObjectStream.cpp: the Windows Spatial Audio stream that *)
(* collects one quantum of static roles and dynamic objects per update and *)
(* hands it to the renderer.                                               *)
(*                                                                         *)
(* Several client threads call it.  Every call holds the stream's mutex    *)
(* and is one action, except where the code leaves the mutex: an End calls *)
(* transport->Process without it, a Reset calls transport->Reset without   *)
(* it, and an activation checks the capacity under the mutex, releases it, *)
(* and takes it again in the constructor of the object to register itself. *)
(* Those calls are two actions, and a second thread may move in between.   *)
(* A call refused by its guards changes nothing and is no action.          *)
(***************************************************************************)
EXTENDS Naturals, Sequences, FiniteSets

CONSTANTS
  Threads,        \* client threads
  ActivatorSets,  \* which of them activate objects: the clients there are
  Handles,        \* object handles, each given out at most once
  Roles,          \* the static roles of staticMask
  MaxDynamic,     \* maxDynamicObjects
  Positions,      \* listener-relative positions, the origin among them
  Volumes,        \* gains
  Origin, Unity,  \* the position and the gain of a new object
  MaxGeneration,  \* bound on the updates between two resets
  NoObject        \* no handle

ASSUME ThreadsAssumption == ActivatorSets \subseteq SUBSET Threads /\ IsFiniteSet(Threads)
ASSUME DynamicAssumption == MaxDynamic \in Nat /\ MaxGeneration \in Nat
ASSUME ObjectAssumption == NoObject \notin Handles
ASSUME AttributeAssumption == Origin \in Positions /\ Unity \in Volumes

VARIABLES
  activators,   \* the threads of this client that activate objects
  destroyed, running, inUpdate, transportInFlight,
  generation, nextDynamicId,
  objects,      \* state_->objects: the registered handles, in order
  obj,          \* every handle's own state
  planar,       \* staticPlanar_, dynamicDescriptors_, dynamicPlanar_ (in any order)
  thread,       \* what each client thread is doing outside the mutex
  obtained      \* history: the objects GetBuffer was granted on this update

lifecycle == <<destroyed, running, inUpdate, transportInFlight>>
vars == <<activators, lifecycle, generation, nextDynamicId, objects, obj, planar, thread, obtained>>

Dynamic == "dynamic"
Types == Roles \cup {Dynamic}

Unused == [state |-> "unused", type |-> Dynamic, id |-> 0, active |-> FALSE,
           lastBufferGeneration |-> 0, endOfStream |-> FALSE,
           position |-> Origin, volume |-> Unity]
NoQuantum == [generation |-> 0, statics |-> [r \in Roles |-> NoObject], dynamics |-> {}]
Idle == [pc |-> "idle", object |-> NoObject, quantum |-> NoQuantum]

Registered(o) == obj[o].state = "live"
LiveDynamic == {o \in Handles : Registered(o) /\ obj[o].type = Dynamic}

\* The client may call: it is not inside another call of its own.
Free(t) == thread[t] = Idle

-----------------------------------------------------------------------------
(* Guards that several handlers share.                                       *)

\* Outside an update and with no quantum at the transport.
BetweenUpdatesMutant == ~destroyed /\ ~inUpdate
BetweenUpdates == ~destroyed /\ ~inUpdate /\ ~transportInFlight

\* Inside an update that has not ended.
Updating == ~destroyed /\ inUpdate /\ ~transportInFlight

\* Stop refuses while an update is open or a quantum is at the transport.
MayStop == BetweenUpdates

\* There is room for one more dynamic object.
RoomForDynamicMutant == Cardinality(LiveDynamic) <= MaxDynamic
RoomForDynamic == Cardinality(LiveDynamic) < MaxDynamic

\* No active object holds the role.
RoleFree(r) == \A o \in Handles : ~(Registered(o) /\ obj[o].type = r /\ obj[o].active)

\* What Reset does to every registered object.
RevokedMutant(o) == obj[o]
Revoked(o) == IF Registered(o) THEN [obj[o] EXCEPT !.active = FALSE] ELSE obj[o]

\* The identity of the next dynamic object, once one has been given out.
NextId == nextDynamicId + 1

\* Reset does not start the identities over.
IdAfterResetMutant == 1
IdAfterReset == nextDynamicId

-----------------------------------------------------------------------------
Init ==
  /\ activators \in ActivatorSets
  /\ destroyed = FALSE /\ running = FALSE
  /\ inUpdate = FALSE /\ transportInFlight = FALSE
  /\ generation = 0 /\ nextDynamicId = 1
  /\ objects = <<>>
  /\ obj = [o \in Handles |-> Unused]
  /\ planar = NoQuantum
  /\ thread = [t \in Threads |-> Idle]
  /\ obtained = {}

Start(t) ==
  /\ Free(t)
  /\ BetweenUpdates /\ ~running
  /\ running' = TRUE
  /\ UNCHANGED <<destroyed, inUpdate, transportInFlight, generation, nextDynamicId,
                 objects, obj, planar, thread, obtained>>

Stop(t) ==
  /\ Free(t)
  /\ MayStop
  /\ running' = FALSE
  /\ UNCHANGED <<destroyed, inUpdate, transportInFlight, generation, nextDynamicId,
                 objects, obj, planar, thread, obtained>>

\* Reset under the mutex: the generation restarts, the shared buffers are
\* silenced and every registered object is revoked for good.
Reset(t) ==
  /\ Free(t)
  /\ BetweenUpdates /\ ~running
  /\ generation' = 0
  /\ planar' = NoQuantum
  /\ obj' = [o \in Handles |-> Revoked(o)]
  /\ nextDynamicId' = IdAfterReset
  /\ thread' = [thread EXCEPT ![t] = [Idle EXCEPT !.pc = "resetting"]]
  /\ UNCHANGED <<lifecycle, objects, obtained>>

\* Reset after the mutex: transport->Reset() returns.
ResetTransport(t) ==
  /\ thread[t].pc = "resetting"
  /\ thread' = [thread EXCEPT ![t] = Idle]
  /\ UNCHANGED <<lifecycle, generation, nextDynamicId, objects, obj, planar, obtained>>

BeginUpdatingAudioObjects(t) ==
  /\ Free(t)
  /\ BetweenUpdates /\ running
  /\ generation < MaxGeneration
  /\ inUpdate' = TRUE
  /\ generation' = generation + 1
  /\ obtained' = {}
  /\ UNCHANGED <<destroyed, running, transportInFlight, nextDynamicId, objects, obj, planar, thread>>

-----------------------------------------------------------------------------
(* What EndUpdatingAudioObjects gathers, walking the registry in order.      *)

Contributes(o) ==
  Registered(o) /\ obj[o].active /\ obj[o].lastBufferGeneration = generation

\* The places in the registry of the objects of a type that contribute.
FreshPlaces(type) ==
  {i \in DOMAIN objects : obj[objects[i]].type = type /\ Contributes(objects[i])}

\* The descriptor array takes the dynamic objects in the registry's order;
\* once it is full the dynamic objects further on are passed over, not even
\* retired.
FullBefore(i) == Cardinality({j \in FreshPlaces(Dynamic) : j < i}) >= MaxDynamic
TakenPlaces == {i \in FreshPlaces(Dynamic) : ~FullBefore(i)}
PassedOver(o) ==
  /\ obj[o].type = Dynamic
  /\ \E i \in DOMAIN objects : objects[i] = o /\ FullBefore(i)

\* SnapshotStatic and SnapshotDynamic: an object with no buffer in this update,
\* or with its end of stream in it, is inactive from now on.
SnapshotMutant(o) ==
  IF Registered(o) /\ ~PassedOver(o)
  THEN [obj[o] EXCEPT !.active = @ /\ ~obj[o].endOfStream] ELSE obj[o]
Snapshot(o) ==
  IF Registered(o) /\ ~PassedOver(o)
  THEN [obj[o] EXCEPT !.active = Contributes(o) /\ ~obj[o].endOfStream] ELSE obj[o]

\* A later object of the same role writes over an earlier one.
LastOf(places) == CHOOSE i \in places : \A j \in places : j <= i
StaticInput(r) ==
  IF FreshPlaces(r) = {} THEN NoObject ELSE objects[LastOf(FreshPlaces(r))]

Descriptor(o) == [object |-> o, id |-> obj[o].id, position |-> obj[o].position]

GatheredQuantum ==
  [generation |-> generation,
   statics    |-> [r \in Roles |-> StaticInput(r)],
   dynamics   |-> {Descriptor(objects[i]) : i \in TakenPlaces}]

\* End under the mutex: the quantum is in the shared buffers, which the
\* transport will read without the mutex.
EndUpdatingAudioObjects(t) ==
  /\ Free(t)
  /\ Updating
  /\ planar' = GatheredQuantum
  /\ obj' = [o \in Handles |-> Snapshot(o)]
  /\ inUpdate' = FALSE
  /\ transportInFlight' = TRUE
  /\ thread' = [thread EXCEPT ![t] = [Idle EXCEPT !.pc = "processing", !.quantum = GatheredQuantum]]
  /\ UNCHANGED <<destroyed, running, generation, nextDynamicId, objects, obtained>>

\* End after the mutex: transport->Process() returns, well or not.
ProcessReturns(t) ==
  /\ thread[t].pc = "processing"
  /\ transportInFlight' = FALSE
  /\ thread' = [thread EXCEPT ![t] = Idle]
  /\ UNCHANGED <<destroyed, running, inUpdate, generation, nextDynamicId, objects, obj,
                 planar, obtained>>

-----------------------------------------------------------------------------
(* Activation. The capacity and the role are checked, the identity is taken, *)
(* the mutex is released, and only the object's constructor registers it.    *)

ActivateSpatialAudioObject(t, type, o) ==
  /\ Free(t) /\ t \in activators
  /\ Updating
  /\ IF type = Dynamic THEN RoomForDynamic ELSE RoleFree(type)
  /\ obj[o].state = "unused"
  /\ obj' = [obj EXCEPT ![o] = [Unused EXCEPT
       !.state = "pending", !.type = type, !.id = IF type = Dynamic THEN nextDynamicId ELSE 0]]
  /\ nextDynamicId' = IF type = Dynamic THEN NextId ELSE nextDynamicId
  /\ thread' = [thread EXCEPT ![t] = [Idle EXCEPT !.pc = "constructing", !.object = o]]
  /\ UNCHANGED <<lifecycle, generation, objects, planar, obtained>>

\* The constructor takes the mutex and appends the object to the registry,
\* whatever became of the update meanwhile.
ConstructObject(t) ==
  /\ thread[t].pc = "constructing"
  /\ LET o == thread[t].object
     IN  /\ objects' = Append(objects, o)
         /\ obj' = [obj EXCEPT ![o].state = "live", ![o].active = TRUE]
  /\ thread' = [thread EXCEPT ![t] = Idle]
  /\ UNCHANGED <<lifecycle, generation, nextDynamicId, planar, obtained>>

\* There was no memory for it; a dynamic object's identity is spent.
ConstructFails(t) ==
  /\ thread[t].pc = "constructing"
  /\ obj' = [obj EXCEPT ![thread[t].object].state = "released"]
  /\ thread' = [thread EXCEPT ![t] = Idle]
  /\ UNCHANGED <<lifecycle, generation, nextDynamicId, objects, planar, obtained>>

-----------------------------------------------------------------------------
(* Calls on an object. They take the stream's mutex first.                   *)

MayAuthor(t, o) == Free(t) /\ Registered(o) /\ Updating /\ obj[o].active

GetBuffer(t, o) ==
  /\ MayAuthor(t, o)
  /\ obj' = [obj EXCEPT ![o].lastBufferGeneration = generation, ![o].endOfStream = FALSE]
  /\ obtained' = obtained \cup {o}
  /\ UNCHANGED <<lifecycle, generation, nextDynamicId, objects, planar, thread>>

SetEndOfStream(t, o) ==
  /\ MayAuthor(t, o)
  /\ obj' = [obj EXCEPT ![o].endOfStream = TRUE]
  /\ UNCHANGED <<lifecycle, generation, nextDynamicId, objects, planar, thread, obtained>>

SetPosition(t, o, position) ==
  /\ MayAuthor(t, o) /\ obj[o].type = Dynamic
  /\ obj' = [obj EXCEPT ![o].position = position]
  /\ UNCHANGED <<lifecycle, generation, nextDynamicId, objects, planar, thread, obtained>>

SetVolume(t, o, volume) ==
  /\ MayAuthor(t, o)
  /\ obj' = [obj EXCEPT ![o].volume = volume]
  /\ UNCHANGED <<lifecycle, generation, nextDynamicId, objects, planar, thread, obtained>>

\* std::remove and erase of the object's one entry.
Unregistered(o) ==
  LET place == CHOOSE i \in DOMAIN objects : objects[i] = o
  IN  [i \in 1 .. Len(objects) - 1 |-> IF i < place THEN objects[i] ELSE objects[i + 1]]

\* The last reference goes: the destructor takes the mutex and unregisters it.
ReleaseObject(t, o) ==
  /\ Free(t) /\ Registered(o)
  /\ objects' = Unregistered(o)
  /\ obj' = [obj EXCEPT ![o].state = "released", ![o].active = FALSE]
  /\ UNCHANGED <<lifecycle, generation, nextDynamicId, planar, thread, obtained>>

\* The last reference to the stream goes. Every thread inside one of its calls
\* holds a reference, and the objects may outlive it.
DestroyStream(t) ==
  /\ \A u \in Threads : Free(u)
  /\ ~destroyed
  /\ destroyed' = TRUE
  /\ running' = FALSE /\ inUpdate' = FALSE /\ transportInFlight' = FALSE
  /\ obj' = [o \in Handles |-> Revoked(o)]
  /\ UNCHANGED <<generation, nextDynamicId, objects, planar, thread, obtained>>

-----------------------------------------------------------------------------
StreamCall(t) ==
  \/ Start(t) \/ Stop(t)
  \/ Reset(t) \/ ResetTransport(t)
  \/ BeginUpdatingAudioObjects(t)
  \/ EndUpdatingAudioObjects(t) \/ ProcessReturns(t)
  \/ \E type \in Types, o \in Handles : ActivateSpatialAudioObject(t, type, o)
  \/ ConstructObject(t) \/ ConstructFails(t)
  \/ DestroyStream(t)

ObjectCall(t, o) ==
  \/ GetBuffer(t, o) \/ SetEndOfStream(t, o)
  \/ \E position \in Positions : SetPosition(t, o, position)
  \/ \E volume \in Volumes : SetVolume(t, o, volume)
  \/ ReleaseObject(t, o)

Next ==
  /\ \E t \in Threads : StreamCall(t) \/ \E o \in Handles : ObjectCall(t, o)
  /\ UNCHANGED activators

Spec == Init /\ [][Next]_vars

-----------------------------------------------------------------------------
States == {"unused", "pending", "live", "released"}
Quanta == [generation : Nat, statics : [Roles -> Handles \cup {NoObject}],
           dynamics : SUBSET [object : Handles, id : Nat, position : Positions]]

TypeOK ==
  /\ activators \in ActivatorSets
  /\ destroyed \in BOOLEAN /\ running \in BOOLEAN
  /\ inUpdate \in BOOLEAN /\ transportInFlight \in BOOLEAN
  /\ generation \in 0 .. MaxGeneration /\ nextDynamicId \in Nat \ {0}
  /\ objects \in Seq(Handles)
  /\ obj \in [Handles -> [state : States, type : Types, id : Nat, active : BOOLEAN,
                lastBufferGeneration : Nat, endOfStream : BOOLEAN,
                position : Positions, volume : Volumes]]
  /\ planar \in Quanta
  /\ thread \in [Threads -> [pc : {"idle", "processing", "resetting", "constructing"},
                             object : Handles \cup {NoObject}, quantum : Quanta]]
  /\ obtained \subseteq Handles

Processing == {t \in Threads : thread[t].pc = "processing"}

\* The transport reads the shared buffers without the mutex. Nobody else is
\* inside Process, and nothing has rewritten the buffers under it.
BuffersHeldStill ==
  /\ Cardinality(Processing) <= 1
  /\ \A t \in Processing : planar = thread[t].quantum

ObjectsOf(quantum) ==
  ({quantum.statics[r] : r \in Roles} \ {NoObject})
    \cup {d.object : d \in quantum.dynamics}

\* A quantum at the transport carries only audio the client wrote in that very
\* update, even though generations restart at one after a Reset and objects of
\* the time before it are still registered.
OnlyCurrentAudio == \A t \in Processing : ObjectsOf(thread[t].quantum) \subseteq obtained

\* And, when one thread activates, it carries all of it.
OneActivates == Cardinality(activators) = 1
AllCurrentAudio ==
  OneActivates => \A t \in Processing : {o \in obtained : Registered(o)} \subseteq ObjectsOf(thread[t].quantum)

\* A dynamic identity names one object for the life of the stream, across
\* Reset and whatever activations overlap.
IdsNeverReused ==
  \A o, p \in Handles :
    /\ obj[o].type = Dynamic /\ obj[o].id # 0
    /\ obj[p].type = Dynamic /\ obj[p].id # 0
    /\ o # p
    => obj[o].id # obj[p].id

\* The dynamic objects registered never exceed maxDynamicObjects.
DynamicCapacityBound == Cardinality(LiveDynamic) <= MaxDynamic

\* Between updates every active object either gave audio in the last one or
\* was registered too late to be asked: one missed update retires an object,
\* when one thread activates.
MissedUpdateRetires ==
  OneActivates /\ ~inUpdate => \A o \in Handles :
    Registered(o) /\ obj[o].active => o \in obtained \/ obj[o].lastBufferGeneration = 0
=============================================================================
