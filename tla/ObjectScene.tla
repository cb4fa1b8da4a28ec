---------------------------- MODULE ObjectScene ----------------------------
(***************************************************************************)
(* realtime_ffi/src/windows_objects_scene.rs: the pipeline behind one      *)
(* Windows Spatial Audio stream. Every quantum it reconciles the slots     *)
(* with the dynamic objects that are active then (the loops of SourceSlots,*)
(* step by step), places them on the renderer's lanes, static roles first, *)
(* and decides for each dynamic lane whether the renderer's history of it  *)
(* goes on or is cleared, and whether its object glides from its last      *)
(* position. The renderer's own rule (renderer/src/source_frame.rs) comes  *)
(* after: a lane that goes inactive, or changes identity, does not glide.  *)
(***************************************************************************)
EXTENDS SourceSlots

CONSTANTS
  MaxStatics,   \* bound on a stream's directional static roles
  MaxQuanta     \* bound on the quanta

ASSUME SceneAssumption == MaxStatics \in Nat /\ MaxQuanta \in Nat

VARIABLES
  statics,      \* static_lanes: how many a stream has does not change
  placing,      \* a quantum is being placed
  previous,     \* previous_dynamic_blocks: identity and end of every slot's last block
  position,     \* sample_pos, in quanta
  history,      \* what is in a lane's filters: whose sound, and of which quantum
  identity,     \* presentation_identities; Free when not initialized
  glides,       \* the slots whose object glides in this quantum
  heard,        \* history: the identities of this quantum
  heardBefore,  \* history: and of the one before
  failed        \* the worker gave up

sound == <<previous, position, history, identity, glides, heard, heardBefore>>
scene == <<statics, placing, sound, failed>>
sceneVars == <<vars, scene>>

Lanes == 1 .. (statics + Capacity)
LaneOf(slot) == statics + slot
SlotOf(lane) == lane - statics
NoBlock == [id |-> Free, end |-> 0]

SceneInit ==
  /\ Init
  /\ statics \in 0 .. MaxStatics
  /\ placing = FALSE
  /\ previous = [s \in Slots |-> NoBlock]
  /\ position = 0
  /\ history = [l \in Lanes |-> {}]
  /\ identity = [l \in Lanes |-> Free]
  /\ glides = {} /\ heard = {} /\ heardBefore = {}
  /\ failed = FALSE

\* A block is continued by the next one of the same identity only when that one
\* starts where it ends (AuthoredObjectBlock::plan_from).
ContinuesMutant(block, id) == block.end = position
Continues(block, id) == block.id = id /\ block.end = position

-----------------------------------------------------------------------------
\* A quantum: its dynamic objects are reconciled with the slots. What process
\* refuses by itself, an identity twice, reconcile refuses too.
QuantumArrives(ids) ==
  /\ ~failed /\ ~placing /\ position < MaxQuanta
  /\ ReconcileRefuses(ids) \/ ReconcileBegins(ids)
  /\ placing' = TRUE
  /\ UNCHANGED <<statics, sound, failed>>

Reconciling ==
  /\ Release \/ ReleaseEnds \/ AdmitKnown \/ AdmitNew \/ AdmitEnds
  /\ UNCHANGED scene

MayPlace == placing /\ pc = "idle" /\ result = "ok" /\ ~failed

\* A stream with no static roles and no active object: nothing is rendered.
\* Slot and lane numbers are the same then, and the code uses the one for the
\* other.
SilenceResets == {s \in Slots : previous[s] # NoBlock}

ProcessSilence ==
  /\ MayPlace
  /\ statics = 0 /\ active = <<>>
  /\ previous' = [s \in Slots |-> NoBlock]
  /\ history' = [l \in Lanes |-> IF l \in SilenceResets THEN {} ELSE history[l]]
  /\ identity' = [l \in Lanes |-> IF l \in SilenceResets THEN Free ELSE identity[l]]
  /\ position' = position + 1
  /\ glides' = {}
  /\ heard' = {} /\ heardBefore' = heard
  /\ placing' = FALSE
  /\ UNCHANGED <<vars, statics, failed>>

\* The lanes process clears: a slot that ended, or was given to another object.
LaneClearedMutant(s) == slots[s] = Free /\ previous[s] # NoBlock
LaneCleared(s) == previous[s] # NoBlock /\ previous[s].id # slots[s]

\* And the renderer clears a lane that goes inactive and still has an identity.
RendererClears(l) == l > statics /\ slots[SlotOf(l)] = Free /\ identity[l] # Free

ClearedMutant(l) == l > statics /\ previous[SlotOf(l)] # NoBlock
Cleared(l) == (l > statics /\ LaneCleared(SlotOf(l))) \/ RendererClears(l)

\* The source that sounds on a lane; a static role is its own lane's.
SourceOn(l) == IF l <= statics THEN l ELSE slots[SlotOf(l)]
Sounding(l) == {[id |-> SourceOn(l), at |-> position]}

\* A slot glides by its plan unless the renderer sees the identity change.
GlidesOn(s) ==
  LET known == IF LaneCleared(s) THEN Free ELSE identity[LaneOf(s)]
  IN  slots[s] # Free /\ Continues(previous[s], slots[s]) /\ known \in {Free, slots[s]}

\* What is remembered of a slot's block.
BlockOf(s) == IF slots[s] = Free THEN NoBlock ELSE [id |-> slots[s], end |-> position + 1]

Process ==
  /\ MayPlace
  /\ statics > 0 \/ active # <<>>
  /\ previous' = [s \in Slots |-> BlockOf(s)]
  /\ history' = [l \in Lanes |-> (IF Cleared(l) THEN {} ELSE history[l]) \cup
                               (IF SourceOn(l) = Free THEN {} ELSE Sounding(l))]
  /\ identity' = [l \in Lanes |-> SourceOn(l)]
  /\ glides' = {s \in Slots : GlidesOn(s)}
  /\ position' = position + 1
  /\ heard' = IdsOf(active) /\ heardBefore' = heard
  /\ placing' = FALSE
  /\ UNCHANGED <<vars, statics, failed>>

\* An error, of reconcile or after it, ends the worker; what it had written no
\* longer matters.
ProcessFails ==
  /\ placing /\ pc = "idle" /\ ~failed
  /\ failed' = TRUE
  /\ UNCHANGED <<vars, statics, placing, sound>>

SceneNext ==
  \/ \E ids \in Requests : QuantumArrives(ids)
  \/ Reconciling
  \/ ProcessSilence \/ Process \/ ProcessFails

SceneSpec == SceneInit /\ [][SceneNext]_sceneVars

-----------------------------------------------------------------------------
SceneTypeOK ==
  /\ TypeOK
  /\ statics \in 0 .. MaxStatics /\ placing \in BOOLEAN
  /\ previous \in [Slots -> [id : Ids \cup {Free}, end : 0 .. MaxQuanta]]
  /\ position \in 0 .. MaxQuanta
  /\ DOMAIN history = Lanes /\ DOMAIN identity = Lanes
  /\ \A l \in Lanes :
       history[l] \subseteq [id : Ids \cup (1 .. statics), at : 0 .. MaxQuanta]
  /\ glides \subseteq Slots /\ heard \subseteq Ids /\ heardBefore \subseteq Ids
  /\ failed \in BOOLEAN

\* No object is heard through the filters of another: between two quanta a
\* dynamic lane's history holds the sound of the object that has the lane, and
\* of no other.
LanesAreClean ==
  ~placing => \A s \in Slots : \A heardThere \in history[LaneOf(s)] : heardThere.id = slots[s]

\* No motion is invented: an object glides exactly when it was also active in
\* the quantum before. One that is new, or comes back after a gap, appears.
OnlySurvivorsGlide ==
  ~placing => {slots[s] : s \in glides} = heard \cap heardBefore

\* A survivor keeps its lane and its filters, whatever else comes and goes.
SurvivorsKeepHistory ==
  [][ placing /\ ~placing' =>
        \A s \in Slots : before[s] \in heard' /\ before[s] # Free
          => slots'[s] = before[s] /\ history[LaneOf(s)] \subseteq history'[LaneOf(s)]
    ]_sceneVars
=============================================================================
