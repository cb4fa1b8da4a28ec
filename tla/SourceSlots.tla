---------------------------- MODULE SourceSlots ----------------------------
(***************************************************************************)
(* scene_contract/src/stable_source_slots.rs: StableSourceSlots, one       *)
(* action per iteration of reconcile's loops. It is called once a quantum  *)
(* with the identities that are active then, and must not move an object   *)
(* that survives: its lane holds its filters and its motion.               *)
(***************************************************************************)
EXTENDS SlotReference

CONSTANT Requests   \* the active_ids a caller may pass

ASSUME RequestAssumption == Requests \subseteq Seq(Ids \cup {Free})

VARIABLES
  slots,
  pc,       \* "idle", or the loop of reconcile that is running
  active,   \* its argument
  at,       \* the loop's index
  result,   \* what the last call returned
  before    \* history: the slots when it was called

vars == <<slots, pc, active, at, result, before>>

Init ==
  /\ slots = [s \in Slots |-> Free]
  /\ pc = "idle" /\ active = <<>> /\ at = 1
  /\ result = "none" /\ before = slots

\* Zero, a repeated identity, or more identities than slots: an error before
\* anything is written.
RefusesMutant(ids) == Free \in IdsOf(ids) \/ ~Distinct(ids) \/ Len(ids) > Capacity + 1
Refuses(ids) == Refused(ids)

ReconcileRefuses(ids) ==
  /\ pc = "idle" /\ Refuses(ids)
  /\ result' = "refused"
  /\ active' = ids /\ before' = slots
  /\ UNCHANGED <<slots, pc, at>>

ReconcileBegins(ids) ==
  /\ pc = "idle" /\ ~Refuses(ids)
  /\ pc' = "release" /\ at' = 1 /\ active' = ids
  /\ result' = "none" /\ before' = slots
  /\ UNCHANGED slots

\* Release only identities that actually ended.
KeptMutant(id) == id = Free
Kept(id) == id \in IdsOf(active)

Release ==
  /\ pc = "release" /\ at <= Capacity
  /\ slots' = IF Kept(slots[at]) THEN slots ELSE [slots EXCEPT ![at] = Free]
  /\ at' = at + 1
  /\ UNCHANGED <<pc, active, result, before>>

ReleaseEnds ==
  /\ pc = "release" /\ at > Capacity
  /\ pc' = "admit" /\ at' = 1
  /\ UNCHANGED <<slots, active, result, before>>

\* A new identity takes the lowest free slot.
PresentMutant(id) == FALSE
Present(id) == SlotsOf(slots, id) # {}
FreeSlots == SlotsOf(slots, Free)
LowestMutant(s) == \A r \in FreeSlots : r <= s
Lowest(s) == \A r \in FreeSlots : s <= r

AdmitKnown ==
  /\ pc = "admit" /\ at <= Len(active) /\ Present(active[at])
  /\ at' = at + 1
  /\ UNCHANGED <<slots, pc, active, result, before>>

\* None free is the error that would leave the slots half reconciled.
AdmitNew ==
  /\ pc = "admit" /\ at <= Len(active) /\ ~Present(active[at])
  /\ IF FreeSlots = {}
     THEN /\ pc' = "idle" /\ result' = "overflow"
          /\ UNCHANGED <<slots, at>>
     ELSE /\ \E s \in FreeSlots : Lowest(s) /\ slots' = [slots EXCEPT ![s] = active[at]]
          /\ at' = at + 1
          /\ UNCHANGED <<pc, result>>
  /\ UNCHANGED <<active, before>>

AdmitEnds ==
  /\ pc = "admit" /\ at > Len(active)
  /\ pc' = "idle" /\ result' = "ok"
  /\ UNCHANGED <<slots, active, at, before>>

Next ==
  \/ \E ids \in Requests : ReconcileRefuses(ids) \/ ReconcileBegins(ids)
  \/ Release \/ ReleaseEnds
  \/ AdmitKnown \/ AdmitNew \/ AdmitEnds

Spec == Init /\ [][Next]_vars

-----------------------------------------------------------------------------
TypeOK ==
  /\ slots \in Assignments /\ before \in Assignments
  /\ pc \in {"idle", "release", "admit"}
  /\ active \in Seq(Ids \cup {Free}) /\ at \in Nat \ {0}
  /\ result \in {"none", "refused", "ok", "overflow"}
  /\ pc # "idle" => active \in Seq(Ids)

\* No identity ever has two lanes, not even half-way through a call.
NoIdTwice == \A r, s \in Slots : slots[r] = slots[s] => r = s \/ slots[r] = Free

\* An identity that was active and still is never moves, at any step of the
\* call, whatever order the caller lists the identities in.
SurvivorsStay ==
  result # "refused" =>
    \A s \in Slots : before[s] \in IdsOf(active) => slots[s] = before[s]

\* The second capacity check of the code is dead: once the first one passed, a
\* call never fails half-way, so an error leaves the slots untouched.
FailsWhole == result # "overflow" /\ (result = "refused" => slots = before)

\* A call that returns has done what the one-step definition says: exactly the
\* active identities have lanes, the new ones the lowest lanes free, in order.
IsReconciled == result = "ok" => slots = Reconciled(before, active)
=============================================================================
