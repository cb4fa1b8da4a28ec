--------------------------- MODULE SlotReference ---------------------------
(***************************************************************************)
(* scene_contract/src/stable_source_slots.rs, in one step: which physical  *)
(* lane each active identity has after a reconcile. SourceSlots runs the   *)
(* code's loops and is compared with it; ObjectScene builds on it.         *)
(***************************************************************************)
EXTENDS Naturals, Sequences, FiniteSets

CONSTANTS Ids, Capacity

ASSUME SlotAssumption == Ids \subseteq Nat \ {0} /\ Capacity \in Nat

\* A free slot; also the identity the contract reserves.
Free == 0
Slots == 1 .. Capacity
Assignments == [Slots -> Ids \cup {Free}]

IdsOf(active) == {active[k] : k \in DOMAIN active}
Occupied(slots) == {s \in Slots : slots[s] # Free}
SlotsOf(slots, id) == {s \in Slots : slots[s] = id}

\* The requests reconcile refuses, leaving the slots as they are.
Distinct(active) == \A j, k \in DOMAIN active : active[j] = active[k] => j = k
Refused(active) == Free \in IdsOf(active) \/ ~Distinct(active) \/ Len(active) > Capacity

\* The slots that are free once the ended identities are released, and the
\* places in the request of the newly admitted ones; the place of an element in
\* the order of its set.
FreeAfter(slots, active) == {s \in Slots : slots[s] \notin IdsOf(active)}
Admitted(slots, active) == {k \in DOMAIN active : SlotsOf(slots, active[k]) = {}}
RankIn(set, s) == Cardinality({r \in set : r < s}) + 1

\* Survivors keep their slots; the k-th new identity takes the k-th free slot.
Reconciled(slots, active) ==
  LET free == FreeAfter(slots, active)
      new  == Admitted(slots, active)
      Taking(s) == {k \in new : RankIn(new, k) = RankIn(free, s)}
  IN  [s \in Slots |->
         IF s \notin free THEN slots[s]
         ELSE IF Taking(s) # {} THEN active[CHOOSE k \in Taking(s) : TRUE] ELSE Free]
=============================================================================
