-------------------------- MODULE ObjectSceneProofs --------------------------
(***************************************************************************)
(* For every set of identities, every capacity and every request: no       *)
(* identity has two lanes, survivors never move, a call never stops        *)
(* half-way and leaves what the one-step definition says.  And for every   *)
(* number of static roles: no object is heard through the filters of       *)
(* another, and exactly those glide that were there a quantum before.      *)
(***************************************************************************)
EXTENDS ObjectScene, Integers, FiniteSetTheorems, WellFoundedInduction, TLAPS

-----------------------------------------------------------------------------
(* The place of an element in the order of its set.                          *)

\* A nonempty set of places has a last one, because < is well founded.
LEMMA LastExists ==
  ASSUME NEW n \in Nat, NEW T \in SUBSET (1 .. n), T # {}
  PROVE  \E m \in T : \A j \in T : j <= m
<1> DEFINE B == {m \in Nat : \A j \in T : j <= m}
           Less == OpToRel(<, Nat)
<1>1. B \subseteq Nat /\ n \in B
  OBVIOUS
<1>2. PICK m \in B : \A k \in B : ~ (<<k, m>> \in Less)
  <2> HIDE DEF Less, B
  <2>1. IsWellFoundedOn(Less, Nat)
    BY NatLessThanWellFounded DEF Less
  <2>2. QED BY <1>1, <2>1, WFMin, Zenon
<1>3. \A k \in B : ~ (k < m)
  BY <1>2 DEF OpToRel
<1>4. m \in T
  <2>1. PICK j \in T : TRUE
    OBVIOUS
  <2>2. SUFFICES ASSUME m \notin T PROVE FALSE
    OBVIOUS
  <2>3. m \in Nat /\ j <= m /\ j \in 1 .. n
    BY <2>1
  <2>4. m - 1 \in Nat /\ \A k \in T : k <= m - 1
    BY <2>2, <2>3
  <2>5. QED BY <2>4, <1>3
<1>5. QED
  BY <1>4

\* There are as many numbers from one to n as n says.
LEMMA IntervalSize ==
  ASSUME NEW n \in Nat
  PROVE  IsFiniteSet(1 .. n) /\ Cardinality(1 .. n) = n
<1>1. IsFiniteSet(1 .. n) /\ Cardinality(1 .. n) = IF 1 > n THEN 0 ELSE n - 1 + 1
  BY FS_Interval
<1> QED BY <1>1

\* A place counts the elements below it, of which there are finitely many.
LEMMA RankCounts ==
  ASSUME NEW n \in Nat, NEW S \in SUBSET (1 .. n), NEW s \in Nat
  PROVE  /\ IsFiniteSet({r \in S : r < s})
         /\ Cardinality({r \in S : r < s}) \in Nat
         /\ RankIn(S, s) \in Nat \ {0}
         /\ RankIn(S, s) = Cardinality({r \in S : r < s}) + 1
<1>1. IsFiniteSet(1 .. n) /\ {r \in S : r < s} \in SUBSET (1 .. n)
  BY IntervalSize
<1>2. IsFiniteSet({r \in S : r < s})
  BY <1>1, FS_Subset
<1>3. Cardinality({r \in S : r < s}) \in Nat
  BY <1>2, FS_CardinalityType
<1> QED BY <1>2, <1>3 DEF RankIn

\* The next number has the same place, or the next one if the number is in the set.
LEMMA RankOfNext ==
  ASSUME NEW n \in Nat, NEW S \in SUBSET (1 .. n), NEW s \in Nat
  PROVE  RankIn(S, s + 1) = IF s \in S THEN RankIn(S, s) + 1 ELSE RankIn(S, s)
<1>0. \A r \in S : r \in Nat /\ (r < s + 1 <=> r < s \/ r = s)
  OBVIOUS
<1>1. {r \in S : r < s + 1} = IF s \in S THEN {r \in S : r < s} \cup {s} ELSE {r \in S : r < s}
  BY <1>0
<1>2. s \notin {r \in S : r < s}
  OBVIOUS
<1>3. IsFiniteSet({r \in S : r < s}) /\ Cardinality({r \in S : r < s}) \in Nat
  BY RankCounts
<1>4. Cardinality({r \in S : r < s} \cup {s}) = Cardinality({r \in S : r < s}) + 1
  BY <1>2, <1>3, FS_AddElement
<1> QED BY <1>1, <1>3, <1>4 DEF RankIn

\* Places grow with the elements, so that two elements never share one.
LEMMA RankGrows ==
  ASSUME NEW n \in Nat, NEW S \in SUBSET (1 .. n), NEW r \in S, NEW s \in Nat, r < s
  PROVE  RankIn(S, r) < RankIn(S, s)
<1>1. r \in Nat /\ r + 1 \in Nat /\ S \subseteq Nat
  OBVIOUS
<1>2. {q \in S : q < r + 1} \in SUBSET {q \in S : q < s}
  <2>1. \A q \in S : q < r + 1 => q < s
    BY <1>1
  <2> QED BY <2>1
<1>3. IsFiniteSet({q \in S : q < s}) /\ Cardinality({q \in S : q < s}) \in Nat
  BY RankCounts
<1>4. Cardinality({q \in S : q < r + 1}) <= Cardinality({q \in S : q < s})
  BY <1>2, <1>3, FS_Subset
<1>5. RankIn(S, r + 1) <= RankIn(S, s)
  <2>1. Cardinality({q \in S : q < r + 1}) \in Nat
    BY <1>1, RankCounts
  <2> QED BY <1>3, <1>4, <2>1 DEF RankIn
<1>6. RankIn(S, r + 1) = RankIn(S, r) + 1
  BY <1>1, RankOfNext
<1>7. RankIn(S, r) \in Nat /\ RankIn(S, s) \in Nat
  BY <1>1, RankCounts
<1> QED BY <1>5, <1>6, <1>7

LEMMA RankIsOwn ==
  ASSUME NEW n \in Nat, NEW S \in SUBSET (1 .. n), NEW r \in S, NEW s \in S,
         RankIn(S, r) = RankIn(S, s)
  PROVE  r = s
<1>1. r \in Nat /\ s \in Nat
  OBVIOUS
<1>2. RankIn(S, r) \in Nat
  BY <1>1, RankCounts
<1>3. r < s => RankIn(S, r) < RankIn(S, s)
  BY <1>1, RankGrows
<1>4. s < r => RankIn(S, s) < RankIn(S, r)
  BY <1>1, RankGrows
<1> QED BY <1>1, <1>2, <1>3, <1>4

\* The lowest element whose place is above m has the place after m.
LEMMA LowestIsNext ==
  ASSUME NEW n \in Nat, NEW S \in SUBSET (1 .. n), NEW s \in S, NEW m \in Nat,
         m < RankIn(S, s),
         \A r \in S : r < s => RankIn(S, r) <= m
  PROVE  RankIn(S, s) = m + 1
<1> DEFINE Below == {r \in S : r < s}
<1>1. s \in Nat /\ S \subseteq Nat
  OBVIOUS
<1>2. RankIn(S, s) \in Nat
  BY <1>1, RankCounts
<1>3. CASE Below = {}
  <2>1. RankIn(S, s) = 0 + 1
    BY <1>3, FS_EmptySet DEF RankIn
  <2> QED BY <2>1
<1>4. CASE Below # {}
  <2>1. Below \in SUBSET (1 .. n)
    OBVIOUS
  <2>2. PICK p \in Below : \A r \in Below : r <= p
    BY <1>4, <2>1, LastExists
  <2>3. p \in S /\ p < s /\ p \in Nat /\ RankIn(S, p) <= m
    BY <1>1, <2>2
  <2>7. RankIn(S, p) \in Nat
    BY <2>3, RankCounts
  <2>4. {r \in S : r < p + 1} = Below
    <3>1. \A r \in S : r < p + 1 <=> r < s
      <4> TAKE r \in S
      <4>1. r \in Nat
        BY <1>1
      <4>2. r < s => r <= p
        BY <2>2
      <4> QED BY <1>1, <2>3, <4>1, <4>2
    <3> QED BY <3>1
  <2>5. RankIn(S, p + 1) = RankIn(S, s)
    BY <2>4 DEF RankIn
  <2>6. RankIn(S, p + 1) = RankIn(S, p) + 1
    BY <2>3, RankOfNext
  <2> QED BY <1>2, <2>3, <2>5, <2>6, <2>7
<1> QED BY <1>3, <1>4

\* A call under way serves a request that passed the validation.
ServesValid ==
  pc # "idle" =>
    active \in Seq(Ids) /\ Distinct(active) /\ Len(active) <= Capacity /\ result = "none"

\* The lanes the release loop has passed, all of them in the admit loop, hold
\* active identities or none.
EndedReleased ==
  \A s \in Slots :
    (pc = "release" /\ s < at) \/ pc = "admit" => slots[s] \in IdsOf(active) \cup {Free}

\* A lane that held no active identity is empty once the release loop has passed
\* it; the others are as they were.
ReleasedSoFar ==
  pc = "release" =>
    \A s \in Slots : slots[s] = IF s < at /\ before[s] \notin IdsOf(active) THEN Free ELSE before[s]

\* The lanes that are to be given away, and the places of those who get them.
ToGive == FreeAfter(before, active)
Newcomers == Admitted(before, active)

\* The newcomers that the admit loop has passed have the lanes of the same
\* place: these are the lanes below the next newcomer's, and the others are empty.
InOrder ==
  pc = "admit" =>
    \A s \in ToGive :
      /\ slots[s] # Free <=> RankIn(ToGive, s) < RankIn(Newcomers, at)
      /\ slots[s] # Free => \E k \in Newcomers : k < at /\ RankIn(Newcomers, k) = RankIn(ToGive, s)
      /\ \A k \in Newcomers :
           k < at /\ RankIn(Newcomers, k) = RankIn(ToGive, s) => slots[s] = active[k]

\* Who the admit loop has passed has a lane; after the call, all active have one
\* and nobody else.
EverybodyPlaced ==
  /\ pc = "admit" => \A k \in DOMAIN active : k < at => Present(active[k])
  /\ result = "ok" => {slots[s] : s \in Slots} \ {Free} = IdsOf(active)

\* What is known of the lanes that hold somebody.
Lawful == ServesValid /\ EndedReleased /\ NoIdTwice /\ SurvivorsStay /\ FailsWhole

\* How far the two loops have come.
Progress == ReleasedSoFar /\ InOrder /\ EverybodyPlaced /\ IsReconciled

SlotInv == TypeOK /\ Lawful /\ Progress

LEMMA InitLawful == Init => TypeOK /\ Lawful
<1> SUFFICES ASSUME Init PROVE TypeOK /\ Lawful
  OBVIOUS
<1> USE DEF Init
<1>1. TypeOK
  BY DEF TypeOK, Assignments
<1>2. ServesValid /\ EndedReleased
  BY DEF ServesValid, EndedReleased
<1>3. NoIdTwice /\ SurvivorsStay /\ FailsWhole
  BY DEF NoIdTwice, SurvivorsStay, FailsWhole, Slots
<1> QED BY <1>1, <1>2, <1>3 DEF Lawful

\* If every lane held an active identity other than the one to admit, two lanes
\* would hold the same one.
LEMMA ALaneIsFree ==
  ASSUME SlotInv, pc = "admit", at <= Len(active), ~Present(active[at])
  PROVE  FreeSlots # {}
<1> SUFFICES ASSUME FreeSlots = {} PROVE FALSE
  OBVIOUS
<1> DEFINE Others == (1 .. Len(active)) \ {at}
           where  == [s \in Slots |-> CHOOSE k \in Others : active[k] = slots[s]]
<1>1. /\ active \in Seq(Ids) /\ Len(active) \in Nat /\ Len(active) <= Capacity
      /\ at \in 1 .. Len(active) /\ Capacity \in Nat
  BY SlotAssumption DEF SlotInv, Lawful, TypeOK, ServesValid
<1>2. \A s \in Slots : slots[s] # Free /\ slots[s] # active[at] /\ slots[s] \in IdsOf(active)
  BY DEF FreeSlots, SlotsOf, Present, SlotInv, Lawful, EndedReleased
<1>3. \A s \in Slots : where[s] \in Others /\ active[where[s]] = slots[s]
  <2> TAKE s \in Slots
  <2>1. \E k \in Others : active[k] = slots[s]
    BY <1>1, <1>2 DEF IdsOf
  <2> QED BY <2>1
<1>4. where \in [Slots -> Others]
  BY <1>3
<1>5. IsFiniteSet(Slots) /\ Cardinality(Slots) = Capacity
  BY <1>1, IntervalSize DEF Slots
<1>6. IsFiniteSet(Others) /\ Cardinality(Others) < Capacity
  <2>1. IsFiniteSet(1 .. Len(active)) /\ Cardinality(1 .. Len(active)) = Len(active)
    BY <1>1, IntervalSize
  <2>2. IsFiniteSet(Others) /\ Cardinality(Others) = Len(active) - 1
    BY <1>1, <2>1, FS_RemoveElement
  <2> QED BY <1>1, <2>2
<1> HIDE DEF Others, where
<1>7. PICK r \in Slots, s \in Slots : r # s /\ where[r] = where[s]
  BY <1>4, <1>5, <1>6, FS_PigeonHole
<1>8. slots[r] = slots[s] /\ slots[r] # Free
  BY <1>2, <1>3, <1>7
<1> QED BY <1>7, <1>8 DEF SlotInv, Lawful, NoIdTwice

LEMMA RefuseIsLawful ==
  ASSUME SlotInv, NEW ids \in Requests, ReconcileRefuses(ids)
  PROVE  TypeOK' /\ Lawful'
<1> USE DEF ReconcileRefuses
<1>1. TypeOK'
  BY RequestAssumption DEF SlotInv, Lawful, TypeOK
<1>2. ServesValid' /\ EndedReleased'
  BY DEF ServesValid, EndedReleased
<1>3. NoIdTwice' /\ SurvivorsStay' /\ FailsWhole'
  BY DEF SlotInv, Lawful, NoIdTwice, SurvivorsStay, FailsWhole
<1> QED BY <1>1, <1>2, <1>3 DEF Lawful

LEMMA BeginIsLawful ==
  ASSUME SlotInv, NEW ids \in Requests, ReconcileBegins(ids)
  PROVE  TypeOK' /\ Lawful'
<1> USE DEF ReconcileBegins
<1>1. ids \in Seq(Ids) /\ Distinct(ids) /\ Len(ids) <= Capacity
  <2>1. ids \in Seq(Ids \cup {Free}) /\ Free \notin IdsOf(ids) /\ Distinct(ids)
        /\ Len(ids) <= Capacity
    BY RequestAssumption, SlotAssumption DEF Refuses, Refused
  <2>2. \A k \in 1 .. Len(ids) : ids[k] \in Ids
    BY <2>1 DEF IdsOf
  <2> QED BY <2>1, <2>2
<1>2. TypeOK'
  BY <1>1, RequestAssumption DEF SlotInv, Lawful, TypeOK
<1>3. ServesValid'
  BY <1>1 DEF ServesValid
<1>4. EndedReleased'
  BY DEF EndedReleased, Slots
<1>5. NoIdTwice' /\ SurvivorsStay' /\ FailsWhole'
  BY DEF SlotInv, Lawful, NoIdTwice, SurvivorsStay, FailsWhole
<1> QED BY <1>2, <1>3, <1>4, <1>5 DEF Lawful

LEMMA ReleaseIsLawful ==
  ASSUME SlotInv, Release
  PROVE  TypeOK' /\ Lawful'
<1> USE DEF Release
<1>0. at \in Slots
  BY SlotAssumption DEF SlotInv, Lawful, TypeOK, Slots
<1>1. /\ slots' \in Assignments
      /\ \A s \in Slots : s # at => slots'[s] = slots[s]
      /\ slots'[at] = IF Kept(slots[at]) THEN slots[at] ELSE Free
  BY <1>0 DEF SlotInv, Lawful, TypeOK, Assignments
<1>2. TypeOK'
  BY <1>1 DEF SlotInv, Lawful, TypeOK
<1>3. ServesValid'
  BY DEF SlotInv, Lawful, ServesValid
<1>4. EndedReleased'
  <2> SUFFICES ASSUME NEW s \in Slots, s < at + 1
               PROVE  slots'[s] \in IdsOf(active) \cup {Free}
    BY DEF EndedReleased
  <2>1. s < at \/ s = at
    BY <1>0, SlotAssumption DEF Slots
  <2> QED BY <1>1, <2>1 DEF SlotInv, Lawful, EndedReleased, Kept, Slots
<1>5. NoIdTwice'
  BY <1>0, <1>1 DEF SlotInv, Lawful, NoIdTwice
<1>6. SurvivorsStay'
  BY <1>0, <1>1 DEF SlotInv, Lawful, SurvivorsStay, Kept
<1>7. FailsWhole'
  BY DEF SlotInv, Lawful, ServesValid, FailsWhole
<1> QED BY <1>2, <1>3, <1>4, <1>5, <1>6, <1>7 DEF Lawful

LEMMA ReleaseEndIsLawful ==
  ASSUME SlotInv, ReleaseEnds
  PROVE  TypeOK' /\ Lawful'
<1> USE DEF ReleaseEnds
<1>1. TypeOK'
  BY DEF SlotInv, Lawful, TypeOK
<1>2. ServesValid' /\ NoIdTwice' /\ SurvivorsStay' /\ FailsWhole'
  BY DEF SlotInv, Lawful, ServesValid, NoIdTwice, SurvivorsStay, FailsWhole
<1>3. EndedReleased'
  <2> SUFFICES ASSUME NEW s \in Slots
               PROVE  slots[s] \in IdsOf(active) \cup {Free}
    BY DEF EndedReleased
  <2>1. s < at
    BY SlotAssumption DEF SlotInv, Lawful, TypeOK, Slots
  <2> QED BY <2>1 DEF SlotInv, Lawful, EndedReleased
<1> QED BY <1>1, <1>2, <1>3 DEF Lawful

LEMMA AdmitNewIsLawful ==
  ASSUME SlotInv, AdmitNew
  PROVE  TypeOK' /\ Lawful'
<1>1. FreeSlots # {}
  BY ALaneIsFree DEF AdmitNew
<1>2. PICK s \in FreeSlots : slots' = [slots EXCEPT ![s] = active[at]]
  BY <1>1 DEF AdmitNew
<1>3. /\ at' = at + 1 /\ at \in Nat \ {0} /\ at \in DOMAIN active /\ active[at] \in Ids
      /\ pc = "admit" /\ result = "none" /\ active \in Seq(Ids)
      /\ UNCHANGED <<pc, active, result, before>>
  BY <1>1 DEF AdmitNew, SlotInv, Lawful, TypeOK, ServesValid
<1>4. s \in Slots /\ slots[s] = Free /\ Free \notin Ids
  BY SlotAssumption DEF FreeSlots, SlotsOf, Free
<1>5. /\ slots' \in Assignments
      /\ \A r \in Slots : r # s => slots'[r] = slots[r]
      /\ slots'[s] = active[at] /\ active[at] \in IdsOf(active)
  BY <1>2, <1>3, <1>4 DEF SlotInv, Lawful, TypeOK, Assignments, IdsOf
<1>6. TypeOK'
  BY <1>3, <1>5 DEF SlotInv, Lawful, TypeOK
<1>7. ServesValid' /\ FailsWhole'
  BY <1>3 DEF SlotInv, Lawful, ServesValid, FailsWhole
<1>8. EndedReleased'
  BY <1>3, <1>5 DEF SlotInv, Lawful, EndedReleased
<1>9. NoIdTwice'
  <2>1. \A r \in Slots : slots[r] # active[at]
    BY DEF AdmitNew, Present, SlotsOf
  <2> QED BY <2>1, <1>4, <1>5 DEF SlotInv, Lawful, NoIdTwice
<1>10. SurvivorsStay'
  <2>1. Free \notin IdsOf(active)
    BY <1>3, <1>4 DEF IdsOf
  <2> QED BY <1>3, <1>4, <1>5, <2>1 DEF SlotInv, Lawful, SurvivorsStay
<1> QED BY <1>6, <1>7, <1>8, <1>9, <1>10 DEF Lawful

LEMMA AdmitEndIsLawful ==
  ASSUME SlotInv, AdmitKnown \/ AdmitEnds
  PROVE  TypeOK' /\ Lawful'
<1> USE DEF AdmitKnown, AdmitEnds
<1>1. TypeOK'
  BY DEF SlotInv, Lawful, TypeOK
<1>2. ServesValid' /\ NoIdTwice' /\ SurvivorsStay' /\ FailsWhole'
  BY DEF SlotInv, Lawful, ServesValid, NoIdTwice, SurvivorsStay, FailsWhole
<1>3. EndedReleased'
  BY DEF SlotInv, Lawful, EndedReleased
<1> QED BY <1>1, <1>2, <1>3 DEF Lawful


-----------------------------------------------------------------------------
(* How far the loops have come.                                              *)

LEMMA InitProgress == Init => Progress
<1> SUFFICES ASSUME Init PROVE Progress
  OBVIOUS
<1> QED BY DEF Init, Progress, ReleasedSoFar, InOrder, EverybodyPlaced, IsReconciled

\* The lanes to give away and the newcomers are numbers up to a bound.
LEMMA PlacesType ==
  ASSUME SlotInv
  PROVE  /\ Capacity \in Nat /\ Len(active) \in Nat
         /\ ToGive \in SUBSET (1 .. Capacity)
         /\ Newcomers \in SUBSET (1 .. Len(active))
  BY SlotAssumption DEF SlotInv, TypeOK, ToGive, FreeAfter, Slots, Newcomers, Admitted

LEMMA RefuseProgresses ==
  ASSUME SlotInv, NEW ids \in Requests, ReconcileRefuses(ids)
  PROVE  Progress'
  BY DEF ReconcileRefuses, Progress, ReleasedSoFar, InOrder, EverybodyPlaced, IsReconciled

LEMMA BeginProgresses ==
  ASSUME SlotInv, NEW ids \in Requests, ReconcileBegins(ids)
  PROVE  Progress'
<1> USE DEF ReconcileBegins
<1>1. ReleasedSoFar'
  BY DEF ReleasedSoFar, Slots
<1>2. InOrder' /\ EverybodyPlaced' /\ IsReconciled'
  BY DEF InOrder, EverybodyPlaced, IsReconciled
<1> QED BY <1>1, <1>2 DEF Progress

LEMMA ReleaseProgresses ==
  ASSUME SlotInv, Release
  PROVE  Progress'
<1> USE DEF Release
<1>0. at \in Slots /\ at \in Nat /\ result = "none"
  BY SlotAssumption DEF SlotInv, Lawful, ServesValid, TypeOK, Slots
<1>1. /\ \A s \in Slots : s # at => slots'[s] = slots[s]
      /\ slots'[at] = IF slots[at] \in IdsOf(active) THEN slots[at] ELSE Free
  BY <1>0 DEF SlotInv, TypeOK, Assignments, Kept
<1>2. slots[at] = before[at]
  BY <1>0 DEF SlotInv, Progress, ReleasedSoFar
<1>3. ReleasedSoFar'
  <2> SUFFICES ASSUME NEW s \in Slots
               PROVE  slots'[s] = IF s < at + 1 /\ before[s] \notin IdsOf(active)
                                  THEN Free ELSE before[s]
    BY DEF ReleasedSoFar
  <2>1. s < at + 1 <=> s < at \/ s = at
    BY <1>0 DEF Slots
  <2>2. s # at => slots[s] = IF s < at /\ before[s] \notin IdsOf(active) THEN Free ELSE before[s]
    BY DEF SlotInv, Progress, ReleasedSoFar
  <2> QED BY <1>0, <1>1, <1>2, <2>1, <2>2
<1>4. InOrder' /\ EverybodyPlaced' /\ IsReconciled'
  BY <1>0 DEF InOrder, EverybodyPlaced, IsReconciled
<1> QED BY <1>3, <1>4 DEF Progress

\* The first loop leaves the lanes to give away empty, and nobody is placed yet.
LEMMA ReleaseEndProgresses ==
  ASSUME SlotInv, ReleaseEnds
  PROVE  Progress'
<1> USE DEF ReleaseEnds
<1>0. result = "none"
  BY DEF SlotInv, Lawful, ServesValid
<1>1. \A s \in ToGive : slots[s] = Free
  <2> TAKE s \in ToGive
  <2>1. s \in Slots /\ before[s] \notin IdsOf(active)
    BY DEF ToGive, FreeAfter
  <2>2. s < at
    BY <2>1, SlotAssumption DEF SlotInv, TypeOK, Slots
  <2> QED BY <2>1, <2>2 DEF SlotInv, Progress, ReleasedSoFar
<1>2. UNCHANGED <<ToGive, Newcomers>>
  BY DEF ToGive, Newcomers
<1>3. ASSUME NEW s \in ToGive
      PROVE  ~(RankIn(ToGive, s) < RankIn(Newcomers, 1))
  <2>1. s \in Nat /\ Newcomers \subseteq Nat \ {0}
    BY PlacesType
  <2>2. {k \in Newcomers : k < 1} = {}
    <3>1. \A k \in Newcomers : ~(k < 1)
      BY <2>1
    <3> QED BY <3>1
  <2>3. RankIn(Newcomers, 1) = 1
    BY <2>2, FS_EmptySet DEF RankIn
  <2>4. RankIn(ToGive, s) \in Nat \ {0}
    BY <2>1, PlacesType, RankCounts
  <2> QED BY <2>3, <2>4
<1>4. \A k \in Newcomers : ~(k < 1)
  BY PlacesType
<1>5. InOrder'
  BY <1>1, <1>2, <1>3, <1>4 DEF InOrder
<1>6. \A k \in DOMAIN active : ~(k < 1)
  BY DEF SlotInv, TypeOK
<1>7. EverybodyPlaced'
  BY <1>0, <1>6 DEF EverybodyPlaced
<1>8. ReleasedSoFar' /\ IsReconciled'
  BY <1>0 DEF ReleasedSoFar, IsReconciled
<1> QED BY <1>5, <1>7, <1>8 DEF Progress

\* Who is to be admitted and has no lane is a newcomer, and the other way round.
LEMMA NewcomerHasNoLane ==
  ASSUME SlotInv, pc = "admit", at <= Len(active)
  PROVE  /\ at \in DOMAIN active /\ at \in Nat \ {0}
         /\ at \in Newcomers <=> ~Present(active[at])
<1>1. /\ active \in Seq(Ids) /\ Distinct(active) /\ at \in DOMAIN active
      /\ at \in Nat \ {0} /\ result = "none" /\ active[at] # Free
      /\ before \in Assignments
  <2>1. active \in Seq(Ids) /\ Distinct(active) /\ at \in Nat \ {0} /\ result = "none"
        /\ before \in Assignments
    BY DEF SlotInv, Lawful, ServesValid, TypeOK
  <2>2. at \in DOMAIN active
    BY <2>1
  <2>3. active[at] \in Ids
    BY <2>1, <2>2
  <2> QED BY <2>1, <2>2, <2>3, SlotAssumption DEF Free
<1>2. ASSUME at \notin Newcomers
      PROVE  Present(active[at])
  <2>1. PICK s \in Slots : before[s] = active[at]
    BY <1>1, <1>2 DEF Newcomers, Admitted, SlotsOf
  <2>2. slots[s] = before[s]
    BY <1>1, <2>1 DEF SlotInv, Lawful, SurvivorsStay, IdsOf
  <2> QED BY <2>1, <2>2 DEF Present, SlotsOf
<1>3. ASSUME at \in Newcomers, Present(active[at])
      PROVE  FALSE
  <2>1. PICK s \in Slots : slots[s] = active[at]
    BY <1>3 DEF Present, SlotsOf
  <2>2. before[s] # active[at]
    BY <1>3 DEF Newcomers, Admitted, SlotsOf
  <2>3. s \in ToGive
    BY <1>1, <2>1, <2>2 DEF ToGive, FreeAfter, SlotInv, Lawful, SurvivorsStay
  <2>4. PICK k \in Newcomers : k < at /\ slots[s] = active[k]
    BY <1>1, <2>1, <2>3 DEF SlotInv, Progress, InOrder
  <2>5. k \in DOMAIN active /\ active[k] = active[at]
    BY <2>1, <2>4 DEF Newcomers, Admitted
  <2>6. k = at
    BY <1>1, <2>5 DEF Distinct
  <2> QED BY <1>1, <2>4, <2>6
<1> QED BY <1>1, <1>2, <1>3

LEMMA AdmitKnownProgresses ==
  ASSUME SlotInv, AdmitKnown
  PROVE  Progress'
<1> USE DEF AdmitKnown
<1>1. at \in Nat \ {0} /\ at \notin Newcomers /\ result = "none"
  BY NewcomerHasNoLane DEF SlotInv, Lawful, ServesValid
<1>2. UNCHANGED <<ToGive, Newcomers>>
  BY DEF ToGive, Newcomers
<1>3. RankIn(Newcomers, at + 1) = RankIn(Newcomers, at)
  BY <1>1, PlacesType, RankOfNext
<1>4. \A k \in Newcomers : k < at + 1 => k < at
  BY <1>1, PlacesType
<1>5. InOrder'
  <2> SUFFICES ASSUME NEW s \in ToGive
      PROVE  /\ slots[s] # Free <=> RankIn(ToGive, s) < RankIn(Newcomers, at + 1)
             /\ slots[s] # Free
                => \E k \in Newcomers : k < at + 1 /\ RankIn(Newcomers, k) = RankIn(ToGive, s)
             /\ \A k \in Newcomers :
                  k < at + 1 /\ RankIn(Newcomers, k) = RankIn(ToGive, s) => slots[s] = active[k]
    BY <1>2 DEF InOrder
  <2>1. /\ slots[s] # Free <=> RankIn(ToGive, s) < RankIn(Newcomers, at)
        /\ slots[s] # Free
           => \E k \in Newcomers : k < at /\ RankIn(Newcomers, k) = RankIn(ToGive, s)
        /\ \A k \in Newcomers :
             k < at /\ RankIn(Newcomers, k) = RankIn(ToGive, s) => slots[s] = active[k]
    BY DEF SlotInv, Progress, InOrder
  <2>2. \A k \in Newcomers : k < at => k < at + 1
    BY <1>1, PlacesType
  <2> QED BY <1>3, <1>4, <2>1, <2>2
<1>6. EverybodyPlaced'
  <2>1. \A k \in DOMAIN active : k < at + 1 => k < at \/ k = at
    BY <1>1 DEF SlotInv, TypeOK
  <2> QED BY <1>1, <2>1 DEF SlotInv, Progress, EverybodyPlaced, Present, SlotsOf
<1>7. ReleasedSoFar' /\ IsReconciled'
  BY <1>1 DEF ReleasedSoFar, IsReconciled
<1> QED BY <1>5, <1>6, <1>7 DEF Progress

\* The lowest empty lane has the same place among the lanes to give away as the
\* newcomer among the newcomers.
LEMMA LowestLaneIsNext ==
  ASSUME SlotInv, pc = "admit", at \in Newcomers,
         NEW s \in FreeSlots, Lowest(s)
  PROVE  s \in ToGive /\ RankIn(ToGive, s) = RankIn(Newcomers, at)
<1>0. result = "none" /\ Free \notin IdsOf(active)
  <2>1. active \in Seq(Ids) /\ result = "none"
    BY DEF SlotInv, Lawful, ServesValid
  <2>2. \A k \in DOMAIN active : active[k] # Free
    BY <2>1, SlotAssumption DEF Free
  <2> QED BY <2>1, <2>2 DEF IdsOf
<1>1. s \in Slots /\ slots[s] = Free
  BY DEF FreeSlots, SlotsOf
<1>2. s \in ToGive
  BY <1>0, <1>1 DEF ToGive, FreeAfter, SlotInv, Lawful, SurvivorsStay
<1>3. s \in Nat /\ at \in Nat
  BY <1>2, PlacesType
<1> DEFINE next == RankIn(Newcomers, at)
<1>4. next \in Nat \ {0} /\ RankIn(ToGive, s) \in Nat
  BY <1>3, PlacesType, RankCounts
<1>5. ~(RankIn(ToGive, s) < next)
  BY <1>1, <1>2 DEF SlotInv, Progress, InOrder
<1>6. \A r \in ToGive : r < s => RankIn(ToGive, r) <= next - 1
  <2> SUFFICES ASSUME NEW r \in ToGive, r < s
               PROVE  RankIn(ToGive, r) <= next - 1
    OBVIOUS
  <2>1. r \in Nat /\ r \in Slots
    BY PlacesType DEF Slots
  <2>2. slots[r] # Free
    BY <1>3, <2>1 DEF Lowest, FreeSlots, SlotsOf
  <2>3. RankIn(ToGive, r) < next
    BY <2>2 DEF SlotInv, Progress, InOrder
  <2>4. RankIn(ToGive, r) \in Nat
    BY <2>1, PlacesType, RankCounts
  <2> QED BY <1>4, <2>3, <2>4
<1> HIDE DEF next
<1>7. next - 1 \in Nat /\ next - 1 < RankIn(ToGive, s)
  BY <1>4, <1>5
<1>8. RankIn(ToGive, s) = (next - 1) + 1
  BY <1>2, <1>6, <1>7, PlacesType, LowestIsNext
<1> QED BY <1>2, <1>4, <1>8 DEF next

LEMMA AdmitNewProgresses ==
  ASSUME SlotInv, AdmitNew
  PROVE  Progress'
<1>1. FreeSlots # {}
  BY ALaneIsFree DEF AdmitNew
<1>2. PICK s \in FreeSlots : Lowest(s) /\ slots' = [slots EXCEPT ![s] = active[at]]
  BY <1>1 DEF AdmitNew
<1>3. /\ pc = "admit" /\ at' = at + 1 /\ UNCHANGED <<pc, active, result, before>>
      /\ at \in Nat \ {0} /\ at \in DOMAIN active /\ at \in Newcomers
      /\ active[at] # Free /\ result = "none"
  <2>1. /\ pc = "admit" /\ at' = at + 1 /\ UNCHANGED <<pc, active, result, before>>
        /\ at <= Len(active) /\ ~Present(active[at])
    BY <1>1 DEF AdmitNew
  <2>2. at \in Nat \ {0} /\ at \in DOMAIN active /\ at \in Newcomers
    BY <2>1, NewcomerHasNoLane
  <2>3. active \in Seq(Ids) /\ result = "none"
    BY <2>1 DEF SlotInv, Lawful, ServesValid
  <2>4. active[at] \in Ids
    BY <2>2, <2>3
  <2> QED BY <2>1, <2>2, <2>3, <2>4, SlotAssumption DEF Free
<1>4. s \in Slots /\ slots[s] = Free
  BY DEF FreeSlots, SlotsOf
<1>5. /\ slots'[s] = active[at]
      /\ \A r \in Slots : r # s => slots'[r] = slots[r]
  BY <1>2, <1>4 DEF SlotInv, TypeOK, Assignments
<1>6. s \in ToGive /\ RankIn(ToGive, s) = RankIn(Newcomers, at)
  BY <1>2, <1>3, LowestLaneIsNext
<1>7. UNCHANGED <<ToGive, Newcomers>>
  BY <1>3 DEF ToGive, Newcomers
<1>8. RankIn(Newcomers, at + 1) = RankIn(Newcomers, at) + 1 /\ RankIn(Newcomers, at) \in Nat
  BY <1>3, PlacesType, RankOfNext, RankCounts
<1>9. InOrder'
  <2> SUFFICES ASSUME NEW r \in ToGive
      PROVE  /\ slots'[r] # Free <=> RankIn(ToGive, r) < RankIn(Newcomers, at + 1)
             /\ slots'[r] # Free
                => \E k \in Newcomers : k < at + 1 /\ RankIn(Newcomers, k) = RankIn(ToGive, r)
             /\ \A k \in Newcomers :
                  k < at + 1 /\ RankIn(Newcomers, k) = RankIn(ToGive, r) => slots'[r] = active[k]
    BY <1>3, <1>7 DEF InOrder
  <2>1. at < at + 1 /\ \A k \in Newcomers : k < at + 1 <=> k < at \/ k = at
    BY <1>3, PlacesType
  <2>2. CASE r = s
    <3>1. slots'[r] = active[at] /\ active[at] # Free
      BY <1>3, <1>5, <2>2
    <3>2. RankIn(ToGive, r) < RankIn(Newcomers, at + 1)
      BY <1>6, <1>8, <2>2
    <3>3. \A k \in Newcomers : RankIn(Newcomers, k) = RankIn(ToGive, r) => k = at
      BY <1>3, <1>6, <2>2, PlacesType, RankIsOwn
    <3> QED BY <1>3, <1>6, <2>1, <2>2, <3>1, <3>2, <3>3
  <2>3. CASE r # s
    <3>1. slots'[r] = slots[r]
      BY <1>5, <2>3 DEF ToGive, FreeAfter
    <3>2. /\ slots[r] # Free <=> RankIn(ToGive, r) < RankIn(Newcomers, at)
          /\ slots[r] # Free
             => \E k \in Newcomers : k < at /\ RankIn(Newcomers, k) = RankIn(ToGive, r)
          /\ \A k \in Newcomers :
               k < at /\ RankIn(Newcomers, k) = RankIn(ToGive, r) => slots[r] = active[k]
      BY <1>3 DEF SlotInv, Progress, InOrder
    <3>3. RankIn(ToGive, r) # RankIn(Newcomers, at)
      BY <1>6, <2>3, PlacesType, RankIsOwn
    <3>4. RankIn(ToGive, r) \in Nat
      <4>1. r \in Nat
        BY PlacesType
      <4> QED BY <4>1, PlacesType, RankCounts
    <3>5. RankIn(ToGive, r) < RankIn(Newcomers, at + 1)
          <=> RankIn(ToGive, r) < RankIn(Newcomers, at)
      BY <1>8, <3>3, <3>4
    <3> QED BY <2>1, <3>1, <3>2, <3>3, <3>5
  <2> QED BY <2>2, <2>3
<1>10. EverybodyPlaced'
  <2> SUFFICES ASSUME NEW k \in DOMAIN active, k < at + 1
               PROVE  \E r \in Slots : slots'[r] = active[k]
    BY <1>3 DEF EverybodyPlaced, Present, SlotsOf
  <2>1. CASE k = at
    BY <1>4, <1>5, <2>1
  <2>2. CASE k # at
    <3>1. k \in Nat /\ active \in Seq(Ids)
      BY <1>3 DEF SlotInv, Lawful, ServesValid
    <3>2. k < at
      BY <1>3, <2>2, <3>1
    <3>3. PICK r \in Slots : slots[r] = active[k]
      BY <1>3, <3>2 DEF SlotInv, Progress, EverybodyPlaced, Present, SlotsOf
    <3>4. active[k] # Free
      BY <3>1, SlotAssumption DEF Free
    <3> QED BY <1>4, <1>5, <3>3, <3>4
  <2> QED BY <2>1, <2>2
<1>11. ReleasedSoFar' /\ IsReconciled'
  BY <1>3 DEF ReleasedSoFar, IsReconciled
<1> QED BY <1>9, <1>10, <1>11 DEF Progress

\* When the second loop is through, the lanes are those of the one-step definition.
LEMMA AdmitEndProgresses ==
  ASSUME SlotInv, AdmitEnds
  PROVE  Progress'
<1> USE DEF AdmitEnds
<1>1. /\ active \in Seq(Ids) /\ result = "none" /\ at > Len(active) /\ at \in Nat
      /\ slots \in Assignments /\ before \in Assignments
  BY DEF SlotInv, Lawful, ServesValid, TypeOK
<1>2. \A k \in DOMAIN active : k < at /\ k \in Nat
  BY <1>1
<1> DEFINE Taking(s) == {k \in Newcomers : RankIn(Newcomers, k) = RankIn(ToGive, s)}
           Lane(s) == IF s \notin ToGive THEN before[s]
                      ELSE IF Taking(s) # {} THEN active[CHOOSE k \in Taking(s) : TRUE] ELSE Free
<1>3. Reconciled(before, active) = [s \in Slots |-> Lane(s)]
  BY DEF Reconciled, ToGive, Newcomers
<1>4. ASSUME NEW s \in Slots
      PROVE  slots[s] = Lane(s)
  <2>1. CASE s \notin ToGive
    BY <1>1, <2>1 DEF ToGive, FreeAfter, SlotInv, Lawful, SurvivorsStay
  <2>2. CASE s \in ToGive /\ Taking(s) # {}
    <3> DEFINE k == CHOOSE k \in Taking(s) : TRUE
    <3>1. k \in Newcomers /\ RankIn(Newcomers, k) = RankIn(ToGive, s)
      BY <2>2
    <3>2. k < at
      BY <1>2, <3>1 DEF Newcomers, Admitted
    <3> HIDE DEF k
    <3>3. slots[s] = active[k]
      BY <2>2, <3>1, <3>2 DEF SlotInv, Progress, InOrder
    <3> QED BY <2>2, <3>3 DEF k
  <2>3. CASE s \in ToGive /\ Taking(s) = {}
    <3>1. slots[s] = Free
      BY <2>3 DEF SlotInv, Progress, InOrder
    <3> QED BY <2>3, <3>1
  <2> QED BY <2>1, <2>2, <2>3
<1> HIDE DEF Lane
<1>5. slots = Reconciled(before, active)
  BY <1>1, <1>3, <1>4 DEF Assignments
<1>6. {slots[s] : s \in Slots} \ {Free} = IdsOf(active)
  <2>1. \A s \in Slots : slots[s] \in IdsOf(active) \cup {Free}
    BY DEF SlotInv, Lawful, EndedReleased
  <2>2. \A k \in DOMAIN active : \E s \in Slots : slots[s] = active[k]
    BY <1>2 DEF SlotInv, Progress, EverybodyPlaced, Present, SlotsOf
  <2>3. \A k \in DOMAIN active : active[k] # Free
    BY <1>1, SlotAssumption DEF Free
  <2> QED BY <2>1, <2>2, <2>3 DEF IdsOf
<1>7. EverybodyPlaced' /\ IsReconciled'
  BY <1>5, <1>6 DEF EverybodyPlaced, IsReconciled
<1>8. ReleasedSoFar' /\ InOrder'
  BY DEF ReleasedSoFar, InOrder
<1> QED BY <1>7, <1>8 DEF Progress

LEMMA InitInv == Init => SlotInv
BY InitLawful, InitProgress DEF SlotInv

LEMMA StepKeeps == SlotInv /\ [Next]_vars => SlotInv'
<1> SUFFICES ASSUME SlotInv, [Next]_vars PROVE SlotInv'
  OBVIOUS
<1>1. CASE UNCHANGED vars
  <2>1. TypeOK' /\ Lawful'
    BY <1>1 DEF vars, SlotInv, Lawful, TypeOK, ServesValid, EndedReleased, NoIdTwice,
                SurvivorsStay, FailsWhole
  <2>2. UNCHANGED <<ToGive, Newcomers>>
    BY <1>1 DEF vars, ToGive, Newcomers
  <2>3. InOrder' /\ ReleasedSoFar'
    BY <1>1, <2>2 DEF vars, SlotInv, Progress, InOrder, ReleasedSoFar
  <2>4. EverybodyPlaced' /\ IsReconciled'
    BY <1>1 DEF vars, SlotInv, Progress, EverybodyPlaced, IsReconciled, Present, SlotsOf
  <2> QED BY <2>1, <2>3, <2>4 DEF SlotInv, Progress
<1>2. ASSUME NEW ids \in Requests, ReconcileRefuses(ids) \/ ReconcileBegins(ids)
      PROVE  SlotInv'
  BY <1>2, RefuseIsLawful, BeginIsLawful, RefuseProgresses, BeginProgresses DEF SlotInv
<1>3. CASE Release \/ ReleaseEnds
  BY <1>3, ReleaseIsLawful, ReleaseEndIsLawful, ReleaseProgresses, ReleaseEndProgresses
     DEF SlotInv
<1>4. CASE AdmitNew
  BY <1>4, AdmitNewIsLawful, AdmitNewProgresses DEF SlotInv
<1>5. CASE AdmitKnown \/ AdmitEnds
  BY <1>5, AdmitEndIsLawful, AdmitKnownProgresses, AdmitEndProgresses DEF SlotInv
<1> QED BY <1>1, <1>2, <1>3, <1>4, <1>5 DEF Next

-----------------------------------------------------------------------------
(* The scene: what is in the filters of a lane follows who has its slot.     *)

\* A slot's last block, its lane's history and the renderer's identity of the
\* lane are the same object's, or nobody's; and a block that is remembered ends
\* where the next quantum begins.
Linked ==
  \A s \in Slots :
    /\ \A heardThere \in history[LaneOf(s)] : heardThere.id = previous[s].id
    /\ identity[LaneOf(s)] = previous[s].id
    /\ previous[s] = NoBlock \/ (previous[s].id # Free /\ previous[s].end = position)

\* The blocks are those of the objects that have the slots; while a quantum is
\* being placed, of those that had them when it arrived.
Follows == \A s \in Slots : previous[s].id = IF placing THEN before[s] ELSE slots[s]

\* What was heard last are the objects of the blocks.
HeardLast == heard = {previous[s].id : s \in Slots} \ {Free}

\* No call of reconcile is under way between two quanta, and a quantum has a number.
Between == (~placing => pc = "idle") /\ (placing => position < MaxQuanta)

SceneInv ==
  SlotInv /\ SceneTypeOK /\ Linked /\ Follows /\ HeardLast /\ Between /\ OnlySurvivorsGlide

\* A slot's lane is a lane, and of no other slot.
LEMMA LaneOfSlot ==
  ASSUME SceneTypeOK, NEW s \in Slots
  PROVE  /\ LaneOf(s) \in Lanes /\ SlotOf(LaneOf(s)) = s
         /\ LaneOf(s) > statics /\ ~(LaneOf(s) <= statics)
  BY SlotAssumption, SceneAssumption DEF SceneTypeOK, Slots, Lanes, LaneOf, SlotOf

LEMMA SceneInitInv == SceneInit => SceneInv
<1> SUFFICES ASSUME SceneInit PROVE SceneInv
  OBVIOUS
<1>1. SlotInv
  BY InitInv DEF SceneInit
<1>2. SceneTypeOK
  <2>1. previous \in [Slots -> [id : Ids \cup {Free}, end : 0 .. MaxQuanta]]
    BY SceneAssumption DEF SceneInit, NoBlock
  <2>2. DOMAIN history = Lanes /\ DOMAIN identity = Lanes /\ \A l \in Lanes : history[l] = {}
    BY DEF SceneInit
  <2>3. statics \in 0 .. MaxStatics /\ position \in 0 .. MaxQuanta
    BY SceneAssumption DEF SceneInit
  <2>4. /\ placing \in BOOLEAN /\ failed \in BOOLEAN
        /\ glides \subseteq Slots /\ heard \subseteq Ids /\ heardBefore \subseteq Ids
    BY DEF SceneInit
  <2> QED BY <1>1, <2>1, <2>2, <2>3, <2>4 DEF SlotInv, SceneTypeOK
<1>3. Linked
  BY <1>2, LaneOfSlot DEF SceneInit, Linked, NoBlock
<1>4. Follows /\ HeardLast /\ Between
  BY DEF SceneInit, Init, Follows, HeardLast, Between, NoBlock
<1>5. OnlySurvivorsGlide
  BY DEF SceneInit, OnlySurvivorsGlide
<1> QED BY <1>1, <1>2, <1>3, <1>4, <1>5 DEF SceneInv

LEMMA ArrivalKeeps ==
  ASSUME SceneInv, NEW ids \in Requests, QuantumArrives(ids)
  PROVE  SceneInv'
<1> USE DEF QuantumArrives, sound
<1>1. SlotInv'
  <2>1. Next
    BY DEF Next
  <2> QED BY <2>1, StepKeeps DEF SceneInv
<1>2. SceneTypeOK'
  BY <1>1 DEF SceneInv, SceneTypeOK, SlotInv, Lanes
<1>3. Linked' /\ HeardLast'
  BY DEF SceneInv, Linked, HeardLast, LaneOf
<1>4. Follows' /\ Between' /\ OnlySurvivorsGlide'
  BY DEF SceneInv, Follows, Between, OnlySurvivorsGlide, ReconcileRefuses, ReconcileBegins
<1> QED BY <1>1, <1>2, <1>3, <1>4 DEF SceneInv

LEMMA ReconcilingKeeps ==
  ASSUME SceneInv, Reconciling
  PROVE  SceneInv'
<1>1. SlotInv'
  <2>1. Next
    BY DEF Reconciling, Next
  <2> QED BY <2>1, StepKeeps DEF SceneInv
<1>2. UNCHANGED scene /\ UNCHANGED before /\ placing
  BY DEF Reconciling, SceneInv, Between, Release, ReleaseEnds, AdmitKnown, AdmitNew, AdmitEnds
<1>3. SceneTypeOK'
  BY <1>1, <1>2 DEF SceneInv, SceneTypeOK, SlotInv, Lanes, scene, sound
<1>4. Linked' /\ HeardLast'
  BY <1>2 DEF SceneInv, Linked, HeardLast, LaneOf, scene, sound
<1>5. Follows' /\ Between' /\ OnlySurvivorsGlide'
  BY <1>2 DEF SceneInv, Follows, Between, OnlySurvivorsGlide, scene, sound
<1> QED BY <1>1, <1>3, <1>4, <1>5 DEF SceneInv

LEMMA FailureKeeps ==
  ASSUME SceneInv, ProcessFails
  PROVE  SceneInv'
<1> USE DEF ProcessFails, sound
<1>1. UNCHANGED vars
  BY DEF ProcessFails
<1>2. SlotInv'
  BY <1>1, StepKeeps DEF SceneInv
<1>3. SceneTypeOK'
  BY <1>2 DEF SceneInv, SceneTypeOK, SlotInv, Lanes
<1>4. Linked' /\ HeardLast'
  BY DEF SceneInv, Linked, HeardLast, LaneOf
<1>5. Follows' /\ Between' /\ OnlySurvivorsGlide'
  BY <1>1 DEF SceneInv, Follows, Between, OnlySurvivorsGlide, vars
<1> QED BY <1>2, <1>3, <1>4, <1>5 DEF SceneInv

\* What reconcile left when a quantum may be placed: exactly its objects have
\* the slots, and who had one before and is still active has it still.
LEMMA WhatReconcileLeft ==
  ASSUME SceneInv, MayPlace
  PROVE  /\ placing /\ pc = "idle"
         /\ slots \in [Slots -> Ids \cup {Free}] /\ Free \notin Ids
         /\ {slots[s] : s \in Slots} \ {Free} = IdsOf(active)
         /\ \A s \in Slots : previous[s].id = before[s]
         /\ \A s \in Slots : before[s] \in IdsOf(active) => slots[s] = before[s]
         /\ heard = {before[s] : s \in Slots} \ {Free}
<1>1. placing /\ pc = "idle" /\ result = "ok"
  BY DEF MayPlace
<1>2. slots \in [Slots -> Ids \cup {Free}] /\ Free \notin Ids
  BY SlotAssumption DEF SceneInv, SlotInv, TypeOK, Assignments, Free
<1>3. {slots[s] : s \in Slots} \ {Free} = IdsOf(active)
  BY <1>1 DEF SceneInv, SlotInv, Progress, EverybodyPlaced
<1>4. \A s \in Slots : previous[s].id = before[s]
  BY <1>1 DEF SceneInv, Follows
<1>5. \A s \in Slots : before[s] \in IdsOf(active) => slots[s] = before[s]
  BY <1>1 DEF SceneInv, SlotInv, Lawful, SurvivorsStay
<1>6. heard = {before[s] : s \in Slots} \ {Free}
  BY <1>4 DEF SceneInv, HeardLast
<1> QED BY <1>1, <1>2, <1>3, <1>4, <1>5, <1>6

LEMMA SilenceKeeps ==
  ASSUME SceneInv, ProcessSilence
  PROVE  SceneInv'
<1> USE DEF ProcessSilence
<1>0. position + 1 \in 0 .. MaxQuanta /\ statics = 0
  BY SceneAssumption, WhatReconcileLeft DEF SceneInv, SceneTypeOK, Between
<1>1. UNCHANGED vars
  BY DEF ProcessSilence
<1>2. SlotInv'
  BY <1>1, StepKeeps DEF SceneInv
<1>3. SceneTypeOK'
  <2>1. previous' \in [Slots -> [id : Ids \cup {Free}, end : 0 .. MaxQuanta]]
    BY SceneAssumption DEF NoBlock
  <2>2. DOMAIN history' = Lanes /\ DOMAIN identity' = Lanes
    BY DEF ProcessSilence
  <2>3. \A l \in Lanes : history'[l] \subseteq [id : Ids \cup (1 .. statics), at : 0 .. MaxQuanta]
    BY DEF SceneInv, SceneTypeOK
  <2> QED BY <1>0, <1>2, <2>1, <2>2, <2>3 DEF SceneInv, SceneTypeOK, SlotInv, Lanes
<1>4. \A s \in Slots : LaneOf(s) = s /\ s \in Lanes
  BY <1>0, SlotAssumption DEF LaneOf, Slots, Lanes
<1>5. Linked'
  <2> SUFFICES ASSUME NEW s \in Slots
      PROVE  /\ \A heardThere \in history'[s] : heardThere.id = Free
             /\ identity'[s] = Free
             /\ previous'[s] = NoBlock
    BY <1>4 DEF Linked, LaneOf, NoBlock
  <2>1. s \in SilenceResets <=> previous[s] # NoBlock
    BY DEF SilenceResets
  <2>2. previous[s] = NoBlock =>
          (\A heardThere \in history[s] : heardThere.id = Free) /\ identity[s] = Free
    BY <1>4 DEF SceneInv, Linked, NoBlock
  <2> QED BY <1>4, <2>1, <2>2
<1>6. \A s \in Slots : slots[s] = Free
  <2>1. IdsOf(active) = {}
    BY DEF IdsOf
  <2> QED BY <2>1, WhatReconcileLeft
<1>7. Follows' /\ Between'
  BY <1>1, <1>6, WhatReconcileLeft DEF Follows, Between, NoBlock, vars
<1>8. HeardLast' /\ OnlySurvivorsGlide'
  BY DEF HeardLast, OnlySurvivorsGlide, NoBlock
<1> QED BY <1>2, <1>3, <1>5, <1>7, <1>8 DEF SceneInv

\* What a quantum leaves on the lane of a slot: the sound of the slot's object
\* and nothing else.
LEMMA ProcessedLane ==
  ASSUME SceneInv, Process, NEW s \in Slots
  PROVE  /\ LaneOf(s)' = LaneOf(s)
         /\ \A heardThere \in history'[LaneOf(s)] : heardThere.id = slots[s]
         /\ identity'[LaneOf(s)] = slots[s]
         /\ slots[s] # Free /\ previous[s].id = slots[s]
              => history[LaneOf(s)] \subseteq history'[LaneOf(s)]
<1> DEFINE l == LaneOf(s)
<1>1. l \in Lanes /\ SlotOf(l) = s /\ l > statics /\ ~(l <= statics) /\ LaneOf(s)' = l
  BY LaneOfSlot DEF SceneInv, Process, LaneOf
<1>2. SourceOn(l) = slots[s]
  BY <1>1 DEF SourceOn
<1> HIDE DEF l
<1>3. /\ identity'[l] = slots[s]
      /\ history'[l] = (IF Cleared(l) THEN {} ELSE history[l]) \cup
                       (IF slots[s] = Free THEN {} ELSE {[id |-> slots[s], at |-> position]})
  BY <1>1, <1>2 DEF Process, Sounding
<1>4. /\ \A heardThere \in history[l] : heardThere.id = previous[s].id
      /\ \A heardThere \in history[l] : heardThere.id # Free
      /\ identity[l] = previous[s].id
  <2>1. \A heardThere \in history[l] : heardThere.id \in Ids \cup (1 .. statics)
    BY <1>1 DEF SceneInv, SceneTypeOK
  <2>2. Free \notin Ids \cup (1 .. statics)
    BY SlotAssumption DEF Free, SceneInv, SceneTypeOK
  <2> QED BY <2>1, <2>2 DEF SceneInv, Linked, l
<1>5. ~Cleared(l) => previous[s] = NoBlock \/ previous[s].id = slots[s]
  BY <1>1 DEF Cleared, LaneCleared
<1>6. slots[s] # Free /\ previous[s].id = slots[s] => ~Cleared(l)
  BY <1>1 DEF Cleared, LaneCleared, RendererClears
<1>7. \A heardThere \in history'[l] : heardThere.id = slots[s]
  BY <1>3, <1>4, <1>5 DEF NoBlock
<1> QED BY <1>1, <1>3, <1>6, <1>7 DEF l

\* Who glides: the objects of this quantum that were in the one before.
LEMMA ProcessGlides ==
  ASSUME SceneInv, Process
  PROVE  {slots[s] : s \in glides'} = heard' \cap heardBefore'
<1> USE DEF Process
<1>1. heard' = IdsOf(active) /\ heardBefore' = heard /\ glides' = {s \in Slots : GlidesOn(s)}
  OBVIOUS
<1>2. ASSUME NEW s \in Slots
      PROVE  GlidesOn(s) <=> slots[s] # Free /\ before[s] = slots[s]
  <2>1. previous[s].id = before[s]
    BY WhatReconcileLeft
  <2>2. previous[s] = NoBlock \/ previous[s].end = position
    BY DEF SceneInv, Linked
  <2>3. identity[LaneOf(s)] = before[s]
    BY <2>1 DEF SceneInv, Linked
  <2> QED BY <2>1, <2>2, <2>3 DEF GlidesOn, Continues, LaneCleared, NoBlock
<1>3. ASSUME NEW s \in glides'
      PROVE  slots[s] \in heard' \cap heardBefore'
  <2>1. s \in Slots /\ slots[s] # Free /\ before[s] = slots[s]
    BY <1>1, <1>2, <1>3
  <2> QED BY <1>1, <2>1, WhatReconcileLeft
<1>4. ASSUME NEW id \in heard' \cap heardBefore'
      PROVE  \E s \in glides' : slots[s] = id
  <2>1. id \in IdsOf(active) /\ id # Free
    BY <1>1, WhatReconcileLeft
  <2>2. PICK s \in Slots : before[s] = id
    BY <1>1, WhatReconcileLeft
  <2>3. slots[s] = id
    BY <2>1, <2>2, WhatReconcileLeft
  <2> QED BY <1>1, <1>2, <2>1, <2>2, <2>3
<1> QED BY <1>3, <1>4

LEMMA ProcessKeeps ==
  ASSUME SceneInv, Process
  PROVE  SceneInv'
<1>0. /\ position \in 0 .. MaxQuanta /\ position + 1 \in 0 .. MaxQuanta
      /\ statics' = statics /\ ~placing' /\ position' = position + 1
      /\ previous' = [s \in Slots |-> BlockOf(s)] /\ pc = "idle"
  BY SceneAssumption, WhatReconcileLeft DEF SceneInv, SceneTypeOK, Between, Process
<1>1. UNCHANGED vars
  BY DEF Process
<1>2. SlotInv'
  BY <1>1, StepKeeps DEF SceneInv
<1>3. SceneTypeOK'
  <2>1. previous' \in [Slots -> [id : Ids \cup {Free}, end : 0 .. MaxQuanta]]
    BY <1>0, SceneAssumption, WhatReconcileLeft DEF NoBlock, BlockOf, Process
  <2>2. DOMAIN history' = Lanes /\ DOMAIN identity' = Lanes
    BY DEF Process
  <2>3. ASSUME NEW l \in Lanes
        PROVE  history'[l] \subseteq [id : Ids \cup (1 .. statics), at : 0 .. MaxQuanta]
    <3>1. history[l] \subseteq [id : Ids \cup (1 .. statics), at : 0 .. MaxQuanta]
      BY DEF SceneInv, SceneTypeOK
    <3>2. SourceOn(l) # Free => SourceOn(l) \in Ids \cup (1 .. statics)
      <4>1. l \in Nat \ {0} /\ statics \in Nat /\ (l > statics => SlotOf(l) \in Slots)
        BY SlotAssumption, SceneAssumption
           DEF SceneInv, SceneTypeOK, Lanes, SlotOf, Slots
      <4>2. slots \in [Slots -> Ids \cup {Free}]
        BY WhatReconcileLeft DEF Process
      <4> QED BY <4>1, <4>2 DEF SourceOn
    <3>3. SourceOn(l) # Free =>
            Sounding(l) \subseteq [id : Ids \cup (1 .. statics), at : 0 .. MaxQuanta]
      BY <1>0, <3>2 DEF Sounding
    <3>4. history'[l] = (IF Cleared(l) THEN {} ELSE history[l]) \cup
                        (IF SourceOn(l) = Free THEN {} ELSE Sounding(l))
      BY DEF Process
    <3> QED BY <3>1, <3>3, <3>4
  <2>4. glides' \subseteq Slots /\ heard' \subseteq Ids /\ heardBefore' \subseteq Ids
    <3>1. IdsOf(active) \subseteq Ids
      BY WhatReconcileLeft DEF Process
    <3> QED BY <3>1 DEF Process, SceneInv, SceneTypeOK
  <2>5. statics' \in 0 .. MaxStatics /\ placing' \in BOOLEAN /\ failed' \in BOOLEAN
    BY DEF Process, SceneInv, SceneTypeOK
  <2> QED BY <1>0, <1>2, <2>1, <2>2, <2>3, <2>4, <2>5 DEF SceneTypeOK, SlotInv, Lanes
<1>4. Linked'
  <2> SUFFICES ASSUME NEW s \in Slots
      PROVE  /\ \A heardThere \in history'[LaneOf(s)'] : heardThere.id = previous'[s].id
             /\ identity'[LaneOf(s)'] = previous'[s].id
             /\ \/ previous'[s] = NoBlock
                \/ previous'[s].id # Free /\ previous'[s].end = position'
    BY DEF Linked
  <2>1. previous'[s].id = slots[s]
    BY <1>0 DEF BlockOf, NoBlock
  <2>2. previous'[s] = NoBlock \/ (previous'[s].id # Free /\ previous'[s].end = position')
    BY <1>0 DEF BlockOf
  <2> QED BY <2>1, <2>2, ProcessedLane
<1>5. Follows' /\ Between'
  BY <1>0, <1>1 DEF Follows, Between, BlockOf, NoBlock, vars
<1>6. HeardLast'
  <2>1. \A s \in Slots : previous'[s].id = slots[s]
    BY <1>0 DEF BlockOf, NoBlock
  <2>2. heard' = {slots[s] : s \in Slots} \ {Free}
    BY WhatReconcileLeft DEF Process
  <2> QED BY <2>1, <2>2 DEF HeardLast
<1>7. OnlySurvivorsGlide'
  <2>1. slots' = slots
    BY <1>1 DEF vars
  <2> QED BY <2>1, ProcessGlides DEF OnlySurvivorsGlide
<1> QED BY <1>2, <1>3, <1>4, <1>5, <1>6, <1>7 DEF SceneInv

LEMMA SceneStepKeeps == SceneInv /\ [SceneNext]_sceneVars => SceneInv'
<1> SUFFICES ASSUME SceneInv, [SceneNext]_sceneVars PROVE SceneInv'
  OBVIOUS
<1>1. CASE UNCHANGED sceneVars
  <2>1. UNCHANGED vars /\ UNCHANGED <<statics, placing, sound, failed>>
    BY <1>1 DEF sceneVars, scene
  <2>2. SlotInv'
    BY <2>1, StepKeeps DEF SceneInv
  <2>3. SceneTypeOK'
    BY <2>1, <2>2 DEF SceneInv, SceneTypeOK, SlotInv, Lanes, sound
  <2>4. Linked' /\ HeardLast'
    BY <2>1 DEF SceneInv, Linked, HeardLast, LaneOf, sound
  <2>5. Follows' /\ Between' /\ OnlySurvivorsGlide'
    BY <2>1 DEF SceneInv, Follows, Between, OnlySurvivorsGlide, sound, vars
  <2> QED BY <2>2, <2>3, <2>4, <2>5 DEF SceneInv
<1>2. ASSUME NEW ids \in Requests, QuantumArrives(ids) PROVE SceneInv'
  BY <1>2, ArrivalKeeps
<1>3. CASE Reconciling \/ ProcessFails
  BY <1>3, ReconcilingKeeps, FailureKeeps
<1>4. CASE ProcessSilence \/ Process
  BY <1>4, SilenceKeeps, ProcessKeeps
<1> QED BY <1>1, <1>2, <1>3, <1>4 DEF SceneNext

-----------------------------------------------------------------------------
(* Theorems of reconcile, called by anybody.                                 *)

\* The inductive invariant of the slots holds in every state of every behaviour.
THEOREM Invariance == Spec => []SlotInv
BY InitInv, StepKeeps, PTL DEF Spec

\* The slots, the request and the loop indices keep their types: a request that
\* is being served names no reserved identity.
THEOREM TypeCorrect == Spec => []TypeOK
<1>1. SlotInv => TypeOK
  BY DEF SlotInv
<1> QED BY Invariance, <1>1, PTL

-----------------------------------------------------------------------------
(* Theorems of the scene, which calls reconcile once a quantum.              *)

\* The inductive invariant of the scene holds in every state of every behaviour.
THEOREM SceneInvariance == SceneSpec => []SceneInv
BY SceneInitInv, SceneStepKeeps, PTL DEF SceneSpec

\* The scene uses the slots as StableSourceSlots offers them: every behaviour of
\* the scene is one of the slots, so what holds of them holds in the scene.
THEOREM SceneCallsReconcile == SceneSpec => Spec
<1>1. SceneInit => Init
  BY DEF SceneInit
<1>2. [SceneNext]_sceneVars => [Next]_vars
  <2> SUFFICES ASSUME [SceneNext]_sceneVars PROVE [Next]_vars
    OBVIOUS
  <2>1. CASE UNCHANGED sceneVars
    BY <2>1 DEF sceneVars
  <2>2. ASSUME NEW ids \in Requests, QuantumArrives(ids) PROVE Next
    BY <2>2 DEF QuantumArrives, Next
  <2>3. CASE Reconciling
    BY <2>3 DEF Reconciling, Next
  <2>4. CASE ProcessSilence \/ Process \/ ProcessFails
    BY <2>4 DEF ProcessSilence, Process, ProcessFails
  <2> QED BY <2>1, <2>2, <2>3, <2>4 DEF SceneNext
<1> QED BY <1>1, <1>2, PTL DEF SceneSpec, Spec

\* No identity has two lanes, at any step of a call (stable_source_slots.rs:53).
THEOREM OneLaneEach == SceneSpec => []NoIdTwice
<1>1. SlotInv => NoIdTwice
  BY DEF SlotInv, Lawful
<1> QED BY SceneCallsReconcile, Invariance, <1>1, PTL

\* An identity that survives a call keeps its lane, whatever else comes and goes
\* and in whatever order it is named.
THEOREM SurvivorsKeepLanes == SceneSpec => []SurvivorsStay
<1>1. SlotInv => SurvivorsStay
  BY DEF SlotInv, Lawful
<1> QED BY SceneCallsReconcile, Invariance, <1>1, PTL

\* The error in the middle of the admit loop cannot happen: a call that fails
\* has changed nothing.
THEOREM NeverHalfWay == SceneSpec => []FailsWhole
<1>1. SlotInv => FailsWhole
  BY DEF SlotInv, Lawful
<1> QED BY SceneCallsReconcile, Invariance, <1>1, PTL

\* The two loops of reconcile compute the one-step definition: the k-th new
\* identity of the request has the k-th lane that was free or has become so.
THEOREM LoopsReconcile == SceneSpec => []IsReconciled
<1>1. SlotInv => IsReconciled
  BY DEF SlotInv, Progress
<1> QED BY SceneCallsReconcile, Invariance, <1>1, PTL

\* No object is heard through the filters of another.
THEOREM NoForeignHistory == SceneSpec => []LanesAreClean
<1>1. SceneInv => LanesAreClean
  BY DEF SceneInv, Linked, Follows, LanesAreClean
<1> QED BY SceneInvariance, <1>1, PTL

\* An object glides exactly when it was also active in the quantum before.
THEOREM NoMotionInvented == SceneSpec => []OnlySurvivorsGlide
<1>1. SceneInv => OnlySurvivorsGlide
  BY DEF SceneInv
<1> QED BY SceneInvariance, <1>1, PTL

\* A survivor keeps its lane and what is in its filters, at every step that ends
\* a quantum.
THEOREM SurvivorsSoundOn == SceneSpec => SurvivorsKeepHistory
<1> DEFINE Ends ==
      placing /\ ~placing' =>
        \A s \in Slots : before[s] \in heard' /\ before[s] # Free
          => slots'[s] = before[s] /\ history[LaneOf(s)] \subseteq history'[LaneOf(s)]
<1>1. SceneInv /\ [SceneNext]_sceneVars => [Ends]_sceneVars
  <2> SUFFICES ASSUME SceneInv, SceneNext, placing, ~placing',
                      NEW s \in Slots, before[s] \in heard', before[s] # Free
               PROVE  slots'[s] = before[s] /\ history[LaneOf(s)] \subseteq history'[LaneOf(s)]
    BY DEF sceneVars, scene
  <2>1. ProcessSilence \/ Process
    BY DEF SceneNext, QuantumArrives, Reconciling, ProcessFails, scene
  <2>2. CASE ProcessSilence
    BY <2>2 DEF ProcessSilence
  <2>3. CASE Process
    <3>1. slots[s] = before[s] /\ previous[s].id = before[s]
      BY <2>3, WhatReconcileLeft DEF Process
    <3>2. slots' = slots
      BY <2>3 DEF Process, vars
    <3> QED BY <2>3, <3>1, <3>2, ProcessedLane
  <2> QED BY <2>1, <2>2, <2>3
<1> QED BY SceneInvariance, <1>1, PTL DEF SceneSpec, SurvivorsKeepHistory
=============================================================================
