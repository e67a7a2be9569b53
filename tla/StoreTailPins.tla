---------------------------- MODULE StoreTailPins ----------------------------
(* The pins of StoreTail, for any instance whose system calls accept the   *)
(* reads they are given: a resident record never moves, and - as long as   *)
(* the tier either promotes or prefills in rounds (Separate) - every pin   *)
(* is somebody's, whoever reads a slot finds its record there, and a layer *)
(* is over its size only while pins keep it.                               *)
(*                                                                         *)
(* None of these is inductive.  A pin is dropped by the name of a record   *)
(* (ReleaseRecord, ReleaseRound) or by slot (the request), so the argument *)
(* counts, for each slot, those who will drop one: Wanted.  While pins[s]  *)
(* is at least Wanted, a slot wanted by anybody is not evicted by any trim *)
(* (Kept), so the records the holders name stay where they are, and each   *)
(* release drops the one pin its owner took (WantInv).  The bytes follow:  *)
(* a slot with a record is written by nobody (BytesInv).                   *)
EXTENDS StoreTailProofs

-----------------------------------------------------------------------------
(* What a step does to the slots that hold a record.                       *)

\* a pinned slot holds a record
PinnedResident == \A s \in Slots : pins[s] > 0 => holds[s] # NoRec

\* a resident slot keeps its record, or loses it unpinned; a record that comes in
\* was nowhere, and comes into a slot that held none
HoldsStep ==
  \A s \in Slots :
    /\ holds[s] # NoRec => holds'[s] = holds[s] \/ (holds'[s] = NoRec /\ pins'[s] = 0)
    /\ holds'[s] # NoRec => \/ holds'[s] = holds[s]
                            \/ holds[s] = NoRec /\ \A t \in Slots : holds[t] # holds'[s]

\* nor are the bytes of a resident slot touched
BytesStep == \A s \in Slots : holds[s] # NoRec => content'[s] = content[s]

\* what lru_trim leaves of layer l: at most N records, or none it might evict
Trimmed(l) == \/ Cardinality(Residents(holds', l)) <= PerLayer
              \/ Unpinned(holds', pins', l) = {}

\* a slot a trim of layer l may have emptied
KeptOrEvicted(s, l) ==
  holds'[s] = holds[s] \/ (s \in Residents(holds, l) /\ holds'[s] = NoRec /\ pins'[s] = 0)

LEMMA ResidentSlot ==
  ASSUME TypeOK, TableConsistent, NEW l \in Layers, NEW e \in Experts, slotOf[l][e] # NoSlot
  PROVE  slotOf[l][e] \in Slots /\ holds[slotOf[l][e]] = <<l, e>> /\ <<l, e>> # NoRec
<1>1. slotOf[l][e] \in Slots
  BY DEF TypeOK, TailTypeOK, SlotOrNone
<1>2. holds[slotOf[l][e]] = <<l, e>>
  BY <1>1 DEF TableConsistent
<1> QED BY <1>1, <1>2, NoRecAssumption

\* the slots found by name are those that hold the records
LEMMA NamedSlots ==
  ASSUME TypeOK, TableConsistent, NEW l \in Layers, NEW F \in SUBSET Experts
  PROVE  /\ SlotsOf(l, F) \subseteq Slots
         /\ \A s \in Slots : s \in SlotsOf(l, F) <=> holds[s] \in {l} \X F
<1>1. \A e \in ResidentIn(l, F) : e \in F /\ e \in Experts /\ slotOf[l][e] # NoSlot
  BY DEF ResidentIn
<1>2. \A e \in ResidentIn(l, F) : slotOf[l][e] \in Slots /\ holds[slotOf[l][e]] = <<l, e>>
  BY <1>1, ResidentSlot
<1>3. ASSUME NEW s \in Slots, NEW e \in F, holds[s] = <<l, e>>
      PROVE  s \in SlotsOf(l, F)
  <2>1. slotOf[l][e] = s /\ s # NoSlot
    BY <1>3, NoSlotAssumption DEF TableConsistent
  <2> QED BY <2>1 DEF SlotsOf, ResidentIn
<1>4. \A s \in SlotsOf(l, F) : \E e \in ResidentIn(l, F) : s = slotOf[l][e]
  BY DEF SlotsOf
<1>5. ASSUME NEW s \in SlotsOf(l, F)
      PROVE  s \in Slots /\ holds[s] \in {l} \X F
  <2>1. PICK e \in ResidentIn(l, F) : s = slotOf[l][e]
    BY <1>4
  <2>2. e \in F /\ s \in Slots /\ holds[s] = <<l, e>>
    BY <1>1, <1>2, <2>1
  <2> QED BY <2>2
<1>6. ASSUME NEW s \in Slots, holds[s] \in {l} \X F
      PROVE  s \in SlotsOf(l, F)
  <2>1. PICK e \in F : holds[s] = <<l, e>>
    BY <1>6
  <2> QED BY <1>3, <2>1
<1> QED BY <1>5, <1>6

LEMMA NamedHold ==
  ASSUME TypeOK, TableConsistent, NEW l \in Layers, NEW F \in SUBSET Experts, NEW s \in SlotsOf(l, F)
  PROVE  s \in Slots /\ holds[s] # NoRec
BY NamedSlots, NoRecAssumption

LEMMA VictimsLeave ==
  ASSUME NEW h, NEW o, NEW p, NEW l, NEW V \in VictimSets(h, o, p, l), h \in [Slots -> RecordOrNone],
         holds' = [s \in Slots |-> IF s \in V THEN NoRec ELSE h[s]], pins' = p
  PROVE  /\ \A s \in V : s \in Residents(h, l) /\ pins'[s] = 0
         /\ Trimmed(l)
<1>1. \A s \in V : s \in Residents(h, l) /\ pins'[s] = 0
  BY DEF VictimSets, Unpinned
<1>2. Residents(holds', l) = Residents(h, l) \ V
  BY DEF Residents
<1>3. Unpinned(holds', pins', l) = Unpinned(h, p, l) \ V
  BY <1>2 DEF Unpinned
<1>4. Cardinality(Residents(h, l) \ V) <= PerLayer \/ V = Unpinned(h, p, l)
  BY DEF VictimSets
<1> QED BY <1>1, <1>2, <1>3, <1>4 DEF Trimmed

LEMMA TrimHolds ==
  ASSUME TailTypeOK, NEW l \in Layers, NEW S, UnpinTrim(l, S)
  PROVE  /\ \A s \in Slots : /\ pins'[s] = IF s \in S /\ pins[s] > 0 THEN pins[s] - 1 ELSE pins[s]
                            /\ KeptOrEvicted(s, l)
         /\ Trimmed(l)
<1>1. PICK V \in VictimSets(holds, older, Unpin(S), l) : Evict(l, V, holds, slotOf, older)
  BY DEF UnpinTrim
<1>2. pins' = Unpin(S)
  BY DEF UnpinTrim
<1>3. holds' = [s \in Slots |-> IF s \in V THEN NoRec ELSE holds[s]]
  BY <1>1 DEF Evict
<1>4. (\A s \in V : s \in Residents(holds, l) /\ pins'[s] = 0) /\ Trimmed(l)
  BY <1>1, <1>2, <1>3, VictimsLeave DEF TailTypeOK
<1> QED BY <1>2, <1>3, <1>4 DEF Unpin, KeptOrEvicted

\* an insertion, seen from the slots
LEMMA InsertHolds ==
  ASSUME TailTypeOK, NEW l \in Layers, NEW e \in Experts, NEW z \in Slots, slotOf[l][e] = NoSlot,
         InsertAndPin(l, e, z)
  PROVE  /\ pins' = [pins EXCEPT ![z] = 1] /\ holds'[z] = <<l, e>>
         /\ \A s \in Slots : s # z => pins'[s] = pins[s] /\ KeptOrEvicted(s, l)
         /\ Trimmed(l)
<1> DEFINE h  == [holds EXCEPT ![z] = <<l, e>>]
           so == [slotOf EXCEPT ![l] = [@ EXCEPT ![e] = z]]
           o  == older \cup (Residents(holds, l) \X {z})
           p  == [pins EXCEPT ![z] = 1]
<1>1. PICK V \in VictimSets(h, o, p, l) : Evict(l, V, h, so, o)
  BY DEF InsertAndPin, KeepFirst, BecomeResident
<1>2. pins' = p
  BY DEF InsertAndPin, KeepFirst, BecomeResident
<1>3. holds' = [s \in Slots |-> IF s \in V THEN NoRec ELSE h[s]]
  BY <1>1 DEF Evict
<1>4. p[z] = 1 /\ h[z] = <<l, e>> /\ h \in [Slots -> RecordOrNone]
      /\ \A s \in Slots : s # z => h[s] = holds[s] /\ p[s] = pins[s]
  BY DEF TailTypeOK, RecordOrNone, Record
<1> HIDE DEF h, so, o, p
<1>5. (\A s \in V : s \in Residents(h, l) /\ pins'[s] = 0) /\ Trimmed(l)
  BY <1>1, <1>2, <1>3, <1>4, VictimsLeave
<1>6. z \notin V
  BY <1>2, <1>4, <1>5
<1>7. \A s \in Slots : s # z => pins'[s] = pins[s] /\ KeptOrEvicted(s, l)
  BY <1>2, <1>3, <1>4, <1>5 DEF KeptOrEvicted, Residents
<1>8. holds'[z] = <<l, e>> /\ pins' = [pins EXCEPT ![z] = 1]
  BY <1>2, <1>3, <1>4, <1>6 DEF p
<1> QED BY <1>5, <1>7, <1>8

\* a second copy of a resident record is dropped, and the first is pinned
LEMMA KeepHolds ==
  ASSUME TypeOK, NEW l \in Layers, NEW e \in Experts, NEW z \in Slots, slotOf[l][e] # NoSlot,
         InsertAndPin(l, e, z)
  PROVE  /\ holds' = holds /\ slotOf[l][e] \in Slots /\ Inserted(l, e, z) = slotOf[l][e]
         /\ pins' = [pins EXCEPT ![slotOf[l][e]] = @ + 1]
BY DEF InsertAndPin, KeepFirst, BecomeResident, Inserted, TypeOK, TailTypeOK, SlotOrNone

LEMMA TrimStep ==
  ASSUME TailTypeOK, PinnedResident, NEW l \in Layers, NEW S, UnpinTrim(l, S)
  PROVE  HoldsStep /\ PinnedResident'
<1>1. \A s \in Slots : /\ pins'[s] = IF s \in S /\ pins[s] > 0 THEN pins[s] - 1 ELSE pins[s]
                       /\ KeptOrEvicted(s, l)
  BY TrimHolds
<1>2. HoldsStep
  BY <1>1 DEF HoldsStep, KeptOrEvicted
<1>3. \A s \in Slots : pins[s] \in Nat
  BY DEF TailTypeOK
<1> QED BY <1>1, <1>3 , <1>2 DEF PinnedResident, KeptOrEvicted

LEMMA InsertStep ==
  ASSUME TypeOK, TableConsistent, PinnedResident, NEW l \in Layers, NEW e \in Experts,
         NEW z \in Slots, holds[z] = NoRec, InsertAndPin(l, e, z)
  PROVE  HoldsStep /\ PinnedResident'
<1>0. TailTypeOK /\ <<l, e>> # NoRec /\ \A s \in Slots : s # NoSlot
  BY NoRecAssumption, NoSlotAssumption DEF TypeOK
<1>1. CASE slotOf[l][e] # NoSlot
  <2>1. /\ holds' = holds /\ slotOf[l][e] \in Slots
        /\ pins' = [pins EXCEPT ![slotOf[l][e]] = @ + 1]
    BY <1>1, KeepHolds
  <2>2. holds[slotOf[l][e]] # NoRec
    BY <1>0, <2>1 DEF TableConsistent
  <2>3. PinnedResident'
    BY <1>0, <2>1, <2>2 DEF PinnedResident, TailTypeOK
  <2> QED BY <2>1, <2>3 DEF HoldsStep
<1>2. CASE slotOf[l][e] = NoSlot
  <2>1. /\ pins' = [pins EXCEPT ![z] = 1] /\ holds'[z] = <<l, e>>
        /\ \A s \in Slots : s # z => pins'[s] = pins[s] /\ KeptOrEvicted(s, l)
    BY <1>0, <1>2, InsertHolds
  <2>2. \A t \in Slots : holds[t] # <<l, e>>
    BY <1>0, <1>2 DEF TableConsistent
  <2>3. HoldsStep
    BY <2>1, <2>2 DEF HoldsStep, KeptOrEvicted
  <2>4. \A s \in Slots : pins[s] \in Nat
    BY <1>0 DEF TailTypeOK
  <2>5. PinnedResident'
    BY <1>0, <2>1, <2>4 DEF PinnedResident, KeptOrEvicted
  <2> QED BY <2>3, <2>5
<1> QED BY <1>1, <1>2

\* the reads issued write into spare slots only
LEMMA IssueTears ==
  ASSUME CallsAccepted, ReadsOwned, NEW ok, NEW failed, IssueAndSubmit(ok, failed)
  PROVE  \A s \in Slots \ free : content'[s] = content[s]
<1>1. PICK f \in IssueChoices : \E sent \in SubmitResults(Queued \cup NewReads(f)) :
        content' = [s \in Slots |-> IF \E x \in sent : x.slot = s THEN Torn ELSE content[s]]
  BY DEF IssueAndSubmit
<1>2. PICK sent \in SubmitResults(Queued \cup NewReads(f)) :
        content' = [s \in Slots |-> IF \E x \in sent : x.slot = s THEN Torn ELSE content[s]]
  BY <1>1
<1>3. sent = NewReads(f)
  BY <1>2 DEF SubmitResults, CallsAccepted, ReadsOwned
<1>4. PICK n \in IssueCounts : f \in [1 .. n -> free]
  BY DEF IssueChoices, Injection
<1>5. \A x \in NewReads(f) : \E i \in DOMAIN f : x.slot = f[i]
  BY DEF NewReads
<1> QED BY <1>2, <1>3, <1>4, <1>5

\* one critical section after another, no resident slot is disturbed
LEMMA ArenaDispatcher ==
  ASSUME CallsAccepted, SlotInv, PinnedResident, Dispatcher
  PROVE  HoldsStep /\ BytesStep /\ PinnedResident'
<1>0. TypeOK /\ TailTypeOK /\ TableConsistent /\ layer \in Layers
  BY DEF SlotInv, TypeOK, RequestTypeOK
<1>1. ASSUME UNCHANGED <<holds, pins, content>>
      PROVE  HoldsStep /\ BytesStep /\ PinnedResident'
  BY <1>1 DEF HoldsStep, BytesStep, PinnedResident
<1>2. ASSUME NEW ok, NEW failed, IssueAndSubmit(ok, failed)
      PROVE  HoldsStep /\ BytesStep /\ PinnedResident'
  <2>1. UNCHANGED <<holds, pins>> /\ \A s \in Slots \ free : content'[s] = content[s]
    BY <1>2, IssueTears DEF IssueAndSubmit, SlotInv, RingInv
  <2>2. \A s \in Slots : holds[s] # NoRec => s \notin free
    BY DEF SlotInv, SlotPartition, ResidentSlots
  <2> QED BY <2>1, <2>2 DEF HoldsStep, BytesStep, PinnedResident
<1>3. ASSUME IF pinned # {} THEN UnpinTrim(layer, pinned)
                            ELSE UNCHANGED <<slotOf, holds, older, pins, free>>,
             UNCHANGED content
      PROVE  HoldsStep /\ BytesStep /\ PinnedResident'
  <2>1. CASE pinned # {}
    BY <1>0, <1>3, <2>1, TrimStep DEF BytesStep
  <2>2. CASE pinned = {}
    BY <1>1, <1>3, <2>2
  <2> QED BY <2>1, <2>2
<1>4. ASSUME NEW l \in Layers, NEW E \in SUBSET Experts, Resolve(l, E)
      PROVE  HoldsStep /\ BytesStep /\ PinnedResident'
  <2> DEFINE F == Until(E, AbsentIn(l, E))
  <2>1. /\ pins' = [s \in Slots |-> IF s \in SlotsOf(l, F) THEN pins[s] + 1 ELSE pins[s]]
        /\ UNCHANGED <<holds, content>> /\ F \in SUBSET Experts
    BY <1>4 DEF Resolve, SlotsOf, Until
  <2> HIDE DEF F
  <2>2. \A s \in SlotsOf(l, F) : s \in Slots /\ holds[s] # NoRec
    BY <1>0, <2>1, NamedHold
  <2> QED BY <2>1, <2>2 DEF HoldsStep, BytesStep, PinnedResident
<1>5. CASE Reap
  <2>1. PICK x \in Completed :
       /\ x.ud \in DOMAIN tgt
       /\ \/ UNCHANGED <<holds, pins>>
          \/ InsertAndPin(layer, cold[x.ud], tgt[x.ud])
       /\ UNCHANGED content
    BY <1>5 DEF Reap
  <2>2. /\ x \in io /\ x.slot = tgt[x.ud] /\ x.slot \in Slots /\ cold[x.ud] \in Experts
    BY <2>1 DEF Completed, SlotInv, RingInv, ReadsOwned, TypeOK, RequestTypeOK
  <2>3. holds[x.slot] = NoRec
    BY <2>2 DEF SlotInv, SlotPartition, ResidentSlots, ReadSlots
  <2>4. CASE InsertAndPin(layer, cold[x.ud], tgt[x.ud])
    BY <1>0, <2>1, <2>2, <2>3, <2>4, InsertStep DEF BytesStep
  <2> QED BY <1>1, <2>1, <2>4
<1> QED BY <1>0, <1>1, <1>2, <1>3, <1>4, <1>5, TrimStep
        DEF Dispatcher, Forward, IssueFirst, ResidentDone, LoopExit, Reissue, Wait, ReapDone, Batch,
            Drain, Finish, LastPins, Answer, tailVars, BytesStep

LEMMA ArenaEngine ==
  ASSUME SlotInv, PinnedResident, Engine
  PROVE  HoldsStep /\ BytesStep /\ PinnedResident'
<1>0. TypeOK /\ TailTypeOK /\ EngineTypeOK /\ TableConsistent
  BY DEF SlotInv, TypeOK
<1>1. ASSUME UNCHANGED <<holds, pins, content>>
      PROVE  HoldsStep /\ BytesStep /\ PinnedResident'
  BY <1>1 DEF HoldsStep, BytesStep, PinnedResident
<1>2. ASSUME NEW l \in Layers, NEW S, UnpinTrim(l, S), UNCHANGED content
      PROVE  HoldsStep /\ BytesStep /\ PinnedResident'
  BY <1>0, <1>2, TrimStep DEF BytesStep
<1>3. ASSUME NEW set \in PrefillSets, ReleaseRound(set)
      PROVE  HoldsStep /\ BytesStep /\ PinnedResident'
  <2>1. tailLast[set].layer \in Layers
    BY <1>0, <1>3 DEF ReleaseRound, EngineTypeOK, Round
  <2> QED BY <1>2, <1>3, <2>1 DEF ReleaseRound
<1>4. ASSUME NEW r \in acqPrev, ReleaseRecord(r)
      PROVE  HoldsStep /\ BytesStep /\ PinnedResident'
  <2>1. r[1] \in Layers
    BY <1>0 DEF EngineTypeOK, Record
  <2> QED BY <1>2, <1>4, <2>1 DEF ReleaseRecord
<1>5. ASSUME NEW set \in PrefillSets, NEW l \in Layers, NEW E \in SUBSET Experts, PrefillRound(set, l, E)
      PROVE  HoldsStep /\ BytesStep /\ PinnedResident'
  <2> DEFINE F == ResidentIn(l, Until(E, AbsentIn(l, E)))
  <2>1. /\ pins' = [s \in Slots |-> IF s \in SlotsOf(l, F) THEN pins[s] + 1 ELSE pins[s]]
        /\ UNCHANGED <<holds, content>> /\ F \in SUBSET Experts
    BY <1>5 DEF PrefillRound, Stage, Until, ResidentIn
  <2> HIDE DEF F
  <2>2. \A s \in SlotsOf(l, F) : s \in Slots /\ holds[s] # NoRec
    BY <1>0, <2>1, NamedHold
  <2> QED BY <2>1, <2>2 DEF HoldsStep, BytesStep, PinnedResident
<1>6. ASSUME NEW r \in todo, AcquireResident(r)
      PROVE  HoldsStep /\ BytesStep /\ PinnedResident'
  <2>1. r[1] \in Layers /\ r[2] \in Experts
    BY <1>0 DEF EngineTypeOK, Record
  <2>2. slotOf[r[1]][r[2]] \in Slots /\ holds[slotOf[r[1]][r[2]]] # NoRec
    BY <1>0, <1>6, <2>1, ResidentSlot DEF AcquireResident
  <2> QED BY <1>0, <1>6, <2>2 DEF AcquireResident, HoldsStep, BytesStep, PinnedResident, TailTypeOK
<1>7. ASSUME NEW r \in todo, AcquireCold(r)
      PROVE  HoldsStep /\ BytesStep /\ PinnedResident'
  <2>1. PICK z \in free : content' = [content EXCEPT ![z] = Torn]
    BY <1>7 DEF AcquireCold
  <2>2. \A s \in Slots : holds[s] # NoRec => s # z
    BY DEF SlotInv, SlotPartition, ResidentSlots
  <2> QED BY <1>0, <1>7, <2>1, <2>2 DEF AcquireCold, HoldsStep, BytesStep, PinnedResident, TailTypeOK
<1>8. CASE AcquireRead
  <2> DEFINE l == acquiring.layer
             e == acquiring.expert
             z == acquiring.slot
  <2>1. l \in Layers /\ e \in Experts /\ z \in Slots
    BY <1>0, <1>8 DEF AcquireRead, EngineTypeOK, Reading
  <2>2. holds[z] = NoRec
    BY <1>8, <2>1 DEF AcquireRead, SlotInv, SlotPartition, ResidentSlots, PrivateSlot
  <2>3. \/ content' = [content EXCEPT ![z] = <<l, e>>] /\ InsertAndPin(l, e, z)
        \/ UNCHANGED <<holds, pins, content>>
    BY <1>8 DEF AcquireRead
  <2> HIDE DEF l, e, z
  <2>4. CASE content' = [content EXCEPT ![z] = <<l, e>>] /\ InsertAndPin(l, e, z)
    <3>1. BytesStep
      BY <1>0, <2>2, <2>4 DEF BytesStep, TailTypeOK
    <3> QED BY <1>0, <2>1, <2>2, <2>4, <3>1, InsertStep
  <2> QED BY <1>1, <2>3, <2>4
<1> QED BY <1>1, <1>3, <1>4, <1>5, <1>6, <1>7, <1>8
        DEF Engine, BeforeLaunchEnd, Aging, LaunchDecode, LaunchPrefill, EndPrefill, AfterStep, Skip,
            EndAfterStep, tailVars

LEMMA ArenaStep ==
  ASSUME CallsAccepted, SlotInv, PinnedResident, [Next]_vars
  PROVE  HoldsStep /\ BytesStep /\ PinnedResident'
<1>1. ASSUME UNCHANGED <<holds, pins, content>>
      PROVE  HoldsStep /\ BytesStep /\ PinnedResident'
  BY <1>1 DEF HoldsStep, BytesStep, PinnedResident
<1>2. CASE IoComplete
  <2>1. PICK x \in io : content' = [content EXCEPT ![x.slot] = x.rec] \/ UNCHANGED content
    BY <1>2 DEF IoComplete
  <2>2. \A s \in Slots : holds[s] # NoRec => s # x.slot
    BY DEF SlotInv, SlotPartition, ResidentSlots, ReadSlots
  <2>3. content \in [Slots -> Record \cup {Torn}]
    BY DEF SlotInv, TypeOK, TailTypeOK
  <2> QED BY <1>2, <2>1, <2>2, <2>3 DEF IoComplete, HoldsStep, BytesStep, PinnedResident
<1>3. CASE Gpu \/ UNCHANGED vars
  BY <1>1, <1>3 DEF Gpu, CopyDone, StepDone, vars, tailVars
<1> QED BY <1>2, <1>3, ArenaDispatcher, ArenaEngine DEF Next

LEMMA InitPinned == Init => PinnedResident
BY DEF Init, PinnedResident

LEMMA PinnedAlways ==
  ASSUME CallsAccepted
  PROVE  Spec => [](SlotInv /\ PinnedResident)
<1>1. SlotInv /\ PinnedResident /\ [Next]_vars => (SlotInv /\ PinnedResident)'
  BY ArenaStep, NextSlots
<1> QED BY <1>1, InitSlots, InitPinned, PTL DEF Spec

\* A resident record never moves to another slot and a pinned slot is neither
\* evicted nor rewritten, whichever of the eleven paths of cpu_tier.cpp that
\* take, fill, insert and trim slots run, in any order: the pointers serve
\* hands to the kernel and the copies read through stay good.  No assumption
\* on promotions and rounds is needed: whatever drops a pin, a step that evicts
\* a slot leaves it unpinned.
THEOREM RecordsStay ==
  ASSUME CallsAccepted
  PROVE  Spec => ResidentStays
<1>1. ASSUME SlotInv, PinnedResident, [Next]_vars, SlotInv'
      PROVE  /\ \A l \in Layers, e \in Experts :
                  slotOf[l][e] # NoSlot /\ slotOf'[l][e] # NoSlot => slotOf'[l][e] = slotOf[l][e]
             /\ \A s \in Slots : pins[s] > 0 /\ pins'[s] > 0 =>
                  holds'[s] = holds[s] /\ content'[s] = content[s]
  <2>1. HoldsStep /\ BytesStep
    BY <1>1, ArenaStep
  <2>2. ASSUME NEW l \in Layers, NEW e \in Experts, slotOf[l][e] # NoSlot, slotOf'[l][e] # NoSlot
        PROVE  slotOf'[l][e] = slotOf[l][e]
    <3>1. slotOf[l][e] \in Slots /\ slotOf'[l][e] \in Slots /\ <<l, e>> # NoRec
      BY <1>1, <2>2, NoRecAssumption DEF SlotInv, TypeOK, TailTypeOK, SlotOrNone
    <3> DEFINE s == slotOf[l][e]
               t == slotOf'[l][e]
    <3>2. holds[s] = <<l, e>> /\ holds'[t] = <<l, e>>
      BY <1>1, <3>1 DEF SlotInv, TableConsistent
    <3>3. holds[t] = holds'[t]
      BY <2>1, <3>1, <3>2 DEF HoldsStep
    <3>4. slotOf[l][e] = t
      BY <1>1, <3>1, <3>2, <3>3 DEF SlotInv, TableConsistent
    <3> QED BY <3>4
  <2>3. ASSUME NEW s \in Slots, pins[s] > 0, pins'[s] > 0
        PROVE  holds'[s] = holds[s] /\ content'[s] = content[s]
    <3>1. holds[s] # NoRec
      BY <1>1, <2>3 DEF PinnedResident
    <3> QED BY <2>1, <2>3, <3>1 DEF HoldsStep, BytesStep
  <2> QED BY <2>2, <2>3
<1>2. ASSUME SlotInv, PinnedResident, [Next]_vars, SlotInv'
      PROVE  [/\ \A l \in Layers, e \in Experts :
                   slotOf[l][e] # NoSlot /\ slotOf'[l][e] # NoSlot => slotOf'[l][e] = slotOf[l][e]
              /\ \A s \in Slots : pins[s] > 0 /\ pins'[s] > 0 =>
                   holds'[s] = holds[s] /\ content'[s] = content[s]]_vars
  BY <1>1, <1>2
<1> QED BY <1>2, PinnedAlways, PTL DEF Spec, ResidentStays

-----------------------------------------------------------------------------
(* Who wants which pin.                                                    *)

\* a static placement (no promotions) or no prefill rounds: a round and a
\* promotion that name one record may take each other's pins (StoreTail_theft)
Separate == MaxPromotions = 0 \/ PrefillSets = {}

One(c) == IF c THEN 1 ELSE 0

RoundRecords(t) == {t.layer} \X t.experts
Staged(tl)      == {set \in PrefillSets : tl[set] # NoRec}
Outstanding     == Staged(tailLast)
RoundsAt(h, tl, s) == {set \in Staged(tl) : h[s] \in RoundRecords(tl[set])}

\* the pins of s somebody will drop, and whether there is one, when the request
\* pins pn, the promotions al and ap are out, and the sets have staged tl
Wanted(h, pn, al, ap, tl, s) ==
  One(s \in pn) + One(h[s] \in al) + One(h[s] \in ap) + Cardinality(RoundsAt(h, tl, s))
Wants(h, pn, al, ap, tl, s) ==
  s \in pn \/ h[s] \in al \/ h[s] \in ap \/ RoundsAt(h, tl, s) # {}

\* what the request pins it holds: the residents, then what landed in this batch
RequestInv ==
  /\ \A s \in pinned : holds[s] # NoRec /\ holds[s][1] = layer
  /\ \A r \in reads : r[2] \in pinned /\ holds[r[2]] = <<layer, r[1]>>
  /\ dpc \in {"idle", "loop", "drain"} => pinned = {}
  /\ \A i, j \in DOMAIN cold : cold[i] = cold[j] => i = j
  /\ dpc = "reap" => \A s \in pinned : \E i \in DOMAIN tgt :
       holds[s] = <<layer, cold[i]>> /\ \A x \in io : x.ud # i

\* rounds are out only between a prefill and the next launch, with no request
RoundInv ==
  /\ IsFiniteSet(Outstanding)
  /\ backlog = 0 => dpc = "idle"
  /\ epc = "prefill" => backlog = 0
  /\ Outstanding # {} => backlog = 0 /\ epc \notin {"launch", "pread"}

\* the records promotions have acquired are resident, and each is acquired once a step
PromotionInv ==
  /\ MaxPromotions = 0 => acqLast = {} /\ acqPrev = {} /\ epc # "pread"
  /\ \A r \in acqLast \cup acqPrev : \E s \in Slots : holds[s] = r
  /\ epc \in {"launch", "prefill", "after"} => acqLast = {}
  /\ epc \in {"promote", "pread"} => acqLast \cap todo = {}
  /\ epc = "pread" => <<acquiring.layer, acquiring.expert>> \notin acqLast \cup todo

\* a queued copy reads a record its owner still has pinned
CopyInv ==
  \A c \in copies :
    /\ holds[c.slot] = c.rec
    /\ \/ c.by = "last" /\ c.rec \in acqLast
       \/ c.by = "prev" /\ c.rec \in acqPrev
       \/ c.by \in Outstanding /\ c.rec \in RoundRecords(tailLast[c.by])

\* every pin that is wanted is there, and but for an engine that gave up no other
PinsInv ==
  \A s \in Slots :
    /\ pins[s] >= Wanted(holds, pinned, acqLast, acqPrev, tailLast, s)
    /\ epc # "failed" => pins[s] = Wanted(holds, pinned, acqLast, acqPrev, tailLast, s)

WantInv == RequestInv /\ RoundInv /\ PromotionInv /\ CopyInv /\ PinsInv

LEMMA RoundsFinite ==
  ASSUME NEW h, NEW tl, NEW s, IsFiniteSet(Staged(tl))
  PROVE  /\ IsFiniteSet(RoundsAt(h, tl, s)) /\ Cardinality(RoundsAt(h, tl, s)) \in Nat
         /\ RoundsAt(h, tl, s) = {} <=> Cardinality(RoundsAt(h, tl, s)) = 0
<1>1. IsFiniteSet(RoundsAt(h, tl, s))
  BY FS_Subset DEF RoundsAt
<1> QED BY <1>1, FS_CardinalityType, FS_EmptySet

LEMMA WantedIs ==
  ASSUME NEW h, NEW pn, NEW al, NEW ap, NEW tl, NEW s, IsFiniteSet(Staged(tl))
  PROVE  /\ Wanted(h, pn, al, ap, tl, s) \in Nat
         /\ Wants(h, pn, al, ap, tl, s) <=> Wanted(h, pn, al, ap, tl, s) > 0
BY RoundsFinite DEF Wanted, Wants, One

\* without a round
LEMMA NoRoundsWanted ==
  ASSUME NEW h, NEW pn, NEW al, NEW ap, NEW tl, NEW s, Staged(tl) = {}
  PROVE  /\ IsFiniteSet(Staged(tl))
         /\ Wanted(h, pn, al, ap, tl, s) = One(s \in pn) + One(h[s] \in al) + One(h[s] \in ap)
         /\ Wants(h, pn, al, ap, tl, s) <=> s \in pn \/ h[s] \in al \/ h[s] \in ap
<1>1. RoundsAt(h, tl, s) = {} /\ Cardinality({}) = 0 /\ IsFiniteSet({})
  BY FS_EmptySet DEF RoundsAt
<1> QED BY <1>1 DEF Wanted, Wants, One

\* a slot whose pin is wanted is not evicted; so the others are wanted by nobody
LEMMA Kept ==
  ASSUME NEW h \in [Slots -> RecordOrNone], NEW g, NEW p \in [Slots -> Nat], NEW pn, NEW al \in SUBSET Record,
         NEW ap \in SUBSET Record, NEW tl \in [PrefillSets -> Round \cup {NoRec}], IsFiniteSet(Staged(tl)),
         NEW s \in Slots, g[s] = h[s] \/ (g[s] = NoRec /\ p[s] = 0),
         p[s] >= Wanted(h, pn, al, ap, tl, s)
  PROVE  /\ Wanted(g, pn, al, ap, tl, s) = Wanted(h, pn, al, ap, tl, s)
         /\ Wants(h, pn, al, ap, tl, s) => g[s] = h[s]
<1>1. CASE g[s] = h[s]
  <2>1. RoundsAt(g, tl, s) = RoundsAt(h, tl, s)
    BY <1>1 DEF RoundsAt
  <2> QED BY <1>1, <2>1 DEF Wanted
<1>2. CASE g[s] = NoRec /\ p[s] = 0
  <2>1. Wanted(h, pn, al, ap, tl, s) = 0 /\ ~Wants(h, pn, al, ap, tl, s)
    BY <1>2, WantedIs
  <2>2. NoRec \notin Record
    BY NoRecAssumption DEF Record
  <2>3. RoundsAt(g, tl, s) = {}
    <3>1. \A set \in Staged(tl) : RoundRecords(tl[set]) \subseteq Record
      BY DEF Staged, RoundRecords, Round, Record
    <3> QED BY <1>2, <2>2, <3>1 DEF RoundsAt
  <2>4. ~Wants(g, pn, al, ap, tl, s)
    BY <1>2, <2>1, <2>2, <2>3 DEF Wants
  <2> QED BY <2>1, <2>4, WantedIs
<1> QED BY <1>1, <1>2

\* the pins after a step, when they are right for the records before it: those
\* of the slot z it fills, if it does, are counted apart
LEMMA KeptAll ==
  ASSUME TypeOK, TypeOK', IsFiniteSet(Outstanding'), NEW z,
         \A s \in Slots \ {z} :
           /\ holds'[s] = holds[s] \/ (holds'[s] = NoRec /\ pins'[s] = 0)
           /\ pins'[s] >= Wanted(holds, pinned', acqLast', acqPrev', tailLast', s)
           /\ epc' # "failed" => pins'[s] = Wanted(holds, pinned', acqLast', acqPrev', tailLast', s),
         z \in Slots => pins'[z] = Wanted(holds', pinned', acqLast', acqPrev', tailLast', z)
  PROVE  /\ PinsInv'
         /\ \A s \in Slots \ {z} :
              Wants(holds, pinned', acqLast', acqPrev', tailLast', s) => holds'[s] = holds[s]
<1>1. /\ holds \in [Slots -> RecordOrNone] /\ pins' \in [Slots -> Nat]
      /\ acqLast' \in SUBSET Record /\ acqPrev' \in SUBSET Record
      /\ tailLast' \in [PrefillSets -> Round \cup {NoRec}]
  BY DEF TypeOK, TailTypeOK, EngineTypeOK
<1>2. IsFiniteSet(Staged(tailLast'))
  BY DEF Outstanding
<1>3. ASSUME NEW s \in Slots \ {z}
      PROVE  /\ Wanted(holds', pinned', acqLast', acqPrev', tailLast', s)
                  = Wanted(holds, pinned', acqLast', acqPrev', tailLast', s)
             /\ Wants(holds, pinned', acqLast', acqPrev', tailLast', s) => holds'[s] = holds[s]
  BY <1>1, <1>2, <1>3, Kept
<1>4. ASSUME NEW s \in Slots
      PROVE  /\ pins'[s] >= Wanted(holds', pinned', acqLast', acqPrev', tailLast', s)
             /\ epc' # "failed" => pins'[s] = Wanted(holds', pinned', acqLast', acqPrev', tailLast', s)
  <2>1. pins'[s] \in Nat
    BY <1>1
  <2> QED BY <1>3, <2>1
<1> QED BY <1>3, <1>4 DEF PinsInv

-----------------------------------------------------------------------------
(* The dispatcher.  While it serves, no round is out.                      *)

LEMMA ServingNoRound ==
  ASSUME TypeOK, WantInv, UNCHANGED <<epc, tailLast, backlog>>, backlog > 0
  PROVE  Outstanding = {} /\ Staged(tailLast) = {} /\ Staged(tailLast') = {} /\ RoundInv'
<1>1. backlog # 0 /\ Outstanding = {}
  BY DEF WantInv, RoundInv, TypeOK, StepTypeOK
<1> QED BY <1>1 DEF WantInv, RoundInv, Outstanding

\* nothing moves in the arena or in the engine's lists
LEMMA SameWants ==
  ASSUME WantInv, UNCHANGED <<holds, pins, pinned, acqLast, acqPrev, copies, tailLast, epc, acquiring, todo>>
  PROVE  PromotionInv' /\ CopyInv' /\ PinsInv'
BY DEF WantInv, PromotionInv, CopyInv, PinsInv, Outstanding

\* the promotions and their copies, when the wanted records are where they were
LEMMA WantedStay ==
  ASSUME TypeOK, PromotionInv, CopyInv, Staged(tailLast) = {}, NEW z, z \in Slots => holds[z] = NoRec,
         UNCHANGED <<acqLast, acqPrev, copies, tailLast, epc, acquiring, todo>>,
         \A s \in Slots \ {z} :
           Wants(holds, pinned', acqLast', acqPrev', tailLast', s) => holds'[s] = holds[s]
  PROVE  PromotionInv' /\ CopyInv'
<1>1. acqLast \subseteq Record /\ acqPrev \subseteq Record /\ NoRec \notin Record
  BY NoRecAssumption DEF TypeOK, EngineTypeOK, Record
<1>2. \A s \in Slots : holds[s] \in acqLast \cup acqPrev => holds'[s] = holds[s]
  BY <1>1 DEF Wants
<1>3. PromotionInv'
  BY <1>2 DEF PromotionInv
<1>4. \A c \in copies : c.slot \in Slots
  BY DEF TypeOK, EngineTypeOK, Copy
<1>5. CopyInv'
  BY <1>2, <1>4 DEF CopyInv, Outstanding
<1> QED BY <1>3, <1>5

\* the request's pins drop
LEMMA UnpinWants ==
  ASSUME TypeOK, TypeOK', WantInv, dpc # "idle", UNCHANGED <<engVars, backlog>>,
         UnpinTrim(layer, pinned) \/ (pinned = {} /\ UNCHANGED <<holds, pins>>),
         pinned' = {}, reads' = {}, UNCHANGED cold \/ cold' = <<>>, dpc' # "reap"
  PROVE  WantInv'
<1>0. UNCHANGED <<acqLast, acqPrev, copies, tailLast, epc, acquiring, todo, backlog>> /\ layer \in Layers
      /\ TailTypeOK
  BY DEF engVars, stepVars, TypeOK, RequestTypeOK
<1>1. backlog > 0
  BY DEF WantInv, RoundInv, TypeOK, StepTypeOK
<1>2. Staged(tailLast) = {} /\ Staged(tailLast') = {} /\ RoundInv'
  BY <1>0, <1>1, ServingNoRound
<1>3. RequestInv'
  <2>1. \A i, j \in DOMAIN cold' : cold'[i] = cold'[j] => i = j
    BY DEF WantInv, RequestInv
  <2> QED BY <2>1 DEF RequestInv
<1>4. CASE pinned = {} /\ UNCHANGED <<holds, pins>>
  BY <1>0, <1>2, <1>3, <1>4, SameWants DEF WantInv
<1>5. CASE UnpinTrim(layer, pinned)
  <2>1. \A s \in Slots : /\ pins'[s] = IF s \in pinned /\ pins[s] > 0 THEN pins[s] - 1 ELSE pins[s]
                         /\ KeptOrEvicted(s, layer)
    BY <1>0, <1>5, TrimHolds
  <2>2. ASSUME NEW s \in Slots \ {NoSlot}
        PROVE  /\ holds'[s] = holds[s] \/ (holds'[s] = NoRec /\ pins'[s] = 0)
               /\ pins'[s] >= Wanted(holds, pinned', acqLast', acqPrev', tailLast', s)
               /\ epc' # "failed" => pins'[s] = Wanted(holds, pinned', acqLast', acqPrev', tailLast', s)
    <3>1. Wanted(holds, pinned, acqLast, acqPrev, tailLast, s)
            = One(s \in pinned) + One(holds[s] \in acqLast) + One(holds[s] \in acqPrev)
      BY <1>2, NoRoundsWanted
    <3>2. Wanted(holds, pinned', acqLast', acqPrev', tailLast', s)
            = One(holds[s] \in acqLast) + One(holds[s] \in acqPrev)
      BY <1>0, <1>2, NoRoundsWanted DEF One
    <3>3. /\ pins[s] \in Nat /\ pins[s] >= Wanted(holds, pinned, acqLast, acqPrev, tailLast, s)
          /\ epc # "failed" => pins[s] = Wanted(holds, pinned, acqLast, acqPrev, tailLast, s)
      BY <1>0 DEF TailTypeOK, WantInv, PinsInv
    <3>4. pins'[s] = IF s \in pinned /\ pins[s] > 0 THEN pins[s] - 1 ELSE pins[s]
      BY <2>1
    <3>5. holds'[s] = holds[s] \/ (holds'[s] = NoRec /\ pins'[s] = 0)
      BY <2>1 DEF KeptOrEvicted
    <3> QED BY <1>0, <3>1, <3>2, <3>3, <3>4, <3>5 DEF One
  <2>3. IsFiniteSet(Outstanding') /\ NoSlot \notin Slots
    BY <1>2, NoRoundsWanted, NoSlotAssumption DEF Outstanding
  <2>4. /\ PinsInv'
        /\ \A s \in Slots \ {NoSlot} :
             Wants(holds, pinned', acqLast', acqPrev', tailLast', s) => holds'[s] = holds[s]
    BY <2>2, <2>3, KeptAll
  <2>5. PromotionInv' /\ CopyInv'
    BY <1>0, <1>2, <2>3, <2>4, WantedStay DEF WantInv
  <2> QED BY <1>2, <1>3, <2>4, <2>5 DEF WantInv
<1> QED BY <1>4, <1>5

LEMMA ResolveWants ==
  ASSUME TypeOK, TypeOK', TableConsistent, WantInv, NEW l \in Layers, NEW E \in SUBSET Experts, Resolve(l, E)
  PROVE  WantInv'
<1> DEFINE F  == Until(E, AbsentIn(l, E))
           Rs == ResidentIn(l, F)
           S  == SlotsOf(l, F)
<1>0. UNCHANGED <<acqLast, acqPrev, copies, tailLast, epc, acquiring, todo, backlog, holds>>
  BY DEF Resolve, engVars, stepVars
<1>1. backlog > 0 /\ dpc = "idle" /\ pinned = {}
  BY DEF Resolve, WantInv, RequestInv
<1>2. /\ pins' = [s \in Slots |-> IF s \in S THEN pins[s] + 1 ELSE pins[s]]
      /\ pinned' = S /\ layer' = l /\ cold' \in InOrder(F \ Rs)
      /\ reads' = {<<e, slotOf[l][e]>> : e \in Rs}
      /\ dpc' \in {"finish", "forward", "issue"}
  BY DEF Resolve, SlotsOf
<1>3. F \in SUBSET Experts
  BY DEF Until
<1> HIDE DEF F
<1>4. S \subseteq Slots /\ \A s \in Slots : s \in S <=> holds[s] \in {l} \X F
  BY <1>3, NamedSlots
<1>5. \A e \in Rs : e \in F /\ slotOf[l][e] \in S /\ holds[slotOf[l][e]] = <<l, e>>
  <2>1. ASSUME NEW e \in Rs PROVE e \in F /\ slotOf[l][e] \in S /\ holds[slotOf[l][e]] = <<l, e>>
    <3>1. e \in F /\ e \in Experts /\ slotOf[l][e] # NoSlot
      BY <1>3 DEF ResidentIn
    <3> QED BY <3>1, ResidentSlot DEF SlotsOf
  <2> QED BY <2>1
<1>6. Staged(tailLast) = {} /\ Staged(tailLast') = {} /\ RoundInv'
  BY <1>0, <1>1, ServingNoRound
<1>7. RequestInv'
  <2>1. \A i, j \in DOMAIN cold' : cold'[i] = cold'[j] => i = j
    <3>0. PICK q \in InOrder(F \ Rs) : cold' = q
      BY <1>2
    <3>1. \A i, j \in DOMAIN q : i < j => q[i] < q[j]
      BY DEF InOrder
    <3>2. F \ Rs \subseteq Nat /\ Cardinality(F \ Rs) \in Nat
      BY <1>3, ExpertsAssumption, FS_Subset, FS_CardinalityType
    <3>3. q \in [1 .. Cardinality(F \ Rs) -> F \ Rs]
      BY DEF InOrder
    <3>4. DOMAIN q \subseteq Nat /\ \A i \in DOMAIN q : q[i] \in Nat
      <4> DEFINE m == Cardinality(F \ Rs)
                 X == F \ Rs
      <4>1. q \in [1 .. m -> X] /\ m \in Nat /\ X \subseteq Nat
        BY <3>2, <3>3
      <4> HIDE DEF m, X
      <4>2. DOMAIN q = 1 .. m /\ \A i \in 1 .. m : q[i] \in X
        BY <4>1
      <4>3. DOMAIN q \subseteq Nat
        BY <4>1, <4>2
      <4> QED BY <4>1, <4>2, <4>3
    <3>5. ASSUME NEW i \in DOMAIN q, NEW j \in DOMAIN q, q[i] = q[j], i # j
          PROVE  FALSE
      <4>1. i \in Nat /\ j \in Nat /\ q[i] \in Nat /\ q[j] \in Nat
        BY <3>4
      <4>2. i < j \/ j < i
        BY <3>5, <4>1
      <4>3. q[i] < q[j] \/ q[j] < q[i]
        BY <3>1, <4>2
      <4> QED BY <3>5, <4>1, <4>3
    <3> QED BY <3>0, <3>5
  <2>2. \A s \in pinned' : holds'[s] # NoRec /\ holds'[s][1] = layer'
    BY <1>0, <1>2, <1>4, <1>3, NoRecAssumption
  <2>3. \A r \in reads' : r[2] \in pinned' /\ holds'[r[2]] = <<layer', r[1]>>
    BY <1>0, <1>2, <1>5
  <2> QED BY <1>2, <2>1, <2>2, <2>3 DEF RequestInv
<1>8. ASSUME NEW s \in Slots \ {NoSlot}
      PROVE  /\ holds'[s] = holds[s] \/ (holds'[s] = NoRec /\ pins'[s] = 0)
             /\ pins'[s] >= Wanted(holds, pinned', acqLast', acqPrev', tailLast', s)
             /\ epc' # "failed" => pins'[s] = Wanted(holds, pinned', acqLast', acqPrev', tailLast', s)
  <2>1. Wanted(holds, pinned, acqLast, acqPrev, tailLast, s)
          = One(s \in pinned) + One(holds[s] \in acqLast) + One(holds[s] \in acqPrev)
    BY <1>6, NoRoundsWanted
  <2>2. Wanted(holds, pinned', acqLast', acqPrev', tailLast', s)
          = One(s \in S) + One(holds[s] \in acqLast) + One(holds[s] \in acqPrev)
    BY <1>0, <1>2, <1>6, NoRoundsWanted
  <2>3. /\ pins[s] \in Nat /\ pins[s] >= Wanted(holds, pinned, acqLast, acqPrev, tailLast, s)
        /\ epc # "failed" => pins[s] = Wanted(holds, pinned, acqLast, acqPrev, tailLast, s)
    BY DEF TypeOK, TailTypeOK, WantInv, PinsInv
  <2>4. pins'[s] = IF s \in S THEN pins[s] + 1 ELSE pins[s]
    BY <1>2
  <2> QED BY <1>0, <1>1, <2>1, <2>2, <2>3, <2>4 DEF One
<1>9. IsFiniteSet(Outstanding') /\ NoSlot \notin Slots
  BY <1>6, NoRoundsWanted, NoSlotAssumption DEF Outstanding
<1>10. PinsInv'
  BY <1>8, <1>9, KeptAll
<1>11. PromotionInv' /\ CopyInv'
  BY <1>0, <1>6, <1>9, WantedStay DEF WantInv
<1> QED BY <1>6, <1>7, <1>10, <1>11 DEF WantInv

\* a completion that is kept: the record's slot is pinned once more, or z becomes it
LEMMA ReapWants ==
  ASSUME SlotInv, TypeOK', WantInv, Reap
  PROVE  WantInv'
<1>0. /\ UNCHANGED <<acqLast, acqPrev, copies, tailLast, epc, acquiring, todo, backlog, dpc, layer, cold, tgt>>
      /\ TypeOK /\ TailTypeOK /\ layer \in Layers /\ dpc = "reap" /\ TableConsistent
  BY DEF Reap, engVars, stepVars, SlotInv, TypeOK, RequestTypeOK
<1>1. backlog > 0
  BY <1>0 DEF WantInv, RoundInv, TypeOK, StepTypeOK
<1>2. Staged(tailLast) = {} /\ Staged(tailLast') = {} /\ RoundInv'
  BY <1>0, <1>1, ServingNoRound
<1>3. PICK x \in Completed :
       /\ x.ud \in DOMAIN tgt
       /\ io' = io \ {x}
       /\ \/ UNCHANGED <<holds, pins, pinned, reads>>
          \/ /\ InsertAndPin(layer, cold[x.ud], tgt[x.ud])
             /\ pinned' = pinned \cup {Inserted(layer, cold[x.ud], tgt[x.ud])}
             /\ reads' = reads \cup {<<cold[x.ud], Inserted(layer, cold[x.ud], tgt[x.ud])>>}
  BY DEF Reap
<1> DEFINE e == cold[x.ud]
           z == tgt[x.ud]
           y == Inserted(layer, e, z)
<1>4. /\ x \in io /\ z = x.slot /\ z \in Slots /\ e \in Experts /\ x.ud \in DOMAIN cold
      /\ DOMAIN tgt \subseteq DOMAIN cold
  BY <1>0, <1>3 DEF Completed, SlotInv, RingInv, ReadsOwned, TypeOK, RequestTypeOK
<1>5. holds[z] = NoRec /\ <<layer, e>> # NoRec /\ <<layer, e>> \in Record /\ NoRec \notin Record
  BY <1>0, <1>4, NoRecAssumption DEF SlotInv, SlotPartition, ResidentSlots, ReadSlots, Record
<1>6. /\ acqLast \subseteq Record /\ acqPrev \subseteq Record /\ pinned \subseteq Slots
      /\ pins \in [Slots -> Nat] /\ z \notin pinned
  BY <1>0, <1>5 DEF TypeOK, EngineTypeOK, RequestTypeOK, TailTypeOK, WantInv, RequestInv
<1>7. \A s \in pinned : holds[s] # <<layer, e>>
  <2> SUFFICES ASSUME NEW s \in pinned, holds[s] = <<layer, e>> PROVE FALSE
    OBVIOUS
  <2>1. PICK i \in DOMAIN tgt : holds[s] = <<layer, cold[i]>> /\ \A v \in io : v.ud # i
    BY <1>0 DEF WantInv, RequestInv
  <2>2. cold[i] = cold[x.ud] /\ i \in DOMAIN cold
    BY <1>4, <2>1
  <2>3. i = x.ud
    BY <1>4, <2>2 DEF WantInv, RequestInv
  <2> QED BY <1>4, <2>1, <2>3
\* the slots pinned before keep their records and their reads are no longer in the ring
<1>8. ASSUME NEW k, k = <<layer, e>>, y \in Slots, holds'[y] = k, \A s \in pinned : holds'[s] = holds[s],
             pinned' = pinned \cup {y}, reads' = reads \cup {<<e, y>>}
      PROVE  RequestInv'
  <2>1. \A s \in pinned' : holds'[s] # NoRec /\ holds'[s][1] = layer'
    BY <1>0, <1>5, <1>8 DEF WantInv, RequestInv
  <2>2. \A r \in reads' : r[2] \in pinned' /\ holds'[r[2]] = <<layer', r[1]>>
    BY <1>0, <1>8 DEF WantInv, RequestInv
  <2>3. ASSUME NEW s \in pinned'
        PROVE  \E i \in DOMAIN tgt' : holds'[s] = <<layer', cold'[i]>> /\ \A v \in io' : v.ud # i
    <3>1. CASE s \in pinned
      <4>1. PICK i \in DOMAIN tgt : holds[s] = <<layer, cold[i]>> /\ \A v \in io : v.ud # i
        BY <1>0, <3>1 DEF WantInv, RequestInv
      <4>2. holds'[s] = <<layer', cold'[i]>> /\ i \in DOMAIN tgt' /\ \A v \in io' : v.ud # i
        BY <1>0, <1>3, <1>8, <3>1, <4>1
      <4> QED BY <4>2
    <3>2. CASE s = y
      <4>1. \A v \in io' : v.ud # x.ud
        BY <1>3, <1>4 DEF SlotInv, RingInv, ReadsOwned
      <4> QED BY <1>0, <1>3, <1>8, <3>2, <4>1
    <3> QED BY <1>8, <3>1, <3>2
  <2> QED BY <1>0, <2>1, <2>2, <2>3 DEF WantInv, RequestInv
<1>9. CASE UNCHANGED <<holds, pins, pinned, reads>>
  <2>1. RequestInv'
    BY <1>0, <1>3, <1>9 DEF WantInv, RequestInv
  <2> QED BY <1>0, <1>2, <1>9, <2>1, SameWants DEF WantInv
<1>10. CASE /\ InsertAndPin(layer, e, z) /\ pinned' = pinned \cup {y} /\ reads' = reads \cup {<<e, y>>}
            /\ slotOf[layer][e] # NoSlot
  <2>1. /\ holds' = holds /\ y \in Slots /\ holds[y] = <<layer, e>>
        /\ pins' = [pins EXCEPT ![y] = @ + 1]
    BY <1>0, <1>4, <1>10, KeepHolds, ResidentSlot
  <2>2. y \notin pinned
    BY <1>7, <2>1
  <2>3. RequestInv'
    BY <1>8, <1>10, <2>1
  <2>4. ASSUME NEW s \in Slots \ {NoSlot}
        PROVE  /\ holds'[s] = holds[s] \/ (holds'[s] = NoRec /\ pins'[s] = 0)
               /\ pins'[s] >= Wanted(holds, pinned', acqLast', acqPrev', tailLast', s)
               /\ epc' # "failed" => pins'[s] = Wanted(holds, pinned', acqLast', acqPrev', tailLast', s)
    <3>1. Wanted(holds, pinned, acqLast, acqPrev, tailLast, s)
            = One(s \in pinned) + One(holds[s] \in acqLast) + One(holds[s] \in acqPrev)
      BY <1>2, NoRoundsWanted
    <3>2. Wanted(holds, pinned', acqLast', acqPrev', tailLast', s)
            = One(s \in pinned') + One(holds[s] \in acqLast) + One(holds[s] \in acqPrev)
      BY <1>0, <1>2, NoRoundsWanted
    <3>3. /\ pins[s] \in Nat /\ pins[s] >= Wanted(holds, pinned, acqLast, acqPrev, tailLast, s)
          /\ epc # "failed" => pins[s] = Wanted(holds, pinned, acqLast, acqPrev, tailLast, s)
      BY <1>6 DEF WantInv, PinsInv
    <3>4. pins'[s] = IF s = y THEN pins[s] + 1 ELSE pins[s]
      BY <1>6, <2>1
    <3>5. One(s \in pinned') = IF s = y THEN One(s \in pinned) + 1 ELSE One(s \in pinned)
      BY <1>10, <2>2 DEF One
    <3> QED BY <1>0, <2>1, <3>1, <3>2, <3>3, <3>4, <3>5 DEF One
  <2>5. IsFiniteSet(Outstanding') /\ NoSlot \notin Slots
    BY <1>2, NoRoundsWanted, NoSlotAssumption DEF Outstanding
  <2>6. PinsInv'
    BY <1>0, <2>4, <2>5, KeptAll
  <2>7. PromotionInv' /\ CopyInv'
    BY <1>0, <1>2, <2>1, <2>5, WantedStay DEF WantInv
  <2> QED BY <1>2, <2>3, <2>6, <2>7 DEF WantInv
<1>11. CASE /\ InsertAndPin(layer, e, z) /\ pinned' = pinned \cup {y} /\ reads' = reads \cup {<<e, y>>}
            /\ slotOf[layer][e] = NoSlot
  <2>1. /\ pins' = [pins EXCEPT ![z] = 1] /\ holds'[z] = <<layer, e>> /\ y = z
        /\ \A s \in Slots : s # z => pins'[s] = pins[s] /\ KeptOrEvicted(s, layer)
    BY <1>0, <1>4, <1>11, InsertHolds DEF Inserted
  <2>2. \A s \in Slots : holds[s] # <<layer, e>>
    BY <1>0, <1>4, <1>11, NoSlotAssumption DEF TableConsistent
  <2>3. <<layer, e>> \notin acqLast /\ <<layer, e>> \notin acqPrev
    BY <2>2 DEF WantInv, PromotionInv
  <2>4. ASSUME NEW s \in Slots \ {z}
        PROVE  /\ holds'[s] = holds[s] \/ (holds'[s] = NoRec /\ pins'[s] = 0)
               /\ pins'[s] >= Wanted(holds, pinned', acqLast', acqPrev', tailLast', s)
               /\ epc' # "failed" => pins'[s] = Wanted(holds, pinned', acqLast', acqPrev', tailLast', s)
    <3>1. Wanted(holds, pinned, acqLast, acqPrev, tailLast, s)
            = One(s \in pinned) + One(holds[s] \in acqLast) + One(holds[s] \in acqPrev)
      BY <1>2, NoRoundsWanted
    <3>2. Wanted(holds, pinned', acqLast', acqPrev', tailLast', s)
            = One(s \in pinned) + One(holds[s] \in acqLast) + One(holds[s] \in acqPrev)
      BY <1>0, <1>2, <1>11, <2>1, NoRoundsWanted DEF One
    <3>3. /\ pins[s] \in Nat /\ pins[s] >= Wanted(holds, pinned, acqLast, acqPrev, tailLast, s)
          /\ epc # "failed" => pins[s] = Wanted(holds, pinned, acqLast, acqPrev, tailLast, s)
      BY <1>6 DEF WantInv, PinsInv
    <3>4. pins'[s] = pins[s] /\ (holds'[s] = holds[s] \/ (holds'[s] = NoRec /\ pins'[s] = 0))
      BY <2>1 DEF KeptOrEvicted
    <3> QED BY <1>0, <3>1, <3>2, <3>3, <3>4
  <2>5. pins'[z] = Wanted(holds', pinned', acqLast', acqPrev', tailLast', z)
    <3>1. Wanted(holds', pinned', acqLast', acqPrev', tailLast', z)
            = One(z \in pinned') + One(holds'[z] \in acqLast') + One(holds'[z] \in acqPrev')
      BY <1>2, NoRoundsWanted
    <3>2. pins'[z] = 1
      BY <1>4, <1>6, <2>1
    <3> QED BY <1>0, <1>11, <2>1, <2>3, <3>1, <3>2 DEF One
  <2>6. IsFiniteSet(Outstanding')
    BY <1>2, NoRoundsWanted DEF Outstanding
  <2>7. /\ PinsInv'
        /\ \A s \in Slots \ {z} :
             Wants(holds, pinned', acqLast', acqPrev', tailLast', s) => holds'[s] = holds[s]
    BY <1>0, <2>4, <2>5, <2>6, KeptAll
  <2>8. PromotionInv' /\ CopyInv'
    BY <1>0, <1>2, <1>5, <2>7, WantedStay DEF WantInv
  <2>9. \A s \in pinned : holds'[s] = holds[s]
    BY <1>6, <1>11, <2>7 DEF Wants
  <2>10. RequestInv'
    BY <1>4, <1>8, <1>11, <2>1, <2>9
  <2> QED BY <1>2, <2>7, <2>8, <2>10 DEF WantInv
<1> QED BY <1>3, <1>9, <1>10, <1>11

\* the request goes on with the records it holds
LEMMA ServeWants ==
  ASSUME TypeOK, WantInv, dpc # "idle", UNCHANGED <<holds, pins, pinned, layer, cold, engVars, backlog>>,
         reads' \subseteq reads, dpc' # "idle", dpc' \in {"loop", "drain", "reap"} => pinned = {}
  PROVE  WantInv'
<1>1. UNCHANGED <<acqLast, acqPrev, copies, tailLast, epc, acquiring, todo, backlog>>
  BY DEF engVars
<1>2. backlog > 0
  BY DEF WantInv, RoundInv, TypeOK, StepTypeOK
<1>3. RoundInv'
  BY <1>1, <1>2, ServingNoRound
<1>4. RequestInv'
  BY DEF WantInv, RequestInv
<1> QED BY <1>1, <1>3, <1>4, SameWants DEF WantInv

LEMMA DispatcherWants ==
  ASSUME CallsAccepted, SlotInv, SlotInv', WantInv, Dispatcher
  PROVE  WantInv'
<1>0. TypeOK /\ TypeOK' /\ TableConsistent
  BY DEF SlotInv
<1>1. ASSUME NEW ok \in {"resident", "loop", "batch"}, NEW failed, IssueAndSubmit(ok, failed),
             dpc # "idle", dpc = "loop" \/ ok # "loop",
             UNCHANGED <<layer, cold, landed, pinned, reads, engVars, stepVars>>
      PROVE  WantInv'
  <2>1. dpc' = ok
    BY <1>1, IssueMoves DEF SlotInv, RingInv
  <2>2. UNCHANGED <<holds, pins, pinned, layer, cold, engVars, backlog>>
    BY <1>1 DEF IssueAndSubmit, stepVars
  <2>3. dpc' \in {"loop", "drain", "reap"} => pinned = {}
    BY <1>1, <2>1 DEF WantInv, RequestInv
  <2> QED BY <1>0, <1>1, <2>1, <2>2, <2>3, ServeWants
<1>2. CASE Forward
  BY <1>0, <1>2, ServeWants DEF Forward, tailVars, reqVars, stepVars
<1>3. CASE IssueFirst
  BY <1>1, <1>3 DEF IssueFirst
<1>4. CASE ResidentDone
  BY <1>0, <1>4, UnpinWants DEF ResidentDone, reqVars, stepVars
<1>5. CASE LoopExit
  BY <1>0, <1>5, ServeWants DEF LoopExit, tailVars, reqVars, stepVars, WantInv, RequestInv
<1>6. CASE Reissue
  BY <1>1, <1>6 DEF Reissue, Landing
<1>7. CASE Wait
  BY <1>0, <1>7, ServeWants DEF Wait, Landing, tailVars, reqVars, stepVars, WantInv, RequestInv
<1>8. CASE Reap
  BY <1>0, <1>8, ReapWants
<1>9. CASE ReapDone
  <2>1. CASE IssueAndSubmit("batch", "drain")
    BY <1>1, <1>9, <2>1 DEF ReapDone
  <2>2. CASE dpc' = "batch" /\ UNCHANGED tailVars
    BY <1>0, <1>9, <2>2, ServeWants DEF ReapDone, tailVars, stepVars
  <2> QED BY <1>9, <2>1, <2>2 DEF ReapDone
<1>10. CASE Batch
  BY <1>0, <1>10, UnpinWants DEF Batch, reqVars, stepVars
<1>11. CASE Drain
  BY <1>0, <1>11, ServeWants DEF Drain, reqVars, stepVars, WantInv, RequestInv
<1>12. CASE Finish
  BY <1>0, <1>12, UnpinWants DEF Finish, Answer, LastPins
<1> QED BY <1>0, <1>2, <1>3, <1>4, <1>5, <1>6, <1>7, <1>8, <1>9, <1>10, <1>11, <1>12, ResolveWants
        DEF Dispatcher

-----------------------------------------------------------------------------
(* The engine.  Either it promotes, or it stages rounds.                   *)

\* the engine moves on: nothing in the arena changes
LEMMA SameArenaWants ==
  ASSUME WantInv, UNCHANGED <<holds, pins, dispVars, acqLast, acqPrev, copies, tailLast>>,
         epc # "failed", PromotionInv', RoundInv', UNCHANGED io
  PROVE  WantInv'
<1>1. UNCHANGED <<pinned, reads, layer, dpc, cold, tgt>>
  BY DEF dispVars, reqVars
<1>2. RequestInv' /\ CopyInv' /\ PinsInv'
  BY <1>1 DEF WantInv, RequestInv, CopyInv, PinsInv, Outstanding
<1> QED BY <1>2 DEF WantInv

LEMMA EngineMoves ==
  ASSUME TypeOK, WantInv,
         \/ LaunchDecode \/ LaunchPrefill \/ EndPrefill \/ AfterStep \/ EndAfterStep
         \/ \E r \in todo : Skip(r)
         \/ Separate /\ \E r \in todo : AcquireCold(r)
  PROVE  WantInv'
<1>0. UNCHANGED <<holds, pins, dispVars, acqLast, acqPrev, copies, tailLast, io>> /\ epc # "failed"
  BY DEF LaunchDecode, LaunchPrefill, EndPrefill, AfterStep, EndAfterStep, Skip, AcquireCold, tailVars
<1>1. UNCHANGED dpc /\ backlog \in Nat /\ Outstanding' = Outstanding
  BY <1>0 DEF dispVars, TypeOK, StepTypeOK, Outstanding
<1>2. CASE LaunchDecode
  <2>1. PromotionInv'
    BY <1>0, <1>2 DEF LaunchDecode, WantInv, PromotionInv
  <2>2. RoundInv'
    BY <1>1, <1>2 DEF LaunchDecode, WantInv, RoundInv
  <2> QED BY <1>0, <2>1, <2>2, SameArenaWants
<1>3. CASE LaunchPrefill \/ EndPrefill \/ AfterStep \/ EndAfterStep \/ \E r \in todo : Skip(r)
  <2>1. PromotionInv'
    BY <1>0, <1>3 DEF LaunchPrefill, EndPrefill, AfterStep, EndAfterStep, Skip, WantInv, PromotionInv
  <2>2. RoundInv'
    BY <1>1, <1>3 DEF LaunchPrefill, EndPrefill, AfterStep, EndAfterStep, Skip, WantInv, RoundInv, stepVars
  <2> QED BY <1>0, <2>1, <2>2, SameArenaWants
<1>4. ASSUME NEW r \in todo, AcquireCold(r), Separate
      PROVE  WantInv'
  <2>1. MaxPromotions # 0
    <3>1. MaxPromotions = 0 => PromotedIn(r[1]) = {}
      BY DEF PromotedIn, WantInv, PromotionInv
    <3> QED BY <1>4, <3>1, FS_EmptySet DEF AcquireCold
  <2>2. Outstanding = {}
    BY <1>4, <2>1 DEF Separate, Outstanding, Staged
  <2>3. r = <<r[1], r[2]>>
    BY DEF TypeOK, EngineTypeOK, Record
  <2>4. acquiring'.layer = r[1] /\ acquiring'.expert = r[2] /\ epc = "promote" /\ epc' = "pread"
        /\ todo' = todo \ {r} /\ UNCHANGED stepVars
    BY <1>4 DEF AcquireCold
  <2>5. PromotionInv'
    BY <1>0, <2>1, <2>3, <2>4 DEF WantInv, PromotionInv
  <2>6. RoundInv'
    BY <1>1, <2>2, <2>4 DEF WantInv, RoundInv, stepVars
  <2> QED BY <1>0, <2>5, <2>6, SameArenaWants
<1> QED BY <1>2, <1>3, <1>4

\* the request's own pins, when the wanted records are where they were
LEMMA PinnedStay ==
  ASSUME TypeOK, RequestInv, UNCHANGED <<dispVars, io>>, NEW z, z \notin pinned,
         \A s \in Slots \ {z} :
           Wants(holds, pinned', acqLast', acqPrev', tailLast', s) => holds'[s] = holds[s]
  PROVE  RequestInv'
<1>1. UNCHANGED <<pinned, reads, layer, dpc, cold, tgt>>
  BY DEF dispVars, reqVars
<1>2. \A s \in pinned : s \in Slots \ {z} /\ holds'[s] = holds[s]
  BY <1>1 DEF TypeOK, RequestTypeOK, Wants
<1>3. \A s \in pinned' : holds'[s] # NoRec /\ holds'[s][1] = layer'
  BY <1>1, <1>2 DEF RequestInv
<1>4. \A r \in reads' : r[2] \in pinned' /\ holds'[r[2]] = <<layer', r[1]>>
  BY <1>1, <1>2 DEF RequestInv
<1>5. dpc = "reap" => \A s \in pinned' : \E i \in DOMAIN tgt' :
                         holds'[s] = <<layer', cold'[i]>> /\ \A x \in io' : x.ud # i
  BY <1>1, <1>2 DEF RequestInv
<1> QED BY <1>1, <1>3, <1>4, <1>5 DEF RequestInv

LEMMA ReleaseRecordWants ==
  ASSUME TypeOK, TypeOK', TableConsistent, WantInv, NEW r \in acqPrev, ReleaseRecord(r)
  PROVE  WantInv'
<1>0. /\ UNCHANGED <<io, dispVars, epc, acqLast, copies, acquiring, tailLast, todo, stepVars>>
      /\ epc = "release" /\ acqPrev' = acqPrev \ {r} /\ CopiesOf("prev") = {}
      /\ UNCHANGED <<pinned, dpc, backlog>> /\ TailTypeOK
  BY DEF ReleaseRecord, dispVars, stepVars, TypeOK
<1>1. Staged(tailLast) = {} /\ Staged(tailLast') = {}
  BY <1>0 DEF ReleaseRecord, NoRounds, Staged
<1>2. r[1] \in Layers /\ r[2] \in Experts /\ r = <<r[1], r[2]>> /\ acqPrev \subseteq Record
  BY DEF TypeOK, EngineTypeOK, Record
<1> DEFINE S == SlotsOf(r[1], {r[2]})
<1>3. \A s \in Slots : s \in S <=> holds[s] = r
  <2>1. \A s \in Slots : s \in S <=> holds[s] \in {r[1]} \X {r[2]}
    BY <1>2, NamedSlots
  <2> QED BY <1>2, <2>1
<1>4. \A s \in Slots : /\ pins'[s] = IF s \in S /\ pins[s] > 0 THEN pins[s] - 1 ELSE pins[s]
                       /\ KeptOrEvicted(s, r[1])
  BY <1>0, <1>2, TrimHolds DEF ReleaseRecord
<1> HIDE DEF S
<1>5. ASSUME NEW s \in Slots \ {NoSlot}
      PROVE  /\ holds'[s] = holds[s] \/ (holds'[s] = NoRec /\ pins'[s] = 0)
             /\ pins'[s] >= Wanted(holds, pinned', acqLast', acqPrev', tailLast', s)
             /\ epc' # "failed" => pins'[s] = Wanted(holds, pinned', acqLast', acqPrev', tailLast', s)
  <2>1. Wanted(holds, pinned, acqLast, acqPrev, tailLast, s)
          = One(s \in pinned) + One(holds[s] \in acqLast) + One(holds[s] \in acqPrev)
    BY <1>1, NoRoundsWanted
  <2>2. Wanted(holds, pinned', acqLast', acqPrev', tailLast', s)
          = One(s \in pinned) + One(holds[s] \in acqLast) + One(holds[s] \in acqPrev \ {r})
    BY <1>0, <1>1, NoRoundsWanted
  <2>3. pins[s] \in Nat /\ pins[s] = Wanted(holds, pinned, acqLast, acqPrev, tailLast, s)
    BY <1>0 DEF TailTypeOK, WantInv, PinsInv
  <2>4. One(holds[s] \in acqPrev \ {r}) = IF s \in S THEN One(holds[s] \in acqPrev) - 1 ELSE One(holds[s] \in acqPrev)
    BY <1>3 DEF One
  <2>5. s \in S => holds[s] \in acqPrev
    BY <1>3
  <2>6. holds'[s] = holds[s] \/ (holds'[s] = NoRec /\ pins'[s] = 0)
    BY <1>4 DEF KeptOrEvicted
  <2>7. pins'[s] = IF s \in S /\ pins[s] > 0 THEN pins[s] - 1 ELSE pins[s]
    BY <1>4
  <2> QED BY <2>1, <2>2, <2>3, <2>4, <2>5, <2>6, <2>7 DEF One
<1>6. IsFiniteSet(Outstanding') /\ NoSlot \notin Slots /\ NoSlot \notin pinned
  BY <1>1, NoRoundsWanted, NoSlotAssumption DEF Outstanding, TypeOK, RequestTypeOK
<1>7. /\ PinsInv'
      /\ \A s \in Slots \ {NoSlot} :
           Wants(holds, pinned', acqLast', acqPrev', tailLast', s) => holds'[s] = holds[s]
  BY <1>5, <1>6, KeptAll
<1>8. RequestInv'
  BY <1>0, <1>6, <1>7, PinnedStay DEF WantInv
<1>9. RoundInv'
  BY <1>0 DEF WantInv, RoundInv, Outstanding
<1>10. \A s \in Slots : holds[s] \in acqLast' \cup acqPrev' => holds'[s] = holds[s]
  BY <1>6, <1>7 DEF Wants
<1>11. PromotionInv'
  BY <1>0, <1>10 DEF WantInv, PromotionInv
<1>12. CopyInv'
  <2>1. \A c \in copies : c.by # "prev" /\ c.by \notin Outstanding /\ c.slot \in Slots
    BY <1>0, <1>1 DEF CopiesOf, Outstanding, TypeOK, EngineTypeOK, Copy
  <2> QED BY <1>0, <1>10, <2>1 DEF WantInv, CopyInv
<1> QED BY <1>7, <1>8, <1>9, <1>11, <1>12 DEF WantInv

LEMMA AgingWants ==
  ASSUME TypeOK, WantInv, BeforeLaunchEnd
  PROVE  WantInv'
<1>0. /\ UNCHANGED <<holds, pins, io, dispVars, acquiring, tailLast, todo, stepVars>>
      /\ UNCHANGED <<pinned, reads, dpc, layer, cold, tgt, backlog>>
      /\ epc = "release" /\ epc' = "launch" /\ acqPrev = {} /\ acqPrev' = acqLast /\ acqLast' = {}
      /\ copies' = {IF c.by = "last" THEN [by |-> "prev", rec |-> c.rec, slot |-> c.slot] ELSE c : c \in copies}
  BY DEF BeforeLaunchEnd, Aging, tailVars, dispVars, reqVars, stepVars
<1>1. Staged(tailLast) = {} /\ Staged(tailLast') = {}
  BY <1>0 DEF BeforeLaunchEnd, NoRounds, Staged
<1>2. RequestInv'
  BY <1>0 DEF WantInv, RequestInv
<1>3. RoundInv'
  BY <1>0, <1>1 DEF WantInv, RoundInv, Outstanding
<1>4. PromotionInv'
  BY <1>0 DEF WantInv, PromotionInv
<1>5. CopyInv'
  <2>1. \A c \in copies : holds[c.slot] = c.rec /\ c.by = "last" /\ c.rec \in acqLast
    BY <1>0, <1>1 DEF WantInv, CopyInv, Outstanding
  <2>2. \A c \in copies' : \E d \in copies : c = [by |-> "prev", rec |-> d.rec, slot |-> d.slot]
    BY <1>0, <2>1
  <2> QED BY <1>0, <2>1, <2>2 DEF CopyInv
<1>6. PinsInv'
  <2> SUFFICES ASSUME NEW s \in Slots
               PROVE  pins'[s] = Wanted(holds', pinned', acqLast', acqPrev', tailLast', s) /\ pins'[s] \in Nat
    BY DEF PinsInv
  <2>1. Wanted(holds, pinned, acqLast, acqPrev, tailLast, s)
          = One(s \in pinned) + One(holds[s] \in acqLast) + One(holds[s] \in acqPrev)
    BY <1>1, NoRoundsWanted
  <2>2. Wanted(holds', pinned', acqLast', acqPrev', tailLast', s)
          = One(s \in pinned) + One(holds[s] \in {}) + One(holds[s] \in acqLast)
    BY <1>0, <1>1, NoRoundsWanted
  <2> QED BY <1>0, <2>1, <2>2 DEF One, WantInv, PinsInv, TypeOK, TailTypeOK
<1> QED BY <1>2, <1>3, <1>4, <1>5, <1>6 DEF WantInv

LEMMA GpuWants ==
  ASSUME TypeOK, WantInv, Gpu
  PROVE  WantInv'
<1>0. /\ UNCHANGED <<holds, pins, io, acqLast, acqPrev, acquiring, tailLast, todo, epc>>
      /\ UNCHANGED <<pinned, reads, dpc, layer, cold, tgt>> /\ copies' \subseteq copies
  BY DEF Gpu, CopyDone, StepDone, tailVars, dispVars, reqVars, engVars
<1>1. RequestInv' /\ PromotionInv' /\ CopyInv' /\ PinsInv'
  BY <1>0 DEF WantInv, RequestInv, PromotionInv, CopyInv, PinsInv, Outstanding
<1>2. RoundInv'
  <2>1. UNCHANGED backlog \/ (dpc = "idle" /\ backlog > 0)
    BY DEF Gpu, CopyDone, StepDone, stepVars
  <2> QED BY <1>0, <2>1 DEF WantInv, RoundInv, Outstanding, TypeOK, StepTypeOK
<1> QED BY <1>1, <1>2 DEF WantInv

LEMMA IoCompleteWants ==
  ASSUME TypeOK, WantInv, IoComplete
  PROVE  WantInv'
<1>1. PICK x \in io, st \in {"ok", "bad"} : io' = (io \ {x}) \cup {At(x, st)}
  BY DEF IoComplete
<1>2. \A v \in io' : \E w \in io : v.ud = w.ud
  BY <1>1 DEF At
<1>3. /\ UNCHANGED <<holds, pins, acqLast, acqPrev, copies, acquiring, tailLast, todo, epc, backlog>>
      /\ UNCHANGED <<pinned, reads, dpc, layer, cold, tgt>>
  BY DEF IoComplete, dispVars, reqVars, engVars, stepVars
<1>4. RequestInv'
  BY <1>2, <1>3 DEF WantInv, RequestInv
<1>5. RoundInv'
  BY <1>3 DEF WantInv, RoundInv, Outstanding
<1> QED BY <1>3, <1>4, <1>5, SameWants DEF WantInv

\* prefills are staged without promotions, and no request is served meanwhile
LEMMA RoundAlone ==
  ASSUME TypeOK, WantInv, Separate, PrefillSets # {}, backlog = 0
  PROVE  /\ acqLast = {} /\ acqPrev = {} /\ pinned = {} /\ reads = {} /\ dpc = "idle" /\ epc # "pread"
         /\ \A s : Wanted(holds, pinned, acqLast, acqPrev, tailLast, s) = Cardinality(RoundsAt(holds, tailLast, s))
<1>1. MaxPromotions = 0 /\ dpc = "idle"
  BY DEF Separate, WantInv, RoundInv
<1>2. acqLast = {} /\ acqPrev = {} /\ pinned = {} /\ reads = {} /\ epc # "pread"
  BY <1>1 DEF WantInv, PromotionInv, RequestInv
<1>3. IsFiniteSet(Staged(tailLast))
  BY DEF WantInv, RoundInv, Outstanding
<1>4. \A s : Cardinality(RoundsAt(holds, tailLast, s)) \in Nat
  BY <1>3, RoundsFinite
<1> QED BY <1>1, <1>2, <1>4 DEF Wanted, One

\* the same rounds but one, or one more
LEMMA OneRound ==
  ASSUME NEW h, NEW tl, NEW ul, NEW set \in PrefillSets, NEW s, IsFiniteSet(Staged(tl)),
         ul[set] # NoRec, tl[set] = NoRec, \A k \in PrefillSets \ {set} : ul[k] = tl[k]
  PROVE  /\ Staged(ul) = Staged(tl) \cup {set} /\ IsFiniteSet(Staged(ul))
         /\ Cardinality(RoundsAt(h, ul, s))
              = Cardinality(RoundsAt(h, tl, s)) + One(h[s] \in RoundRecords(ul[set]))
<1>1. Staged(ul) = Staged(tl) \cup {set} /\ set \notin Staged(tl)
  BY DEF Staged
<1>2. IsFiniteSet(Staged(ul))
  BY <1>1, FS_AddElement
<1>3. RoundsAt(h, ul, s) = RoundsAt(h, tl, s) \cup (IF h[s] \in RoundRecords(ul[set]) THEN {set} ELSE {})
  BY <1>1 DEF RoundsAt, Staged
<1>4. IsFiniteSet(RoundsAt(h, tl, s)) /\ Cardinality(RoundsAt(h, tl, s)) \in Nat /\ set \notin RoundsAt(h, tl, s)
  BY <1>1, RoundsFinite DEF RoundsAt
<1>5. Cardinality(RoundsAt(h, tl, s) \cup {set}) = Cardinality(RoundsAt(h, tl, s)) + 1
  BY <1>4, FS_AddElement
<1>6. Cardinality(RoundsAt(h, ul, s)) = Cardinality(RoundsAt(h, tl, s)) + One(h[s] \in RoundRecords(ul[set]))
  <2>1. CASE h[s] \in RoundRecords(ul[set])
    BY <1>3, <1>5, <2>1 DEF One
  <2>2. CASE h[s] \notin RoundRecords(ul[set])
    BY <1>3, <1>4, <2>2 DEF One
  <2> QED BY <2>1, <2>2
<1> QED BY <1>1, <1>2, <1>6

LEMMA ReleaseRoundWants ==
  ASSUME Separate, TypeOK, TypeOK', TableConsistent, WantInv, NEW set \in PrefillSets, ReleaseRound(set)
  PROVE  WantInv'
<1> DEFINE t == tailLast[set]
           S == SlotsOf(t.layer, t.experts)
<1>0. /\ UNCHANGED <<io, dispVars, epc, acqLast, acqPrev, copies, acquiring, todo, stepVars>>
      /\ epc # "failed" /\ tailLast' = [tailLast EXCEPT ![set] = NoRec] /\ CopiesOf(set) = {}
      /\ UNCHANGED <<pinned, reads, dpc, backlog>> /\ TailTypeOK /\ t # NoRec
  BY DEF ReleaseRound, dispVars, stepVars, TypeOK
<1>1. set \in Outstanding /\ backlog = 0
  BY <1>0 DEF Outstanding, Staged, WantInv, RoundInv
<1>2. t.layer \in Layers /\ t.experts \in SUBSET Experts
  BY <1>0 DEF TypeOK, EngineTypeOK, Round
<1>3. \A s \in Slots : s \in S <=> holds[s] \in RoundRecords(t)
  BY <1>2, NamedSlots DEF RoundRecords
<1>4. \A s \in Slots : /\ pins'[s] = IF s \in S /\ pins[s] > 0 THEN pins[s] - 1 ELSE pins[s]
                       /\ KeptOrEvicted(s, t.layer)
  BY <1>0, <1>2, TrimHolds DEF ReleaseRound
<1>5. /\ acqLast = {} /\ acqPrev = {} /\ pinned = {} /\ reads = {} /\ dpc = "idle"
      /\ \A s : Wanted(holds, pinned, acqLast, acqPrev, tailLast, s) = Cardinality(RoundsAt(holds, tailLast, s))
  BY <1>1, RoundAlone
<1>6. /\ tailLast'[set] = NoRec /\ tailLast[set] # NoRec /\ \A k \in PrefillSets \ {set} : tailLast[k] = tailLast'[k]
      /\ IsFiniteSet(Staged(tailLast))
  BY <1>0 DEF TypeOK, EngineTypeOK, WantInv, RoundInv, Outstanding
<1>7. Staged(tailLast') = Staged(tailLast) \ {set} /\ IsFiniteSet(Staged(tailLast'))
  <2>1. Staged(tailLast') = Staged(tailLast) \ {set}
    BY <1>6 DEF Staged
  <2> QED BY <1>6, <2>1, FS_Subset
<1> HIDE DEF t, S
<1>8. ASSUME NEW s \in Slots \ {NoSlot}
      PROVE  /\ holds'[s] = holds[s] \/ (holds'[s] = NoRec /\ pins'[s] = 0)
             /\ pins'[s] >= Wanted(holds, pinned', acqLast', acqPrev', tailLast', s)
             /\ epc' # "failed" => pins'[s] = Wanted(holds, pinned', acqLast', acqPrev', tailLast', s)
  <2>1. Cardinality(RoundsAt(holds, tailLast, s))
          = Cardinality(RoundsAt(holds, tailLast', s)) + One(holds[s] \in RoundRecords(t))
    BY <1>6, <1>7, OneRound DEF t
  <2>2. Cardinality(RoundsAt(holds, tailLast', s)) \in Nat
    BY <1>7, RoundsFinite
  <2>3. Wanted(holds, pinned', acqLast', acqPrev', tailLast', s) = Cardinality(RoundsAt(holds, tailLast', s))
    BY <1>0, <1>5, <2>2 DEF Wanted, One
  <2>4. pins[s] \in Nat /\ pins[s] = Cardinality(RoundsAt(holds, tailLast, s))
    BY <1>0, <1>5 DEF TailTypeOK, WantInv, PinsInv
  <2>5. pins'[s] = IF s \in S /\ pins[s] > 0 THEN pins[s] - 1 ELSE pins[s]
    BY <1>4
  <2>6. holds'[s] = holds[s] \/ (holds'[s] = NoRec /\ pins'[s] = 0)
    BY <1>4 DEF KeptOrEvicted
  <2>7. pins'[s] = Cardinality(RoundsAt(holds, tailLast', s))
    BY <1>3, <2>1, <2>2, <2>4, <2>5 DEF One
  <2> QED BY <2>2, <2>3, <2>6, <2>7
<1>9. IsFiniteSet(Outstanding') /\ NoSlot \notin Slots
  BY <1>7, NoSlotAssumption DEF Outstanding
<1>10. /\ PinsInv'
       /\ \A s \in Slots \ {NoSlot} :
            Wants(holds, pinned', acqLast', acqPrev', tailLast', s) => holds'[s] = holds[s]
  BY <1>8, <1>9, KeptAll
<1>11. RequestInv'
  BY <1>0, <1>5, <1>9, <1>10, PinnedStay DEF WantInv
<1>12. RoundInv'
  BY <1>0, <1>7, <1>9 DEF WantInv, RoundInv, Outstanding
<1>13. PromotionInv'
  BY <1>0, <1>5 DEF WantInv, PromotionInv
<1>14. CopyInv'
  <2> SUFFICES ASSUME NEW c \in copies
               PROVE  holds'[c.slot] = c.rec /\ c.by \in Outstanding' /\ c.rec \in RoundRecords(tailLast'[c.by])
    BY <1>0 DEF CopyInv
  <2>1. holds[c.slot] = c.rec /\ c.by \in Outstanding /\ c.rec \in RoundRecords(tailLast[c.by]) /\ c.slot \in Slots
    BY <1>5 DEF WantInv, CopyInv, TypeOK, EngineTypeOK, Copy
  <2>2. c.by # set
    BY <1>0 DEF CopiesOf
  <2>3. c.by \in Outstanding' /\ tailLast'[c.by] = tailLast[c.by]
    BY <1>6, <1>7, <2>1, <2>2 DEF Outstanding, Staged
  <2>4. c.by \in RoundsAt(holds, tailLast', c.slot)
    BY <2>1, <2>3 DEF RoundsAt, Outstanding
  <2>5. holds'[c.slot] = holds[c.slot]
    BY <1>9, <1>10, <2>1, <2>4 DEF Wants
  <2> QED BY <2>1, <2>3, <2>5
<1> QED BY <1>10, <1>11, <1>12, <1>13, <1>14 DEF WantInv

LEMMA StageWants ==
  ASSUME Separate, TypeOK, TypeOK', TableConsistent, WantInv,
         NEW set \in PrefillSets, NEW l \in Layers, NEW E \in SUBSET Experts, PrefillRound(set, l, E)
  PROVE  WantInv'
<1> DEFINE A  == AbsentIn(l, E)
           Rs == ResidentIn(l, Until(E, A))
           S  == SlotsOf(l, Rs)
           t  == [layer |-> l, experts |-> E]
<1>0. /\ UNCHANGED <<holds, io, dispVars, acqLast, acqPrev, acquiring, todo, stepVars>>
      /\ UNCHANGED <<pinned, reads, dpc, layer, cold, tgt, backlog>>
      /\ epc = "prefill" /\ tailLast[set] = NoRec /\ TailTypeOK
      /\ pins' = [s \in Slots |-> IF s \in S THEN pins[s] + 1 ELSE pins[s]]
      /\ \/ /\ A = {} /\ tailLast' = [tailLast EXCEPT ![set] = t]
            /\ copies' = copies \cup NewCopies(set, l, Rs) /\ UNCHANGED epc
         \/ epc' = "failed" /\ UNCHANGED <<tailLast, copies>>
  BY DEF PrefillRound, Stage, dispVars, reqVars, stepVars, TypeOK
<1>1. backlog = 0
  BY <1>0 DEF WantInv, RoundInv
<1>2. /\ acqLast = {} /\ acqPrev = {} /\ pinned = {} /\ reads = {} /\ dpc = "idle"
      /\ \A s : Wanted(holds, pinned, acqLast, acqPrev, tailLast, s) = Cardinality(RoundsAt(holds, tailLast, s))
  BY <1>1, RoundAlone
<1>3. \A s \in Slots : pins[s] \in Nat /\ pins[s] = Cardinality(RoundsAt(holds, tailLast, s))
  BY <1>0, <1>2 DEF TailTypeOK, WantInv, PinsInv
<1>4. IsFiniteSet(Staged(tailLast)) /\ tailLast \in [PrefillSets -> Round \cup {NoRec}]
  BY DEF WantInv, RoundInv, Outstanding, TypeOK, EngineTypeOK
<1>5. RequestInv'
  BY <1>0 DEF WantInv, RequestInv
<1>6. PromotionInv'
  BY <1>0, <1>2 DEF WantInv, PromotionInv
<1>7. CASE epc' = "failed" /\ UNCHANGED <<tailLast, copies>>
  <2>1. RoundInv' /\ CopyInv'
    BY <1>0, <1>7 DEF WantInv, RoundInv, CopyInv, Outstanding
  <2>2. PinsInv'
    <3>1. \A s \in Slots : pins'[s] >= pins[s]
      BY <1>0, <1>3
    <3> QED BY <1>0, <1>2, <1>3, <1>7, <3>1 DEF PinsInv
  <2> QED BY <1>5, <1>6, <2>1, <2>2 DEF WantInv
<1>8. CASE /\ A = {} /\ tailLast' = [tailLast EXCEPT ![set] = t]
           /\ copies' = copies \cup NewCopies(set, l, Rs) /\ UNCHANGED epc
  <2>1. Rs = ResidentIn(l, E) /\ Rs \in SUBSET Experts
    BY <1>8 DEF Until, ResidentIn
  <2>2. t # NoRec /\ t.layer = l /\ t.experts = E
    BY NoRecAssumption
  <2>3. \A s \in Slots : s \in S <=> holds[s] \in {l} \X Rs
    BY <2>1, NamedSlots
  <2>4. \A s \in Slots : s \in S <=> holds[s] \in RoundRecords(t)
    <3>1. \A e \in Experts, s \in Slots : holds[s] = <<l, e>> => slotOf[l][e] # NoSlot
      BY NoSlotAssumption DEF TableConsistent
    <3>2. \A e \in E, s \in Slots : holds[s] = <<l, e>> => e \in Rs
      BY <2>1, <3>1 DEF ResidentIn
    <3>3. Rs \subseteq E
      BY <2>1 DEF ResidentIn
    <3>4. RoundRecords(t) = {l} \X E
      BY <2>2 DEF RoundRecords
    <3> QED BY <2>3, <3>2, <3>3, <3>4
  <2> HIDE DEF t, S, Rs, A
  <2>5. tailLast'[set] = t /\ \A k \in PrefillSets \ {set} : tailLast'[k] = tailLast[k]
    BY <1>4, <1>8
  <2>6. /\ Staged(tailLast') = Staged(tailLast) \cup {set} /\ IsFiniteSet(Staged(tailLast'))
        /\ \A s : Cardinality(RoundsAt(holds, tailLast', s))
                    = Cardinality(RoundsAt(holds, tailLast, s)) + One(holds[s] \in RoundRecords(t))
    BY <1>0, <1>4, <2>2, <2>5, OneRound
  <2>7. PinsInv'
    <3> SUFFICES ASSUME NEW s \in Slots
                 PROVE  pins'[s] = Wanted(holds', pinned', acqLast', acqPrev', tailLast', s) /\ pins'[s] \in Nat
      BY DEF PinsInv
    <3>1. Cardinality(RoundsAt(holds, tailLast', s)) \in Nat
      BY <2>6, RoundsFinite
    <3>2. Wanted(holds', pinned', acqLast', acqPrev', tailLast', s) = Cardinality(RoundsAt(holds, tailLast', s))
      BY <1>0, <1>2, <3>1 DEF Wanted, One
    <3>3. pins'[s] = IF s \in S THEN pins[s] + 1 ELSE pins[s]
      BY <1>0
    <3> QED BY <1>3, <2>4, <2>6, <3>1, <3>2, <3>3 DEF One
  <2>8. RoundInv'
    BY <1>0, <1>1, <1>2, <1>8, <2>6 DEF RoundInv, Outstanding
  <2>9. CopyInv'
    <3>1. ASSUME NEW c \in copies
          PROVE  holds'[c.slot] = c.rec /\ c.by \in Outstanding' /\ c.rec \in RoundRecords(tailLast'[c.by])
      <4>1. holds[c.slot] = c.rec /\ c.by \in Outstanding /\ c.rec \in RoundRecords(tailLast[c.by])
        BY <1>2 DEF WantInv, CopyInv
      <4>2. c.by # set /\ c.by \in PrefillSets
        BY <1>0, <4>1 DEF Outstanding, Staged
      <4> QED BY <1>0, <2>5, <2>6, <4>1, <4>2 DEF Outstanding
    <3>2. ASSUME NEW c \in NewCopies(set, l, Rs)
          PROVE  holds'[c.slot] = c.rec /\ c.by \in Outstanding' /\ c.rec \in RoundRecords(tailLast'[c.by])
      <4>1. PICK e \in Rs : c = [by |-> set, rec |-> <<l, e>>, slot |-> slotOf[l][e]]
        BY DEF NewCopies
      <4>2. e \in E /\ e \in Experts /\ slotOf[l][e] # NoSlot
        BY <2>1 DEF ResidentIn
      <4>3. holds[slotOf[l][e]] = <<l, e>>
        BY <4>2, ResidentSlot
      <4>4. <<l, e>> \in RoundRecords(t)
        BY <2>2, <4>2 DEF RoundRecords
      <4> QED BY <1>0, <2>5, <2>6, <4>1, <4>3, <4>4 DEF Outstanding
    <3> QED BY <1>8, <3>1, <3>2 DEF CopyInv
  <2> QED BY <1>5, <1>6, <2>7, <2>8, <2>9 DEF WantInv
<1> QED BY <1>0, <1>7, <1>8

\* a promotion's miss takes a pin of a resident record
LEMMA AcquireResidentWants ==
  ASSUME Separate, TypeOK, TypeOK', TableConsistent, WantInv, NEW r \in todo, AcquireResident(r)
  PROVE  WantInv'
<1> DEFINE y == slotOf[r[1]][r[2]]
<1>0. /\ UNCHANGED <<holds, io, dispVars, epc, acqPrev, acquiring, tailLast, stepVars>>
      /\ UNCHANGED <<pinned, reads, dpc, layer, cold, tgt, backlog>>
      /\ epc = "promote" /\ TailTypeOK /\ acqLast' = acqLast \cup {r} /\ todo' = todo \ {r}
      /\ pins' = [pins EXCEPT ![y] = @ + 1] /\ y # NoSlot
      /\ copies' = copies \cup NewCopies("last", r[1], {r[2]})
  BY DEF AcquireResident, dispVars, reqVars, stepVars, TypeOK
<1>1. MaxPromotions # 0
  <2>1. MaxPromotions = 0 => PromotedIn(r[1]) = {}
    BY DEF PromotedIn, WantInv, PromotionInv
  <2>2. Cardinality(PromotedIn(r[1])) < MaxPromotions
    BY DEF AcquireResident
  <2>3. Cardinality({}) = 0
    BY FS_EmptySet
  <2> QED BY <2>1, <2>2, <2>3
<1>2. Staged(tailLast) = {} /\ Staged(tailLast') = {}
  BY <1>0, <1>1 DEF Separate, Staged
<1>3. r[1] \in Layers /\ r[2] \in Experts /\ r = <<r[1], r[2]>>
  BY DEF TypeOK, EngineTypeOK, Record
<1>4. y \in Slots /\ holds[y] = r
  BY <1>0, <1>3, ResidentSlot
<1>5. \A s \in Slots : holds[s] = r => s = y
  BY <1>3 DEF TableConsistent
<1>6. r \notin acqLast
  BY <1>0 DEF WantInv, PromotionInv
<1> HIDE DEF y
<1>7. RequestInv'
  BY <1>0 DEF WantInv, RequestInv
<1>8. RoundInv'
  BY <1>0 DEF WantInv, RoundInv, Outstanding
<1>9. PromotionInv'
  BY <1>0, <1>1, <1>4 DEF WantInv, PromotionInv
<1>10. CopyInv'
  <2>1. NewCopies("last", r[1], {r[2]}) = {[by |-> "last", rec |-> r, slot |-> y]}
    BY <1>3 DEF NewCopies, y
  <2>2. ASSUME NEW c \in copies'
        PROVE  /\ holds'[c.slot] = c.rec
               /\ \/ c.by = "last" /\ c.rec \in acqLast'
                  \/ c.by = "prev" /\ c.rec \in acqPrev'
    <3>1. CASE c \in copies
      <4>1. /\ holds[c.slot] = c.rec
            /\ \/ c.by = "last" /\ c.rec \in acqLast
               \/ c.by = "prev" /\ c.rec \in acqPrev
        BY <1>2, <3>1 DEF WantInv, CopyInv, Outstanding
      <4> QED BY <1>0, <4>1
    <3>2. CASE c = [by |-> "last", rec |-> r, slot |-> y]
      <4>1. c.slot = y /\ c.rec = r /\ c.by = "last"
        BY <3>2
      <4> QED BY <1>0, <1>4, <4>1
    <3> QED BY <1>0, <2>1, <3>1, <3>2
  <2> QED BY <2>2 DEF CopyInv
<1>11. PinsInv'
  <2> SUFFICES ASSUME NEW s \in Slots
               PROVE  pins'[s] = Wanted(holds', pinned', acqLast', acqPrev', tailLast', s) /\ pins'[s] \in Nat
    BY DEF PinsInv
  <2>1. Wanted(holds, pinned, acqLast, acqPrev, tailLast, s)
          = One(s \in pinned) + One(holds[s] \in acqLast) + One(holds[s] \in acqPrev)
    BY <1>2, NoRoundsWanted
  <2>2. Wanted(holds', pinned', acqLast', acqPrev', tailLast', s)
          = One(s \in pinned) + One(holds[s] \in acqLast') + One(holds[s] \in acqPrev)
    BY <1>0, <1>2, NoRoundsWanted
  <2>3. One(holds[s] \in acqLast') = IF s = y THEN One(holds[s] \in acqLast) + 1 ELSE One(holds[s] \in acqLast)
    BY <1>0, <1>4, <1>5, <1>6 DEF One
  <2>4. pins[s] \in Nat /\ pins[s] = Wanted(holds, pinned, acqLast, acqPrev, tailLast, s)
    BY <1>0 DEF TailTypeOK, WantInv, PinsInv
  <2>5. pins'[s] = IF s = y THEN pins[s] + 1 ELSE pins[s]
    BY <1>0 DEF TailTypeOK
  <2> QED BY <2>1, <2>2, <2>3, <2>4, <2>5 DEF One
<1> QED BY <1>7, <1>8, <1>9, <1>10, <1>11 DEF WantInv

\* a promotion's read ends: the record's slot is pinned, or the one just filled becomes it
LEMMA AcquireReadWants ==
  ASSUME Separate, SlotInv, TypeOK', WantInv, AcquireRead
  PROVE  WantInv'
<1> DEFINE l == acquiring.layer
           e == acquiring.expert
           z == acquiring.slot
           y == Inserted(l, e, z)
<1>0. /\ UNCHANGED <<io, dispVars, acqPrev, tailLast, todo, stepVars>>
      /\ UNCHANGED <<pinned, reads, dpc, layer, cold, tgt, backlog>>
      /\ epc = "pread" /\ epc' = "promote" /\ TailTypeOK /\ TypeOK /\ TableConsistent
  BY DEF AcquireRead, dispVars, reqVars, stepVars, SlotInv, TypeOK
<1>1. /\ l \in Layers /\ e \in Experts /\ z \in Slots /\ <<l, e>> \in Record /\ <<l, e>> # NoRec
      /\ NoRec \notin Record /\ acqLast \subseteq Record /\ acqPrev \subseteq Record
  BY <1>0, NoRecAssumption DEF TypeOK, EngineTypeOK, Reading, Record
<1>2. holds[z] = NoRec
  BY <1>0, <1>1 DEF SlotInv, SlotPartition, ResidentSlots, PrivateSlot
<1>3. MaxPromotions # 0 /\ <<l, e>> \notin acqLast \cup todo
  BY <1>0 DEF WantInv, PromotionInv
<1>4. Staged(tailLast) = {} /\ Staged(tailLast') = {}
  BY <1>0, <1>3 DEF Separate, Staged
<1>5. RoundInv'
  BY <1>0, <1>4 DEF WantInv, RoundInv, Outstanding
<1>6. \/ UNCHANGED <<holds, pins, acqLast, copies>>
      \/ /\ InsertAndPin(l, e, z) /\ acqLast' = acqLast \cup {<<l, e>>}
         /\ copies' = copies \cup {[by |-> "last", rec |-> <<l, e>>, slot |-> y]}
  BY DEF AcquireRead
<1> HIDE DEF l, e, z
<1>7. CASE UNCHANGED <<holds, pins, acqLast, copies>>
  <2>1. PromotionInv'
    BY <1>0, <1>3, <1>7 DEF WantInv, PromotionInv
  <2>2. RequestInv' /\ CopyInv' /\ PinsInv'
    BY <1>0, <1>7 DEF WantInv, RequestInv, CopyInv, PinsInv, Outstanding
  <2> QED BY <1>5, <2>1, <2>2 DEF WantInv
<1>8. CASE /\ InsertAndPin(l, e, z) /\ acqLast' = acqLast \cup {<<l, e>>}
           /\ copies' = copies \cup {[by |-> "last", rec |-> <<l, e>>, slot |-> y]}
  \* where the record is once it is acquired, and what that leaves where it was
  <2>1. /\ y \in Slots /\ holds'[y] = <<l, e>> /\ pins'[y] = Wanted(holds', pinned', acqLast', acqPrev', tailLast', y)
        /\ \A s \in Slots \ {y} :
             /\ pins'[s] = pins[s] /\ KeptOrEvicted(s, l) /\ holds[s] # <<l, e>>
        /\ holds[y] = <<l, e>> \/ y = z
    <3>0. Wanted(holds', pinned', acqLast', acqPrev', tailLast', y)
             = One(y \in pinned) + One(holds'[y] \in acqLast') + One(holds'[y] \in acqPrev)
      BY <1>0, <1>4, NoRoundsWanted
    <3>1. CASE slotOf[l][e] # NoSlot
      <4>1. /\ holds' = holds /\ y \in Slots /\ holds[y] = <<l, e>>
            /\ pins' = [pins EXCEPT ![y] = @ + 1]
        BY <1>0, <1>1, <1>8, <3>1, KeepHolds, ResidentSlot
      <4>2. \A s \in Slots \ {y} : holds[s] # <<l, e>>
        BY <1>0, <1>1, <4>1 DEF TableConsistent
      <4>3. Wanted(holds, pinned, acqLast, acqPrev, tailLast, y)
              = One(y \in pinned) + One(holds[y] \in acqLast) + One(holds[y] \in acqPrev)
        BY <1>4, NoRoundsWanted
      <4>4. pins[y] = Wanted(holds, pinned, acqLast, acqPrev, tailLast, y) /\ pins'[y] = pins[y] + 1
        BY <1>0, <4>1 DEF WantInv, PinsInv, TailTypeOK
      <4>5. pins'[y] = Wanted(holds', pinned', acqLast', acqPrev', tailLast', y)
        BY <1>3, <1>8, <3>0, <4>1, <4>3, <4>4 DEF One
      <4>6. \A s \in Slots \ {y} : pins'[s] = pins[s] /\ KeptOrEvicted(s, l)
        BY <1>0, <4>1 DEF TailTypeOK, KeptOrEvicted
      <4> QED BY <4>1, <4>2, <4>5, <4>6
    <3>2. CASE slotOf[l][e] = NoSlot
      <4>1. /\ pins' = [pins EXCEPT ![z] = 1] /\ holds'[z] = <<l, e>> /\ y = z
            /\ \A s \in Slots : s # z => pins'[s] = pins[s] /\ KeptOrEvicted(s, l)
        BY <1>0, <1>1, <1>8, <3>2, InsertHolds DEF Inserted
      <4>2. \A s \in Slots : holds[s] # <<l, e>>
        BY <1>0, <1>1, <3>2, NoSlotAssumption DEF TableConsistent
      <4>3. <<l, e>> \notin acqPrev
        BY <4>2 DEF WantInv, PromotionInv
      <4>4. y \notin pinned
        BY <1>2, <4>1 DEF WantInv, RequestInv
      <4>5. pins'[y] = 1
        BY <1>0, <1>1, <4>1 DEF TailTypeOK
      <4>6. pins'[y] = Wanted(holds', pinned', acqLast', acqPrev', tailLast', y)
        BY <1>8, <3>0, <4>1, <4>3, <4>4, <4>5 DEF One
      <4> QED BY <1>1, <4>1, <4>2, <4>6
    <3> QED BY <3>1, <3>2
  <2> HIDE DEF y
  <2>2. ASSUME NEW s \in Slots \ {y}
        PROVE  /\ holds'[s] = holds[s] \/ (holds'[s] = NoRec /\ pins'[s] = 0)
               /\ pins'[s] >= Wanted(holds, pinned', acqLast', acqPrev', tailLast', s)
               /\ epc' # "failed" => pins'[s] = Wanted(holds, pinned', acqLast', acqPrev', tailLast', s)
    <3>1. Wanted(holds, pinned, acqLast, acqPrev, tailLast, s)
            = One(s \in pinned) + One(holds[s] \in acqLast) + One(holds[s] \in acqPrev)
      BY <1>4, NoRoundsWanted
    <3>2. Wanted(holds, pinned', acqLast', acqPrev', tailLast', s)
            = One(s \in pinned) + One(holds[s] \in acqLast') + One(holds[s] \in acqPrev)
      BY <1>0, <1>4, NoRoundsWanted
    <3>3. One(holds[s] \in acqLast') = One(holds[s] \in acqLast)
      BY <1>8, <2>1 DEF One
    <3>4. pins[s] \in Nat /\ pins[s] = Wanted(holds, pinned, acqLast, acqPrev, tailLast, s)
      BY <1>0 DEF TailTypeOK, WantInv, PinsInv
    <3>5. pins'[s] = pins[s] /\ (holds'[s] = holds[s] \/ (holds'[s] = NoRec /\ pins'[s] = 0))
      BY <2>1 DEF KeptOrEvicted
    <3> QED BY <1>0, <3>1, <3>2, <3>3, <3>4, <3>5
  <2>3. IsFiniteSet(Outstanding')
    BY <1>4, NoRoundsWanted DEF Outstanding
  <2>4. /\ PinsInv'
        /\ \A s \in Slots \ {y} :
             Wants(holds, pinned', acqLast', acqPrev', tailLast', s) => holds'[s] = holds[s]
    BY <1>0, <2>1, <2>2, <2>3, KeptAll
  \* the other records acquired are where they were
  <2>5. \A s \in Slots : s \in pinned \/ holds[s] \in acqLast \cup acqPrev => holds'[s] = holds[s]
    <3> SUFFICES ASSUME NEW s \in Slots, s \in pinned \/ holds[s] \in acqLast \cup acqPrev
                 PROVE  holds'[s] = holds[s]
      OBVIOUS
    <3>1. CASE s = y
      <4>1. holds[z] = NoRec /\ z \notin pinned
        BY <1>2 DEF WantInv, RequestInv
      <4> QED BY <1>1, <2>1, <3>1, <4>1
    <3>2. CASE s # y
      <4>1. Wants(holds, pinned', acqLast', acqPrev', tailLast', s)
        BY <1>0, <1>8 DEF Wants
      <4>2. s \in Slots \ {y}
        BY <3>2
      <4> QED BY <2>4, <4>1, <4>2
    <3> QED BY <3>1, <3>2
  <2>6. RequestInv'
    <3>1. \A s \in pinned : s \in Slots
      BY <1>0 DEF TypeOK, RequestTypeOK
    <3>2. \A s \in pinned : holds'[s] = holds[s]
      BY <2>5, <3>1
    <3>3. \A s \in pinned' : holds'[s] # NoRec /\ holds'[s][1] = layer'
      BY <1>0, <3>2 DEF WantInv, RequestInv
    <3>4. \A r \in reads' : r[2] \in pinned' /\ holds'[r[2]] = <<layer', r[1]>>
      BY <1>0, <3>2 DEF WantInv, RequestInv
    <3>5. dpc = "reap" => \A s \in pinned' : \E i \in DOMAIN tgt' :
                            holds'[s] = <<layer', cold'[i]>> /\ \A x \in io' : x.ud # i
      BY <1>0, <3>2 DEF WantInv, RequestInv
    <3> QED BY <1>0, <3>3, <3>4, <3>5 DEF WantInv, RequestInv
  <2>7. PromotionInv'
    BY <1>0, <1>3, <1>8, <2>1, <2>5 DEF WantInv, PromotionInv
  <2>8. CopyInv'
    <3>1. ASSUME NEW c \in copies'
          PROVE  /\ holds'[c.slot] = c.rec
                 /\ \/ c.by = "last" /\ c.rec \in acqLast'
                    \/ c.by = "prev" /\ c.rec \in acqPrev'
      <4>1. CASE c \in copies
        <5>1. /\ holds[c.slot] = c.rec /\ c.slot \in Slots
              /\ \/ c.by = "last" /\ c.rec \in acqLast
                 \/ c.by = "prev" /\ c.rec \in acqPrev
          BY <1>0, <1>4, <4>1 DEF WantInv, CopyInv, Outstanding, TypeOK, EngineTypeOK, Copy
        <5> QED BY <1>0, <1>8, <2>5, <5>1
      <4>2. CASE c = [by |-> "last", rec |-> <<l, e>>, slot |-> y]
        <5>1. c.slot = y /\ c.rec = <<l, e>> /\ c.by = "last"
          BY <4>2
        <5> QED BY <1>8, <2>1, <5>1
      <4> QED BY <1>8, <4>1, <4>2
    <3> QED BY <3>1 DEF CopyInv
  <2> QED BY <1>5, <2>4, <2>6, <2>7, <2>8 DEF WantInv
<1> QED BY <1>6, <1>7, <1>8

LEMMA EngineWants ==
  ASSUME Separate, SlotInv, SlotInv', WantInv, Engine
  PROVE  WantInv'
<1>0. TypeOK /\ TypeOK' /\ TableConsistent
  BY DEF SlotInv
<1>1. ASSUME NEW set \in PrefillSets, ReleaseRound(set)
      PROVE  WantInv'
  BY <1>0, <1>1, ReleaseRoundWants
<1>2. ASSUME NEW r \in acqPrev, ReleaseRecord(r)
      PROVE  WantInv'
  BY <1>0, <1>2, ReleaseRecordWants
<1>3. ASSUME NEW set \in PrefillSets, NEW l \in Layers, NEW E \in SUBSET Experts, PrefillRound(set, l, E)
      PROVE  WantInv'
  BY <1>0, <1>3, StageWants
<1>4. ASSUME NEW r \in todo, AcquireResident(r)
      PROVE  WantInv'
  BY <1>0, <1>4, AcquireResidentWants
<1>5. CASE \/ LaunchDecode \/ LaunchPrefill \/ EndPrefill \/ AfterStep \/ EndAfterStep
           \/ \E r \in todo : Skip(r)
           \/ \E r \in todo : AcquireCold(r)
  BY <1>0, <1>5, EngineMoves
<1>6. CASE BeforeLaunchEnd
  BY <1>0, <1>6, AgingWants
<1>7. CASE AcquireRead
  BY <1>0, <1>7, AcquireReadWants
<1> QED BY <1>1, <1>2, <1>3, <1>4, <1>5, <1>6, <1>7 DEF Engine

LEMMA InitWants == Init => WantInv
<1> SUFFICES ASSUME Init PROVE WantInv
  OBVIOUS
<1>1. Staged(tailLast) = {} /\ IsFiniteSet({})
  BY FS_EmptySet DEF Init, Staged
<1>2. \A s \in Slots : Wanted(holds, pinned, acqLast, acqPrev, tailLast, s) = 0 /\ pins[s] = 0
  <2>1. /\ pinned = {} /\ acqLast = {} /\ acqPrev = {}
        /\ \A s \in Slots : pins[s] = 0
    BY DEF Init
  <2>2. \A s \in Slots : Wanted(holds, pinned, acqLast, acqPrev, tailLast, s)
                          = One(s \in pinned) + One(holds[s] \in acqLast) + One(holds[s] \in acqPrev)
    BY <1>1, NoRoundsWanted
  <2> QED BY <2>1, <2>2 DEF One
<1>3. RequestInv /\ CopyInv
  BY DEF Init, RequestInv, CopyInv
<1>4. RoundInv /\ PromotionInv
  BY <1>1 DEF Init, RoundInv, PromotionInv, Outstanding
<1>5. PinsInv
  BY <1>2 DEF PinsInv
<1> QED BY <1>3, <1>4, <1>5 DEF WantInv

LEMMA NextWants ==
  ASSUME CallsAccepted, Separate, SlotInv, SlotInv', WantInv, [Next]_vars
  PROVE  WantInv'
<1>0. TypeOK
  BY DEF SlotInv
<1>1. CASE UNCHANGED vars
  <2>1. UNCHANGED <<holds, pins, pinned, reads, layer, dpc, cold, tgt, io, backlog>>
        /\ UNCHANGED <<acqLast, acqPrev, copies, tailLast, epc, acquiring, todo>>
    BY <1>1 DEF vars, tailVars, dispVars, reqVars, engVars, stepVars
  <2>2. PromotionInv' /\ CopyInv' /\ PinsInv'
    BY <2>1, SameWants
  <2>3. RequestInv' /\ RoundInv'
    BY <2>1 DEF WantInv, RequestInv, RoundInv, Outstanding
  <2> QED BY <2>2, <2>3 DEF WantInv
<1> QED BY <1>0, <1>1, DispatcherWants, EngineWants, IoCompleteWants, GpuWants DEF Next

-----------------------------------------------------------------------------
(* The bytes of the slots.                                                 *)

\* a resident slot and a read that landed hold the bytes of their record
BytesInv ==
  /\ \A s \in Slots : holds[s] # NoRec => content[s] = holds[s]
  /\ \A x \in io : x.rec = <<layer, cold[x.ud]>>
  /\ \A x \in io : x.st = "ok" => content[x.slot] = x.rec

\* every slot but z keeps its record or loses it
Leaving(z) == \A s \in Slots \ {z} : holds'[s] = holds[s] \/ holds'[s] = NoRec

LEMMA TrimLeaves ==
  ASSUME TailTypeOK, NEW l \in Layers, NEW S, UnpinTrim(l, S)
  PROVE  Leaving(NoSlot)
BY TrimHolds DEF Leaving, KeptOrEvicted

LEMMA InsertLeaves ==
  ASSUME TypeOK, TableConsistent, NEW l \in Layers, NEW e \in Experts, NEW z \in Slots,
         InsertAndPin(l, e, z)
  PROVE  Leaving(z) /\ (holds'[z] = holds[z] \/ holds'[z] = <<l, e>>)
<1>1. CASE slotOf[l][e] # NoSlot
  BY <1>1, KeepHolds DEF Leaving
<1>2. CASE slotOf[l][e] = NoSlot
  BY <1>2, InsertHolds DEF Leaving, KeptOrEvicted, TypeOK
<1> QED BY <1>1, <1>2

\* the slots are as good as the one filled, the ring is as it was
LEMMA SameBytes ==
  ASSUME BytesInv, BytesStep, NEW z, Leaving(z),
         z \in Slots /\ holds'[z] # NoRec => holds'[z] = holds[z] \/ content'[z] = holds'[z],
         io' \subseteq io, io' # {} => UNCHANGED <<layer, cold>>,
         \A x \in io' : content'[x.slot] = content[x.slot]
  PROVE  BytesInv'
<1>1. \A s \in Slots : holds'[s] # NoRec => content'[s] = holds'[s]
  <2> SUFFICES ASSUME NEW s \in Slots, holds'[s] # NoRec PROVE content'[s] = holds'[s]
    OBVIOUS
  <2>1. CASE holds'[s] = holds[s]
    BY <2>1 DEF BytesInv, BytesStep
  <2>2. CASE holds'[s] # holds[s]
    BY <2>2 DEF Leaving
  <2> QED BY <2>1, <2>2
<1>2. \A x \in io' : x \in io /\ UNCHANGED <<layer, cold>>
  OBVIOUS
<1>3. \A x \in io' : x.rec = <<layer', cold'[x.ud]>>
  BY <1>2 DEF BytesInv
<1>4. \A x \in io' : x.st = "ok" => content'[x.slot] = x.rec
  BY <1>2 DEF BytesInv
<1> QED BY <1>1, <1>3, <1>4 DEF BytesInv

\* the reads issued go to spare slots, each to read the record it is for
LEMMA IssueBytes ==
  ASSUME CallsAccepted, SlotInv, BytesInv, BytesStep, NEW ok, NEW failed, IssueAndSubmit(ok, failed),
         UNCHANGED <<layer, cold>>
  PROVE  BytesInv'
<1>0. TypeOK /\ ReadsOwned
  BY DEF SlotInv, RingInv
<1>1. PICK n \in Nat : \E f \in Injection(1 .. n, free) :
        io' = io \cup {NewRead(f, i) : i \in 1 .. n} /\ UNCHANGED holds
  BY <1>0, IssueSends
<1>2. PICK f \in Injection(1 .. n, free) :
        io' = io \cup {NewRead(f, i) : i \in 1 .. n} /\ UNCHANGED holds
  BY <1>1
<1>3. \A s \in Slots \ free : content'[s] = content[s]
  BY <1>0, IssueTears
<1>4. \A x \in io : x.slot \in Slots \ free
  BY <1>0 DEF SlotInv, SlotPartition, ReadSlots, TypeOK, TailTypeOK, Read
<1>5. \A i \in 1 .. n : /\ NewRead(f, i).rec = <<layer, cold[NewRead(f, i).ud]>>
                        /\ NewRead(f, i).st = "flight"
  BY DEF NewRead
<1>6. \A x \in io' : x.rec = <<layer', cold'[x.ud]>>
  BY <1>2, <1>5 DEF BytesInv
<1>7. \A x \in io' : x.st = "ok" => content'[x.slot] = x.rec
  BY <1>2, <1>3, <1>4, <1>5 DEF BytesInv
<1>8. \A s \in Slots : holds'[s] # NoRec => content'[s] = holds'[s]
  BY <1>2 DEF BytesInv, BytesStep
<1> QED BY <1>6, <1>7, <1>8 DEF BytesInv

LEMMA DispatcherBytes ==
  ASSUME CallsAccepted, SlotInv, BytesInv, BytesStep, Dispatcher
  PROVE  BytesInv'
<1>0. TypeOK /\ TailTypeOK /\ TableConsistent /\ layer \in Layers /\ NoSlot \notin Slots
  BY NoSlotAssumption DEF SlotInv, TypeOK, RequestTypeOK
<1>1. ASSUME io' \subseteq io, io' # {} => UNCHANGED <<layer, cold>>, UNCHANGED content, Leaving(NoSlot)
      PROVE  BytesInv'
  BY <1>0, <1>1, SameBytes
<1>2. ASSUME UNCHANGED holds
      PROVE  Leaving(NoSlot)
  BY <1>2 DEF Leaving
<1>3. ASSUME NEW l \in Layers, NEW E \in SUBSET Experts, Resolve(l, E)
      PROVE  BytesInv'
  <2>1. io' = {} /\ UNCHANGED <<holds, content>>
    BY <1>3 DEF Resolve, SlotInv, RingInv, RingIdle
  <2> QED BY <1>1, <1>2, <2>1
<1>4. CASE Reap
  <2>1. PICK x \in Completed :
       /\ x.ud \in DOMAIN tgt /\ io' = io \ {x}
       /\ \/ UNCHANGED holds
          \/ x.st = "ok" /\ InsertAndPin(layer, cold[x.ud], tgt[x.ud])
       /\ UNCHANGED <<content, layer, cold>>
    BY <1>4 DEF Reap
  <2>2. /\ x \in io /\ x.slot = tgt[x.ud] /\ x.slot \in Slots /\ cold[x.ud] \in Experts
    BY <2>1 DEF Completed, SlotInv, RingInv, ReadsOwned, TypeOK, RequestTypeOK
  <2>3. CASE x.st = "ok" /\ InsertAndPin(layer, cold[x.ud], tgt[x.ud])
    <3>1. Leaving(x.slot) /\ (holds'[x.slot] = holds[x.slot] \/ holds'[x.slot] = <<layer, cold[x.ud]>>)
      BY <1>0, <2>2, <2>3, InsertLeaves
    <3>2. content'[x.slot] = <<layer, cold[x.ud]>>
      BY <2>1, <2>2, <2>3 DEF BytesInv
    <3> QED BY <2>1, <3>1, <3>2, SameBytes
  <2>4. CASE UNCHANGED holds
    BY <1>1, <1>2, <2>1, <2>4
  <2> QED BY <2>1, <2>3, <2>4
<1>5. ASSUME NEW ok, NEW failed, IssueAndSubmit(ok, failed), UNCHANGED <<layer, cold>>
      PROVE  BytesInv'
  BY <1>5, IssueBytes
<1>6. ASSUME NEW S, UnpinTrim(layer, S) \/ UNCHANGED holds, UNCHANGED content,
             io' = io, io' # {} => UNCHANGED <<layer, cold>>
      PROVE  BytesInv'
  <2>1. Leaving(NoSlot)
    BY <1>0, <1>2, <1>6, TrimLeaves
  <2> QED BY <1>1, <1>6, <2>1
<1>7. CASE Forward \/ LoopExit \/ Wait
  BY <1>1, <1>2, <1>7 DEF Forward, LoopExit, Wait, Landing, tailVars, reqVars
<1>8. CASE IssueFirst \/ Reissue
  BY <1>5, <1>8 DEF IssueFirst, Reissue
<1>9. CASE ReapDone
  <2>1. CASE IssueAndSubmit("batch", "drain")
    BY <1>5, <1>9, <2>1 DEF ReapDone
  <2>2. CASE UNCHANGED <<tailVars, io>>
    BY <1>1, <1>2, <1>9, <2>2 DEF ReapDone, tailVars
  <2> QED BY <1>9, <2>1, <2>2 DEF ReapDone
<1>10. CASE ResidentDone \/ Batch
  BY <1>6, <1>10 DEF ResidentDone, Batch, reqVars
<1>11. CASE Finish
  <2>1. io = {}
    BY <1>11 DEF Finish, SlotInv, RingInv, RingIdle
  <2> QED BY <1>6, <1>11, <2>1 DEF Finish, Answer, LastPins
<1>12. CASE Drain
  BY <1>1, <1>2, <1>12 DEF Drain, reqVars
<1> QED BY <1>3, <1>4, <1>7, <1>8, <1>9, <1>10, <1>11, <1>12 DEF Dispatcher

LEMMA EngineBytes ==
  ASSUME SlotInv, BytesInv, BytesStep, Engine
  PROVE  BytesInv'
<1>0. TypeOK /\ TailTypeOK /\ EngineTypeOK /\ TableConsistent /\ NoSlot \notin Slots
  BY NoSlotAssumption DEF SlotInv, TypeOK
<1>1. UNCHANGED <<io, layer, cold>>
  BY DEF Engine, ReleaseRound, ReleaseRecord, BeforeLaunchEnd, Aging, LaunchDecode, LaunchPrefill,
         PrefillRound, Stage, EndPrefill, AfterStep, Skip, AcquireResident, AcquireCold, AcquireRead,
         EndAfterStep, dispVars, reqVars
<1>2. ASSUME UNCHANGED content, Leaving(NoSlot)
      PROVE  BytesInv'
  BY <1>0, <1>1, <1>2, SameBytes
<1>3. ASSUME UNCHANGED <<content, holds>>
      PROVE  BytesInv'
  BY <1>2, <1>3 DEF Leaving
<1>4. ASSUME NEW set \in PrefillSets, ReleaseRound(set)
      PROVE  BytesInv'
  <2>1. tailLast[set].layer \in Layers
    BY <1>0, <1>4 DEF ReleaseRound, EngineTypeOK, Round
  <2> QED BY <1>0, <1>2, <1>4, <2>1, TrimLeaves DEF ReleaseRound
<1>5. ASSUME NEW r \in acqPrev, ReleaseRecord(r)
      PROVE  BytesInv'
  <2>1. r[1] \in Layers
    BY <1>0 DEF EngineTypeOK, Record
  <2> QED BY <1>0, <1>2, <1>5, <2>1, TrimLeaves DEF ReleaseRecord
<1>6. ASSUME NEW r \in todo, AcquireCold(r)
      PROVE  BytesInv'
  <2>1. PICK z \in free : content' = [content EXCEPT ![z] = Torn]
    BY <1>6 DEF AcquireCold
  <2>2. \A x \in io : x.slot # z
    BY DEF SlotInv, SlotPartition, ReadSlots
  <2>3. \A x \in io' : content'[x.slot] = content[x.slot]
    BY <1>1, <2>1, <2>2
  <2>4. Leaving(NoSlot)
    BY <1>6 DEF AcquireCold, Leaving
  <2> QED BY <1>0, <1>1, <2>3, <2>4, SameBytes
<1>7. CASE AcquireRead
  <2> DEFINE l == acquiring.layer
             e == acquiring.expert
             z == acquiring.slot
  <2>1. l \in Layers /\ e \in Experts /\ z \in Slots
    BY <1>0, <1>7 DEF AcquireRead, EngineTypeOK, Reading
  <2>2. \A x \in io : x.slot # z
    BY <1>7 DEF AcquireRead, SlotInv, SlotPartition, ReadSlots, PrivateSlot
  <2>3. \/ content' = [content EXCEPT ![z] = <<l, e>>] /\ InsertAndPin(l, e, z)
        \/ UNCHANGED <<holds, content>>
    BY <1>7 DEF AcquireRead
  <2> HIDE DEF l, e, z
  <2>4. CASE content' = [content EXCEPT ![z] = <<l, e>>] /\ InsertAndPin(l, e, z)
    <3>1. Leaving(z) /\ (holds'[z] = holds[z] \/ holds'[z] = <<l, e>>)
      BY <1>0, <2>1, <2>4, InsertLeaves
    <3>2. content'[z] = <<l, e>>
      BY <1>0, <2>1, <2>4 DEF TailTypeOK
    <3>3. \A x \in io' : content'[x.slot] = content[x.slot]
      BY <1>1, <2>2, <2>4
    <3> QED BY <1>1, <3>1, <3>2, <3>3, SameBytes
  <2> QED BY <1>3, <2>3, <2>4
<1> QED BY <1>3, <1>4, <1>5, <1>6, <1>7
        DEF Engine, BeforeLaunchEnd, Aging, LaunchDecode, LaunchPrefill, PrefillRound, Stage, EndPrefill,
            AfterStep, Skip, AcquireResident, EndAfterStep, tailVars

LEMMA NextBytes ==
  ASSUME CallsAccepted, SlotInv, PinnedResident, BytesInv, [Next]_vars
  PROVE  BytesInv'
<1>0. BytesStep
  BY ArenaStep
<1>1. CASE IoComplete
  <2>1. PICK x \in io, st \in {"ok", "bad"} :
          /\ io' = (io \ {x}) \cup {At(x, st)}
          /\ \/ st = "ok" /\ content' = [content EXCEPT ![x.slot] = x.rec]
             \/ st = "bad" /\ UNCHANGED content
    BY <1>1 DEF IoComplete
  <2>2. UNCHANGED <<holds, layer, cold>>
    BY <1>1 DEF IoComplete, dispVars, reqVars
  <2>3. /\ \A y \in io \ {x} : y.slot # x.slot /\ y.slot \in Slots
        /\ x.slot \in Slots /\ content \in [Slots -> Record \cup {Torn}]
    BY DEF SlotInv, RingInv, ReadsOwned, TypeOK, TailTypeOK, Read
  <2>4. At(x, st).rec = x.rec /\ At(x, st).ud = x.ud /\ At(x, st).slot = x.slot /\ At(x, st).st = st
    BY DEF At
  <2>5. \A y \in io' : y.rec = <<layer', cold'[y.ud]>>
    BY <2>1, <2>2, <2>4 DEF BytesInv
  <2>6. \A y \in io' : y.st = "ok" => content'[y.slot] = y.rec
    <3>1. \A y \in io \ {x} : content'[y.slot] = content[y.slot]
      BY <2>1, <2>3
    <3>2. st = "ok" => content'[x.slot] = x.rec
      BY <2>1, <2>3
    <3> QED BY <2>1, <2>4, <3>1, <3>2 DEF BytesInv
  <2>7. \A s \in Slots : holds'[s] # NoRec => content'[s] = holds'[s]
    BY <1>0, <2>2 DEF BytesInv, BytesStep
  <2> QED BY <2>5, <2>6, <2>7 DEF BytesInv
<1>2. CASE Gpu \/ UNCHANGED vars
  <2>1. UNCHANGED <<holds, content, io, layer, cold>>
    BY <1>2 DEF Gpu, CopyDone, StepDone, vars, tailVars, dispVars, reqVars
  <2> QED BY <2>1 DEF BytesInv
<1> QED BY <1>0, <1>1, <1>2, DispatcherBytes, EngineBytes DEF Next

-----------------------------------------------------------------------------
(* The size of a layer.                                                    *)

\* no record comes to layer k, and no pin of its records goes
Calm(k) ==
  \A s \in Slots : holds'[s] # NoRec /\ holds'[s][1] = k =>
    holds'[s] = holds[s] /\ (pins'[s] = 0 => pins[s] = 0)

\* every layer the step touches was trimmed
Settled == \A k \in Layers : Trimmed(k) \/ Calm(k)

LEMMA ResidentsFinite ==
  ASSUME NEW h, NEW k
  PROVE  IsFiniteSet(Residents(h, k)) /\ Cardinality(Residents(h, k)) \in Nat
<1>1. Residents(h, k) \in SUBSET Slots
  BY DEF Residents
<1> QED BY <1>1, SlotsAssumption, FS_Subset, FS_CardinalityType

LEMMA SettledOverflow ==
  ASSUME OnlyPinnedOverflow, Settled
  PROVE  OnlyPinnedOverflow'
<1> SUFFICES ASSUME NEW k \in Layers, Cardinality(Residents(holds', k)) > PerLayer
             PROVE  Unpinned(holds', pins', k) = {}
  BY DEF OnlyPinnedOverflow
<1>1. /\ Cardinality(Residents(holds', k)) \in Nat /\ Cardinality(Residents(holds, k)) \in Nat
      /\ PerLayer \in Nat
  BY ResidentsFinite, PerLayerAssumption
<1>2. CASE Trimmed(k)
  BY <1>1, <1>2 DEF Trimmed
<1>3. CASE Calm(k)
  <2>1. Residents(holds', k) \in SUBSET Residents(holds, k)
    BY <1>3 DEF Calm, Residents
  <2>2. Cardinality(Residents(holds', k)) <= Cardinality(Residents(holds, k))
    BY <2>1, ResidentsFinite, FS_Subset
  <2>3. Unpinned(holds, pins, k) = {}
    BY <1>1, <2>2 DEF OnlyPinnedOverflow
  <2>4. Unpinned(holds', pins', k) \subseteq Unpinned(holds, pins, k)
    BY <1>3 DEF Calm, Residents, Unpinned
  <2> QED BY <2>3, <2>4
<1> QED BY <1>2, <1>3 DEF Settled

LEMMA GrownSettled ==
  ASSUME TailTypeOK, TailTypeOK', UNCHANGED holds, \A s \in Slots : pins'[s] >= pins[s]
  PROVE  Settled
<1>1. \A s \in Slots : pins[s] \in Nat /\ pins'[s] \in Nat
  BY DEF TailTypeOK
<1>2. \A s \in Slots : pins'[s] = 0 => pins[s] = 0
  BY <1>1
<1> QED BY <1>2 DEF Settled, Calm

\* the pins dropped are all of the layer trimmed
LEMMA TrimSettled ==
  ASSUME TailTypeOK, NEW l \in Layers, NEW S, UnpinTrim(l, S),
         \A s \in Slots : s \in S /\ holds[s] # NoRec => holds[s][1] = l
  PROVE  Settled
<1>1. /\ \A s \in Slots : /\ pins'[s] = IF s \in S /\ pins[s] > 0 THEN pins[s] - 1 ELSE pins[s]
                         /\ KeptOrEvicted(s, l)
      /\ Trimmed(l)
  BY TrimHolds
<1>2. ASSUME NEW k \in Layers, k # l
      PROVE  Calm(k)
  <2> SUFFICES ASSUME NEW s \in Slots, holds'[s] # NoRec, holds'[s][1] = k
               PROVE  holds'[s] = holds[s] /\ pins'[s] = pins[s]
    BY DEF Calm
  <2>1. holds'[s] = holds[s]
    BY <1>1 DEF KeptOrEvicted
  <2>2. s \notin S
    BY <1>2, <2>1
  <2> QED BY <1>1, <2>1, <2>2
<1> QED BY <1>1, <1>2 DEF Settled

LEMMA InsertSettled ==
  ASSUME TypeOK, TypeOK', NEW l \in Layers, NEW e \in Experts, NEW z \in Slots, InsertAndPin(l, e, z)
  PROVE  Settled
<1>0. TailTypeOK /\ TailTypeOK'
  BY DEF TypeOK
<1>1. CASE slotOf[l][e] # NoSlot
  <2>1. holds' = holds /\ slotOf[l][e] \in Slots /\ pins' = [pins EXCEPT ![slotOf[l][e]] = @ + 1]
    BY <1>1, KeepHolds
  <2>2. \A s \in Slots : pins[s] \in Nat /\ pins'[s] \in {pins[s], pins[s] + 1}
    BY <1>0, <2>1 DEF TailTypeOK
  <2>3. \A s \in Slots : pins'[s] >= pins[s]
    BY <2>2
  <2> QED BY <1>0, <2>1, <2>3, GrownSettled
<1>2. CASE slotOf[l][e] = NoSlot
  <2>1. /\ holds'[z] = <<l, e>>
        /\ \A s \in Slots : s # z => pins'[s] = pins[s] /\ KeptOrEvicted(s, l)
        /\ Trimmed(l)
    BY <1>0, <1>2, InsertHolds
  <2>2. \A k \in Layers \ {l} : Calm(k)
    BY <2>1 DEF Calm, KeptOrEvicted
  <2> QED BY <2>1, <2>2 DEF Settled
<1> QED BY <1>1, <1>2

LEMMA NextSettled ==
  ASSUME SlotInv, SlotInv', RequestInv, [Next]_vars
  PROVE  Settled
<1>0. /\ TypeOK /\ TypeOK' /\ TailTypeOK /\ TailTypeOK' /\ EngineTypeOK /\ TableConsistent
      /\ layer \in Layers /\ \A s \in Slots : pins[s] \in Nat
  BY DEF SlotInv, TypeOK, TailTypeOK, RequestTypeOK
<1>1. ASSUME UNCHANGED <<holds, pins>>
      PROVE  Settled
  BY <1>1 DEF Settled, Calm
<1>2. ASSUME UNCHANGED holds, NEW S, pins' = [s \in Slots |-> IF s \in S THEN pins[s] + 1 ELSE pins[s]]
      PROVE  Settled
  <2>1. \A s \in Slots : pins'[s] >= pins[s]
    BY <1>0, <1>2
  <2> QED BY <1>0, <1>2, <2>1, GrownSettled
<1>3. ASSUME UnpinTrim(layer, pinned)
      PROVE  Settled
  <2>1. \A s \in Slots : s \in pinned => holds[s][1] = layer
    BY DEF RequestInv
  <2> QED BY <1>0, <1>3, <2>1, TrimSettled
<1>4. ASSUME NEW l \in Layers, NEW F \in SUBSET Experts, UnpinTrim(l, SlotsOf(l, F))
      PROVE  Settled
  <2>1. \A s \in Slots : s \in SlotsOf(l, F) => holds[s][1] = l
    BY <1>0, NamedSlots
  <2> QED BY <1>0, <1>4, <2>1, TrimSettled
<1>5. ASSUME NEW l \in Layers, NEW E \in SUBSET Experts, Resolve(l, E)
      PROVE  Settled
  BY <1>2, <1>5 DEF Resolve
<1>6. CASE Reap
  <2>1. PICK x \in Completed :
       /\ x.ud \in DOMAIN tgt
       /\ UNCHANGED <<holds, pins>> \/ InsertAndPin(layer, cold[x.ud], tgt[x.ud])
    BY <1>6 DEF Reap
  <2>2. tgt[x.ud] \in Slots /\ cold[x.ud] \in Experts
    BY <1>0, <2>1 DEF TypeOK, RequestTypeOK
  <2> QED BY <1>0, <1>1, <2>1, <2>2, InsertSettled
<1>7. ASSUME NEW set \in PrefillSets, ReleaseRound(set)
      PROVE  Settled
  <2>1. tailLast[set].layer \in Layers /\ tailLast[set].experts \in SUBSET Experts
    BY <1>0, <1>7 DEF ReleaseRound, EngineTypeOK, Round
  <2> QED BY <1>4, <1>7, <2>1 DEF ReleaseRound
<1>8. ASSUME NEW r \in acqPrev, ReleaseRecord(r)
      PROVE  Settled
  <2>1. r[1] \in Layers /\ {r[2]} \in SUBSET Experts
    BY <1>0 DEF EngineTypeOK, Record
  <2> QED BY <1>4, <1>8, <2>1 DEF ReleaseRecord
<1>9. ASSUME NEW set \in PrefillSets, NEW l \in Layers, NEW E \in SUBSET Experts, PrefillRound(set, l, E)
      PROVE  Settled
  BY <1>2, <1>9 DEF PrefillRound, Stage
<1>10. ASSUME NEW r \in todo, AcquireResident(r)
       PROVE  Settled
  <2>1. UNCHANGED holds /\ pins' = [pins EXCEPT ![slotOf[r[1]][r[2]]] = @ + 1]
    BY <1>10 DEF AcquireResident
  <2>2. \A s \in Slots : pins'[s] \in {pins[s], pins[s] + 1}
    BY <1>0, <2>1 DEF TailTypeOK
  <2>3. \A s \in Slots : pins'[s] >= pins[s]
    BY <1>0, <2>2
  <2> QED BY <1>0, <2>1, <2>3, GrownSettled
<1>11. CASE AcquireRead
  <2>1. acquiring.layer \in Layers /\ acquiring.expert \in Experts /\ acquiring.slot \in Slots
    BY <1>0, <1>11 DEF AcquireRead, EngineTypeOK, Reading
  <2>2. UNCHANGED <<holds, pins>> \/ InsertAndPin(acquiring.layer, acquiring.expert, acquiring.slot)
    BY <1>11 DEF AcquireRead
  <2> QED BY <1>0, <1>1, <2>1, <2>2, InsertSettled
<1>12. CASE Dispatcher
  BY <1>1, <1>3, <1>5, <1>6, <1>12
     DEF Dispatcher, Forward, IssueFirst, ResidentDone, LoopExit, Reissue, Wait, ReapDone, Batch, Drain,
         Finish, LastPins, IssueAndSubmit, tailVars
<1>13. CASE Engine
  BY <1>1, <1>7, <1>8, <1>9, <1>10, <1>11, <1>13
     DEF Engine, BeforeLaunchEnd, Aging, LaunchDecode, LaunchPrefill, EndPrefill, AfterStep, Skip,
         AcquireCold, EndAfterStep, tailVars
<1>14. CASE IoComplete \/ Gpu \/ UNCHANGED vars
  BY <1>1, <1>14 DEF IoComplete, Gpu, CopyDone, StepDone, vars, tailVars
<1> QED BY <1>12, <1>13, <1>14 DEF Next

LEMMA InitOverflow == Init => OnlyPinnedOverflow
<1> SUFFICES ASSUME Init, NEW l \in Layers
             PROVE  Cardinality(Residents(holds, l)) <= PerLayer
  <2>1. \A l \in Layers : Cardinality(Residents(holds, l)) \in Nat /\ PerLayer \in Nat
    BY ResidentsFinite, PerLayerAssumption
  <2> QED BY <2>1 DEF OnlyPinnedOverflow
<1>1. TypeOK /\ TableConsistent
  BY InitSlots DEF SlotInv
<1>2. PICK W \in SUBSET InStore :
        /\ \A k \in Layers : Cardinality({e \in Experts : <<k, e>> \in W}) <= PerLayer
        /\ \E f \in Injection(W, Slots) :
             slotOf = [k \in Layers |-> [e \in Experts |-> IF <<k, e>> \in W THEN f[<<k, e>>] ELSE NoSlot]]
  BY DEF Init
<1> DEFINE A == {e \in Experts : <<l, e>> \in W}
           R == Residents(holds, l)
           g == [s \in R |-> holds[s][2]]
<1>3. Cardinality(A) <= PerLayer /\ IsFiniteSet(A)
  BY <1>2, ExpertsAssumption, FS_Subset
<1>4. ASSUME NEW s \in R
      PROVE  holds[s] = <<l, g[s]>> /\ g[s] \in A
  <2>1. s \in Slots /\ holds[s] \in Record /\ holds[s][1] = l
    BY <1>1 DEF Residents, TypeOK, TailTypeOK, RecordOrNone
  <2>2. holds[s] = <<l, g[s]>> /\ g[s] \in Experts
    BY <2>1 DEF Record
  <2>3. slotOf[l][g[s]] = s /\ s # NoSlot
    BY <1>1, <2>1, <2>2, NoSlotAssumption DEF TableConsistent
  <2> QED BY <1>2, <2>2, <2>3
<1>5. g \in Injection(R, A)
  <2>1. g \in [R -> A]
    BY <1>4
  <2>2. ASSUME NEW s \in R, NEW t \in R, g[s] = g[t] PROVE s = t
    <3> DEFINE e == g[s]
    <3>1. holds[s] = <<l, e>> /\ holds[t] = <<l, e>> /\ s \in Slots /\ t \in Slots /\ e \in Experts
      BY <1>4, <2>2 DEF Residents
    <3> HIDE DEF e
    <3>2. slotOf[l][e] = s /\ slotOf[l][e] = t
      BY <1>1, <3>1 DEF TableConsistent
    <3> QED BY <3>2
  <2> HIDE DEF g, R, A
  <2> QED BY <2>1, <2>2 DEF Injection, IsInjective
<1>6. Cardinality(R) \in Nat /\ Cardinality(A) \in Nat /\ PerLayer \in Nat
  BY <1>3, ResidentsFinite, FS_CardinalityType, PerLayerAssumption
<1> HIDE DEF g, R, A
<1>7. Cardinality(R) <= Cardinality(A)
  BY <1>3, <1>5, FS_Injection
<1>8. Cardinality(R) <= PerLayer
  BY <1>3, <1>6, <1>7
<1> QED BY <1>8 DEF R

-----------------------------------------------------------------------------
(* Whoever was given a slot finds its record there.                        *)

TailInv == SlotInv /\ PinnedResident /\ WantInv /\ BytesInv /\ OnlyPinnedOverflow

LEMMA TailInvariant ==
  ASSUME CallsAccepted, Separate
  PROVE  Spec => []TailInv
<1>1. Init => TailInv
  <2>1. Init => BytesInv
    BY DEF Init, BytesInv
  <2> QED BY <2>1, InitSlots, InitPinned, InitWants, InitOverflow DEF TailInv
<1>2. TailInv /\ [Next]_vars => TailInv'
  <2> SUFFICES ASSUME TailInv, [Next]_vars PROVE TailInv'
    OBVIOUS
  <2>1. SlotInv /\ PinnedResident /\ WantInv /\ RequestInv /\ BytesInv /\ OnlyPinnedOverflow
    BY DEF TailInv, WantInv
  <2>2. SlotInv'
    BY <2>1, NextSlots
  <2>3. PinnedResident'
    BY <2>1, ArenaStep
  <2>4. WantInv'
    BY <2>1, <2>2, NextWants
  <2>5. BytesInv'
    BY <2>1, NextBytes
  <2>6. OnlyPinnedOverflow'
    BY <2>1, <2>2, NextSettled, SettledOverflow
  <2> QED BY <2>2, <2>3, <2>4, <2>5, <2>6 DEF TailInv
<1> QED BY <1>1, <1>2, PTL DEF Spec

\* A layer is over its size only while every slot it might evict is pinned:
\* lru_trim stops early when it finds no unpinned slot, and every caller that
\* drops a pin trims again.  Needs that the pins a caller drops are all of the
\* layer it then trims (RequestInv, NamedSlots).
THEOREM OverflowIsPinned ==
  ASSUME CallsAccepted, Separate
  PROVE  Spec => []OnlyPinnedOverflow
<1>1. TailInv => OnlyPinnedOverflow
  BY DEF TailInv
<1>2. Spec => []TailInv
  BY TailInvariant
<1> QED BY <1>1, <1>2, PTL

\* The CPU kernel (serve) and the GPU's copies (promotions and prefill rounds)
\* read the record they were given the slot of, for as long as they run,
\* although both threads evict slots and the ring writes others meanwhile.
\* (Separate is needed: the run StoreTail_theft.)
THEOREM RecordsReadRight ==
  ASSUME CallsAccepted, Separate
  PROVE  Spec => []ReadsRight
<1>1. TailInv => ReadsRight
  <2> SUFFICES ASSUME TailInv PROVE ReadsRight
    OBVIOUS
  <2>1. /\ \A r \in reads : holds[r[2]] = <<layer, r[1]>> /\ r[2] \in Slots /\ <<layer, r[1]>> # NoRec
        /\ \A c \in copies : holds[c.slot] = c.rec /\ c.slot \in Slots /\ c.rec # NoRec
    BY NoRecAssumption
       DEF TailInv, WantInv, RequestInv, CopyInv, SlotInv, TypeOK, RequestTypeOK, EngineTypeOK, Copy, Record
  <2>2. \A s \in Slots : holds[s] # NoRec => content[s] = holds[s]
    BY DEF TailInv, BytesInv
  <2> QED BY <2>1, <2>2 DEF ReadsRight, ComputeReadsRight, CopiesReadRight
<1>2. Spec => []TailInv
  BY TailInvariant
<1> QED BY <1>1, <1>2, PTL

\* Every pin of Slot.pins is one the request, a promotion or a staged round took
\* and will drop, and none is dropped twice, although promotions and rounds
\* release records by name, from whatever slot holds them by then
\* (cpu_tier_record_release, cpu_tier_prefill_release).
THEOREM PinsAccounted ==
  ASSUME CallsAccepted, Separate
  PROVE  Spec => []PinAccounting
<1>1. TailInv => PinAccounting
  <2> SUFFICES ASSUME TailInv, epc # "failed", NEW s \in Slots PROVE pins[s] = Holders(s)
    BY DEF PinAccounting
  <2>1. pins[s] = Wanted(holds, pinned, acqLast, acqPrev, tailLast, s)
    BY DEF TailInv, WantInv, PinsInv
  <2>2. ASSUME NEW set \in PrefillSets, tailLast[set] # NoRec
        PROVE  s \in SlotsOf(tailLast[set].layer, tailLast[set].experts)
                 <=> holds[s] \in RoundRecords(tailLast[set])
    <3>1. tailLast[set].layer \in Layers /\ tailLast[set].experts \in SUBSET Experts
      BY <2>2 DEF TailInv, SlotInv, TypeOK, EngineTypeOK, Round
    <3>2. TypeOK /\ TableConsistent
      BY DEF TailInv, SlotInv
    <3> QED BY <3>1, <3>2, NamedSlots DEF RoundRecords
  <2>3. {set \in PrefillSets :
           tailLast[set] # NoRec /\ s \in SlotsOf(tailLast[set].layer, tailLast[set].experts)}
          = RoundsAt(holds, tailLast, s)
    BY <2>2 DEF RoundsAt, Staged
  <2> QED BY <2>1, <2>3 DEF Holders, Wanted, One
<1>2. Spec => []TailInv
  BY TailInvariant
<1> QED BY <1>1, <1>2, PTL

=============================================================================
