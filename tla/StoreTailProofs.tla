-------------------------- MODULE StoreTailProofs --------------------------
(* What holds of StoreTail for any number of layers, experts, slots, pairs *)
(* and promotions: the types; and, for any instance whose system calls     *)
(* accept the reads they are given (no "submit" and no "partial" fault;    *)
(* short reads, failed reads and kernel errors are included), that no slot *)
(* of the arena is lost, none has two owners, and the pointer tables agree.*)
(*                                                                         *)
(* SlotPartition is not inductive: giving a read's slot back is right only *)
(* if the ring's entries are this request's (RingInv), which needs that    *)
(* the landing loop ends with nothing in flight (a count), and inserting   *)
(* into the tables is right only if they agreed before.                    *)
EXTENDS StoreTail, FiniteSetTheorems, SequenceTheorems, TLAPS

-----------------------------------------------------------------------------
(* The operators keep the types.                                           *)

LEMMA FunctionSeq ==
  ASSUME NEW X, NEW n \in Nat, NEW q \in [1 .. n -> X]
  PROVE  q \in Seq(X) /\ Len(q) = n
OBVIOUS

LEMMA EvictType ==
  ASSUME NEW l \in Layers, NEW V \in SUBSET Slots,
         NEW h \in [Slots -> RecordOrNone], NEW so \in [Layers -> [Experts -> SlotOrNone]],
         NEW o \in SUBSET (Slots \X Slots), Evict(l, V, h, so, o)
  PROVE  /\ holds' \in [Slots -> RecordOrNone]
         /\ slotOf' \in [Layers -> [Experts -> SlotOrNone]]
         /\ older' \in SUBSET (Slots \X Slots)
BY DEF Evict, RecordOrNone, SlotOrNone

LEMMA UnpinTrimType ==
  ASSUME TailTypeOK, NEW l \in Layers, NEW S, UnpinTrim(l, S), UNCHANGED <<content, io>>
  PROVE  TailTypeOK'
<1>1. PICK V \in VictimSets(holds, older, Unpin(S), l) :
         Evict(l, V, holds, slotOf, older) /\ free' = free \cup V
  BY DEF UnpinTrim
<1>2. V \in SUBSET Slots
  BY <1>1 DEF VictimSets, Unpinned, Residents
<1>3. pins' \in [Slots -> Nat]
  BY DEF UnpinTrim, Unpin, TailTypeOK
<1> QED BY <1>1, <1>2, <1>3, EvictType DEF TailTypeOK

LEMMA InsertType ==
  ASSUME TailTypeOK, NEW l \in Layers, NEW e \in Experts, NEW s \in Slots, InsertAndPin(l, e, s)
  PROVE  /\ holds' \in [Slots -> RecordOrNone]
         /\ slotOf' \in [Layers -> [Experts -> SlotOrNone]]
         /\ older' \subseteq Slots \X Slots
         /\ pins' \in [Slots -> Nat]
         /\ free' \subseteq Slots
         /\ Inserted(l, e, s) \in Slots
<1>1. CASE slotOf[l][e] # NoSlot
  <2>1. slotOf[l][e] \in Slots
    BY <1>1 DEF TailTypeOK, SlotOrNone
  <2> QED BY <1>1, <2>1 DEF InsertAndPin, KeepFirst, BecomeResident, Inserted, TailTypeOK
<1>2. CASE slotOf[l][e] = NoSlot
  <2> DEFINE h  == [holds EXCEPT ![s] = <<l, e>>]
             so == [slotOf EXCEPT ![l] = [@ EXCEPT ![e] = s]]
             o  == older \cup (Residents(holds, l) \X {s})
             p  == [pins EXCEPT ![s] = 1]
  <2>1. PICK V \in VictimSets(h, o, p, l) : Evict(l, V, h, so, o) /\ free' = free \cup V
    BY <1>2 DEF InsertAndPin, KeepFirst, BecomeResident
  <2>2. V \in SUBSET Slots
    BY <2>1 DEF VictimSets, Unpinned, Residents
  <2>3. h \in [Slots -> RecordOrNone] /\ so \in [Layers -> [Experts -> SlotOrNone]]
    BY DEF TailTypeOK, RecordOrNone, Record, SlotOrNone
  <2>4. o \in SUBSET (Slots \X Slots)
    BY DEF TailTypeOK, Residents
  <2>5. pins' \in [Slots -> Nat]
    BY <1>2 DEF InsertAndPin, KeepFirst, BecomeResident, TailTypeOK
  <2> HIDE DEF h, so, o
  <2> QED BY <1>2, <2>1, <2>2, <2>3, <2>4, <2>5, EvictType DEF TailTypeOK, Inserted
<1> QED BY <1>1, <1>2

LEMMA IssueType ==
  ASSUME TailTypeOK, RequestTypeOK, NEW ok, NEW failed, IssueAndSubmit(ok, failed)
  PROVE  /\ TailTypeOK' /\ tgt' \in Seq(Slots) /\ Len(tgt') <= Len(cold)
         /\ status' \in {0, 2, 4, 5} /\ dpc' \in {ok, failed}
<1>1. PICK f \in IssueChoices :
         \E sent \in SubmitResults(Queued \cup NewReads(f)) :
           /\ free' = free \ {f[i] : i \in DOMAIN f}
           /\ tgt' = tgt \o f
           /\ io' = (InFlight \cup ((Queued \cup NewReads(f)) \ sent))
                      \cup {At(x, "flight") : x \in sent}
           /\ content' = [s \in Slots |-> IF \E x \in sent : x.slot = s THEN Torn ELSE content[s]]
           /\ status' \in {5, status} /\ dpc' \in {ok, failed}
           /\ UNCHANGED <<slotOf, holds, older, pins>>
  BY DEF IssueAndSubmit
<1>2. PICK sent \in SubmitResults(Queued \cup NewReads(f)) :
           /\ free' = free \ {f[i] : i \in DOMAIN f}
           /\ tgt' = tgt \o f
           /\ io' = (InFlight \cup ((Queued \cup NewReads(f)) \ sent))
                      \cup {At(x, "flight") : x \in sent}
           /\ content' = [s \in Slots |-> IF \E x \in sent : x.slot = s THEN Torn ELSE content[s]]
           /\ status' \in {5, status} /\ dpc' \in {ok, failed}
           /\ UNCHANGED <<slotOf, holds, older, pins>>
  BY <1>1
<1>3. PICK n \in IssueCounts : f \in [1 .. n -> free]
  BY DEF IssueChoices, Injection
<1>4. n \in Nat /\ Len(tgt) + n <= Len(cold)
  BY <1>3 DEF IssueCounts, Issued, RequestTypeOK
<1>5. f \in Seq(Slots) /\ Len(f) = n
  BY <1>3, <1>4 DEF TailTypeOK
<1>6. tgt \o f \in Seq(Slots) /\ Len(tgt \o f) = Len(tgt) + Len(f)
  BY <1>5 DEF RequestTypeOK
<1>7. tgt' \in Seq(Slots) /\ Len(tgt') <= Len(cold)
  BY <1>2, <1>4, <1>5, <1>6
<1>8. NewReads(f) \subseteq Read
  <2> SUFFICES ASSUME NEW i \in DOMAIN f
               PROVE  [ud |-> Issued + i, rec |-> <<layer, cold[Issued + i]>>, slot |-> f[i], st |-> "queued"] \in Read
    BY DEF NewReads
  <2>1. i \in 1 .. n /\ f[i] \in Slots
    BY <1>3, <1>4, <1>5 DEF TailTypeOK
  <2>2. Issued + i \in 1 .. Len(cold) /\ Issued + i \in Nat
    BY <2>1, <1>4 DEF Issued, RequestTypeOK
  <2>3. cold[Issued + i] \in Experts
    BY <2>2 DEF RequestTypeOK
  <2> QED BY <2>1, <2>2, <2>3 DEF Read, Record, RequestTypeOK
<1>9. sent \subseteq Read
  BY <1>2, <1>8 DEF SubmitResults, Queued, TailTypeOK
<1>10. \A x \in sent : At(x, "flight") \in Read
  BY <1>9 DEF Read, At
<1>11. io' \subseteq Read
  BY <1>2, <1>8, <1>9, <1>10 DEF Queued, InFlight, TailTypeOK
<1>12. content' \in [Slots -> Record \cup {Torn}]
  BY <1>2 DEF TailTypeOK
<1>13. TailTypeOK'
  BY <1>2, <1>11, <1>12 DEF TailTypeOK
<1> QED BY <1>2, <1>7, <1>13 DEF RequestTypeOK

-----------------------------------------------------------------------------
(* Type correctness.                                                       *)

LEMMA InitType == Init => TypeOK
<1> SUFFICES ASSUME Init PROVE TypeOK
  OBVIOUS
<1>0. PICK W \in SUBSET InStore :
        \E f \in Injection(W, Slots) :
        /\ slotOf = [l \in Layers |-> [e \in Experts |-> IF <<l, e>> \in W THEN f[<<l, e>>] ELSE NoSlot]]
        /\ holds = [s \in Slots |-> IF \E r \in W : f[r] = s THEN CHOOSE r \in W : f[r] = s ELSE NoRec]
  BY DEF Init
<1>1. PICK f \in Injection(W, Slots) :
        /\ slotOf = [l \in Layers |-> [e \in Experts |-> IF <<l, e>> \in W THEN f[<<l, e>>] ELSE NoSlot]]
        /\ holds = [s \in Slots |-> IF \E r \in W : f[r] = s THEN CHOOSE r \in W : f[r] = s ELSE NoRec]
  BY <1>0
<1>2. f \in [W -> Slots] /\ W \subseteq Record
  BY <1>1, InStoreAssumption DEF Injection, Record
<1>3. slotOf \in [Layers -> [Experts -> SlotOrNone]]
  BY <1>1, <1>2 DEF SlotOrNone
<1>4. holds \in [Slots -> RecordOrNone]
  BY <1>1, <1>2 DEF RecordOrNone
<1>5. content \in [Slots -> Record \cup {Torn}]
  BY <1>4 DEF Init, RecordOrNone
<1>6. TailTypeOK
  BY <1>3, <1>4, <1>5 DEF Init, TailTypeOK
<1>7. RequestTypeOK
  BY DEF Init, RequestTypeOK, DispatcherAt
<1>8. EngineTypeOK /\ StepTypeOK
  BY DEF Init, EngineTypeOK, StepTypeOK, EngineAt
<1> QED BY <1>6, <1>7, <1>8 DEF TypeOK

LEMMA FinishUnpin ==
  ASSUME TypeOK, UNCHANGED <<content, io>>,
         IF pinned # {} THEN UnpinTrim(layer, pinned)
                        ELSE UNCHANGED <<slotOf, holds, older, pins, free>>
  PROVE  TailTypeOK'
<1>1. CASE pinned # {}
  BY <1>1, UnpinTrimType DEF TypeOK, RequestTypeOK
<1>2. CASE pinned = {}
  BY <1>2 DEF TypeOK, TailTypeOK
<1> QED BY <1>1, <1>2

LEMMA DispatcherType == TypeOK /\ Dispatcher => TypeOK'
<1> SUFFICES ASSUME TypeOK, Dispatcher PROVE TypeOK'
  OBVIOUS
<1> USE DEF TypeOK
<1>1. ASSUME NEW l \in Layers, NEW E \in SUBSET Experts, Resolve(l, E)
      PROVE  TypeOK'
  <2> DEFINE A  == AbsentIn(l, E)
             F  == Until(E, A)
             Rs == ResidentIn(l, F)
             S  == {slotOf[l][e] : e \in Rs}
  <2>1. F \subseteq Experts /\ Rs \subseteq F
    BY <1>1 DEF Until, ResidentIn
  <2>2. \A e \in Rs : slotOf[l][e] \in Slots
    BY <1>1, <2>1 DEF ResidentIn, TailTypeOK, SlotOrNone
  <2>3. cold' \in Seq(Experts) /\ Len(cold') \in Nat
    <3>1. IsFiniteSet(F \ Rs)
      BY <1>1, <2>1, ExpertsAssumption, FS_Subset
    <3>2. Cardinality(F \ Rs) \in Nat
      BY <1>1, <3>1, FS_CardinalityType
    <3>3. cold' \in [1 .. Cardinality(F \ Rs) -> F \ Rs]
      BY <1>1 DEF Resolve, InOrder
    <3> DEFINE n == Cardinality(F \ Rs)
    <3>4. F \ Rs \subseteq Experts
      BY <2>1
    <3> HIDE DEF F, Rs, n
    <3>5. cold' \in [1 .. n -> Experts]
      BY <3>3, <3>4 DEF n
    <3>6. n \in Nat
      BY <3>2 DEF n
    <3> QED BY <3>5, <3>6, FunctionSeq
  <2>4. TailTypeOK'
    <3>1. older' \subseteq Slots \X Slots
      BY <1>1, <2>2 DEF Resolve, MoveToTail, TailTypeOK, Residents
    <3>2. pins' \in [Slots -> Nat]
      BY <1>1 DEF Resolve, TailTypeOK
    <3> QED BY <1>1, <3>1, <3>2 DEF Resolve, TailTypeOK
  <2>5. RequestTypeOK'
    <3>1. reads' \subseteq Experts \X Slots /\ pinned' \subseteq Slots /\ asked' \subseteq Experts
      BY <1>1, <2>1, <2>2 DEF Resolve
    <3>2. tgt' \in Seq(Slots) /\ Len(tgt') = 0
      BY <1>1 DEF Resolve
    <3>3. /\ dpc' \in DispatcherAt /\ layer' \in Layers /\ landed' \in Nat
          /\ status' \in {0, 2, 4, 5}
      BY <1>1 DEF Resolve, DispatcherAt
    <3> QED BY <2>3, <3>1, <3>2, <3>3 DEF RequestTypeOK
  <2>6. EngineTypeOK' /\ StepTypeOK'
    BY <1>1 DEF Resolve, EngineTypeOK, StepTypeOK, engVars, stepVars
  <2> QED BY <2>4, <2>5, <2>6
<1>2. CASE Forward
  BY <1>2 DEF Forward, Compute, TailTypeOK, RequestTypeOK, EngineTypeOK, StepTypeOK, DispatcherAt,
              tailVars, reqVars, engVars, stepVars
<1>3. CASE IssueFirst
  <2>1. /\ TailTypeOK' /\ tgt' \in Seq(Slots) /\ Len(tgt') <= Len(cold)
        /\ status' \in {0, 2, 4, 5} /\ dpc' \in {"resident"}
    BY <1>3, IssueType DEF IssueFirst
  <2> QED BY <1>3, <2>1 DEF IssueFirst, RequestTypeOK, EngineTypeOK, StepTypeOK, DispatcherAt,
                            engVars, stepVars
<1>4. CASE ResidentDone
  <2>1. TailTypeOK'
    BY <1>4, UnpinTrimType DEF ResidentDone, RequestTypeOK
  <2> QED BY <1>4, <2>1 DEF ResidentDone, Compute, RequestTypeOK, EngineTypeOK, StepTypeOK,
                            DispatcherAt, reqVars, engVars, stepVars
<1>5. CASE LoopExit
  BY <1>5 DEF LoopExit, TailTypeOK, RequestTypeOK, EngineTypeOK, StepTypeOK, DispatcherAt,
              tailVars, reqVars, engVars, stepVars
<1>6. CASE Reissue
  <2>1. /\ TailTypeOK' /\ tgt' \in Seq(Slots) /\ Len(tgt') <= Len(cold)
        /\ status' \in {0, 2, 4, 5} /\ dpc' \in {"loop", "drain"}
    BY <1>6, IssueType DEF Reissue
  <2> QED BY <1>6, <2>1 DEF Reissue, RequestTypeOK, EngineTypeOK, StepTypeOK, DispatcherAt,
                            engVars, stepVars
<1>7. CASE Wait
  BY <1>7 DEF Wait, TailTypeOK, RequestTypeOK, EngineTypeOK, StepTypeOK, DispatcherAt,
              tailVars, reqVars, engVars, stepVars
<1>8. CASE Reap
  <2>1. PICK x \in Completed :
       /\ x.ud \in DOMAIN tgt
       /\ io' = io \ {x}
       /\ \/ /\ status' = 5
             /\ free' = free \cup {tgt[x.ud]}
             /\ UNCHANGED <<slotOf, holds, older, pins, pinned, reads, landed>>
          \/ /\ InsertAndPin(layer, cold[x.ud], tgt[x.ud])
             /\ pinned' = pinned \cup {Inserted(layer, cold[x.ud], tgt[x.ud])}
             /\ reads' = reads \cup {<<cold[x.ud], Inserted(layer, cold[x.ud], tgt[x.ud])>>}
             /\ landed' = landed + 1
             /\ UNCHANGED status
    BY <1>8 DEF Reap
  <2>2. tgt[x.ud] \in Slots /\ cold[x.ud] \in Experts
    BY <2>1 DEF RequestTypeOK
  <2>3. UNCHANGED <<content, dpc, layer, asked, cold, tgt, engVars, stepVars>>
    BY <1>8 DEF Reap
  <2>4. CASE /\ status' = 5
             /\ free' = free \cup {tgt[x.ud]}
             /\ UNCHANGED <<slotOf, holds, older, pins, pinned, reads, landed>>
    BY <2>1, <2>2, <2>3, <2>4 DEF TailTypeOK, RequestTypeOK, EngineTypeOK, StepTypeOK, engVars, stepVars
  <2>5. CASE /\ InsertAndPin(layer, cold[x.ud], tgt[x.ud])
             /\ pinned' = pinned \cup {Inserted(layer, cold[x.ud], tgt[x.ud])}
             /\ reads' = reads \cup {<<cold[x.ud], Inserted(layer, cold[x.ud], tgt[x.ud])>>}
             /\ landed' = landed + 1
             /\ UNCHANGED status
    <3>1. /\ holds' \in [Slots -> RecordOrNone]
          /\ slotOf' \in [Layers -> [Experts -> SlotOrNone]]
          /\ older' \subseteq Slots \X Slots
          /\ pins' \in [Slots -> Nat]
          /\ free' \subseteq Slots
          /\ Inserted(layer, cold[x.ud], tgt[x.ud]) \in Slots
      BY <2>2, <2>5, InsertType DEF RequestTypeOK
    <3>2. TailTypeOK'
      BY <2>1, <2>3, <3>1 DEF TailTypeOK
    <3>3. RequestTypeOK'
      BY <2>2, <2>3, <2>5, <3>1 DEF RequestTypeOK
    <3> QED BY <2>3, <3>2, <3>3 DEF EngineTypeOK, StepTypeOK, engVars, stepVars
  <2> QED BY <2>1, <2>4, <2>5
<1>9. CASE ReapDone
  <2>1. CASE IssueAndSubmit("batch", "drain")
    <3>1. /\ TailTypeOK' /\ tgt' \in Seq(Slots) /\ Len(tgt') <= Len(cold)
          /\ status' \in {0, 2, 4, 5} /\ dpc' \in {"batch", "drain"}
      BY <2>1, IssueType
    <3> QED BY <1>9, <3>1 DEF ReapDone, RequestTypeOK, EngineTypeOK, StepTypeOK, DispatcherAt,
                              engVars, stepVars
  <2>2. CASE dpc' = "batch" /\ UNCHANGED <<tailVars, io, tgt, status>>
    BY <1>9, <2>2 DEF ReapDone, TailTypeOK, RequestTypeOK, EngineTypeOK, StepTypeOK, DispatcherAt,
                      tailVars, engVars, stepVars
  <2> QED BY <1>9, <2>1, <2>2 DEF ReapDone
<1>10. CASE Batch
  <2>1. TailTypeOK'
    BY <1>10, FinishUnpin DEF Batch
  <2> QED BY <1>10, <2>1 DEF Batch, Compute, RequestTypeOK, EngineTypeOK, StepTypeOK,
                             DispatcherAt, reqVars, engVars, stepVars
<1>11. CASE Drain
  <2>1. io' \subseteq io /\ free' \subseteq Slots /\ dpc' \in DispatcherAt
    BY <1>11 DEF Drain, TailTypeOK, RequestTypeOK, DispatcherAt
  <2>2. UNCHANGED <<slotOf, holds, older, pins, content, reqVars, pinned, reads, status,
                    engVars, stepVars>>
    BY <1>11 DEF Drain
  <2> QED BY <2>1, <2>2 DEF TailTypeOK, RequestTypeOK, EngineTypeOK, StepTypeOK,
                            reqVars, engVars, stepVars
<1>12. CASE Finish
  <2>1. TailTypeOK'
    BY <1>12, FinishUnpin DEF Finish, Answer, LastPins
  <2>2. RequestTypeOK'
    BY <1>12 DEF Finish, Answer, LastPins, RequestTypeOK, DispatcherAt
  <2> QED BY <1>12, <2>1, <2>2 DEF Finish, Answer, LastPins, RequestTypeOK, EngineTypeOK, StepTypeOK, Record, engVars
<1> QED BY <1>1, <1>2, <1>3, <1>4, <1>5, <1>6, <1>7, <1>8, <1>9, <1>10, <1>11, <1>12 DEF Dispatcher

LEMMA IoCompleteType == TypeOK /\ IoComplete => TypeOK'
<1> SUFFICES ASSUME TypeOK, IoComplete PROVE TypeOK'
  OBVIOUS
<1>1. PICK x \in io :
        /\ \/ io' = (io \ {x}) \cup {At(x, "ok")} /\ content' = [content EXCEPT ![x.slot] = x.rec]
           \/ io' = (io \ {x}) \cup {At(x, "bad")} /\ UNCHANGED content
        /\ UNCHANGED <<slotOf, holds, older, pins, free, dispVars, engVars, stepVars>>
  BY DEF IoComplete
<1>2. x \in Read /\ At(x, "ok") \in Read /\ At(x, "bad") \in Read
  BY DEF TypeOK, TailTypeOK, Read, At
<1>3. TailTypeOK'
  BY <1>1, <1>2 DEF TypeOK, TailTypeOK, Read
<1> QED BY <1>1, <1>3 DEF TypeOK, RequestTypeOK, EngineTypeOK, StepTypeOK,
                          dispVars, reqVars, engVars, stepVars

LEMMA EngineType == TypeOK /\ Engine => TypeOK'
<1> SUFFICES ASSUME TypeOK, Engine PROVE TypeOK'
  OBVIOUS
<1> USE DEF TypeOK
<1>1. ASSUME NEW set \in PrefillSets, ReleaseRound(set) PROVE TypeOK'
  <2>1. tailLast[set] \in Round
    BY <1>1 DEF ReleaseRound, EngineTypeOK
  <2>2. TailTypeOK'
    BY <1>1, <2>1, UnpinTrimType DEF ReleaseRound, Round
  <2> QED BY <1>1, <2>2 DEF ReleaseRound, RequestTypeOK, EngineTypeOK, StepTypeOK, dispVars, reqVars, stepVars
<1>2. ASSUME NEW r \in acqPrev, ReleaseRecord(r) PROVE TypeOK'
  <2>1. r[1] \in Layers
    BY <1>2 DEF EngineTypeOK, Record
  <2>2. TailTypeOK'
    BY <1>2, <2>1, UnpinTrimType DEF ReleaseRecord
  <2> QED BY <1>2, <2>2 DEF ReleaseRecord, RequestTypeOK, EngineTypeOK, StepTypeOK, dispVars, reqVars, stepVars
<1>3. CASE BeforeLaunchEnd
  BY <1>3 DEF BeforeLaunchEnd, Aging, TailTypeOK, RequestTypeOK, EngineTypeOK, StepTypeOK, EngineAt, Copy,
              tailVars, dispVars, reqVars, stepVars
<1>4. CASE LaunchDecode
  BY <1>4 DEF LaunchDecode, TailTypeOK, RequestTypeOK, EngineTypeOK, StepTypeOK, EngineAt,
              tailVars, dispVars, reqVars
<1>5. CASE LaunchPrefill
  BY <1>5 DEF LaunchPrefill, TailTypeOK, RequestTypeOK, EngineTypeOK, StepTypeOK, EngineAt,
              tailVars, dispVars, reqVars, stepVars
<1>6. ASSUME NEW set \in PrefillSets, NEW l \in Layers, NEW E \in SUBSET Experts, PrefillRound(set, l, E)
      PROVE  TypeOK'
  <2> DEFINE Rs == ResidentIn(l, Until(E, AbsentIn(l, E)))
  <2>1. TailTypeOK'
    BY <1>6 DEF PrefillRound, Stage, TailTypeOK
  <2>2. \A e \in Rs : e \in Experts /\ slotOf[l][e] \in Slots
    BY DEF ResidentIn, Until, TailTypeOK, SlotOrNone
  <2>3. NewCopies(set, l, Rs) \subseteq Copy
    BY <2>2 DEF NewCopies, Copy, Record
  <2>4. EngineTypeOK'
    BY <1>6, <2>3 DEF PrefillRound, Stage, EngineTypeOK, Round, EngineAt
  <2> QED BY <1>6, <2>1, <2>4 DEF PrefillRound, Stage, RequestTypeOK, StepTypeOK, dispVars, reqVars, stepVars
<1>7. CASE EndPrefill
  BY <1>7 DEF EndPrefill, TailTypeOK, RequestTypeOK, EngineTypeOK, StepTypeOK, EngineAt,
              tailVars, dispVars, reqVars, stepVars
<1>8. CASE AfterStep
  BY <1>8 DEF AfterStep, TailTypeOK, RequestTypeOK, EngineTypeOK, StepTypeOK, EngineAt,
              tailVars, dispVars, reqVars
<1>9. ASSUME NEW r \in todo, Skip(r) PROVE TypeOK'
  BY <1>9 DEF Skip, TailTypeOK, RequestTypeOK, EngineTypeOK, StepTypeOK,
              tailVars, dispVars, reqVars, stepVars
<1>10. ASSUME NEW r \in todo, AcquireResident(r) PROVE TypeOK'
  <2>1. r \in Record /\ r[1] \in Layers /\ r[2] \in Experts
    BY <1>10 DEF EngineTypeOK, Record
  <2>2. slotOf[r[1]][r[2]] \in Slots
    BY <1>10, <2>1 DEF AcquireResident, TailTypeOK, SlotOrNone
  <2>3. NewCopies("last", r[1], {r[2]}) \subseteq Copy
    BY <2>1, <2>2 DEF NewCopies, Copy, Record
  <2>4. TailTypeOK'
    BY <1>10, <2>2 DEF AcquireResident, TailTypeOK
  <2> QED BY <1>10, <2>1, <2>3, <2>4 DEF AcquireResident, RequestTypeOK, EngineTypeOK, StepTypeOK,
                                        dispVars, reqVars, stepVars
<1>11. ASSUME NEW r \in todo, AcquireCold(r) PROVE TypeOK'
  <2>1. r[1] \in Layers /\ r[2] \in Experts
    BY <1>11 DEF EngineTypeOK, Record
  <2>2. PICK s \in free :
          /\ free' = free \ {s}
          /\ content' = [content EXCEPT ![s] = Torn]
          /\ acquiring' = [layer |-> r[1], expert |-> r[2], slot |-> s]
    BY <1>11 DEF AcquireCold
  <2>3. s \in Slots /\ acquiring' \in Reading
    BY <2>1, <2>2 DEF TailTypeOK, Reading
  <2> QED BY <1>11, <2>2, <2>3 DEF AcquireCold, TailTypeOK, RequestTypeOK, EngineTypeOK, StepTypeOK,
                                   EngineAt, dispVars, reqVars, stepVars
<1>12. CASE AcquireRead
  <2> DEFINE l == acquiring.layer
             e == acquiring.expert
             s == acquiring.slot
  <2>1. l \in Layers /\ e \in Experts /\ s \in Slots
    BY <1>12 DEF AcquireRead, EngineTypeOK, Reading
  <2>2. CASE /\ content' = [content EXCEPT ![s] = <<l, e>>]
             /\ InsertAndPin(l, e, s)
             /\ acqLast' = acqLast \cup {<<l, e>>}
             /\ copies' = copies \cup {[by |-> "last", rec |-> <<l, e>>, slot |-> Inserted(l, e, s)]}
    <3>1. /\ holds' \in [Slots -> RecordOrNone]
          /\ slotOf' \in [Layers -> [Experts -> SlotOrNone]]
          /\ older' \subseteq Slots \X Slots
          /\ pins' \in [Slots -> Nat]
          /\ free' \subseteq Slots
          /\ Inserted(l, e, s) \in Slots
      BY <2>1, <2>2, InsertType
    <3>2. TailTypeOK'
      BY <1>12, <2>1, <2>2, <3>1 DEF AcquireRead, TailTypeOK, Record
    <3>3. EngineTypeOK'
      BY <1>12, <2>1, <2>2, <3>1 DEF AcquireRead, EngineTypeOK, EngineAt, Copy, Record
    <3> QED BY <1>12, <3>2, <3>3 DEF AcquireRead, RequestTypeOK, StepTypeOK, dispVars, reqVars, stepVars
  <2>3. CASE /\ free' = free \cup {s}
             /\ UNCHANGED <<slotOf, holds, older, pins, content, acqLast, copies>>
    BY <1>12, <2>1, <2>3 DEF AcquireRead, TailTypeOK, RequestTypeOK, EngineTypeOK, StepTypeOK, EngineAt,
                             dispVars, reqVars, stepVars
  <2> QED BY <1>12, <2>2, <2>3 DEF AcquireRead
<1>13. CASE EndAfterStep
  BY <1>13 DEF EndAfterStep, TailTypeOK, RequestTypeOK, EngineTypeOK, StepTypeOK, EngineAt,
               tailVars, dispVars, reqVars, stepVars
<1> QED BY <1>1, <1>2, <1>3, <1>4, <1>5, <1>6, <1>7, <1>8, <1>9, <1>10, <1>11, <1>12, <1>13 DEF Engine

LEMMA GpuType == TypeOK /\ Gpu => TypeOK'
BY DEF Gpu, CopyDone, StepDone, TypeOK, TailTypeOK, RequestTypeOK, EngineTypeOK, StepTypeOK,
       tailVars, dispVars, reqVars, engVars, stepVars

LEMMA NextType == TypeOK /\ [Next]_vars => TypeOK'
<1> SUFFICES ASSUME TypeOK, [Next]_vars PROVE TypeOK'
  OBVIOUS
<1>1. CASE UNCHANGED vars
  BY <1>1 DEF vars, tailVars, dispVars, reqVars, engVars, stepVars,
              TypeOK, TailTypeOK, RequestTypeOK, EngineTypeOK, StepTypeOK
<1> QED BY <1>1, DispatcherType, IoCompleteType, EngineType, GpuType DEF Next

\* Whatever the faults and the sizes, the tail's tables, the ring's entries, the
\* request and the engine's lists keep their types; in particular a request
\* never issues more reads than it has cold experts (issue_some).
THEOREM TypeCorrect == Spec => []TypeOK
<1> QED BY InitType, NextType, PTL DEF Spec

-----------------------------------------------------------------------------
(* One owner for every slot.                                               *)

SlotInv == TypeOK /\ SlotPartition /\ TableConsistent /\ RingInv

\* no fault of io_uring_enter itself
CallsAccepted == "submit" \notin Faults /\ "partial" \notin Faults

-----------------------------------------------------------------------------
(* What a trim and an insertion move.                                      *)

Agree(so, h) == \A k \in Layers, e \in Experts, s \in Slots : so[k][e] = s <=> h[s] = <<k, e>>
AllOf(V, h, l) == \A s \in V : h[s] # NoRec /\ h[s][1] = l

LEMMA EvictMoves ==
  ASSUME NEW l \in Layers, NEW V \in SUBSET Slots,
         NEW h \in [Slots -> RecordOrNone], NEW so \in [Layers -> [Experts -> SlotOrNone]],
         NEW o \in SUBSET (Slots \X Slots), Evict(l, V, h, so, o), AllOf(V, h, l), Agree(so, h)
  PROVE  TableConsistent'
<1> SUFFICES ASSUME NEW k \in Layers, NEW e \in Experts, NEW s \in Slots
             PROVE  slotOf'[k][e] = s <=> holds'[s] = <<k, e>>
  BY DEF TableConsistent
<1>0. <<k, e>> # NoRec /\ so[k][e] \in SlotOrNone /\ s # NoSlot
  BY NoRecAssumption, NoSlotAssumption
<1>1. so[k][e] = s <=> h[s] = <<k, e>>
  BY DEF Agree
<1>2. holds'[s] = IF s \in V THEN NoRec ELSE h[s]
  BY DEF Evict
<1>3. CASE k = l
  <2>1. slotOf'[k][e] = IF so[k][e] \in V THEN NoSlot ELSE so[k][e]
    BY <1>3 DEF Evict
  <2> QED BY <1>0, <1>1, <1>2, <2>1
<1>4. CASE k # l
  <2>1. slotOf'[k][e] = so[k][e]
    BY <1>4 DEF Evict
  <2>2. s \in V => h[s] # <<k, e>>
    BY <1>4 DEF AllOf
  <2> QED BY <1>0, <1>1, <1>2, <2>1, <2>2
<1> QED BY <1>3, <1>4

LEMMA TrimMoves ==
  ASSUME TailTypeOK, TableConsistent, NEW l \in Layers, NEW S, UnpinTrim(l, S)
  PROVE  /\ TableConsistent'
         /\ \E V \in SUBSET ResidentSlots :
              free' = free \cup V /\ ResidentSlots' = ResidentSlots \ V
<1>1. PICK V \in VictimSets(holds, older, Unpin(S), l) :
        Evict(l, V, holds, slotOf, older) /\ free' = free \cup V
  BY DEF UnpinTrim
<1>2. V \in SUBSET Slots /\ \A s \in V : holds[s] # NoRec /\ holds[s][1] = l
  BY <1>1 DEF VictimSets, Unpinned, Residents
<1>3. TableConsistent'
  <2>1. AllOf(V, holds, l) /\ Agree(slotOf, holds)
    BY <1>2 DEF AllOf, Agree, TableConsistent
  <2> QED BY <1>1, <1>2, <2>1, EvictMoves DEF TailTypeOK
<1>4. V \in SUBSET ResidentSlots /\ ResidentSlots' = ResidentSlots \ V
  BY <1>1, <1>2 DEF ResidentSlots, Evict
<1> QED BY <1>1, <1>3, <1>4

\* s goes to the spares or becomes resident; some residents become spare
LEMMA InsertMoves ==
  ASSUME TailTypeOK, TableConsistent, NEW l \in Layers, NEW e \in Experts, NEW s \in Slots,
         holds[s] = NoRec, InsertAndPin(l, e, s)
  PROVE  /\ TableConsistent'
         /\ \E V \in SUBSET ResidentSlots :
              \/ free' = free \cup V \cup {s} /\ ResidentSlots' = ResidentSlots \ V
              \/ free' = free \cup V /\ ResidentSlots' = (ResidentSlots \ V) \cup {s}
<1>1. CASE slotOf[l][e] # NoSlot
  <2>1. free' = free \cup {s} /\ UNCHANGED <<slotOf, holds>>
    BY <1>1 DEF InsertAndPin, KeepFirst, BecomeResident
  <2>2. TableConsistent' /\ ResidentSlots' = ResidentSlots
    BY <2>1 DEF TableConsistent, ResidentSlots
  <2>3. {} \in SUBSET ResidentSlots
    OBVIOUS
  <2> QED BY <2>1, <2>2, <2>3
<1>2. CASE slotOf[l][e] = NoSlot
  <2> DEFINE h  == [holds EXCEPT ![s] = <<l, e>>]
             so == [slotOf EXCEPT ![l] = [@ EXCEPT ![e] = s]]
             o  == older \cup (Residents(holds, l) \X {s})
             p  == [pins EXCEPT ![s] = 1]
  <2>1. PICK V \in VictimSets(h, o, p, l) : Evict(l, V, h, so, o) /\ free' = free \cup V
    BY <1>2 DEF InsertAndPin, KeepFirst, BecomeResident
  <2>2. V \in SUBSET Slots /\ \A t \in V : h[t] # NoRec /\ h[t][1] = l /\ p[t] = 0
    BY <2>1 DEF VictimSets, Unpinned, Residents
  <2>3. h \in [Slots -> RecordOrNone] /\ so \in [Layers -> [Experts -> SlotOrNone]]
    BY DEF TailTypeOK, RecordOrNone, Record, SlotOrNone
  <2>4. Agree(so, h)
    <3> SUFFICES ASSUME NEW k \in Layers, NEW x \in Experts, NEW t \in Slots
                 PROVE  so[k][x] = t <=> h[t] = <<k, x>>
      BY DEF Agree
    <3>0. <<k, x>> # NoRec /\ <<l, e>> # NoRec /\ NoSlot # t /\ NoSlot # s
      BY NoRecAssumption, NoSlotAssumption
    <3>1. slotOf[k][x] = t <=> holds[t] = <<k, x>>
      BY DEF TableConsistent
    <3>2. so[k][x] = IF k = l /\ x = e THEN s ELSE slotOf[k][x]
      BY DEF TailTypeOK
    <3>3. h[t] = IF t = s THEN <<l, e>> ELSE holds[t]
      BY DEF TailTypeOK
    <3>4. <<k, x>> = <<l, e>> <=> k = l /\ x = e
      OBVIOUS
    <3> QED BY <1>2, <3>0, <3>1, <3>2, <3>3, <3>4
  <2>5. s \notin V
    BY <2>2 DEF TailTypeOK
  <2>6. V \in SUBSET ResidentSlots
    BY <2>2, <2>5 DEF TailTypeOK, ResidentSlots
  <2>7. ResidentSlots' = (ResidentSlots \ V) \cup {s}
    BY <2>1, <2>5, NoRecAssumption DEF ResidentSlots, Evict, TailTypeOK
  <2>8. o \in SUBSET (Slots \X Slots) /\ AllOf(V, h, l)
    BY <2>2 DEF TailTypeOK, Residents, AllOf
  <2> HIDE DEF h, so, o, p
  <2>9. TableConsistent'
    BY <2>1, <2>2, <2>3, <2>4, <2>8, EvictMoves
  <2> QED BY <2>1, <2>6, <2>7, <2>9
<1> QED BY <1>1, <1>2

-----------------------------------------------------------------------------
(* What issue_some and submit do to the ring when every read is accepted.  *)

\* the i-th read issued now, once it is in flight
NewRead(f, i) ==
  [ud |-> Len(tgt) + i, rec |-> <<layer, cold[Len(tgt) + i]>>, slot |-> f[i], st |-> "flight"]

LEMMA IssueSends ==
  ASSUME CallsAccepted, TypeOK, ReadsOwned, NEW ok, NEW failed, IssueAndSubmit(ok, failed)
  PROVE  \E n \in Nat : \E f \in Injection(1 .. n, free) :
           /\ free' = free \ {f[i] : i \in 1 .. n}
           /\ tgt' = tgt \o f
           /\ io' = io \cup {NewRead(f, i) : i \in 1 .. n}
           /\ status' = status /\ dpc' = ok
           /\ UNCHANGED <<slotOf, holds>>
<1>1. PICK f \in IssueChoices :
         \E sent \in SubmitResults(Queued \cup NewReads(f)) :
           /\ free' = free \ {f[i] : i \in DOMAIN f}
           /\ tgt' = tgt \o f
           /\ io' = (InFlight \cup ((Queued \cup NewReads(f)) \ sent))
                      \cup {At(x, "flight") : x \in sent}
           /\ IF (Queued \cup NewReads(f)) # {} /\ sent = {}
                THEN status' = 5 /\ dpc' = failed
                ELSE status' = status /\ dpc' = ok
           /\ UNCHANGED <<slotOf, holds>>
  BY DEF IssueAndSubmit
<1>2. PICK n \in IssueCounts : f \in Injection(1 .. n, free)
  BY DEF IssueChoices
<1>3. n \in Nat /\ DOMAIN f = 1 .. n
  BY <1>2 DEF IssueCounts, Injection, Issued, TypeOK, RequestTypeOK
<1>4. SubmitResults(Queued \cup NewReads(f)) = {NewReads(f)}
  BY DEF SubmitResults, CallsAccepted, ReadsOwned
<1>5. /\ free' = free \ {f[i] : i \in DOMAIN f}
      /\ tgt' = tgt \o f
      /\ io' = io \cup {At(x, "flight") : x \in NewReads(f)}
      /\ status' = status /\ dpc' = ok
      /\ UNCHANGED <<slotOf, holds>>
  BY <1>1, <1>4 DEF InFlight, ReadsOwned
<1>6. {At(x, "flight") : x \in NewReads(f)} = {NewRead(f, i) : i \in 1 .. n}
  <2> DEFINE q(i) == [ud |-> Len(tgt) + i, rec |-> <<layer, cold[Len(tgt) + i]>>, slot |-> f[i], st |-> "queued"]
  <2>1. NewReads(f) = {q(i) : i \in 1 .. n}
    BY <1>3 DEF NewReads, Issued
  <2>2. \A i \in 1 .. n : At(q(i), "flight") = NewRead(f, i)
    BY DEF NewRead, At
  <2> HIDE DEF q
  <2> QED BY <2>1, <2>2
<1> QED BY <1>2, <1>3, <1>5, <1>6

LEMMA IssueMoves ==
  ASSUME CallsAccepted, TypeOK, SlotPartition, ReadsOwned, ReadCount, NEW ok, NEW failed,
         IssueAndSubmit(ok, failed), landed' = landed
  PROVE  /\ ReadsOwned' /\ ReadCount' /\ dpc' = ok /\ status' = status
         /\ UNCHANGED <<slotOf, holds>>
         /\ \E R \in SUBSET free : free' = free \ R /\ ReadSlots' = ReadSlots \cup R
<1>1. PICK n \in Nat : \E f \in Injection(1 .. n, free) :
           /\ free' = free \ {f[i] : i \in 1 .. n}
           /\ tgt' = tgt \o f
           /\ io' = io \cup {NewRead(f, i) : i \in 1 .. n}
           /\ status' = status /\ dpc' = ok
           /\ UNCHANGED <<slotOf, holds>>
  BY IssueSends
<1>2. PICK f \in Injection(1 .. n, free) :
           /\ free' = free \ {f[i] : i \in 1 .. n}
           /\ tgt' = tgt \o f
           /\ io' = io \cup {NewRead(f, i) : i \in 1 .. n}
           /\ status' = status /\ dpc' = ok
           /\ UNCHANGED <<slotOf, holds>>
  BY <1>1
<1> DEFINE N == {NewRead(f, i) : i \in 1 .. n}
<1>3. /\ f \in [1 .. n -> free] /\ tgt \in Seq(Slots) /\ Len(tgt) \in Nat /\ free \subseteq Slots
      /\ \A i, j \in 1 .. n : f[i] = f[j] => i = j
  BY DEF Injection, IsInjective, TypeOK, RequestTypeOK, TailTypeOK
<1>4. f \in Seq(Slots) /\ Len(f) = n
  BY <1>3, FunctionSeq
<1>5. /\ Len(tgt') = Len(tgt) + n
      /\ \A i \in 1 .. Len(tgt) : tgt'[i] = tgt[i]
      /\ \A i \in 1 .. n : tgt'[Len(tgt) + i] = f[i]
  <2>0. tgt' = tgt \o f
    BY <1>2
  <2>1. Len(tgt') = Len(tgt) + n
    BY <1>3, <1>4, <2>0, ConcatProperties
  <2>2. \A i \in 1 .. Len(tgt) : tgt'[i] = tgt[i]
    BY <1>3, <1>4, <2>0
  <2>3. ASSUME NEW i \in 1 .. n PROVE tgt'[Len(tgt) + i] = f[i]
    <3>1. Len(tgt) + i \in 1 .. (Len(tgt) + Len(f)) /\ ~(Len(tgt) + i <= Len(tgt))
      BY <1>3, <1>4
    <3>2. (tgt \o f)[Len(tgt) + i] = f[Len(tgt) + i - Len(tgt)]
      BY <1>3, <1>4, <3>1
    <3>3. Len(tgt) + i - Len(tgt) = i
      BY <1>3
    <3> QED BY <2>0, <3>2, <3>3
  <2> QED BY <2>1, <2>2, <2>3
<1>6. \A i \in 1 .. n : NewRead(f, i).ud = Len(tgt) + i /\ NewRead(f, i).slot = f[i]
                        /\ NewRead(f, i).st = "flight"
  BY DEF NewRead
<1>7. \A x \in io : x.ud \in 1 .. Len(tgt) /\ x.slot = tgt[x.ud]
  BY <1>3 DEF ReadsOwned
<1>8. IsFiniteSet(N) /\ Cardinality(N) = n
  <2> DEFINE g == [i \in 1 .. n |-> NewRead(f, i)]
  <2>1. \A i, j \in 1 .. n : NewRead(f, i) = NewRead(f, j) => i = j
    BY <1>3, <1>6
  <2>2. g \in Bijection(1 .. n, N)
    BY <2>1 DEF Bijection, Injection, Surjection, IsInjective
  <2>3. IsFiniteSet(1 .. n) /\ Cardinality(1 .. n) = n
    BY FS_Interval
  <2> HIDE DEF N
  <2> QED BY <2>2, <2>3, FS_Bijection DEF ExistsBijection
<1>9. io \cap N = {}
  <2> SUFFICES ASSUME NEW i \in 1 .. n, NewRead(f, i) \in io PROVE FALSE
    OBVIOUS
  <2> QED BY <1>3, <1>6, <1>7
<1>10. IsFiniteSet(io') /\ Cardinality(io') = Cardinality(io) + n
  <2>1. IsFiniteSet(io) /\ Cardinality(io) \in Nat
    BY FS_CardinalityType DEF ReadsOwned
  <2>2. io' = io \cup N
    BY <1>2
  <2> HIDE DEF N
  <2>3. /\ IsFiniteSet(io \cup N)
        /\ Cardinality(io \cup N) = Cardinality(io) + Cardinality(N) - Cardinality(io \cap N)
    BY <1>8, <2>1, FS_Union
  <2>4. Cardinality(io \cap N) = 0
    BY <1>9, FS_EmptySet
  <2> QED BY <1>8, <2>1, <2>2, <2>3, <2>4
<1>11. \A x \in io' : x.ud \in 1 .. Len(tgt') /\ x.slot = tgt'[x.ud]
  <2>1. ASSUME NEW x \in io PROVE x.ud \in 1 .. Len(tgt') /\ x.slot = tgt'[x.ud]
    BY <1>3, <1>5, <1>7
  <2>2. ASSUME NEW i \in 1 .. n
        PROVE  NewRead(f, i).ud \in 1 .. Len(tgt') /\ NewRead(f, i).slot = tgt'[NewRead(f, i).ud]
    BY <1>3, <1>5, <1>6
  <2> QED BY <1>2, <2>1, <2>2
\* the new reads go to spare slots, the old ones own theirs: no two share one
<1>12. ASSUME NEW x \in io', NEW y \in io', x.ud = y.ud \/ x.slot = y.slot
       PROVE  x = y
  <2>1. \A z \in io : z.slot \notin free
    BY DEF SlotPartition, ReadSlots
  <2>2. \A i \in 1 .. n : f[i] \in free
    BY <1>3
  <2>3. ASSUME NEW z \in io, NEW i \in 1 .. n
        PROVE  z.ud # NewRead(f, i).ud /\ z.slot # NewRead(f, i).slot
    BY <1>3, <1>6, <1>7, <2>1, <2>2
  <2>4. ASSUME NEW i \in 1 .. n, NEW j \in 1 .. n,
               NewRead(f, i).ud = NewRead(f, j).ud \/ NewRead(f, i).slot = NewRead(f, j).slot
        PROVE  i = j
    BY <1>3, <1>6, <2>4
  <2> QED BY <1>2, <1>12, <2>3, <2>4 DEF ReadsOwned
<1>13. ReadsOwned'
  <2>1. \A x \in io : x.st # "queued"
    BY DEF ReadsOwned, Queued
  <2>2. Queued' = {}
    BY <1>2, <1>6, <2>1 DEF Queued
  <2>3. DOMAIN tgt' = 1 .. Len(tgt')
    BY <1>2, <1>3, <1>4
  <2> QED BY <1>10, <1>11, <1>12, <2>2, <2>3 DEF ReadsOwned
<1>14. ReadCount'
  <2>1. Cardinality(io) \in Nat /\ landed \in Nat
    BY FS_CardinalityType DEF ReadsOwned, TypeOK, RequestTypeOK
  <2> QED BY <1>2, <1>3, <1>5, <1>10, <2>1 DEF ReadCount
<1>15. ReadSlots' = ReadSlots \cup {f[i] : i \in 1 .. n} /\ {f[i] : i \in 1 .. n} \in SUBSET free
  <2>1. {x.slot : x \in N} = {f[i] : i \in 1 .. n}
    BY <1>6
  <2>2. ReadSlots' = ReadSlots \cup {x.slot : x \in N}
    <3>1. io' = io \cup N
      BY <1>2
    <3> HIDE DEF N
    <3> QED BY <3>1 DEF ReadSlots
  <2> QED BY <1>3, <2>1, <2>2
<1> QED BY <1>2, <1>13, <1>14, <1>15

-----------------------------------------------------------------------------
(* The invariant is inductive.                                             *)

LEMMA SameSlots ==
  ASSUME SlotPartition, TableConsistent, UNCHANGED <<slotOf, holds, free>>,
         ReadSlots' = ReadSlots, PrivateSlot' = PrivateSlot
  PROVE  SlotPartition' /\ TableConsistent'
BY DEF SlotPartition, TableConsistent, ResidentSlots

LEMMA TrimPartition ==
  ASSUME TailTypeOK, SlotPartition, TableConsistent, NEW l \in Layers, NEW S, UnpinTrim(l, S),
         ReadSlots' = ReadSlots, PrivateSlot' = PrivateSlot
  PROVE  SlotPartition' /\ TableConsistent'
<1>1. PICK V \in SUBSET ResidentSlots : free' = free \cup V /\ ResidentSlots' = ResidentSlots \ V
  BY TrimMoves
<1>2. TableConsistent'
  BY TrimMoves
<1> QED BY <1>1, <1>2 DEF SlotPartition

LEMMA UnpinPartition ==
  ASSUME TypeOK, SlotPartition, TableConsistent, ReadSlots' = ReadSlots, PrivateSlot' = PrivateSlot,
         IF pinned # {} THEN UnpinTrim(layer, pinned)
                        ELSE UNCHANGED <<slotOf, holds, older, pins, free>>
  PROVE  SlotPartition' /\ TableConsistent'
<1>1. layer \in Layers /\ TailTypeOK
  BY DEF TypeOK, RequestTypeOK
<1>2. CASE pinned # {}
  BY <1>1, <1>2, TrimPartition
<1>3. CASE pinned = {}
  BY <1>3, SameSlots
<1> QED BY <1>2, <1>3

\* the ring as it was: what is left is where the request stands
LEMMA SameRing ==
  ASSUME RingInv, UNCHANGED <<io, tgt, landed>>, status' = status \/ status' # 0, RingIdle'
  PROVE  RingInv'
BY DEF RingInv, ReadsOwned, ReadCount, Queued

LEMMA SameRingSlots ==
  ASSUME UNCHANGED <<io, epc, acquiring>>
  PROVE  ReadSlots' = ReadSlots /\ PrivateSlot' = PrivateSlot
BY DEF ReadSlots, PrivateSlot

\* a completion leaves the ring
LEMMA ReapRing ==
  ASSUME TypeOK, ReadsOwned, NEW x \in io, io' = io \ {x}, UNCHANGED tgt
  PROVE  /\ ReadsOwned' /\ ReadSlots' = ReadSlots \ {x.slot} /\ x.slot \in ReadSlots
         /\ Cardinality(io') = Cardinality(io) - 1 /\ Cardinality(io) \in Nat
<1>1. /\ IsFiniteSet(io') /\ Cardinality(io') = Cardinality(io) - 1
      /\ Cardinality(io) \in Nat
  BY FS_RemoveElement, FS_CardinalityType DEF ReadsOwned
<1>2. ReadSlots' = ReadSlots \ {x.slot} /\ x.slot \in ReadSlots
  BY DEF ReadSlots, ReadsOwned
<1>3. Queued' = {}
  BY DEF ReadsOwned, Queued
<1> QED BY <1>1, <1>2, <1>3 DEF ReadsOwned

LEMMA InitSlots == Init => SlotInv
<1> SUFFICES ASSUME Init PROVE SlotInv
  OBVIOUS
<1>1. TypeOK
  BY InitType
<1>2. SlotPartition
  BY DEF Init, SlotPartition, ResidentSlots, ReadSlots, PrivateSlot
<1>3. TableConsistent
  <2>1. PICK W \in SUBSET InStore :
        \E f \in Injection(W, Slots) :
        /\ slotOf = [l \in Layers |-> [e \in Experts |-> IF <<l, e>> \in W THEN f[<<l, e>>] ELSE NoSlot]]
        /\ holds = [s \in Slots |-> IF \E r \in W : f[r] = s THEN CHOOSE r \in W : f[r] = s ELSE NoRec]
    BY DEF Init
  <2>2. PICK f \in Injection(W, Slots) :
        /\ slotOf = [l \in Layers |-> [e \in Experts |-> IF <<l, e>> \in W THEN f[<<l, e>>] ELSE NoSlot]]
        /\ holds = [s \in Slots |-> IF \E r \in W : f[r] = s THEN CHOOSE r \in W : f[r] = s ELSE NoRec]
    BY <2>1
  <2>3. f \in [W -> Slots] /\ \A r, q \in W : f[r] = f[q] => r = q
    BY DEF Injection, IsInjective
  <2> SUFFICES ASSUME NEW l \in Layers, NEW e \in Experts, NEW s \in Slots
               PROVE  slotOf[l][e] = s <=> holds[s] = <<l, e>>
    BY DEF TableConsistent
  <2>4. slotOf[l][e] = s <=> <<l, e>> \in W /\ f[<<l, e>>] = s
    BY <2>2, NoSlotAssumption
  <2>5. \A r \in W : f[r] = s => holds[s] = r
    BY <2>2, <2>3
  <2>6. holds[s] # NoRec => holds[s] \in W /\ f[holds[s]] = s
    BY <2>2
  <2>7. <<l, e>> # NoRec
    BY NoRecAssumption
  <2> QED BY <2>4, <2>5, <2>6, <2>7
<1>4. RingInv
  <2>1. Cardinality(io) = 0 /\ IsFiniteSet(io) /\ Len(tgt) = 0
    BY FS_EmptySet DEF Init
  <2> QED BY <2>1 DEF Init, RingInv, ReadsOwned, ReadCount, RingIdle, Queued
<1> QED BY <1>1, <1>2, <1>3, <1>4 DEF SlotInv

LEMMA DispatcherSlots ==
  ASSUME CallsAccepted, SlotInv, Dispatcher
  PROVE  SlotPartition' /\ TableConsistent' /\ RingInv'
<1> USE DEF SlotInv
<1>1. ASSUME NEW l \in Layers, NEW E \in SUBSET Experts, Resolve(l, E)
      PROVE  SlotPartition' /\ TableConsistent' /\ RingInv'
  <2>1. UNCHANGED <<slotOf, holds, free, io, epc, acquiring>>
    BY <1>1 DEF Resolve, engVars
  <2>2. io = {} /\ io' = {} /\ Len(tgt') = 0 /\ landed' = 0
    BY <1>1 DEF Resolve, RingInv, RingIdle
  <2>3. Cardinality(io') = 0 /\ IsFiniteSet(io')
    BY <2>2, FS_EmptySet
  <2>4. dpc' # "drain"
    BY <1>1 DEF Resolve
  <2>5. RingInv'
    BY <2>2, <2>3, <2>4 DEF RingInv, ReadsOwned, ReadCount, RingIdle, Queued
  <2> QED BY <2>1, <2>5, SameSlots, SameRingSlots
<1>2. CASE Forward
  <2>1. UNCHANGED <<slotOf, holds, free, io, epc, acquiring, tgt, landed>>
    BY <1>2 DEF Forward, tailVars, reqVars, engVars
  <2>2. RingIdle' /\ (status' = status \/ status' # 0)
    BY <1>2, <2>1 DEF Forward, Compute, RingInv, RingIdle
  <2> QED BY <2>1, <2>2, SameSlots, SameRingSlots, SameRing
<1>3. ASSUME NEW ok \in {"resident", "loop", "batch"}, NEW failed, IssueAndSubmit(ok, failed),
             UNCHANGED <<landed, epc, acquiring>>
      PROVE  SlotPartition' /\ TableConsistent' /\ RingInv'
  <2>1. /\ ReadsOwned' /\ ReadCount' /\ dpc' = ok
        /\ UNCHANGED <<slotOf, holds>>
        /\ \E R \in SUBSET free : free' = free \ R /\ ReadSlots' = ReadSlots \cup R
    BY <1>3, IssueMoves DEF RingInv
  <2>2. PrivateSlot' = PrivateSlot /\ ResidentSlots' = ResidentSlots /\ TableConsistent'
    BY <1>3, <2>1 DEF PrivateSlot, ResidentSlots, TableConsistent
  <2>3. SlotPartition'
    BY <2>1, <2>2 DEF SlotPartition
  <2>4. RingIdle'
    BY <1>3, <2>1 DEF RingIdle
  <2> QED BY <2>1, <2>2, <2>3, <2>4 DEF RingInv
<1>4. CASE IssueFirst
  BY <1>3, <1>4 DEF IssueFirst, engVars
<1>5. CASE ResidentDone
  <2>1. UNCHANGED <<io, epc, acquiring, tgt, landed>> /\ layer \in Layers /\ TailTypeOK
    BY <1>5 DEF ResidentDone, reqVars, engVars, TypeOK, RequestTypeOK
  <2>2. RingIdle' /\ (status' = status \/ status' # 0) /\ UnpinTrim(layer, pinned)
    BY <1>5 DEF ResidentDone, Compute, RingIdle
  <2> QED BY <2>1, <2>2, TrimPartition, SameRingSlots, SameRing
<1>6. CASE LoopExit
  <2>1. UNCHANGED <<slotOf, holds, free, io, epc, acquiring, tgt, landed, status>>
    BY <1>6 DEF LoopExit, tailVars, reqVars, engVars
  <2>2. CASE status # 0 /\ dpc' = "drain"
    BY <2>1, <2>2, SameSlots, SameRingSlots, SameRing DEF RingIdle
  <2>3. CASE status = 0 /\ landed = Len(cold) /\ dpc' = "finish"
    <3>1. Cardinality(io) \in Nat /\ Cardinality(io) + landed = Len(tgt) /\ Len(tgt) <= Len(cold)
      BY <2>3, FS_CardinalityType DEF RingInv, ReadsOwned, ReadCount, TypeOK, RequestTypeOK
    <3>2. Cardinality(io) = 0
      BY <2>3, <3>1 DEF TypeOK, RequestTypeOK
    <3>3. io = {}
      BY <3>2, FS_EmptySet DEF RingInv, ReadsOwned
    <3>4. RingIdle'
      BY <2>1, <2>3, <3>3 DEF RingIdle
    <3> QED BY <2>1, <3>4, SameSlots, SameRingSlots, SameRing
  <2> QED BY <1>6, <2>2, <2>3 DEF LoopExit
<1>7. CASE Reissue
  BY <1>3, <1>7 DEF Reissue, engVars
<1>8. CASE Wait
  <2>1. UNCHANGED <<slotOf, holds, free, io, epc, acquiring, tgt, landed, status>> /\ RingIdle'
    BY <1>8 DEF Wait, tailVars, reqVars, engVars, RingIdle
  <2> QED BY <2>1, SameSlots, SameRingSlots, SameRing
<1>9. CASE Reap
  <2>1. PICK x \in Completed :
       /\ x.ud \in DOMAIN tgt
       /\ io' = io \ {x}
       /\ \/ /\ status' = 5
             /\ free' = free \cup {tgt[x.ud]}
             /\ UNCHANGED <<slotOf, holds>>
          \/ /\ InsertAndPin(layer, cold[x.ud], tgt[x.ud])
             /\ landed' = landed + 1
             /\ UNCHANGED status
    BY <1>9 DEF Reap
  <2>2. /\ UNCHANGED <<dpc, tgt, epc, acquiring>> /\ dpc = "reap"
        /\ x \in io /\ x.slot = tgt[x.ud] /\ x.slot \in Slots /\ cold[x.ud] \in Experts
        /\ layer \in Layers /\ TailTypeOK
    BY <1>9, <2>1 DEF Reap, engVars, Completed, RingInv, ReadsOwned, TypeOK, RequestTypeOK
  <2>3. /\ ReadsOwned' /\ ReadSlots' = ReadSlots \ {x.slot} /\ x.slot \in ReadSlots
        /\ Cardinality(io') = Cardinality(io) - 1 /\ Cardinality(io) \in Nat
    BY <2>1, <2>2, ReapRing DEF RingInv
  <2>4. PrivateSlot' = PrivateSlot /\ RingIdle'
    BY <2>2 DEF PrivateSlot, RingIdle
  <2>5. CASE status' = 5 /\ free' = free \cup {tgt[x.ud]} /\ UNCHANGED <<slotOf, holds>>
    <3>1. ResidentSlots' = ResidentSlots /\ TableConsistent'
      BY <2>5 DEF ResidentSlots, TableConsistent
    <3>2. SlotPartition'
      BY <2>2, <2>3, <2>4, <2>5, <3>1 DEF SlotPartition
    <3>3. RingInv'
      BY <2>3, <2>4, <2>5 DEF RingInv, ReadCount
    <3> QED BY <3>1, <3>2, <3>3
  <2>6. CASE /\ InsertAndPin(layer, cold[x.ud], tgt[x.ud])
             /\ landed' = landed + 1 /\ UNCHANGED status
    <3>1. holds[x.slot] = NoRec
      BY <2>2, <2>3 DEF SlotPartition, ResidentSlots
    <3>2. InsertAndPin(layer, cold[x.ud], x.slot)
      BY <2>2, <2>6
    <3>3. /\ TableConsistent'
          /\ \E V \in SUBSET ResidentSlots :
              \/ free' = free \cup V \cup {x.slot} /\ ResidentSlots' = ResidentSlots \ V
              \/ free' = free \cup V /\ ResidentSlots' = (ResidentSlots \ V) \cup {x.slot}
      BY <2>2, <3>1, <3>2, InsertMoves
    <3>4. SlotPartition'
      BY <2>2, <2>3, <2>4, <3>3 DEF SlotPartition
    <3>5. ReadCount'
      <4>1. landed \in Nat /\ Len(tgt) \in Nat
        BY DEF TypeOK, RequestTypeOK
      <4> QED BY <2>2, <2>3, <2>6, <4>1 DEF RingInv, ReadCount
    <3> QED BY <2>3, <2>4, <3>3, <3>4, <3>5 DEF RingInv
  <2> QED BY <2>1, <2>5, <2>6
<1>10. CASE ReapDone
  <2>1. CASE IssueAndSubmit("batch", "drain")
    BY <1>3, <1>10, <2>1 DEF ReapDone, engVars
  <2>2. CASE dpc' = "batch" /\ UNCHANGED <<tailVars, io, tgt, status>>
    <3>1. UNCHANGED <<slotOf, holds, free, io, epc, acquiring, tgt, landed, status>> /\ RingIdle'
      BY <1>10, <2>2 DEF ReapDone, tailVars, engVars, RingIdle
    <3> QED BY <3>1, SameSlots, SameRingSlots, SameRing
  <2> QED BY <1>10, <2>1, <2>2 DEF ReapDone
<1>11. CASE Batch
  <2>1. UNCHANGED <<io, epc, acquiring, tgt, landed>> /\ RingIdle' /\ (status' = status \/ status' # 0)
    BY <1>11 DEF Batch, Compute, reqVars, engVars, RingIdle
  <2>2. IF pinned # {} THEN UnpinTrim(layer, pinned)
                       ELSE UNCHANGED <<slotOf, holds, older, pins, free>>
    BY <1>11 DEF Batch
  <2> QED BY <2>1, <2>2, UnpinPartition, SameRingSlots, SameRing
<1>12. CASE Drain
  <2>1. UNCHANGED <<slotOf, holds, epc, acquiring, tgt, landed, status>> /\ dpc = "drain"
    BY <1>12 DEF Drain, reqVars, engVars
  <2>2. CASE InFlight = {} /\ dpc' = "finish" /\ UNCHANGED <<io, free>>
    <3>1. io = {}
      BY <2>2 DEF InFlight, RingInv, ReadsOwned
    <3>2. RingIdle'
      BY <2>2, <3>1 DEF RingIdle
    <3> QED BY <2>1, <2>2, <3>2, SameSlots, SameRingSlots, SameRing
  <2>3. ASSUME NEW x \in Completed, x.ud \in DOMAIN tgt,
               io' = io \ {x}, free' = free \cup {tgt[x.ud]}, UNCHANGED dpc
        PROVE  SlotPartition' /\ TableConsistent' /\ RingInv'
    <3>1. x \in io /\ x.slot = tgt[x.ud] /\ x.slot \in Slots
      BY <2>3 DEF Completed, RingInv, ReadsOwned, TypeOK, TailTypeOK, Read
    <3>2. /\ ReadsOwned' /\ ReadSlots' = ReadSlots \ {x.slot} /\ x.slot \in ReadSlots
      BY <2>1, <2>3, <3>1, ReapRing DEF RingInv
    <3>3. PrivateSlot' = PrivateSlot /\ RingIdle' /\ ResidentSlots' = ResidentSlots /\ TableConsistent'
      BY <2>1, <2>3 DEF PrivateSlot, RingInv, RingIdle, ResidentSlots, TableConsistent
    <3>4. SlotPartition'
      BY <2>3, <3>1, <3>2, <3>3 DEF SlotPartition
    <3>5. ReadCount'
      BY <2>1 DEF RingInv, RingIdle, ReadCount
    <3> QED BY <3>2, <3>3, <3>4, <3>5 DEF RingInv
  <2> QED BY <1>12, <2>2, <2>3 DEF Drain
<1>13. CASE Finish
  <2>1. /\ UNCHANGED <<io, epc, acquiring>> /\ io = {} /\ Len(tgt') = 0 /\ landed' = 0
        /\ dpc' = "idle"
    BY <1>13 DEF Finish, Answer, LastPins, engVars, RingInv, RingIdle
  <2>2. IF pinned # {} THEN UnpinTrim(layer, pinned)
                       ELSE UNCHANGED <<slotOf, holds, older, pins, free>>
    BY <1>13 DEF Finish, Answer, LastPins
  <2>3. Cardinality(io') = 0 /\ IsFiniteSet(io')
    BY <2>1, FS_EmptySet
  <2>4. RingInv'
    BY <2>1, <2>3 DEF RingInv, ReadsOwned, ReadCount, RingIdle, Queued
  <2> QED BY <2>1, <2>2, <2>4, UnpinPartition, SameRingSlots
<1> QED BY <1>1, <1>2, <1>4, <1>5, <1>6, <1>7, <1>8, <1>9, <1>10, <1>11, <1>12, <1>13 DEF Dispatcher

\* a read completes where it is
LEMMA IoCompleteSlots ==
  ASSUME SlotInv, IoComplete
  PROVE  SlotPartition' /\ TableConsistent' /\ RingInv'
<1>1. PICK x \in io, st \in {"ok", "bad"} : io' = (io \ {x}) \cup {At(x, st)}
  BY DEF IoComplete
<1> DEFINE y == At(x, st)
<1>2. y.ud = x.ud /\ y.slot = x.slot /\ y.st = st
  BY DEF At
<1>3. UNCHANGED <<slotOf, holds, free, epc, acquiring, dpc, tgt, landed, status>> /\ io # {}
  BY <1>1 DEF IoComplete, dispVars, reqVars, engVars
<1> HIDE DEF y
<1>4. IsFiniteSet(io') /\ Cardinality(io') = Cardinality(io)
  <2>1. y \notin io \ {x}
    BY <1>2 DEF SlotInv, RingInv, ReadsOwned
  <2>2. IsFiniteSet(io) /\ IsFiniteSet(io \ {x}) /\ Cardinality(io) \in Nat
        /\ Cardinality(io \ {x}) = Cardinality(io) - 1
    BY FS_RemoveElement, FS_CardinalityType DEF SlotInv, RingInv, ReadsOwned
  <2>3. io' = (io \ {x}) \cup {y}
    BY <1>1 DEF y
  <2>4. IsFiniteSet(io') /\ Cardinality(io') = Cardinality(io \ {x}) + 1
    BY <2>1, <2>2, <2>3, FS_AddElement
  <2> QED BY <2>2, <2>4
<1>5. ReadSlots' = ReadSlots
  <2>1. io' = (io \ {x}) \cup {y}
    BY <1>1 DEF y
  <2> QED BY <1>2, <2>1 DEF ReadSlots
<1>6. ReadsOwned'
  <2>1. io' = (io \ {x}) \cup {y}
    BY <1>1 DEF y
  <2>2. Queued' = {}
    BY <1>2, <2>1 DEF Queued, SlotInv, RingInv, ReadsOwned
  <2> QED BY <1>2, <1>3, <1>4, <2>1, <2>2 DEF SlotInv, RingInv, ReadsOwned
<1>7. RingInv'
  BY <1>3, <1>4, <1>6 DEF SlotInv, RingInv, ReadCount, RingIdle
<1>8. PrivateSlot' = PrivateSlot
  BY <1>3 DEF PrivateSlot
<1> QED BY <1>3, <1>5, <1>7, <1>8, SameSlots DEF SlotInv

\* the engine thread never touches the ring
LEMMA EngineRing ==
  ASSUME RingInv, UNCHANGED <<io, dispVars>>
  PROVE  RingInv' /\ ReadSlots' = ReadSlots
<1>1. UNCHANGED <<io, dpc, tgt, landed, status>>
  BY DEF dispVars, reqVars
<1> QED BY <1>1 DEF RingInv, ReadsOwned, ReadCount, RingIdle, Queued, ReadSlots

LEMMA EngineSlots ==
  ASSUME SlotInv, Engine
  PROVE  SlotPartition' /\ TableConsistent' /\ RingInv'
<1> USE DEF SlotInv
<1>0. UNCHANGED <<io, dispVars>>
  BY DEF Engine, ReleaseRound, ReleaseRecord, BeforeLaunchEnd, Aging, LaunchDecode, LaunchPrefill,
         PrefillRound, Stage, EndPrefill, AfterStep, Skip, AcquireResident, AcquireCold, AcquireRead,
         EndAfterStep
<1>1. RingInv' /\ ReadSlots' = ReadSlots
  BY <1>0, EngineRing
<1>2. ASSUME UNCHANGED <<slotOf, holds, free>>, epc # "pread", epc' # "pread"
      PROVE  SlotPartition' /\ TableConsistent'
  <2>1. PrivateSlot' = PrivateSlot
    BY <1>2 DEF PrivateSlot
  <2> QED BY <1>1, <1>2, <2>1, SameSlots
<1>3. ASSUME NEW l \in Layers, NEW S, UnpinTrim(l, S), epc # "pread", UNCHANGED epc
      PROVE  SlotPartition' /\ TableConsistent'
  <2>1. PrivateSlot' = PrivateSlot /\ TailTypeOK
    BY <1>3 DEF PrivateSlot, TypeOK
  <2> QED BY <1>1, <1>3, <2>1, TrimPartition
<1>4. ASSUME NEW set \in PrefillSets, ReleaseRound(set)
      PROVE  SlotPartition' /\ TableConsistent'
  <2>1. tailLast[set].layer \in Layers
    BY <1>4 DEF ReleaseRound, TypeOK, EngineTypeOK, Round
  <2> QED BY <1>3, <1>4, <2>1 DEF ReleaseRound
<1>5. ASSUME NEW r \in acqPrev, ReleaseRecord(r)
      PROVE  SlotPartition' /\ TableConsistent'
  <2>1. r[1] \in Layers
    BY DEF TypeOK, EngineTypeOK, Record
  <2> QED BY <1>3, <1>5, <2>1 DEF ReleaseRecord
<1>6. CASE BeforeLaunchEnd \/ LaunchDecode \/ LaunchPrefill \/ EndPrefill \/ AfterStep \/ EndAfterStep
  BY <1>1, <1>2, <1>6 DEF BeforeLaunchEnd, Aging, LaunchDecode, LaunchPrefill, EndPrefill, AfterStep,
                    EndAfterStep, tailVars
<1>7. ASSUME NEW set \in PrefillSets, NEW l \in Layers, NEW E \in SUBSET Experts, PrefillRound(set, l, E)
      PROVE  SlotPartition' /\ TableConsistent'
  BY <1>2, <1>7 DEF PrefillRound, Stage
<1>8. ASSUME NEW r \in todo, Skip(r) \/ AcquireResident(r)
      PROVE  SlotPartition' /\ TableConsistent'
  BY <1>2, <1>8 DEF Skip, AcquireResident, tailVars
<1>9. ASSUME NEW r \in todo, AcquireCold(r)
      PROVE  SlotPartition' /\ TableConsistent'
  <2>1. PICK s \in free : free' = free \ {s}
                         /\ acquiring' = [layer |-> r[1], expert |-> r[2], slot |-> s]
    BY <1>9 DEF AcquireCold
  <2>2. /\ epc = "promote" /\ epc' = "pread" /\ UNCHANGED <<slotOf, holds>> /\ acquiring'.slot = s
    BY <1>9, <2>1 DEF AcquireCold
  <2>3. PrivateSlot = {} /\ PrivateSlot' = {s}
    BY <2>2 DEF PrivateSlot
  <2>4. ResidentSlots' = ResidentSlots /\ TableConsistent'
    BY <2>2 DEF ResidentSlots, TableConsistent
  <2> QED BY <1>1, <2>1, <2>3, <2>4 DEF SlotPartition
<1>10. CASE AcquireRead
  <2> DEFINE l == acquiring.layer
             e == acquiring.expert
             s == acquiring.slot
  <2>1. epc = "pread" /\ epc' = "promote"
    BY <1>10 DEF AcquireRead
  <2>2. l \in Layers /\ e \in Experts /\ s \in Slots
    BY <2>1 DEF TypeOK, EngineTypeOK, Reading
  <2>3. PrivateSlot = {s} /\ PrivateSlot' = {}
    BY <2>1 DEF PrivateSlot
  <2>4. \/ InsertAndPin(l, e, s)
        \/ free' = free \cup {s} /\ UNCHANGED <<slotOf, holds>>
    BY <1>10 DEF AcquireRead
  <2> HIDE DEF l, e, s
  <2>5. CASE free' = free \cup {s} /\ UNCHANGED <<slotOf, holds>>
    <3>1. ResidentSlots' = ResidentSlots /\ TableConsistent'
      BY <2>5 DEF ResidentSlots, TableConsistent
    <3> QED BY <1>1, <2>3, <2>5, <3>1 DEF SlotPartition
  <2>6. CASE InsertAndPin(l, e, s)
    <3>1. holds[s] = NoRec
      BY <2>2, <2>3 DEF SlotPartition, ResidentSlots
    <3>2. /\ TableConsistent'
          /\ \E V \in SUBSET ResidentSlots :
              \/ free' = free \cup V \cup {s} /\ ResidentSlots' = ResidentSlots \ V
              \/ free' = free \cup V /\ ResidentSlots' = (ResidentSlots \ V) \cup {s}
      BY <2>2, <2>6, <3>1, InsertMoves DEF TypeOK
    <3> QED BY <1>1, <2>3, <3>2 DEF SlotPartition
  <2> QED BY <2>4, <2>5, <2>6
<1> QED BY <1>1, <1>4, <1>5, <1>6, <1>7, <1>8, <1>9, <1>10 DEF Engine

LEMMA GpuSlots ==
  ASSUME SlotInv, Gpu
  PROVE  SlotPartition' /\ TableConsistent' /\ RingInv'
<1>1. UNCHANGED <<slotOf, holds, free, io, dispVars, epc, acquiring>>
  BY DEF Gpu, CopyDone, StepDone, tailVars, engVars
<1>2. RingInv' /\ ReadSlots' = ReadSlots
  BY <1>1, EngineRing DEF SlotInv
<1>3. PrivateSlot' = PrivateSlot
  BY <1>1 DEF PrivateSlot
<1> QED BY <1>1, <1>2, <1>3, SameSlots DEF SlotInv

LEMMA NextSlots ==
  ASSUME CallsAccepted, SlotInv, [Next]_vars
  PROVE  SlotInv'
<1>1. TypeOK'
  BY NextType DEF SlotInv
<1>2. CASE Next
  BY <1>1, <1>2, DispatcherSlots, IoCompleteSlots, EngineSlots, GpuSlots DEF Next, SlotInv
<1>3. CASE UNCHANGED vars
  <2>1. UNCHANGED <<slotOf, holds, free, io, dispVars, epc, acquiring>>
    BY <1>3 DEF vars, tailVars, engVars
  <2>2. RingInv' /\ ReadSlots' = ReadSlots
    BY <2>1, EngineRing DEF SlotInv
  <2>3. PrivateSlot' = PrivateSlot
    BY <2>1 DEF PrivateSlot
  <2> QED BY <1>1, <2>1, <2>2, <2>3, SameSlots DEF SlotInv
<1> QED BY <1>2, <1>3

LEMMA SlotsInvariant ==
  ASSUME CallsAccepted
  PROVE  Spec => []SlotInv
<1>1. SlotInv /\ [Next]_vars => SlotInv'
  BY NextSlots
<1> QED BY <1>1, InitSlots, PTL DEF Spec

\* No slot of the arena is ever lost or owned twice, however the dispatcher,
\* the engine thread and the ring interleave, with short and failed reads:
\* every path of cpu_tier.cpp that moves a slot moves it between two owners.
\* And slot_of and the slots' own (layer, expert) never disagree, so that what
\* serve, record_acquire and prefill_fetch find by name is the record asked for.
THEOREM SlotsAreSound ==
  ASSUME CallsAccepted
  PROVE  Spec => []SlotsSound
<1>1. SlotInv => SlotsSound
  BY DEF SlotInv, SlotsSound
<1>2. Spec => []SlotInv
  BY SlotsInvariant
<1> QED BY <1>1, <1>2, PTL

\* The ring holds this request's reads and nothing else, and is empty when
\* the request is answered: no completion leaks into the next one.  (The run
\* StoreTail_submit shows the assumption is needed.)
THEOREM RingOwned ==
  ASSUME CallsAccepted
  PROVE  Spec => [](RingInv /\ RingQuiet)
<1>1. SlotInv => RingInv /\ RingQuiet
  BY DEF SlotInv, RingInv, RingIdle, RingQuiet
<1>2. Spec => []SlotInv
  BY SlotsInvariant
<1> QED BY <1>1, <1>2, PTL

=============================================================================
