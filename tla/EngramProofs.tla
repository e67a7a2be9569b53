---------------------------- MODULE EngramProofs ----------------------------
(***************************************************************************)
(* What holds of Engram for any number of layers, rows, lookups, slots and *)
(* chunks, with late answers, failed reads and failed submits: a job       *)
(* counts exactly the rows it waits for, and a lookup that ends with the   *)
(* error word clear has copied the rows it asked for.                      *)
(*                                                                         *)
(* JobsCounted is not inductive.  That a completion counts down a job that *)
(* still waits for it depends on the reads: an entry that is being read    *)
(* has exactly the reads of its missing halves (ReadInv), so that none is  *)
(* left when it is complete.  That begin_job's own guard is counted while  *)
(* it reaps depends on where the poll is (PollInv).                        *)
(*                                                                         *)
(* That the rows are right rests on that count: an ack with status 0 for   *)
(* the lookup that waits says that its job is over (Numbers), so that no   *)
(* row of it waits for a read any more, and each is then in place          *)
(* (Served); the CTAs that are through have copied it (Landings).          *)
(***************************************************************************)
EXTENDS Engram, FiniteSetTheorems, TLAPS

Keys == Layers \X Owned
Row == [demand : BOOLEAN, dsts : SUBSET Nat, halves : SUBSET Halves,
        got : SUBSET Halves, failed : BOOLEAN]
Job == [active : BOOLEAN, seq : Nat, remaining : Nat, failed : BOOLEAN]
FetchTypes ==
  /\ seqDev \in [Layers -> Nat] /\ req \in [Layers -> [step : Nat, ids : Seq(Ids)]]
  /\ scan \in Nat \ {0}
  /\ job \in [Layers -> Job]
  /\ DOMAIN entry \subseteq Keys /\ \A k \in DOMAIN entry : entry[k] \in Row
  /\ queued \in Seq(DOMAIN entry)
  /\ ahead \in Seq(Layers \X SUBSET Owned) /\ prefetch \in Seq(Keys)

InBegin == at \in {"issue", "wait", "conclude"} \/ (at = "reap" /\ queued # <<>>)
PollInv ==
  /\ InBegin => scan \in Layers
  /\ at \in {"scan", "conclude"} => queued = <<>>
  /\ at = "wait" => queued # <<>>

\* The halves of a row that the ring still has to bring.
Reading(k) == {h \in Halves : <<k, h>> \in DOMAIN reads}
Waits(k) ==
  IF k \in ToSet(queued) THEN Reading(k) = {}
  ELSE \/ ringErr /\ Reading(k) = {}
       \/ Reading(k) # {} /\ Reading(k) = Halves \ entry[k].halves
ReadInv ==
  /\ DOMAIN reads \subseteq (DOMAIN entry) \X ReadHalves
  /\ \A i, j \in DOMAIN queued : queued[i] = queued[j] => i = j
  /\ \A k \in DOMAIN entry : Waits(k)

Demanded(l) == {k \in DOMAIN entry : k[1] = l /\ entry[k].demand}
Counted(l) ==
  IF job[l].active
  THEN job[l].remaining = Cardinality(Demanded(l)) + (IF Beginning(l) THEN 1 ELSE 0)
  ELSE Demanded(l) = {} /\ ~Beginning(l)
CountInv == \A l \in Layers : Counted(l)
RingInv == Cardinality(DOMAIN reads) <= Depth

FetchInv == FetchTypes /\ PollInv /\ ReadInv /\ CountInv /\ RingInv
-----------------------------------------------------------------------------
(* Facts about the pieces *)

LEMMA HalfFacts ==
  /\ ReadHalves \subseteq Halves /\ "values" \in ReadHalves
  /\ IsFiniteSet(ReadHalves) /\ NReads \in 1 .. 2
<1>1. CASE ResidentScales
  <2>1. ReadHalves = {"values"}
    BY <1>1 DEF ReadHalves
  <2>2. IsFiniteSet({"values"}) /\ Cardinality({"values"}) = 1
    BY FS_Singleton
  <2> QED BY <2>1, <2>2 DEF NReads, Halves
<1>2. CASE ~ResidentScales
  <2>1. ReadHalves = {"scales"} \cup {"values"}
    BY <1>2 DEF ReadHalves, Halves
  <2>2. IsFiniteSet({"scales"}) /\ Cardinality({"scales"}) = 1
    BY FS_Singleton
  <2>3. IsFiniteSet({"scales"} \cup {"values"}) /\ Cardinality({"scales"} \cup {"values"}) = 2
    BY <2>2, FS_AddElement
  <2> QED BY <2>1, <2>3 DEF NReads, Halves
<1> QED BY <1>1, <1>2

LEMMA RowsFinite ==
  ASSUME FetchTypes, ReadInv
  PROVE  /\ IsFiniteSet(DOMAIN entry) /\ IsFiniteSet(DOMAIN reads)
         /\ Cardinality(DOMAIN reads) \in Nat
<1>1. IsFiniteSet(Owned) /\ Layers = 1 .. NLayers /\ NLayers \in Nat
  BY EngramAssumption DEF Layers
<1>2. IsFiniteSet(Layers)
  BY <1>1, FS_Interval
<1>3. IsFiniteSet(Layers \X Owned)
  BY <1>1, <1>2, FS_Product
<1>4. IsFiniteSet(DOMAIN entry)
  BY <1>3, FS_Subset DEF FetchTypes, Keys
<1>5. IsFiniteSet((DOMAIN entry) \X ReadHalves)
  BY <1>4, HalfFacts, FS_Product
<1>6. IsFiniteSet(DOMAIN reads)
  BY <1>5, FS_Subset DEF ReadInv
<1> QED BY <1>4, <1>6, FS_CardinalityType

\* SetToSeq lists a finite set, each element once.
LEMMA Listed ==
  ASSUME NEW S, IsFiniteSet(S)
  PROVE  /\ SetToSeq(S) \in Seq(S) /\ ToSet(SetToSeq(S)) = S
         /\ \A i, j \in DOMAIN SetToSeq(S) : SetToSeq(S)[i] = SetToSeq(S)[j] => i = j
<1> DEFINE N == Cardinality(S)
           q == SetToSeq(S)
<1>1. N \in Nat /\ ExistsBijection(1 .. N, S)
  BY FS_CardinalityType
<1>2. PICK f \in Bijection(1 .. N, S) : TRUE
  BY <1>1 DEF ExistsBijection
<1>3. f \in [1 .. N -> S] /\ IsInjective(f)
  BY <1>2 DEF Bijection, Injection, IsInjective
<1>4. q \in [1 .. N -> S] /\ IsInjective(q)
  BY <1>3 DEF SetToSeq
<1>5. q \in Injection(1 .. N, S)
  BY <1>4 DEF Injection, IsInjective
<1>6. IsFiniteSet(1 .. N) /\ Cardinality(1 .. N) = N
  BY <1>1, FS_Interval
<1>7. q \in Surjection(1 .. N, S)
  BY <1>5, <1>6, FS_Injection
<1>8. \A s \in S : \E i \in 1 .. N : q[i] = s
  BY <1>7 DEF Surjection
<1> HIDE DEF q, N
<1>9. q \in Seq(S) /\ DOMAIN q = 1 .. N
  BY <1>1, <1>4
<1> QED BY <1>4, <1>8, <1>9 DEF q, ToSet, IsInjective

\* The first n of a sequence are at most n.
LEMMA FirstFew ==
  ASSUME NEW S, NEW q \in Seq(S), NEW n \in 0 .. Len(q)
  PROVE  /\ IsFiniteSet({q[i] : i \in 1 .. n})
         /\ Cardinality({q[i] : i \in 1 .. n}) \in 0 .. n
<1> DEFINE B == {q[i] : i \in 1 .. n}
           f == [i \in 1 .. n |-> q[i]]
<1>1. f \in Surjection(1 .. n, B)
  BY DEF Surjection
<1>2. IsFiniteSet(1 .. n) /\ Cardinality(1 .. n) = n
  BY FS_Interval
<1> HIDE DEF B, f
<1>3. IsFiniteSet(B) /\ Cardinality(B) <= n
  BY <1>1, <1>2, FS_Surjection
<1>4. Cardinality(B) \in Nat
  BY <1>3, FS_CardinalityType
<1> QED BY <1>3, <1>4 DEF B

LEMMA LeastOfTwo ==
  ASSUME NEW a \in Nat, NEW b \in Nat
  PROVE  Min({a, b}) \in Nat /\ Min({a, b}) <= a /\ Min({a, b}) <= b
<1>1. \E x \in {a, b} : \A y \in {a, b} : x =< y
  <2>1. CASE a <= b
    BY <2>1
  <2>2. CASE b <= a
    BY <2>2
  <2> QED BY <2>1, <2>2
<1>2. Min({a, b}) \in {a, b} /\ \A y \in {a, b} : Min({a, b}) =< y
  BY <1>1 DEF Min
<1> QED BY <1>2

LEMMA LeastOfThree ==
  ASSUME NEW a \in Nat, NEW b \in Nat, NEW c \in Nat
  PROVE  Min({a, b, c}) \in Nat /\ Min({a, b, c}) <= b /\ Min({a, b, c}) <= c
<1>1. \E x \in {a, b, c} : \A y \in {a, b, c} : x =< y
  <2>1. CASE a <= b /\ a <= c
    BY <2>1
  <2>2. CASE b <= a /\ b <= c
    BY <2>2
  <2>3. CASE c <= a /\ c <= b
    BY <2>3
  <2> QED BY <2>1, <2>2, <2>3
<1>2. Min({a, b, c}) \in {a, b, c} /\ \A y \in {a, b, c} : Min({a, b, c}) =< y
  BY <1>1 DEF Min
<1> QED BY <1>2

\* New reads for which there are slots leave the ring within its depth.
LEMMA ReadsFit ==
  ASSUME FetchInv, NEW B, IsFiniteSet(B), NEW n \in Nat, Cardinality(B) <= n,
         n <= FreeSlots \div NReads
  PROVE  Cardinality(DOMAIN reads \cup (B \X ReadHalves)) <= Depth
<1> DEFINE D == DOMAIN reads
           P == B \X ReadHalves
<1>1. IsFiniteSet(D) /\ Cardinality(D) \in Nat /\ Cardinality(D) <= Depth /\ Depth \in Nat
  BY RowsFinite, EngramAssumption DEF FetchInv, RingInv
<1>2. IsFiniteSet(P) /\ Cardinality(P) = Cardinality(B) * NReads
  BY HalfFacts, FS_Product DEF NReads
<1>3. Cardinality(B) \in Nat
  BY FS_CardinalityType
<1>4. Cardinality(P) <= FreeSlots
  <2>1. FreeSlots \in Nat
    BY <1>1 DEF FreeSlots
  <2>2. CASE NReads = 1
    BY <1>2, <1>3, <2>1, <2>2
  <2>3. CASE NReads = 2
    BY <1>2, <1>3, <2>1, <2>3
  <2> QED BY <2>2, <2>3, HalfFacts
<1>5. Cardinality(P) \in Nat /\ Cardinality(D \cap P) \in Nat
  BY <1>1, <1>2, FS_Intersection, FS_CardinalityType
<1>6. Cardinality(D \cup P) = Cardinality(D) + Cardinality(P) - Cardinality(D \cap P)
  BY <1>1, <1>2, FS_Union
<1> HIDE DEF D, P
<1> QED BY <1>1, <1>4, <1>5, <1>6 DEF D, P, FreeSlots
-----------------------------------------------------------------------------
(* The initial state, the GPU, the kernel and the lookahead *)

LEMMA InitFetch ==
  ASSUME Init
  PROVE  FetchInv
<1>1. NLayers \in Nat \ {0}
  BY EngramAssumption
<1>2. FetchTypes
  BY <1>1 DEF Init, FetchTypes, Keys, Job
<1>3. PollInv /\ ReadInv
  BY DEF Init, PollInv, InBegin, ReadInv
<1>4. CountInv
  BY DEF Init, CountInv, Counted, Demanded, Beginning
<1>5. RingInv
  <2>1. DOMAIN reads = {} /\ Depth \in Nat
    BY EngramAssumption DEF Init
  <2> QED BY <2>1, FS_EmptySet DEF RingInv
<1> QED BY <1>2, <1>3, <1>4, <1>5 DEF FetchInv

\* What a step that leaves the rows and the poll alone keeps.
LEMMA SameRows ==
  ASSUME FetchInv, FetchTypes', UNCHANGED <<at, scan, job, entry, queued, ringErr>>,
         DOMAIN reads' = DOMAIN reads
  PROVE  FetchInv'
<1>1. PollInv'
  BY DEF FetchInv, PollInv, InBegin
<1>2. ASSUME NEW k PROVE Waits(k)' <=> Waits(k)
  BY DEF Waits, Reading
<1>3. ReadInv'
  BY <1>2 DEF FetchInv, ReadInv
<1>4. ASSUME NEW l \in Layers PROVE Counted(l)' <=> Counted(l)
  BY DEF Counted, Demanded, Beginning
<1>5. CountInv'
  BY <1>4 DEF FetchInv, CountInv
<1>6. RingInv'
  BY DEF FetchInv, RingInv
<1> QED BY <1>1, <1>3, <1>5, <1>6 DEF FetchInv

LEMMA GpuFetch ==
  ASSUME FetchInv, NEW l \in Layers, NEW c \in Ctas,
         PublishIds(l) \/ PublishStep(l) \/ Enter(l, c) \/ Copy(l, c) \/ TimeOut(l, c) \/ ClearError
  PROVE  FetchInv'
<1> USE DEF rowVars, pollVars, aheadVars, mailVars, gpuVars
<1>1. /\ UNCHANGED <<at, scan, job, entry, queued, ringErr, reads, ahead, prefetch>>
      /\ seqDev' \in [Layers -> Nat] /\ req' \in [Layers -> [step : Nat, ids : Seq(Ids)]]
  <2>1. CASE PublishIds(l)
    <3>1. PICK r \in Requests[l] : req' = [req EXCEPT ![l].ids = r]
      BY <2>1 DEF PublishIds
    <3>2. r \in Seq(Ids)
      BY <3>1, EngramAssumption
    <3>3. req' \in [Layers -> [step : Nat, ids : Seq(Ids)]]
      BY <3>1, <3>2 DEF FetchInv, FetchTypes
    <3> QED BY <2>1, <3>3 DEF PublishIds, FetchInv, FetchTypes
  <2>2. CASE PublishStep(l)
    <3>1. seqDev' \in [Layers -> Nat] /\ seqDev'[l] \in Nat
      BY <2>2 DEF PublishStep, FetchInv, FetchTypes
    <3>2. req' \in [Layers -> [step : Nat, ids : Seq(Ids)]]
      BY <2>2, <3>1 DEF PublishStep, FetchInv, FetchTypes
    <3> QED BY <2>2, <3>1, <3>2 DEF PublishStep, FetchInv, FetchTypes
  <2>3. CASE Enter(l, c) \/ Copy(l, c) \/ TimeOut(l, c) \/ ClearError
    BY <2>3 DEF Enter, Copy, TimeOut, ClearError, FetchInv, FetchTypes
  <2> QED BY <2>1, <2>2, <2>3
<1>2. FetchTypes'
  BY <1>1 DEF FetchInv, FetchTypes
<1> QED BY <1>1, <1>2, SameRows

LEMMA LookaheadFetch ==
  ASSUME FetchInv, Schedule \/ Queue \/ PrefetchClear
  PROVE  FetchInv'
<1> USE DEF rowVars, pollVars, aheadVars, mailVars, gpuVars
<1>1. UNCHANGED <<at, scan, job, entry, queued, ringErr, reads, seqDev, req>>
  BY DEF Schedule, Queue, PrefetchClear
<1>2. ahead' \in Seq(Layers \X SUBSET Owned) /\ prefetch' \in Seq(Keys)
  <2>1. CASE Schedule
    BY <2>1, EngramAssumption DEF Schedule, FetchInv, FetchTypes
  <2>2. CASE Queue
    <3> DEFINE part == Head(ahead)
               S == {part[1]} \X part[2]
    <3>1. part \in Layers \X SUBSET Owned /\ ahead' \in Seq(Layers \X SUBSET Owned)
      BY <2>2 DEF Queue, FetchInv, FetchTypes
    <3>2. S \subseteq Keys /\ IsFiniteSet(part[2])
      BY <3>1, EngramAssumption, FS_Subset DEF Keys
    <3>3. IsFiniteSet({part[1]})
      BY FS_Singleton
    <3>4. IsFiniteSet(S)
      BY <3>2, <3>3, FS_Product
    <3>5. SetToSeq(S) \in Seq(S)
      BY <3>4, Listed
    <3>6. SetToSeq(S) \in Seq(Keys)
      BY <3>2, <3>5
    <3> QED BY <2>2, <3>1, <3>6 DEF Queue, FetchInv, FetchTypes
  <2>3. CASE PrefetchClear
    BY <2>3 DEF PrefetchClear, FetchInv, FetchTypes
  <2> QED BY <2>1, <2>2, <2>3
<1>3. FetchTypes'
  BY <1>1, <1>2 DEF FetchInv, FetchTypes
<1> QED BY <1>1, <1>3, SameRows

LEMMA CompleteFetch ==
  ASSUME FetchInv, Complete
  PROVE  FetchInv'
<1>1. /\ UNCHANGED <<at, scan, job, entry, queued, ringErr, seqDev, req, ahead, prefetch>>
      /\ DOMAIN reads' = DOMAIN reads
  BY DEF Complete, gpuVars, mailVars, pollVars, aheadVars
<1>2. FetchTypes'
  BY <1>1 DEF FetchInv, FetchTypes
<1> QED BY <1>1, <1>2, SameRows
-----------------------------------------------------------------------------
(* The poll: the steps that leave the rows alone *)

LEMMA PollFetch ==
  ASSUME FetchInv, Wait \/ ReapDone \/ PollReap
  PROVE  FetchInv'
<1> USE DEF rowVars, pollVars, aheadVars, mailVars, gpuVars
<1>1. UNCHANGED <<job, entry, queued, ringErr, reads, seqDev, req, ahead, prefetch>>
  BY DEF Wait, ReapDone, PollReap
<1>2. NLayers \in Nat \ {0}
  BY EngramAssumption
<1>3. FetchTypes' /\ PollInv' /\ \A l \in Layers : Beginning(l)' <=> Beginning(l)
  <2>1. CASE Wait
    BY <1>1, <2>1 DEF Wait, FetchInv, FetchTypes, PollInv, InBegin, Beginning
  <2>2. CASE ReapDone
    BY <1>1, <1>2, <2>2 DEF ReapDone, FetchInv, FetchTypes, PollInv, InBegin, Beginning
  <2>3. CASE PollReap
    BY <1>1, <2>3 DEF PollReap, LayersDone, FetchInv, FetchTypes, PollInv, InBegin, Beginning
  <2> QED BY <2>1, <2>2, <2>3
<1>4. ReadInv'
  <2>1. ASSUME NEW k PROVE Waits(k)' <=> Waits(k)
    BY <1>1 DEF Waits, Reading
  <2> QED BY <1>1, <2>1 DEF FetchInv, ReadInv
<1>5. CountInv'
  <2>1. ASSUME NEW l \in Layers PROVE Counted(l)' <=> Counted(l)
    BY <1>1, <1>3 DEF Counted, Demanded
  <2> QED BY <2>1 DEF FetchInv, CountInv
<1>6. RingInv'
  BY <1>1 DEF FetchInv, RingInv
<1> QED BY <1>3, <1>4, <1>5, <1>6 DEF FetchInv
-----------------------------------------------------------------------------
(* The poll: a job begins *)

LEMMA DemandFinite ==
  ASSUME FetchTypes, ReadInv, NEW l
  PROVE  /\ IsFiniteSet(Demanded(l)) /\ Cardinality(Demanded(l)) \in Nat
         /\ Cardinality(Demanded(l)) = 0 <=> Demanded(l) = {}
<1>1. Demanded(l) \subseteq DOMAIN entry
  BY DEF Demanded
<1>2. IsFiniteSet(Demanded(l))
  BY <1>1, RowsFinite, FS_Subset
<1> QED BY <1>2, FS_CardinalityType, FS_EmptySet

\* A layer that counted its rows does so after a step that leaves them alone.
LEMMA SameCount ==
  ASSUME NEW l \in Layers, Counted(l), Demanded(l)' = Demanded(l), Beginning(l)' <=> Beginning(l),
         job'[l].active = job[l].active, job'[l].remaining = job[l].remaining
  PROVE  Counted(l)'
<1> QED BY DEF Counted

LEMMA ResyncFetch ==
  ASSUME FetchInv, at = "scan", NEW l \in Layers, Resync(l), UNCHANGED <<seqDev, req, aheadVars>>
  PROVE  FetchInv'
<1>1. UNCHANGED <<at, job, entry, queued, ringErr, reads, seqDev, req, ahead, prefetch>>
  BY DEF Resync, rowVars, aheadVars
<1>2. l \in Nat \ {0} /\ scan' = l + 1
  BY EngramAssumption DEF Resync, Layers
<1>3. FetchTypes' /\ PollInv'
  BY <1>1, <1>2 DEF FetchInv, FetchTypes, PollInv, InBegin
<1>4. ReadInv'
  <2>1. ASSUME NEW k PROVE Waits(k)' <=> Waits(k)
    BY <1>1 DEF Waits, Reading
  <2> QED BY <1>1, <2>1 DEF FetchInv, ReadInv
<1>5. CountInv'
  <2>1. ASSUME NEW m \in Layers PROVE Counted(m)'
    <3>1. Counted(m) /\ Demanded(m)' = Demanded(m)
      BY <1>1 DEF FetchInv, CountInv, Demanded
    <3>2. ~Beginning(m) /\ ~Beginning(m)'
      BY <1>1 DEF Beginning
    <3> QED BY <1>1, <3>1, <3>2, SameCount
  <2> QED BY <2>1 DEF CountInv
<1>6. RingInv'
  BY <1>1 DEF FetchInv, RingInv
<1> QED BY <1>3, <1>4, <1>5, <1>6 DEF FetchInv

LEMMA BeginFetch ==
  ASSUME FetchInv, at = "scan", NEW l \in Layers, ~job[l].active, Begin(l),
         UNCHANGED <<seqDev, req, aheadVars>>
  PROVE  FetchInv'
<1> DEFINE ids == req[l].ids
           wanted == {<<l, id>> : id \in (ToSet(ids) \cap Owned) \ DOMAIN cache[l]}
           new == wanted \ DOMAIN entry
           mine == new \cup Adopted(wanted)
           Rows(k) == {i \in DOMAIN ids : ids[i] = k[2]}
           e == [k \in DOMAIN entry \cup new |->
                   IF k \in new THEN FreshEntry(Rows(k))
                   ELSE IF k \in wanted THEN [entry[k] EXCEPT !.demand = TRUE, !.dsts = @ \cup Rows(k)]
                   ELSE entry[k]]
<1>1. /\ entry' = e
      /\ job' = [job EXCEPT ![l] = [active |-> TRUE, seq |-> req[l].step, failed |-> FALSE,
                                    remaining |-> 1 + Cardinality(mine)]]
      /\ queued' = SetToSeq(new)
      /\ at' = IF new = {} THEN "conclude" ELSE "issue"
      /\ scan' = l /\ UNCHANGED <<reads, ringErr, seqDev, req, ahead, prefetch>>
  BY DEF Begin, aheadVars
<1>2. /\ FetchTypes /\ PollInv /\ ReadInv /\ CountInv /\ RingInv
      /\ queued = <<>> /\ Demanded(l) = {}
  BY DEF FetchInv, PollInv, CountInv, Counted
<1>3. /\ wanted \subseteq Keys /\ \A k \in wanted : k[1] = l
      /\ ids \in Seq(Ids) /\ req[l].step \in Nat /\ \A k : Rows(k) \subseteq Nat
  BY <1>2 DEF Keys, FetchTypes
<1>4. /\ DOMAIN e = DOMAIN entry \cup new
      /\ \A k \in new : k \notin DOMAIN entry /\ e[k] = FreshEntry(Rows(k))
      /\ \A k \in DOMAIN entry : /\ e[k].halves = entry[k].halves
           /\ e[k].demand = (k \in wanted \/ entry[k].demand)
           /\ e[k] \in Row
  <2>1. ASSUME NEW k \in DOMAIN entry
        PROVE  /\ e[k].halves = entry[k].halves
               /\ e[k].demand = (k \in wanted \/ entry[k].demand)
               /\ e[k] \in Row
    <3>1. entry[k] \in Row /\ Rows(k) \subseteq Nat /\ k \notin new
      BY <1>2, <1>3 DEF FetchTypes
    <3> HIDE DEF Rows, wanted, new
    <3>2. CASE k \in wanted
      <4>1. e[k] = [entry[k] EXCEPT !.demand = TRUE, !.dsts = @ \cup Rows(k)]
        BY <3>1, <3>2
      <4> HIDE DEF e
      <4> QED BY <3>1, <3>2, <4>1 DEF Row
    <3>3. CASE k \notin wanted
      <4>1. e[k] = entry[k]
        BY <3>1, <3>3
      <4> HIDE DEF e
      <4> QED BY <3>1, <3>3, <4>1 DEF Row
    <3> QED BY <3>2, <3>3
  <2> QED BY <2>1
<1>5. \A k \in new : e[k] \in Row /\ e[k].demand /\ e[k].halves = {}
  BY <1>3, <1>4 DEF FreshEntry, Row
<1> HIDE DEF e, Rows, ids
<1>6. /\ IsFiniteSet(new) /\ IsFiniteSet(mine) /\ Cardinality(mine) \in Nat
      /\ Adopted(wanted) = wanted \cap DOMAIN entry
  <2>1. Adopted(wanted) = wanted \cap DOMAIN entry
    BY <1>2, <1>3 DEF Adopted, Demanded
  <2>2. IsFiniteSet(Keys)
    <3>1. Layers = 1 .. NLayers /\ NLayers \in Nat /\ IsFiniteSet(Owned)
      BY EngramAssumption DEF Layers
    <3>2. IsFiniteSet(Layers)
      BY <3>1, FS_Interval
    <3> QED BY <3>1, <3>2, FS_Product DEF Keys
  <2>3. new \subseteq Keys /\ mine \subseteq Keys
    BY <1>3, <2>1
  <2> QED BY <2>1, <2>2, <2>3, FS_Subset, FS_CardinalityType
<1>7. /\ queued' \in Seq(new) /\ ToSet(queued') = new
      /\ \A i, j \in DOMAIN queued' : queued'[i] = queued'[j] => i = j
  BY <1>1, <1>6, Listed
<1> HIDE DEF mine, new, wanted
<1>8. FetchTypes'
  <2>1. queued' \in Seq(DOMAIN entry')
    BY <1>1, <1>4, <1>7
  <2>2. DOMAIN entry' \subseteq Keys /\ \A k \in DOMAIN entry' : entry'[k] \in Row
    BY <1>1, <1>2, <1>3, <1>4, <1>5 DEF FetchTypes, new
  <2>3. job' \in [Layers -> Job]
    BY <1>1, <1>2, <1>3, <1>6 DEF FetchTypes, Job
  <2>4. scan' \in Nat \ {0}
    BY <1>1, EngramAssumption DEF Layers
  <2> QED BY <1>1, <1>2, <2>1, <2>2, <2>3, <2>4 DEF FetchTypes
<1>9. PollInv'
  <2>1. new = {} => queued' = <<>>
    <3>1. SUFFICES ASSUME new = {} PROVE queued' = <<>>
      OBVIOUS
    <3>2. queued' \in Seq({})
      BY <1>7, <3>1
    <3>3. Len(queued') \in Nat /\ (Len(queued') > 0 => queued'[1] \in {})
      BY <3>2
    <3> QED BY <3>2, <3>3
  <2> QED BY <1>1, <2>1 DEF PollInv, InBegin
<1>10. ReadInv'
  <2>1. DOMAIN reads' \subseteq (DOMAIN entry') \X ReadHalves
    BY <1>1, <1>2, <1>4 DEF ReadInv
  <2>2. ASSUME NEW k \in DOMAIN entry' PROVE Waits(k)'
    <3>1. Reading(k)' = Reading(k)
      BY <1>1 DEF Reading
    <3>2. CASE k \in new
      <4>1. Reading(k) = {}
        BY <1>2, <1>4, <3>2 DEF Reading, ReadInv
      <4> QED BY <1>7, <3>1, <3>2, <4>1 DEF Waits
    <3>3. CASE k \notin new
      <4>1. k \in DOMAIN entry /\ entry'[k].halves = entry[k].halves
        BY <1>1, <1>4, <2>2, <3>3
      <4>2. Waits(k) /\ k \notin ToSet(queued)
        BY <1>2, <4>1 DEF ReadInv, ToSet
      <4> QED BY <1>1, <1>7, <3>1, <3>3, <4>1, <4>2 DEF Waits
    <3> QED BY <3>2, <3>3
  <2> QED BY <1>7, <2>1, <2>2 DEF ReadInv
<1>11. CountInv'
  <2>1. ASSUME NEW m \in Layers PROVE Counted(m)'
    <3>1. CASE m = l
      <4>1. Demanded(l)' = mine
        BY <1>1, <1>2, <1>3, <1>4, <1>5, <1>6 DEF Demanded, mine, new
      <4>2. Beginning(l)'
        BY <1>1 DEF Beginning
      <4>3. job'[l].active /\ job'[l].remaining = 1 + Cardinality(mine)
        BY <1>1, <1>2 DEF FetchTypes
      <4>4. job'[l].remaining = Cardinality(Demanded(l)') + 1
        BY <1>6, <4>1, <4>3
      <4> QED BY <3>1, <4>2, <4>3, <4>4 DEF Counted
    <3>2. CASE m # l
      <4>1. Counted(m) /\ Demanded(m)' = Demanded(m)
        BY <1>1, <1>2, <1>3, <1>4, <3>2 DEF CountInv, Demanded, new
      <4>2. ~Beginning(m) /\ ~Beginning(m)'
        BY <1>1, <3>2 DEF Beginning
      <4>3. job'[m] = job[m]
        BY <1>1, <1>2, <3>2 DEF FetchTypes
      <4> QED BY <4>1, <4>2, <4>3, SameCount
    <3> QED BY <3>1, <3>2
  <2> QED BY <2>1 DEF CountInv
<1>12. RingInv'
  BY <1>1, <1>2 DEF RingInv
<1> QED BY <1>8, <1>9, <1>10, <1>11, <1>12 DEF FetchInv

LEMMA LookFetch ==
  ASSUME FetchInv, Look
  PROVE  FetchInv'
<1>1. PICK l \in scan .. NLayers : (Begins(l) /\ Begin(l)) \/ (Resyncs(l) /\ Resync(l))
  BY DEF Look
<1>2. l \in Layers
  BY EngramAssumption, <1>1 DEF FetchInv, FetchTypes, Layers
<1>3. at = "scan" /\ UNCHANGED <<seqDev, req, aheadVars>>
  BY DEF Look, gpuVars
<1>4. CASE Begins(l) /\ Begin(l)
  <2>1. ~job[l].active
    BY <1>4 DEF Begins, MayBegin
  <2> QED BY <1>2, <1>3, <1>4, <2>1, BeginFetch
<1>5. CASE Resync(l)
  BY <1>2, <1>3, <1>5, ResyncFetch
<1> QED BY <1>1, <1>4, <1>5
-----------------------------------------------------------------------------
(* The poll: reads are prepared *)

\* What an entry waits for after the reads of the entries in B were prepared.
LEMMA PreparedReads ==
  ASSUME NEW B, DOMAIN reads' = DOMAIN reads \cup (B \X ReadHalves), NEW k
  PROVE  Reading(k)' = Reading(k) \cup (IF k \in B THEN ReadHalves ELSE {})
BY HalfFacts DEF Reading

LEMMA NewlyRead ==
  ASSUME NEW B, DOMAIN reads' = DOMAIN reads \cup (B \X ReadHalves), NEW k \in B,
         Reading(k) = {}, entry'[k].halves = Halves \ ReadHalves
  PROVE  Reading(k)' # {} /\ Reading(k)' = Halves \ entry'[k].halves
<1>1. Reading(k)' = ReadHalves
  BY PreparedReads
<1> QED BY <1>1, HalfFacts

\* A poll that prepares the reads of B, whose entries have none, and drops what is
\* left of the job's entries only when the ring is in error.
LEMMA ReadsPrepared ==
  ASSUME FetchInv, NEW B, B \subseteq DOMAIN entry',
         DOMAIN reads' = DOMAIN reads \cup (B \X ReadHalves),
         DOMAIN entry' = DOMAIN entry \cup B,
         \A k \in B : /\ Reading(k) = {} /\ k \notin ToSet(queued')
                      /\ entry'[k].halves = Halves \ ReadHalves,
         \A k \in DOMAIN entry \ B : entry'[k].halves = entry[k].halves,
         \A i, j \in DOMAIN queued' : queued'[i] = queued'[j] => i = j,
         ToSet(queued') \subseteq ToSet(queued),
         ringErr => ringErr',
         ringErr' \/ ToSet(queued) \subseteq B \cup ToSet(queued')
  PROVE  ReadInv'
<1>1. ReadInv
  BY DEF FetchInv
<1>2. DOMAIN reads' \subseteq (DOMAIN entry') \X ReadHalves
  BY <1>1 DEF ReadInv
<1>3. ASSUME NEW k \in DOMAIN entry' PROVE Waits(k)'
  <2>1. CASE k \in B
    BY <2>1, NewlyRead DEF Waits
  <2>2. CASE k \notin B
    <3>1. Reading(k)' = Reading(k) /\ Waits(k) /\ entry'[k].halves = entry[k].halves
      <4>1. k \in DOMAIN entry \ B
        BY <1>3, <2>2
      <4>2. Reading(k)' = Reading(k)
        BY <2>2 DEF Reading
      <4>3. Waits(k)
        BY <1>1, <4>1 DEF ReadInv
      <4>4. entry'[k].halves = entry[k].halves
        BY <4>1
      <4> QED BY <4>2, <4>3, <4>4
    <3> QED BY <2>2, <3>1 DEF Waits
  <2> QED BY <2>1, <2>2
<1> QED BY <1>2, <1>3 DEF ReadInv

LEMMA IssueFetch ==
  ASSUME FetchInv, Issue
  PROVE  FetchInv'
<1> DEFINE n == Min({FreeSlots \div NReads, Len(queued)})
           B == {queued[i] : i \in 1 .. n}
           rest == SubSeq(queued, n + 1, Len(queued))
<1>1. /\ at = "issue" /\ entry' = Prepared(B)
      /\ \/ /\ reads' = Submitted(B, "flight") /\ queued' = rest
            /\ at' = (IF rest = <<>> THEN "conclude" ELSE "wait")
            /\ UNCHANGED <<job, ringErr>>
         \/ /\ reads' = Submitted(B, "queued") /\ queued' = <<>>
            /\ at' = "conclude" /\ ringErr' = TRUE
            /\ job' = [job EXCEPT ![scan].failed = TRUE]
      /\ UNCHANGED <<scan, seqDev, req, ahead, prefetch>>
  BY DEF Issue, gpuVars, mailVars, aheadVars
<1>2. /\ FetchTypes /\ PollInv /\ ReadInv /\ CountInv /\ RingInv /\ scan \in Layers
      /\ queued \in Seq(DOMAIN entry)
  BY <1>1 DEF FetchInv, PollInv, InBegin, FetchTypes
<1>3. n \in 0 .. Len(queued) /\ n <= FreeSlots \div NReads
  <2>1. FreeSlots \in Nat
    BY <1>2, RowsFinite, EngramAssumption DEF FreeSlots, RingInv
  <2>2. FreeSlots \div NReads \in Nat
    <3>1. NReads = 1 \/ NReads = 2
      BY HalfFacts
    <3> QED BY <2>1, <3>1
  <2> QED BY <1>2, <2>2, LeastOfTwo
<1> HIDE DEF n
<1>4. /\ IsFiniteSet(B) /\ Cardinality(B) \in 0 .. n
      /\ B \subseteq DOMAIN entry /\ B \subseteq ToSet(queued)
  <2>1. IsFiniteSet(B) /\ Cardinality(B) \in 0 .. n
    BY <1>2, <1>3, FirstFew
  <2>2. \A i \in 1 .. n : i \in DOMAIN queued /\ queued[i] \in DOMAIN entry
    BY <1>2, <1>3
  <2> QED BY <2>1, <2>2 DEF ToSet
<1>5. /\ rest \in Seq(DOMAIN entry) /\ Len(rest) = Len(queued) - n
      /\ \A i \in 1 .. Len(queued) - n : rest[i] = queued[i + n]
  BY <1>2, <1>3
<1>6. /\ \A i, j \in DOMAIN rest : rest[i] = rest[j] => i = j
      /\ ToSet(rest) \cap B = {} /\ ToSet(queued) = B \cup ToSet(rest)
  <2>1. \A i, j \in 1 .. Len(queued) : queued[i] = queued[j] => i = j
    BY <1>2 DEF ReadInv
  <2>2. DOMAIN rest = 1 .. Len(queued) - n /\ Len(queued) \in Nat /\ n \in Nat
    BY <1>2, <1>3, <1>5
  <2>3. \A i, j \in DOMAIN rest : rest[i] = rest[j] => i = j
    BY <1>5, <2>1, <2>2
  <2>4. ToSet(rest) = {queued[i] : i \in n + 1 .. Len(queued)}
    <3>1. ASSUME NEW i \in n + 1 .. Len(queued) PROVE queued[i] \in ToSet(rest)
      <4>1. i - n \in DOMAIN rest /\ rest[i - n] = queued[i]
        BY <1>5, <2>2
      <4> QED BY <4>1 DEF ToSet
    <3>2. ASSUME NEW i \in DOMAIN rest PROVE rest[i] \in {queued[j] : j \in n + 1 .. Len(queued)}
      <4>1. i + n \in n + 1 .. Len(queued) /\ rest[i] = queued[i + n]
        BY <1>5, <2>2, <3>2
      <4> HIDE DEF rest
      <4> QED BY <4>1
    <3> HIDE DEF rest
    <3> QED BY <3>1, <3>2 DEF ToSet
  <2>5. ToSet(queued) = {queued[i] : i \in 1 .. Len(queued)}
    BY <1>2 DEF ToSet
  <2> HIDE DEF rest
  <2> QED BY <1>3, <2>1, <2>2, <2>3, <2>4, <2>5
<1> HIDE DEF B, rest
<1>7. /\ DOMAIN entry' = DOMAIN entry
      /\ \A k \in DOMAIN entry : /\ entry'[k].demand = entry[k].demand /\ entry'[k] \in Row
           /\ entry'[k].halves = IF k \in B THEN Halves \ ReadHalves ELSE entry[k].halves
  BY <1>1, <1>2 DEF Prepared, FetchTypes, Row
<1>8. DOMAIN reads' = DOMAIN reads \cup (B \X ReadHalves)
  BY <1>1 DEF Submitted
<1>9. /\ queued' \in Seq(DOMAIN entry) /\ at' \in {"conclude", "wait"}
      /\ at' = "conclude" <=> queued' = <<>>
      /\ queued' = rest \/ (queued' = <<>> /\ ringErr')
      /\ ringErr => ringErr'
  <2>1. CASE queued' = rest /\ UNCHANGED ringErr /\ at' = (IF rest = <<>> THEN "conclude" ELSE "wait")
    BY <1>5, <2>1
  <2>2. CASE queued' = <<>> /\ at' = "conclude" /\ ringErr' = TRUE
    BY <2>2
  <2> QED BY <1>1, <2>1, <2>2
<1>10. /\ job' \in [Layers -> Job]
       /\ \A m \in Layers : job'[m].active = job[m].active /\ job'[m].remaining = job[m].remaining
  <2>1. CASE job' = job
    BY <1>2, <2>1 DEF FetchTypes
  <2>2. CASE job' = [job EXCEPT ![scan].failed = TRUE]
    BY <1>2, <2>2 DEF FetchTypes, Job
  <2> QED BY <1>1, <2>1, <2>2
<1>11. FetchTypes' /\ PollInv'
  BY <1>1, <1>2, <1>7, <1>9, <1>10 DEF FetchTypes, PollInv, InBegin
<1>12. ReadInv'
  <2>1. /\ \A i, j \in DOMAIN queued' : queued'[i] = queued'[j] => i = j
        /\ ToSet(queued') \cap B = {} /\ ToSet(queued') \subseteq ToSet(queued)
        /\ ringErr' \/ ToSet(queued) \subseteq B \cup ToSet(queued')
    <3>1. CASE queued' = rest
      BY <1>6, <3>1
    <3>2. CASE queued' = <<>> /\ ringErr'
      BY <3>2 DEF ToSet
    <3> QED BY <1>9, <3>1, <3>2
  <2>2. \A k \in B : Reading(k) = {}
    BY <1>2, <1>4 DEF ReadInv, Waits
  <2>3. \A k \in B : k \notin ToSet(queued') /\ entry'[k].halves = Halves \ ReadHalves
    BY <1>4, <1>7, <2>1
  <2>4. \A k \in DOMAIN entry \ B : entry'[k].halves = entry[k].halves
    BY <1>7
  <2>5. B \subseteq DOMAIN entry' /\ DOMAIN entry' = DOMAIN entry \cup B
    BY <1>4, <1>7
  <2> QED BY <1>8, <1>9, <2>1, <2>2, <2>3, <2>4, <2>5, ReadsPrepared
<1>13. CountInv'
  <2>1. ASSUME NEW m \in Layers PROVE Counted(m)'
    <3>1. Counted(m) /\ Demanded(m)' = Demanded(m)
      BY <1>2, <1>7 DEF CountInv, Demanded
    <3>2. Beginning(m)' <=> Beginning(m)
      BY <1>1, <1>9 DEF Beginning
    <3> QED BY <1>10, <3>1, <3>2, SameCount
  <2> QED BY <2>1 DEF CountInv
<1>14. RingInv'
  BY <1>3, <1>4, <1>8, ReadsFit DEF RingInv
<1> QED BY <1>11, <1>12, <1>13, <1>14 DEF FetchInv

LEMMA PrefetchFetch ==
  ASSUME FetchInv, at = "scan", PrefetchStep, scan' = 1,
         UNCHANGED <<at, job, queued, seqDev, req, ahead>>
  PROVE  FetchInv'
<1> DEFINE n == Min({Batch, FreeSlots \div 2, Len(prefetch)})
           S == {prefetch[i] : i \in 1 .. n}
           B == {k \in S : k[2] \in Owned \ DOMAIN cache[k[1]] /\ k \notin DOMAIN entry}
           row == [FreshEntry({}) EXCEPT !.demand = FALSE,
                     !.halves = Halves \ ReadHalves, !.got = Halves \ ReadHalves]
<1>1. /\ prefetch' = SubSeq(prefetch, n + 1, Len(prefetch))
      /\ entry' = [k \in DOMAIN entry \cup B |-> IF k \in DOMAIN entry THEN entry[k] ELSE row]
      /\ \/ reads' = (IF B = {} THEN reads ELSE Submitted(B, "flight")) /\ UNCHANGED ringErr
         \/ reads' = Submitted(B, "queued") /\ ringErr' = TRUE
  BY DEF PrefetchStep
<1>2. /\ FetchTypes /\ PollInv /\ ReadInv /\ CountInv /\ RingInv
      /\ prefetch \in Seq(Keys) /\ queued = <<>>
  BY DEF FetchInv, FetchTypes, PollInv
<1>3. n \in 0 .. Len(prefetch) /\ n <= FreeSlots \div NReads
  <2>1. FreeSlots \in Nat
    BY <1>2, RowsFinite, EngramAssumption DEF FreeSlots, RingInv
  <2>2. FreeSlots \div 2 \in Nat /\ FreeSlots \div 2 <= FreeSlots \div NReads
    <3>1. NReads = 1 \/ NReads = 2
      BY HalfFacts
    <3> QED BY <2>1, <3>1
  <2>3. Batch \in Nat /\ Len(prefetch) \in Nat
    BY <1>2, EngramAssumption
  <2>4. n \in Nat /\ n <= FreeSlots \div 2 /\ n <= Len(prefetch)
    BY <2>2, <2>3, LeastOfThree
  <2>5. FreeSlots \div NReads \in Nat
    <3>1. NReads = 1 \/ NReads = 2
      BY HalfFacts
    <3> QED BY <2>1, <3>1
  <2> HIDE DEF n
  <2> QED BY <2>2, <2>3, <2>4, <2>5
<1> HIDE DEF n
<1>4. IsFiniteSet(S) /\ Cardinality(S) \in 0 .. n /\ S \subseteq Keys
  <2>1. IsFiniteSet(S) /\ Cardinality(S) \in 0 .. n
    BY <1>2, <1>3, FirstFew
  <2>2. \A i \in 1 .. n : prefetch[i] \in Keys
    BY <1>2, <1>3
  <2> QED BY <2>1, <2>2
<1>5. /\ IsFiniteSet(B) /\ Cardinality(B) <= n
      /\ B \subseteq Keys /\ B \cap DOMAIN entry = {}
  <2>1. B \subseteq S
    OBVIOUS
  <2>2. IsFiniteSet(B) /\ Cardinality(B) <= Cardinality(S) /\ Cardinality(B) \in Nat
    BY <1>4, <2>1, FS_Subset, FS_CardinalityType
  <2> HIDE DEF S
  <2> QED BY <1>3, <1>4, <2>1, <2>2
<1>6. row \in Row /\ row.halves = Halves \ ReadHalves /\ ~row.demand
  BY DEF FreshEntry, Row
<1> HIDE DEF B, S, row
<1>7. /\ DOMAIN entry' = DOMAIN entry \cup B
      /\ \A k \in DOMAIN entry : entry'[k] = entry[k]
      /\ \A k \in B : entry'[k] = row
  BY <1>1, <1>5
<1>8. DOMAIN reads' = DOMAIN reads \cup (B \X ReadHalves) /\ (ringErr => ringErr')
  <2>1. CASE B = {} /\ reads' = reads /\ UNCHANGED ringErr
    BY <2>1
  <2>2. CASE reads' = Submitted(B, "flight") /\ UNCHANGED ringErr
    BY <2>2 DEF Submitted
  <2>3. CASE reads' = Submitted(B, "queued") /\ ringErr' = TRUE
    BY <2>3 DEF Submitted
  <2> QED BY <1>1, <2>1, <2>2, <2>3
<1>9. FetchTypes' /\ PollInv'
  <2>1. prefetch' \in Seq(Keys)
    BY <1>1, <1>2, <1>3
  <2>2. queued' \in Seq(DOMAIN entry')
    BY <1>2
  <2>3. DOMAIN entry' \subseteq Keys /\ \A k \in DOMAIN entry' : entry'[k] \in Row
    BY <1>2, <1>5, <1>6, <1>7 DEF FetchTypes
  <2> QED BY <1>2, <2>1, <2>2, <2>3 DEF FetchTypes, PollInv, InBegin
<1>10. ReadInv'
  <2>1. \A k \in B : Reading(k) = {}
    BY <1>2, <1>5 DEF ReadInv, Reading
  <2>2. ToSet(queued) = {} /\ DOMAIN queued = {}
    BY <1>2 DEF ToSet
  <2>3. \A k \in B : k \notin ToSet(queued') /\ entry'[k].halves = Halves \ ReadHalves
    BY <1>6, <1>7, <2>2
  <2> QED BY <1>7, <1>8, <2>1, <2>2, <2>3, ReadsPrepared
<1>11. CountInv'
  <2>1. ASSUME NEW m \in Layers PROVE Counted(m)'
    <3>1. Counted(m) /\ Demanded(m)' = Demanded(m)
      BY <1>2, <1>5, <1>6, <1>7 DEF CountInv, Demanded
    <3>2. ~Beginning(m)' /\ ~Beginning(m)
      BY DEF Beginning
    <3> QED BY <3>1, <3>2, SameCount
  <2> QED BY <2>1 DEF CountInv
<1>12. RingInv'
  BY <1>3, <1>5, <1>8, ReadsFit DEF RingInv
<1> QED BY <1>9, <1>10, <1>11, <1>12 DEF FetchInv

LEMMA PollEndFetch ==
  ASSUME FetchInv, PollEnd
  PROVE  FetchInv'
<1>1. /\ at = "scan" /\ scan' = 1
      /\ UNCHANGED <<at, job, queued, seqDev, req, ahead>>
      /\ PrefetchStep \/ UNCHANGED <<entry, reads, ringErr, prefetch>>
  BY DEF PollEnd, LayersDone, gpuVars, mailVars
<1>2. CASE PrefetchStep
  BY <1>1, <1>2, PrefetchFetch
<1>3. CASE UNCHANGED <<entry, reads, ringErr, prefetch>>
  <2>1. FetchTypes' /\ PollInv'
    BY <1>1, <1>3 DEF FetchInv, FetchTypes, PollInv, InBegin
  <2>2. ASSUME NEW k PROVE Waits(k)' <=> Waits(k)
    BY <1>1, <1>3 DEF Waits, Reading
  <2>3. ReadInv'
    BY <1>1, <1>3, <2>2 DEF FetchInv, ReadInv
  <2>4. ASSUME NEW m \in Layers PROVE Counted(m)'
    <3>1. Counted(m) /\ Demanded(m)' = Demanded(m)
      BY <1>3 DEF FetchInv, CountInv, Demanded
    <3>2. ~Beginning(m)' /\ ~Beginning(m)
      BY <1>1 DEF Beginning
    <3> QED BY <1>1, <3>1, <3>2, SameCount
  <2>5. CountInv' /\ RingInv'
    BY <1>3, <2>4 DEF FetchInv, CountInv, RingInv
  <2> QED BY <2>1, <2>3, <2>5 DEF FetchInv
<1> QED BY <1>1, <1>2, <1>3
-----------------------------------------------------------------------------
(* The poll: a read is reaped, a job is concluded *)

LEMMA OneLess ==
  ASSUME NEW S, IsFiniteSet(S), NEW x \in S
  PROVE  /\ Cardinality(S) \in Nat \ {0} /\ Cardinality(S \ {x}) = Cardinality(S) - 1
         /\ Cardinality(S) = 1 => S \ {x} = {}
<1>1. IsFiniteSet(S \ {x}) /\ Cardinality(S \ {x}) = Cardinality(S) - 1
  BY FS_RemoveElement
<1>2. Cardinality(S) \in Nat /\ Cardinality(S) # 0
  BY FS_CardinalityType, FS_EmptySet
<1>3. Cardinality(S \ {x}) = 0 => S \ {x} = {}
  BY <1>1, FS_EmptySet
<1> QED BY <1>1, <1>2, <1>3

\* What CompleteEntry does to the row and to its job.
LEMMA EntryEnds ==
  ASSUME NEW k, NEW e, CompleteEntry(k, e)
  PROVE  /\ entry' = [x \in DOMAIN entry \ {k} |-> entry[x]]
         /\ IF e.demand
            THEN job' = [job EXCEPT ![k[1]].failed = job[k[1]].failed \/ e.failed,
                                    ![k[1]].remaining = @ - 1,
                                    ![k[1]].active = job[k[1]].remaining # 1]
            ELSE job' = job
BY DEF CompleteEntry

LEMMA JobLess ==
  ASSUME job \in [Layers -> Job], NEW l \in Layers, NEW f \in BOOLEAN,
         job[l].remaining # 0,
         job' = [job EXCEPT ![l].failed = f, ![l].remaining = @ - 1,
                            ![l].active = job[l].remaining # 1]
  PROVE  /\ job' \in [Layers -> Job]
         /\ job'[l].active = (job[l].remaining # 1) /\ job'[l].remaining = job[l].remaining - 1
         /\ \A m \in Layers : m # l => job'[m] = job[m]
<1>1. job[l] \in Job /\ job[l].remaining - 1 \in Nat
  BY DEF Job
<1> QED BY <1>1 DEF Job

LEMMA ReapFetch ==
  ASSUME FetchInv, Reap
  PROVE  FetchInv'
<1> DEFINE after(x) == [entry[x[1]] EXCEPT !.halves = @ \cup {x[2]},
                          !.got = IF reads[x] = "done" THEN @ \cup {x[2]} ELSE @,
                          !.failed = @ \/ reads[x] = "short"]
<1>1. PICK x \in Completed :
        /\ reads' = [y \in DOMAIN reads \ {x} |-> reads[y]]
        /\ IF Whole(after(x)) THEN CompleteEntry(x[1], after(x))
           ELSE entry' = [entry EXCEPT ![x[1]] = after(x)] /\ UNCHANGED <<cache, staging, job, ack>>
  BY DEF Reap
<1> DEFINE k == x[1]
           h == x[2]
           e == after(x)
<1>2. UNCHANGED <<at, scan, queued, ringErr, seqDev, req, ahead, prefetch>>
  BY DEF Reap, gpuVars, pollVars, aheadVars
<1>3. FetchTypes /\ PollInv /\ ReadInv /\ CountInv /\ RingInv
  BY DEF FetchInv
<1>4. /\ x \in DOMAIN reads /\ x = <<k, h>>
      /\ k \in DOMAIN entry /\ k \in Keys /\ h \in ReadHalves /\ h \in Halves
  BY <1>1, <1>3, HalfFacts DEF Completed, ReadInv, FetchTypes
<1>5. /\ entry[k] \in Row /\ e \in Row /\ e.demand = entry[k].demand
      /\ e.halves = entry[k].halves \cup {h}
  <2>1. entry[k] \in Row /\ h \in Halves
    BY <1>3, <1>4 DEF FetchTypes
  <2> HIDE DEF k, h
  <2>2. e = [entry[k] EXCEPT !.halves = @ \cup {h},
               !.got = IF reads[x] = "done" THEN @ \cup {h} ELSE @,
               !.failed = @ \/ reads[x] = "short"]
    BY DEF k, h
  <2> HIDE DEF e
  <2> QED BY <2>1, <2>2 DEF Row
<1> HIDE DEF k, h, e, after
<1>6. /\ k \notin ToSet(queued)
      /\ Reading(k) = Halves \ entry[k].halves
  <2>1. h \in Reading(k)
    BY <1>4 DEF Reading
  <2> QED BY <1>3, <1>4, <2>1 DEF ReadInv, Waits
<1>7. /\ DOMAIN reads' = DOMAIN reads \ {x}
      /\ Reading(k)' = Halves \ e.halves
      /\ \A j : j # k => Reading(j)' = Reading(j)
  <2>1. DOMAIN reads' = DOMAIN reads \ {x}
    BY <1>1
  <2>2. Reading(k)' = Reading(k) \ {h}
    BY <1>4, <2>1 DEF Reading
  <2>3. ASSUME NEW j, j # k PROVE Reading(j)' = Reading(j)
    BY <1>4, <2>1, <2>3 DEF Reading
  <2> QED BY <1>5, <1>6, <2>1, <2>2, <2>3
<1>8. RingInv'
  <2>1. IsFiniteSet(DOMAIN reads) /\ Cardinality(DOMAIN reads) \in Nat
    BY <1>3, RowsFinite
  <2>2. Cardinality((DOMAIN reads) \ {x}) = Cardinality(DOMAIN reads) - 1
    BY <2>1, FS_RemoveElement, <1>4
  <2>3. Cardinality(DOMAIN reads \ {x}) \in Nat
    BY <2>1, FS_RemoveElement, FS_CardinalityType
  <2> QED BY <1>3, <1>7, <2>1, <2>2, <2>3, EngramAssumption DEF RingInv
<1>9. ASSUME NEW m \in Layers PROVE Beginning(m)' <=> Beginning(m)
  BY <1>2 DEF Beginning
<1>10. CASE Whole(e)
  <2>1. /\ e.halves = Halves /\ CompleteEntry(k, e)
        /\ DOMAIN entry' = DOMAIN entry \ {k}
        /\ \A j \in DOMAIN entry \ {k} : entry'[j] = entry[j]
    BY <1>1, <1>10, EntryEnds DEF Whole, e, k
  <2>2. Reading(k)' = {}
    BY <1>7, <2>1
  <2>3. ReadInv'
    <3>1. DOMAIN reads' \subseteq (DOMAIN entry') \X ReadHalves
      <4>1. ASSUME NEW y \in DOMAIN reads' PROVE y \in (DOMAIN entry') \X ReadHalves
        <5>1. y \in DOMAIN reads /\ y \in (DOMAIN entry) \X ReadHalves
          BY <1>3, <1>7, <4>1 DEF ReadInv
        <5>2. y[1] # k
          <6>1. y = <<y[1], y[2]>> /\ y[2] \in Halves
            BY <5>1, HalfFacts
          <6> QED BY <2>2, <4>1, <6>1 DEF Reading
        <5> QED BY <2>1, <5>1, <5>2
      <4> QED BY <4>1
    <3>2. ASSUME NEW j \in DOMAIN entry' PROVE Waits(j)'
      <4>1. j \in DOMAIN entry /\ j # k /\ entry'[j] = entry[j] /\ Reading(j)' = Reading(j)
        BY <1>7, <2>1, <3>2
      <4>2. Waits(j)
        BY <1>3, <4>1 DEF ReadInv
      <4> QED BY <1>2, <4>1, <4>2 DEF Waits
    <3> QED BY <1>2, <1>3, <3>1, <3>2 DEF ReadInv
  <2>4. queued' \in Seq(DOMAIN entry')
    <3>1. queued \in Seq(DOMAIN entry) /\ \A i \in DOMAIN queued : queued[i] # k
      BY <1>3, <1>6 DEF FetchTypes, ToSet
    <3> QED BY <1>2, <2>1, <3>1
  <2>5. DOMAIN entry' \subseteq Keys /\ \A j \in DOMAIN entry' : entry'[j] \in Row
    BY <1>3, <2>1 DEF FetchTypes
  <2>6. CASE e.demand
    <3> DEFINE l == k[1]
    <3>1. job' = [job EXCEPT ![l].failed = job[l].failed \/ e.failed,
                             ![l].remaining = @ - 1, ![l].active = job[l].remaining # 1]
      BY <2>1, <2>6, EntryEnds
    <3>2. l \in Layers /\ k \in Demanded(l)
      BY <1>4, <1>5, <2>6 DEF Keys, Demanded
    <3>3. (job[l].failed \/ e.failed) \in BOOLEAN
      OBVIOUS
    <3>4. Counted(l) /\ job[l] \in Job
      BY <1>3, <3>2 DEF CountInv, FetchTypes
    <3> DEFINE c == Cardinality(Demanded(l))
               b == IF Beginning(l) THEN 1 ELSE 0
    <3>5. job[l].active /\ job[l].remaining = c + b
      BY <3>2, <3>4 DEF Counted
    <3>6. /\ c \in Nat \ {0} /\ Cardinality(Demanded(l) \ {k}) = c - 1
          /\ c = 1 => Demanded(l) \ {k} = {}
      BY <1>3, <3>2, DemandFinite, OneLess
    <3>7. Demanded(l)' = Demanded(l) \ {k}
      BY <2>1 DEF Demanded
    <3>8. /\ job' \in [Layers -> Job]
          /\ job'[l].active = (job[l].remaining # 1) /\ job'[l].remaining = job[l].remaining - 1
          /\ \A m \in Layers : m # l => job'[m] = job[m]
      <4>1. job \in [Layers -> Job] /\ job[l].remaining # 0
        BY <1>3, <3>5, <3>6 DEF FetchTypes
      <4> HIDE DEF l
      <4> QED BY <3>1, <3>2, <3>3, <4>1, JobLess
    <3>9. Counted(l)'
      <4>1. Cardinality(Demanded(l)') = c - 1 /\ (c = 1 => Demanded(l)' = {})
        BY <3>6, <3>7
      <4>2. Beginning(l)' <=> Beginning(l)
        BY <1>9, <3>2
      <4>3. b \in {0, 1} /\ (b = 0 <=> ~Beginning(l)) /\ job[l].remaining = c + b /\ c \in Nat \ {0}
        BY <3>5, <3>6
      <4> HIDE DEF c, b, l
      <4>4. CASE job[l].remaining = 1
        <5>1. c = 1 /\ ~Beginning(l) /\ ~job'[l].active
          BY <3>2, <3>8, <4>3, <4>4 DEF Job
        <5> QED BY <4>1, <4>2, <5>1 DEF Counted
      <4>5. CASE job[l].remaining # 1
        <5>1. job'[l].active /\ job'[l].remaining = (c - 1) + b
          BY <3>2, <3>8, <4>3, <4>5 DEF Job
        <5> QED BY <4>1, <4>2, <5>1 DEF Counted, b
      <4> QED BY <4>4, <4>5
    <3>10. ASSUME NEW m \in Layers, m # l PROVE Counted(m)'
      <4>1. Counted(m) /\ Demanded(m)' = Demanded(m)
        BY <1>3, <2>1, <3>10 DEF CountInv, Demanded
      <4> QED BY <1>9, <3>8, <3>10, <4>1, SameCount
    <3>11. CountInv'
      BY <3>9, <3>10 DEF CountInv
    <3>12. FetchTypes' /\ PollInv'
      BY <1>2, <1>3, <2>4, <2>5, <3>8 DEF FetchTypes, PollInv, InBegin
    <3> QED BY <1>8, <2>3, <3>11, <3>12 DEF FetchInv
  <2>7. CASE ~e.demand
    <3>1. job' = job
      BY <2>1, <2>7, EntryEnds
    <3>2. ASSUME NEW m \in Layers PROVE Counted(m)'
      <4>1. Counted(m) /\ Demanded(m)' = Demanded(m)
        BY <1>3, <1>5, <2>1, <2>7 DEF CountInv, Demanded
      <4> QED BY <1>9, <3>1, <4>1, SameCount
    <3>3. CountInv'
      BY <3>2 DEF CountInv
    <3>4. FetchTypes' /\ PollInv'
      BY <1>2, <1>3, <2>4, <2>5, <3>1 DEF FetchTypes, PollInv, InBegin
    <3> QED BY <1>8, <2>3, <3>3, <3>4 DEF FetchInv
  <2> QED BY <2>6, <2>7
<1>11. CASE ~Whole(e)
  <2>1. entry' = [entry EXCEPT ![k] = e] /\ job' = job
    BY <1>1, <1>11 DEF e, k
  <2>2. /\ DOMAIN entry' = DOMAIN entry /\ entry'[k] = e
        /\ \A j \in DOMAIN entry : j # k => entry'[j] = entry[j]
    BY <1>4, <2>1
  <2>3. FetchTypes' /\ PollInv'
    BY <1>2, <1>3, <1>5, <2>1, <2>2 DEF FetchTypes, PollInv, InBegin
  <2>4. ASSUME NEW j \in DOMAIN entry' PROVE Waits(j)'
    <3>1. Waits(j) /\ j \in DOMAIN entry
      BY <1>3, <2>2, <2>4 DEF ReadInv
    <3>2. CASE j = k
      <4>1. e.halves # Halves /\ e.halves \subseteq Halves
        BY <1>5, <1>11 DEF Whole, Row
      <4>2. Halves \ e.halves # {}
        BY <4>1
      <4> QED BY <1>2, <1>6, <1>7, <2>2, <3>2, <4>2 DEF Waits
    <3>3. CASE j # k
      BY <1>2, <1>7, <2>2, <3>1, <3>3 DEF Waits
    <3> QED BY <3>2, <3>3
  <2>5. ReadInv'
    BY <1>2, <1>3, <1>7, <2>2, <2>4 DEF ReadInv
  <2>6. ASSUME NEW m \in Layers PROVE Counted(m)'
    <3>1. Counted(m) /\ Demanded(m)' = Demanded(m)
      BY <1>3, <1>5, <2>2 DEF CountInv, Demanded
    <3> QED BY <1>9, <2>1, <3>1, SameCount
  <2>7. CountInv'
    BY <2>6 DEF CountInv
  <2> QED BY <1>8, <2>3, <2>5, <2>7 DEF FetchInv
<1> QED BY <1>10, <1>11

LEMMA ConcludeFetch ==
  ASSUME FetchInv, Conclude
  PROVE  FetchInv'
<1> DEFINE l == scan
           c == Cardinality(Demanded(l))
<1>1. /\ at = "conclude" /\ at' = "scan" /\ scan' = l + 1
      /\ job' = [job EXCEPT ![l].remaining = @ - 1, ![l].active = job[l].remaining # 1]
      /\ UNCHANGED <<entry, queued, reads, ringErr, seqDev, req, ahead, prefetch>>
  BY DEF Conclude, gpuVars, aheadVars
<1>2. /\ FetchTypes /\ PollInv /\ ReadInv /\ CountInv /\ RingInv
      /\ scan \in Layers /\ scan \in Nat /\ queued = <<>>
  BY <1>1 DEF FetchInv, PollInv, InBegin, FetchTypes
<1>3. job[l].active /\ job[l].remaining = c + 1 /\ c \in Nat /\ (c = 0 => Demanded(l) = {})
  <2>1. Counted(l) /\ Beginning(l)
    BY <1>1, <1>2 DEF CountInv, Beginning
  <2>2. c \in Nat /\ (c = 0 => Demanded(l) = {})
    BY <1>2, DemandFinite
  <2> QED BY <2>1, <2>2 DEF Counted
<1> HIDE DEF c
<1>4. /\ job' \in [Layers -> Job]
      /\ job'[l].active = (job[l].remaining # 1) /\ job'[l].remaining = job[l].remaining - 1
      /\ \A m \in Layers : m # l => job'[m] = job[m]
  <2>1. job[l].remaining - 1 \in Nat /\ (job[l].remaining # 1) \in BOOLEAN
    BY <1>3
  <2> QED BY <1>1, <1>2, <2>1 DEF FetchTypes, Job
<1>5. FetchTypes' /\ PollInv'
  BY <1>1, <1>2, <1>4 DEF FetchTypes, PollInv, InBegin
<1>6. ReadInv' /\ RingInv'
  <2>1. ASSUME NEW k PROVE Waits(k)' <=> Waits(k)
    BY <1>1 DEF Waits, Reading
  <2> QED BY <1>1, <1>2, <2>1 DEF ReadInv, RingInv
<1>7. CountInv'
  <2>1. ASSUME NEW m \in Layers PROVE Counted(m)'
    <3>1. Counted(m) /\ Demanded(m)' = Demanded(m) /\ ~Beginning(m)'
      BY <1>1, <1>2 DEF CountInv, Demanded, Beginning
    <3>2. CASE m = l
      <4>1. CASE c = 0
        BY <1>3, <1>4, <3>1, <3>2, <4>1 DEF Counted, Job
      <4>2. CASE c # 0
        <5>1. job'[m].active /\ job'[m].remaining = Cardinality(Demanded(m))
          BY <1>3, <1>4, <3>2, <4>2 DEF c, Job
        <5>2. job'[m].remaining = Cardinality(Demanded(m)') + 0
          BY <1>2, <3>1, <5>1, DemandFinite
        <5> QED BY <3>1, <5>1, <5>2 DEF Counted
      <4> QED BY <4>1, <4>2
    <3>3. CASE m # l
      <4>1. ~Beginning(m)
        BY <3>3 DEF Beginning
      <4> QED BY <1>4, <3>1, <3>3, <4>1, SameCount
    <3> QED BY <3>2, <3>3
  <2> QED BY <2>1 DEF CountInv
<1> QED BY <1>5, <1>6, <1>7 DEF FetchInv
-----------------------------------------------------------------------------
LEMMA NextFetch ==
  ASSUME FetchInv, [Next]_vars
  PROVE  FetchInv'
<1>1. CASE \E l \in Layers : PublishIds(l) \/ Stream(l) \/ \E c \in Ctas : TimeOut(l, c)
  <2>1. PICK l \in Layers : PublishIds(l) \/ Stream(l) \/ \E c \in Ctas : TimeOut(l, c)
    BY <1>1
  <2>2. 0 \in Ctas
    BY EngramAssumption DEF Ctas
  <2> QED BY <2>1, <2>2, GpuFetch DEF Stream
<1>2. CASE ClearError
  <2>1. 1 \in Layers /\ 0 \in Ctas
    BY EngramAssumption DEF Layers, Ctas
  <2> QED BY <1>2, <2>1, GpuFetch
<1>3. CASE Look
  BY <1>3, LookFetch
<1>4. CASE Issue
  BY <1>4, IssueFetch
<1>5. CASE Wait \/ ReapDone \/ PollReap
  BY <1>5, PollFetch
<1>6. CASE Reap
  BY <1>6, ReapFetch
<1>7. CASE Conclude
  BY <1>7, ConcludeFetch
<1>8. CASE PollEnd
  BY <1>8, PollEndFetch
<1>9. CASE Complete
  BY <1>9, CompleteFetch
<1>10. CASE Schedule \/ Queue \/ PrefetchClear
  BY <1>10, LookaheadFetch
<1>11. CASE UNCHANGED vars
  <2>1. UNCHANGED <<at, scan, job, entry, queued, ringErr, reads, seqDev, req, ahead, prefetch>>
    BY <1>11 DEF vars, gpuVars, mailVars, pollVars, rowVars, aheadVars
  <2>2. FetchTypes'
    BY <2>1 DEF FetchInv, FetchTypes
  <2> QED BY <2>1, <2>2, SameRows
<1> QED BY <1>1, <1>2, <1>3, <1>4, <1>5, <1>6, <1>7, <1>8, <1>9, <1>10, <1>11
        DEF Next, Fetcher

LEMMA FetchCounts ==
  ASSUME FetchInv
  PROVE  JobsCounted
<1>1. ASSUME NEW l \in Layers
      PROVE  LET rows == {k \in DOMAIN entry : k[1] = l /\ entry[k].demand}
             IN  IF job[l].active
                 THEN job[l].remaining = Cardinality(rows) + (IF Beginning(l) THEN 1 ELSE 0)
                 ELSE rows = {} /\ ~Beginning(l)
  BY DEF FetchInv, CountInv, Counted, Demanded
<1>2. ASSUME NEW k \in DOMAIN entry, ~ringErr, k \notin ToSet(queued)
      PROVE  \E h \in ReadHalves : <<k, h>> \in DOMAIN reads
  <2>1. PICK h \in Halves : <<k, h>> \in DOMAIN reads
    BY <1>2 DEF FetchInv, ReadInv, Waits, Reading
  <2>2. h \in ReadHalves
    BY <2>1 DEF FetchInv, ReadInv
  <2> QED BY <2>1, <2>2
<1>3. Cardinality(DOMAIN reads) <= Depth
  BY DEF FetchInv, RingInv
<1> QED BY <1>1, <1>2, <1>3 DEF JobsCounted

\* A job counts the rows it waits for, whoever began their reads (the job itself, an
\* earlier prefetch it adopts) and whichever loop reaps them; a row that waits has a
\* read in the ring unless a submit failed; the ring is never fuller than it is.
THEOREM JobsAreCounted == Spec => []JobsCounted
<1>1. Init => FetchInv
  BY InitFetch
<1>2. FetchInv /\ [Next]_vars => FetchInv'
  BY NextFetch
<1>3. FetchInv => JobsCounted
  BY FetchCounts
<1> QED BY <1>1, <1>2, <1>3, PTL DEF Spec
-----------------------------------------------------------------------------
(* The rows: what a lookup copies *)

\* What the rows of a lookup have to be.
Right(l) ==
  [i \in DOMAIN req[l].ids |-> IF req[l].ids[i] \in Owned THEN req[l].ids[i] ELSE Zero]

MoreTypes ==
  /\ gpu \in [Layers -> {"idle", "publishing", "waiting"}]
  /\ cta \in [Layers -> [Ctas -> {"new", "spin", "out"}]]
  /\ land \in [Layers -> Seq(RowBytes)] /\ staging \in [Layers -> Seq(RowBytes)]
  /\ ack \in [Layers -> [step : Nat, status : 0 .. 1]] /\ err \in {0, 1, 17}
  /\ at \in {"scan", "reap", "issue", "wait", "conclude"}
  /\ scan \in 1 .. NLayers + 1 /\ busy \in BOOLEAN /\ expected \in [Layers -> Nat]
  /\ \A x \in DOMAIN reads : reads[x] \in {"queued", "flight", "done", "short"}
  /\ ringErr \in BOOLEAN /\ plans \in Nat

\* A row that did not fail has every half that was read; one nobody waits for goes
\* nowhere; the cache holds whole rows.
EntryInv ==
  \A k \in DOMAIN entry : /\ ~entry[k].failed => entry[k].got = entry[k].halves
                          /\ ~entry[k].demand => entry[k].dsts = {}
CacheInv ==
  /\ DOMAIN cache = Layers
  /\ \A l \in Layers : /\ DOMAIN cache[l] \subseteq Owned
                        /\ \A id \in DOMAIN cache[l] : cache[l][id] = id

\* The numbers of a layer: published, being served, acked, expected.
Numbers(l) ==
  /\ req[l].step = seqDev[l] /\ ack[l].step <= job[l].seq /\ job[l].seq <= seqDev[l]
  /\ IF Beginning(l) THEN expected[l] = job[l].seq ELSE job[l].seq < expected[l]
  /\ job[l].active => ack[l].step < job[l].seq
  /\ ack[l].step = job[l].seq /\ ack[l].status = 0 => ~job[l].failed

\* The job of the lookup that waits: each of its rows is right, or waits for a read.
Served(l) ==
  gpu[l] = "waiting" /\ job[l].seq = seqDev[l] =>
    /\ DOMAIN staging[l] = DOMAIN req[l].ids
    /\ \A k \in Demanded(l) : \A i \in entry[k].dsts :
         i \in DOMAIN req[l].ids /\ req[l].ids[i] = k[2]
    /\ \A i \in DOMAIN req[l].ids :
         \/ staging[l][i] = Right(l)[i] \/ job[l].failed
         \/ \E k \in Demanded(l) : i \in entry[k].dsts

\* What the CTAs that are through have copied.
Copied(l, c) ==
  /\ DOMAIN land[l] = DOMAIN req[l].ids
  /\ \A i \in DOMAIN req[l].ids : i % NCtas = c => land[l][i] = Right(l)[i]
Landings(l) ==
  /\ gpu[l] # "waiting" => \A c \in Ctas : cta[l][c] = "new"
  /\ gpu[l] = "waiting" /\ err = 0 => \A c \in Ctas : cta[l][c] = "out" => Copied(l, c)

RowInv ==
  /\ MoreTypes /\ EntryInv /\ CacheInv
  /\ \A l \in Layers : Numbers(l) /\ Served(l) /\ Landings(l)
-----------------------------------------------------------------------------
(* The rows: the initial state and the GPU *)

LEMMA InitRows ==
  ASSUME Init
  PROVE  RowInv
<1>1. NLayers \in Nat \ {0}
  BY EngramAssumption
<1>2. MoreTypes
  <2>1. cta \in [Layers -> [Ctas -> {"new", "spin", "out"}]]
    BY DEF Init
  <2>2. <<>> \in Seq(RowBytes)
    OBVIOUS
  <2>3. land \in [Layers -> Seq(RowBytes)] /\ staging \in [Layers -> Seq(RowBytes)]
    BY <2>2 DEF Init
  <2>4. ack \in [Layers -> [step : Nat, status : 0 .. 1]]
    BY DEF Init
  <2>5. DOMAIN reads = {}
    BY DEF Init
  <2>6. /\ gpu \in [Layers -> {"idle", "publishing", "waiting"}] /\ expected \in [Layers -> Nat]
        /\ scan \in 1 .. NLayers + 1 /\ plans \in Nat
    BY <1>1 DEF Init
  <2>7. at = "scan" /\ err = 0 /\ busy = FALSE /\ ringErr = FALSE
    BY DEF Init
  <2> QED BY <2>1, <2>3, <2>4, <2>5, <2>6, <2>7 DEF MoreTypes
<1>3. EntryInv /\ CacheInv
  BY DEF Init, EntryInv, CacheInv
<1>4. ASSUME NEW l \in Layers PROVE Numbers(l) /\ Served(l) /\ Landings(l)
  BY DEF Init, Numbers, Served, Landings, Beginning
<1> QED BY <1>2, <1>3, <1>4 DEF RowInv

LEMMA RightIsRows ==
  ASSUME FetchTypes, NEW l \in Layers
  PROVE  /\ DOMAIN req[l].ids = 1 .. Len(req[l].ids) /\ Len(req[l].ids) \in Nat
         /\ \A i \in DOMAIN req[l].ids : req[l].ids[i] \in Ids /\ Right(l)[i] \in RowBytes
<1>1. req[l].ids \in Seq(Ids)
  BY DEF FetchTypes
<1> QED BY <1>1 DEF Right, RowBytes

\* An ack of the lookup that waits, with status 0: the staging is right.
LEMMA AckedRight ==
  ASSUME FetchInv, RowInv, NEW l \in Layers, gpu[l] = "waiting",
         ack[l].step = seqDev[l], ack[l].status = 0
  PROVE  \A i \in DOMAIN req[l].ids : i \in DOMAIN staging[l] /\ staging[l][i] = Right(l)[i]
<1>1. Numbers(l) /\ Served(l) /\ Counted(l)
  BY DEF RowInv, FetchInv, CountInv
<1>2. ack[l].step \in Nat /\ job[l].seq \in Nat /\ seqDev[l] \in Nat
  BY DEF RowInv, MoreTypes, FetchInv, FetchTypes, Job
<1>3. job[l].seq = seqDev[l] /\ ~job[l].failed /\ ~job[l].active
  BY <1>1, <1>2 DEF Numbers
<1>4. Demanded(l) = {}
  BY <1>1, <1>3 DEF Counted
<1> QED BY <1>1, <1>3, <1>4 DEF Served

\* A lookup's CTA is through, or its kernel has ended.
LEMMA CtaLeaves ==
  ASSUME MoreTypes, NEW l \in Layers, NEW c \in Ctas, CtaEnds(l, c)
  PROVE  /\ gpu' \in [Layers -> {"idle", "publishing", "waiting"}]
         /\ cta' \in [Layers -> [Ctas -> {"new", "spin", "out"}]]
         /\ \A m \in Layers \ {l} : gpu'[m] = gpu[m] /\ cta'[m] = cta[m]
         /\ \/ /\ gpu'[l] = "idle" /\ \A d \in Ctas : cta'[l][d] = "new"
               /\ \A d \in Ctas \ {c} : cta[l][d] = "out"
            \/ /\ gpu'[l] = gpu[l] /\ cta'[l][c] = "out"
               /\ \A d \in Ctas \ {c} : cta'[l][d] = cta[l][d]
<1>1. cta \in [Layers -> [Ctas -> {"new", "spin", "out"}]] /\ cta[l] \in [Ctas -> {"new", "spin", "out"}]
  BY DEF MoreTypes
<1>2. CASE \A d \in Ctas \ {c} : cta[l][d] = "out"
  <2>1. /\ cta' = [cta EXCEPT ![l] = [d \in Ctas |-> "new"]]
        /\ gpu' = [gpu EXCEPT ![l] = "idle"]
    BY <1>2 DEF CtaEnds
  <2>2. [d \in Ctas |-> "new"] \in [Ctas -> {"new", "spin", "out"}]
    OBVIOUS
  <2> QED BY <1>1, <1>2, <2>1, <2>2 DEF MoreTypes
<1>3. CASE ~\A d \in Ctas \ {c} : cta[l][d] = "out"
  <2>1. cta' = [cta EXCEPT ![l][c] = "out"] /\ gpu' = gpu
    BY <1>3 DEF CtaEnds
  <2>2. [cta[l] EXCEPT ![c] = "out"] \in [Ctas -> {"new", "spin", "out"}]
    BY <1>1
  <2>3. cta'[l] = [cta[l] EXCEPT ![c] = "out"] /\ \A m \in Layers \ {l} : cta'[m] = cta[m]
    BY <1>1, <2>1
  <2>4. cta' \in [Layers -> [Ctas -> {"new", "spin", "out"}]]
    BY <1>1, <2>1, <2>2
  <2>5. cta'[l][c] = "out" /\ \A d \in Ctas \ {c} : cta'[l][d] = cta[l][d]
    BY <1>1, <2>3
  <2> QED BY <2>1, <2>3, <2>4, <2>5 DEF MoreTypes
<1> QED BY <1>2, <1>3

\* What a CTA copies keeps what the others did.
LEMMA CopyKeeps ==
  ASSUME FetchInv, RowInv, NEW l \in Layers, NEW c \in Ctas, gpu[l] = "waiting",
         ack[l].step = seqDev[l], ack[l].status = 0
  PROVE  /\ Landed(l, c) \in Seq(RowBytes) /\ DOMAIN Landed(l, c) = DOMAIN req[l].ids
         /\ \A i \in DOMAIN req[l].ids : i % NCtas = c => Landed(l, c)[i] = Right(l)[i]
         /\ \A d \in Ctas \ {c} : Copied(l, d) => \A i \in DOMAIN req[l].ids :
              i % NCtas = d => Landed(l, c)[i] = Right(l)[i]
<1>1. /\ DOMAIN req[l].ids = 1 .. Len(req[l].ids) /\ Len(req[l].ids) \in Nat
      /\ \A i \in DOMAIN req[l].ids : Right(l)[i] \in RowBytes
  BY RightIsRows DEF FetchInv
<1>2. \A i \in DOMAIN req[l].ids : staging[l][i] = Right(l)[i]
  BY AckedRight
<1>3. land[l] \in Seq(RowBytes) /\ Zero \in RowBytes
  BY DEF RowInv, MoreTypes, RowBytes
<1> DEFINE n == Len(req[l].ids)
           row(i) == IF i % NCtas = c THEN staging[l][i]
                     ELSE IF i \in DOMAIN land[l] THEN land[l][i] ELSE Zero
<1>4. Landed(l, c) = [i \in 1 .. n |-> row(i)]
  BY DEF Landed
<1>5. \A i \in 1 .. n : row(i) \in RowBytes
  BY <1>1, <1>2, <1>3
<1>6. \A i \in 1 .. n : i % NCtas = c => row(i) = Right(l)[i]
  BY <1>1, <1>2
<1>7. ASSUME NEW d \in Ctas \ {c}, Copied(l, d), NEW i \in 1 .. n, i % NCtas = d
      PROVE  row(i) = Right(l)[i]
  BY <1>1, <1>7 DEF Copied
<1> HIDE DEF row, n
<1>8. Landed(l, c) \in Seq(RowBytes)
  BY <1>1, <1>4, <1>5 DEF n
<1> QED BY <1>1, <1>4, <1>6, <1>7, <1>8 DEF n

\* A step of layer l's wait kernel, and what it leaves when the error word is clear.
LEMMA WaitStep ==
  ASSUME FetchInv, RowInv, NEW l \in Layers, NEW c \in Ctas,
         Enter(l, c) \/ Copy(l, c) \/ TimeOut(l, c)
  PROVE  /\ gpu[l] = "waiting" /\ cta[l][c] # "out"
         /\ gpu' \in [Layers -> {"idle", "publishing", "waiting"}]
         /\ cta' \in [Layers -> [Ctas -> {"new", "spin", "out"}]]
         /\ land' \in [Layers -> Seq(RowBytes)] /\ err' \in {0, 1, 17}
         /\ \A m \in Layers \ {l} : gpu'[m] = gpu[m] /\ cta'[m] = cta[m] /\ land'[m] = land[m]
         /\ err' = 0 => /\ err = 0
              /\ \/ /\ cta'[l][c] = "spin" /\ gpu' = gpu /\ land' = land
                    /\ \A d \in Ctas \ {c} : cta'[l][d] = cta[l][d]
                 \/ /\ ack[l].step = seqDev[l] /\ ack[l].status = 0
                    /\ land'[l] = Landed(l, c) /\ CtaEnds(l, c)
         /\ \/ gpu'[l] = "waiting"
            \/ gpu'[l] = "idle" /\ \A d \in Ctas : cta'[l][d] = "new"
<1>1. MoreTypes
  BY DEF RowInv
<1>2. CASE Enter(l, c)
  <2>1. CASE err = 0
    <3>1. /\ gpu[l] = "waiting" /\ cta[l][c] = "new" /\ UNCHANGED <<gpu, land, err>>
          /\ cta' = [cta EXCEPT ![l][c] = "spin"]
      BY <1>2, <2>1 DEF Enter, CtaIs, mailVars
    <3>2. cta \in [Layers -> [Ctas -> {"new", "spin", "out"}]] /\ cta[l] \in [Ctas -> {"new", "spin", "out"}]
      BY <1>1 DEF MoreTypes
    <3>3. [cta[l] EXCEPT ![c] = "spin"] \in [Ctas -> {"new", "spin", "out"}]
      BY <3>2
    <3>4. cta' \in [Layers -> [Ctas -> {"new", "spin", "out"}]]
      BY <3>1, <3>2, <3>3
    <3>5. /\ cta'[l] = [cta[l] EXCEPT ![c] = "spin"]
          /\ \A m \in Layers \ {l} : cta'[m] = cta[m]
      BY <3>1, <3>2
    <3>6. cta'[l][c] = "spin" /\ \A d \in Ctas \ {c} : cta'[l][d] = cta[l][d]
      BY <3>2, <3>5
    <3> QED BY <1>1, <2>1, <3>1, <3>4, <3>5, <3>6 DEF MoreTypes
  <2>2. CASE err # 0
    <3>1. CtaEnds(l, c) /\ gpu[l] = "waiting" /\ cta[l][c] = "new" /\ UNCHANGED <<land, err>>
      BY <1>2, <2>2 DEF Enter, CtaIs, mailVars
    <3> QED BY <1>1, <2>2, <3>1, CtaLeaves DEF MoreTypes
  <2> QED BY <2>1, <2>2
<1>3. CASE Copy(l, c)
  <2>1. /\ CtaEnds(l, c) /\ gpu[l] = "waiting" /\ cta[l][c] = "spin"
        /\ ack[l].step = seqDev[l]
    BY <1>3 DEF Copy, CtaIs
  <2>2. CASE ack[l].status = 0
    <3>1. land' = [land EXCEPT ![l] = Landed(l, c)] /\ UNCHANGED err
      BY <1>3, <2>2 DEF Copy
    <3>2. Landed(l, c) \in Seq(RowBytes)
      BY <2>1, <2>2, CopyKeeps
    <3> QED BY <1>1, <2>1, <2>2, <3>1, <3>2, CtaLeaves DEF MoreTypes
  <2>3. CASE ack[l].status # 0
    <3>1. ack[l].status = 1
      BY <1>1, <2>3 DEF MoreTypes
    <3>2. err' = 17 /\ UNCHANGED land
      BY <1>3, <2>3, <3>1 DEF Copy
    <3> QED BY <1>1, <2>1, <3>2, CtaLeaves DEF MoreTypes
  <2> QED BY <2>2, <2>3
<1>4. CASE TimeOut(l, c)
  <2>1. /\ CtaEnds(l, c) /\ gpu[l] = "waiting" /\ cta[l][c] = "spin"
        /\ err' = 1 /\ UNCHANGED land
    BY <1>4 DEF TimeOut, CtaIs
  <2> QED BY <1>1, <2>1, CtaLeaves DEF MoreTypes
<1> QED BY <1>2, <1>3, <1>4

LEMMA GpuRows ==
  ASSUME FetchInv, RowInv, NEW l \in Layers, NEW c \in Ctas,
         PublishIds(l) \/ PublishStep(l) \/ Enter(l, c) \/ Copy(l, c) \/ TimeOut(l, c) \/ ClearError
  PROVE  RowInv'
<1> USE DEF rowVars, pollVars, aheadVars, mailVars, gpuVars
<1>1. /\ MoreTypes /\ EntryInv /\ CacheInv /\ FetchTypes
      /\ \A m \in Layers : Numbers(m) /\ Served(m) /\ Landings(m)
  BY DEF RowInv, FetchInv
<1>2. UNCHANGED <<at, scan, busy, expected, job, entry, queued, reads, cache, ringErr, plans, ack, staging>>
  BY DEF PublishIds, PublishStep, Enter, Copy, TimeOut, ClearError
<1>3. EntryInv' /\ CacheInv'
  BY <1>1, <1>2 DEF EntryInv, CacheInv
<1>4. \A m : (Beginning(m)' <=> Beginning(m)) /\ Demanded(m)' = Demanded(m)
  BY <1>2 DEF Beginning, Demanded
<1>5. CASE PublishIds(l)
  <2>1. /\ gpu[l] = "idle" /\ gpu' = [gpu EXCEPT ![l] = "publishing"]
        /\ UNCHANGED <<seqDev, cta, land, err>>
    BY <1>5 DEF PublishIds
  <2>2. PICK r \in Requests[l] : req' = [req EXCEPT ![l].ids = r]
    BY <1>5 DEF PublishIds
  <2>3. /\ \A m \in Layers : req'[m].step = req[m].step
        /\ \A m \in Layers \ {l} : req'[m] = req[m] /\ gpu'[m] = gpu[m]
        /\ gpu'[l] = "publishing"
    BY <1>1, <2>1, <2>2 DEF FetchTypes, MoreTypes
  <2>4. MoreTypes'
    BY <1>1, <1>2, <2>1 DEF MoreTypes
  <2>5. ASSUME NEW m \in Layers PROVE Numbers(m)' /\ Served(m)' /\ Landings(m)'
    <3>1. Numbers(m)'
      BY <1>1, <1>2, <1>4, <2>1, <2>3 DEF Numbers
    <3>2. CASE m = l
      BY <1>1, <2>1, <2>3, <3>1, <3>2 DEF Served, Landings
    <3>3. CASE m # l
      <4>1. Right(m)' = Right(m)
        BY <2>3, <3>3 DEF Right
      <4>2. Served(m)'
        BY <1>1, <1>2, <1>4, <2>1, <2>3, <3>3, <4>1 DEF Served
      <4>3. Landings(m)'
        BY <1>1, <1>2, <2>1, <2>3, <3>3, <4>1 DEF Landings, Copied
      <4> QED BY <3>1, <4>2, <4>3
    <3> QED BY <3>2, <3>3
  <2> QED BY <1>3, <2>4, <2>5 DEF RowInv
<1>6. CASE PublishStep(l)
  <2>1. /\ gpu[l] = "publishing" /\ gpu' = [gpu EXCEPT ![l] = "waiting"]
        /\ seqDev' = [seqDev EXCEPT ![l] = @ + 1] /\ req' = [req EXCEPT ![l].step = seqDev'[l]]
        /\ UNCHANGED <<cta, land, err>>
    BY <1>6 DEF PublishStep
  <2>2. /\ \A m \in Layers : req'[m].ids = req[m].ids
        /\ \A m \in Layers \ {l} : req'[m] = req[m] /\ gpu'[m] = gpu[m] /\ seqDev'[m] = seqDev[m]
        /\ req'[l].step = seqDev'[l] /\ seqDev'[l] = seqDev[l] + 1 /\ seqDev[l] \in Nat
    BY <1>1, <2>1 DEF FetchTypes, MoreTypes
  <2>3. MoreTypes'
    BY <1>1, <1>2, <2>1 DEF MoreTypes
  <2>4. ASSUME NEW m \in Layers PROVE Numbers(m)' /\ Served(m)' /\ Landings(m)'
    <3>1. Right(m)' = Right(m)
      BY <2>2 DEF Right
    <3>2. CASE m = l
      <4>1. job[l].seq \in Nat /\ ack[l].step \in Nat
        BY <1>1 DEF FetchTypes, MoreTypes, Job
      <4>2. job[l].seq < seqDev'[l] /\ job[l].seq <= seqDev'[l]
        BY <1>1, <2>2, <4>1 DEF Numbers
      <4>3. Numbers(l)'
        BY <1>1, <1>2, <1>4, <2>2, <4>2 DEF Numbers
      <4>4. Served(l)'
        BY <1>2, <2>2, <4>1, <4>2 DEF Served
      <4>5. Landings(l)'
        BY <1>1, <2>1 DEF Landings
      <4> QED BY <3>2, <4>3, <4>4, <4>5
    <3>3. CASE m # l
      <4>1. Numbers(m)'
        BY <1>1, <1>2, <1>4, <2>1, <2>2, <3>3 DEF Numbers
      <4>2. Served(m)'
        BY <1>1, <1>2, <1>4, <2>1, <2>2, <3>1, <3>3 DEF Served
      <4>3. Landings(m)'
        BY <1>1, <1>2, <2>1, <2>2, <3>1, <3>3 DEF Landings, Copied
      <4> QED BY <4>1, <4>2, <4>3
    <3> QED BY <3>2, <3>3
  <2> QED BY <1>3, <2>3, <2>4 DEF RowInv
<1>7. CASE Enter(l, c) \/ Copy(l, c) \/ TimeOut(l, c)
  <2>1. UNCHANGED <<seqDev, req>>
    BY <1>7 DEF Enter, Copy, TimeOut
  <2>2. MoreTypes'
    BY <1>1, <1>2, <1>7, WaitStep DEF MoreTypes
  <2>3. \A m : Right(m)' = Right(m)
    BY <2>1 DEF Right
  <2>4. ASSUME NEW m \in Layers PROVE Numbers(m)' /\ Served(m)' /\ Landings(m)'
    <3>1. gpu'[m] = "waiting" => gpu[m] = "waiting"
      BY <1>7, WaitStep
    <3>2. Numbers(m)'
      BY <1>1, <1>2, <1>4, <2>1 DEF Numbers
    <3>3. Served(m)'
      BY <1>1, <1>2, <1>4, <2>1, <2>3, <3>1 DEF Served
    <3>4. CASE m # l
      <4>1. /\ gpu'[m] = gpu[m] /\ cta'[m] = cta[m] /\ land'[m] = land[m] /\ (err' = 0 => err = 0)
        BY <1>7, <3>4, WaitStep
      <4>2. Landings(m)'
        BY <1>1, <2>1, <2>3, <4>1 DEF Landings, Copied
      <4> QED BY <3>2, <3>3, <4>2
    <3>5. CASE m = l
      <4>1. gpu'[l] # "waiting" => \A d \in Ctas : cta'[l][d] = "new"
        BY <1>7, WaitStep
      <4>2. ASSUME gpu'[l] = "waiting", err' = 0, NEW d \in Ctas, cta'[l][d] = "out"
            PROVE  Copied(l, d)'
        <5>1. gpu[l] = "waiting" /\ err = 0
          BY <1>7, <4>2, WaitStep
        <5>2. CASE /\ cta'[l][c] = "spin" /\ land' = land
                   /\ \A x \in Ctas \ {c} : cta'[l][x] = cta[l][x]
          <6>1. Copied(l, d)
            BY <1>1, <4>2, <5>1, <5>2 DEF Landings
          <6> QED BY <2>1, <2>3, <5>2, <6>1 DEF Copied
        <5>3. CASE /\ ack[l].step = seqDev[l] /\ ack[l].status = 0
                   /\ land'[l] = Landed(l, c) /\ CtaEnds(l, c)
          <6>1. \A x \in Ctas \ {c} : cta'[l][x] = cta[l][x]
            BY <1>1, <4>2, <5>3, CtaLeaves
          <6>2. CASE d = c
            BY <2>1, <2>3, <5>1, <5>3, <6>2, CopyKeeps DEF Copied
          <6>3. CASE d # c
            <7>1. Copied(l, d)
              BY <1>1, <4>2, <5>1, <6>1, <6>3 DEF Landings
            <7> QED BY <2>1, <2>3, <5>1, <5>3, <6>3, <7>1, CopyKeeps DEF Copied
          <6> QED BY <6>2, <6>3
        <5> QED BY <1>7, <4>2, <5>2, <5>3, WaitStep
      <4>3. Landings(l)'
        BY <4>1, <4>2 DEF Landings
      <4> QED BY <3>2, <3>3, <3>5, <4>3
    <3> QED BY <3>4, <3>5
  <2> QED BY <1>3, <2>2, <2>4 DEF RowInv
<1>8. CASE ClearError
  <2>1. (\A m \in Layers : gpu[m] = "idle") /\ err' = 0 /\ UNCHANGED <<gpu, seqDev, cta, land, req>>
    BY <1>8 DEF ClearError
  <2>2. MoreTypes'
    BY <1>1, <1>2, <2>1 DEF MoreTypes
  <2>3. ASSUME NEW m \in Layers PROVE Numbers(m)' /\ Served(m)' /\ Landings(m)'
    <3>1. Numbers(m)'
      BY <1>1, <1>2, <1>4, <2>1 DEF Numbers
    <3> QED BY <1>1, <2>1, <3>1 DEF Served, Landings
  <2> QED BY <1>3, <2>2, <2>3 DEF RowInv
<1> QED BY <1>5, <1>6, <1>7, <1>8
-----------------------------------------------------------------------------
(* The rows: the poll *)

\* A step that touches neither the GPU nor the requests leaves the landings.
LEMMA SameLandings ==
  ASSUME RowInv, NEW l \in Layers, UNCHANGED <<gpu, cta, land, req, err>>
  PROVE  Landings(l)'
<1>1. Landings(l) /\ Right(l)' = Right(l)
  BY DEF RowInv, Right
<1> QED BY <1>1 DEF Landings, Copied

\* A layer whose job, staging and rows a step leaves alone is served as before.
LEMMA SameServed ==
  ASSUME RowInv, NEW l \in Layers, UNCHANGED <<gpu, seqDev, req>>,
         staging'[l] = staging[l], job'[l].seq = job[l].seq, job[l].failed => job'[l].failed,
         Demanded(l)' = Demanded(l), \A k \in Demanded(l) : entry'[k].dsts = entry[k].dsts
  PROVE  Served(l)'
<1>1. Served(l) /\ Right(l)' = Right(l)
  BY DEF RowInv, Right
<1> QED BY <1>1 DEF Served

LEMMA SameNumbers ==
  ASSUME RowInv, NEW l \in Layers, UNCHANGED <<seqDev, req>>, ack'[l] = ack[l],
         expected'[l] = expected[l], job'[l].seq = job[l].seq, job'[l].active = job[l].active,
         job[l].active \/ job'[l].failed = job[l].failed, Beginning(l)' <=> Beginning(l)
  PROVE  Numbers(l)'
<1>1. Numbers(l)
  BY DEF RowInv
<1>2. job[l].active => ack[l].step # job[l].seq
  <2>1. CASE job[l].active
    <3>1. ack[l].step < job[l].seq
      BY <1>1, <2>1 DEF Numbers
    <3>2. ack[l].step \in Nat
      BY DEF RowInv, MoreTypes
    <3> QED BY <3>1, <3>2
  <2> QED BY <2>1
<1> QED BY <1>1, <1>2 DEF Numbers

\* The steps that move the poll on, the kernel's and the lookahead's.
LEMMA QuietRows ==
  ASSUME FetchInv, RowInv,
         UNCHANGED <<gpuVars, mailVars, expected, job, entry, cache>>,
         \A x \in DOMAIN reads' : reads'[x] \in {"queued", "flight", "done", "short"},
         at' \in {"scan", "reap", "issue", "wait", "conclude"}, scan' \in 1 .. NLayers + 1,
         busy' \in BOOLEAN, ringErr' \in BOOLEAN, plans' \in Nat,
         \A l \in Layers : Beginning(l)' <=> Beginning(l)
  PROVE  RowInv'
<1> USE DEF gpuVars, mailVars
<1>1. MoreTypes' /\ EntryInv' /\ CacheInv'
  BY DEF RowInv, MoreTypes, EntryInv, CacheInv
<1>2. ASSUME NEW l \in Layers PROVE Numbers(l)' /\ Served(l)' /\ Landings(l)'
  <2>1. Demanded(l)' = Demanded(l)
    BY DEF Demanded
  <2> QED BY <2>1, SameLandings, SameServed, SameNumbers
<1> QED BY <1>1, <1>2 DEF RowInv

LEMMA MovesRows ==
  ASSUME FetchInv, RowInv,
         Wait \/ ReapDone \/ PollReap \/ Complete \/ Schedule \/ Queue \/ PrefetchClear \/ UNCHANGED vars
  PROVE  RowInv'
<1> USE DEF rowVars, pollVars, aheadVars, vars
<1>1. UNCHANGED <<gpuVars, mailVars, expected, job, entry, cache, queued, ringErr>>
  BY DEF Wait, ReapDone, PollReap, Complete, Schedule, Queue, PrefetchClear
<1>2. MoreTypes /\ PollInv /\ FetchTypes
  BY DEF RowInv, FetchInv
<1>3. \A x \in DOMAIN reads' : reads'[x] \in {"queued", "flight", "done", "short"}
  <2>1. CASE Complete
    <3>1. PICK x \in DOMAIN reads, r \in {"done", "short"} : reads' = [reads EXCEPT ![x] = r]
      BY <2>1 DEF Complete
    <3> QED BY <1>2, <3>1 DEF MoreTypes
  <2>2. CASE ~Complete
    <3>1. reads' = reads
      BY <2>2 DEF Wait, ReapDone, PollReap, Schedule, Queue, PrefetchClear
    <3> QED BY <1>2, <3>1 DEF MoreTypes
  <2> QED BY <2>1, <2>2
<1>4. /\ at' \in {"scan", "reap", "issue", "wait", "conclude"} /\ scan' \in 1 .. NLayers + 1
      /\ busy' \in BOOLEAN /\ plans' \in Nat
      /\ \A l \in Layers : Beginning(l)' <=> Beginning(l)
  <2>1. NLayers \in Nat \ {0}
    BY EngramAssumption
  <2>2. CASE Wait
    <3>1. at = "wait" /\ at' = "reap" /\ queued # <<>> /\ UNCHANGED <<scan, busy, plans, queued>>
      BY <1>1, <1>2, <2>2 DEF Wait, PollInv
    <3>2. scan \in 1 .. NLayers + 1 /\ busy \in BOOLEAN /\ plans \in Nat
      BY <1>2 DEF MoreTypes
    <3> QED BY <3>1, <3>2 DEF Beginning
  <2>3. CASE ReapDone
    <3>1. at = "reap" /\ UNCHANGED <<plans, queued>>
      BY <1>1, <2>3 DEF ReapDone
    <3>2. scan \in 1 .. NLayers + 1 /\ busy \in BOOLEAN /\ plans \in Nat
      BY <1>2 DEF MoreTypes
    <3>3. CASE queued # <<>>
      <4>1. at' = "issue" /\ UNCHANGED <<scan, busy>>
        BY <2>3, <3>3 DEF ReapDone
      <4> QED BY <3>1, <3>2, <3>3, <4>1 DEF Beginning
    <3>4. CASE queued = <<>>
      <4>1. at' = "scan" /\ scan' = 1 /\ busy' = FALSE
        BY <2>3, <3>4 DEF ReapDone
      <4>2. \A l \in Layers : ~Beginning(l)' /\ ~Beginning(l)
        BY <3>1, <3>4, <4>1 DEF Beginning
      <4>3. scan' \in 1 .. NLayers + 1
        BY <2>1, <4>1
      <4> QED BY <3>1, <3>2, <4>1, <4>2, <4>3
    <3> QED BY <3>3, <3>4
  <2>4. CASE PollReap
    BY <1>1, <1>2, <2>4 DEF PollReap, LayersDone, MoreTypes, PollInv, InBegin, Beginning
  <2>5. CASE Complete \/ Schedule \/ Queue \/ PrefetchClear \/ UNCHANGED vars
    BY <1>1, <1>2, <2>5 DEF Complete, Schedule, Queue, PrefetchClear, MoreTypes, Beginning
  <2> QED BY <2>2, <2>3, <2>4, <2>5
<1>5. ringErr' \in BOOLEAN
  BY <1>1, <1>2 DEF MoreTypes
<1> QED BY <1>1, <1>3, <1>4, <1>5, QuietRows

LEMMA ResyncRows ==
  ASSUME FetchInv, RowInv, at = "scan", NEW l \in Layers, Resyncs(l), Resync(l),
         UNCHANGED <<gpuVars, req, err, aheadVars>>
  PROVE  RowInv'
<1> USE DEF gpuVars, aheadVars, rowVars
<1>1. /\ UNCHANGED <<gpu, seqDev, cta, land, req, err, ack, staging, at, busy, job, entry,
                     queued, reads, cache, ringErr, plans>>
      /\ expected' = [expected EXCEPT ![l] = req[l].step] /\ scan' = l + 1
  BY DEF Resync
<1>2. MoreTypes /\ FetchTypes /\ EntryInv /\ CacheInv
  BY DEF RowInv, FetchInv
<1>3. \A m \in Layers : ~Beginning(m) /\ ~Beginning(m)' /\ Demanded(m)' = Demanded(m)
  BY <1>1 DEF Beginning, Demanded
<1>4. MoreTypes'
  <2>1. scan' \in 1 .. NLayers + 1
    BY <1>1, EngramAssumption DEF Layers
  <2>2. req[l].step \in Nat
    BY <1>2 DEF FetchTypes
  <2> QED BY <1>1, <1>2, <2>1, <2>2 DEF MoreTypes
<1>5. EntryInv' /\ CacheInv'
  BY <1>1, <1>2 DEF EntryInv, CacheInv
<1>6. ASSUME NEW m \in Layers PROVE Numbers(m)' /\ Served(m)' /\ Landings(m)'
  <2>1. Served(m)' /\ Landings(m)'
    BY <1>1, <1>3, SameServed, SameLandings
  <2>2. CASE m = l
    <3>1. Numbers(l) /\ ~Beginning(l)
      BY <1>3 DEF RowInv
    <3>2. /\ expected'[l] = req[l].step /\ req[l].step > expected[l]
          /\ expected[l] \in Nat /\ req[l].step \in Nat /\ job[l].seq \in Nat
      BY <1>1, <1>2 DEF Resyncs, MoreTypes, FetchTypes, Job
    <3>3. job[l].seq < expected'[l]
      BY <3>1, <3>2 DEF Numbers
    <3> QED BY <1>1, <1>3, <2>1, <2>2, <3>1, <3>3 DEF Numbers
  <2>3. CASE m # l
    <3>1. expected'[m] = expected[m]
      BY <1>1, <1>2, <2>3 DEF MoreTypes
    <3> QED BY <1>1, <1>3, <2>1, <3>1, SameNumbers
  <2> QED BY <2>2, <2>3
<1> QED BY <1>4, <1>5, <1>6 DEF RowInv

LEMMA BeginRows ==
  ASSUME FetchInv, FetchInv', RowInv, at = "scan", NEW l \in Layers, Begins(l), Begin(l),
         UNCHANGED <<gpuVars, req, err, aheadVars>>
  PROVE  RowInv'
<1> USE DEF gpuVars, aheadVars
<1> DEFINE ids == req[l].ids
           wanted == {<<l, id>> : id \in (ToSet(ids) \cap Owned) \ DOMAIN cache[l]}
           new == wanted \ DOMAIN entry
           Rows(k) == {i \in DOMAIN ids : ids[i] = k[2]}
           e == [k \in DOMAIN entry \cup new |->
                   IF k \in new THEN FreshEntry(Rows(k))
                   ELSE IF k \in wanted THEN [entry[k] EXCEPT !.demand = TRUE, !.dsts = @ \cup Rows(k)]
                   ELSE entry[k]]
           row(i) == IF ids[i] \notin Owned THEN Zero
                     ELSE IF ids[i] \in DOMAIN cache[l] THEN cache[l][ids[i]] ELSE Torn
           rem == 1 + Cardinality(new \cup Adopted(wanted))
<1>1. /\ staging' = [staging EXCEPT ![l] = [i \in DOMAIN ids |-> row(i)]]
      /\ entry' = e
      /\ job' = [job EXCEPT ![l] = [active |-> TRUE, seq |-> req[l].step, failed |-> FALSE,
                                    remaining |-> rem]]
      /\ queued' = SetToSeq(new)
      /\ at' = (IF new = {} THEN "conclude" ELSE "issue")
      /\ scan' = l
      /\ UNCHANGED <<busy, expected, reads, cache, ringErr, ack, gpu, seqDev, cta, land, req, err, plans>>
  BY DEF Begin
<1>2. /\ MoreTypes /\ EntryInv /\ CacheInv /\ FetchTypes
      /\ \A m \in Layers : Numbers(m) /\ Served(m) /\ Landings(m) /\ Counted(m)
      /\ ~job[l].active /\ req[l].step = expected[l]
  BY DEF RowInv, FetchInv, CountInv, Begins, MayBegin
<1>3. /\ DOMAIN ids = 1 .. Len(ids) /\ Len(ids) \in Nat
      /\ \A i \in DOMAIN ids : ids[i] \in Ids
  BY <1>2, RightIsRows
<1>4. \A i \in DOMAIN ids : ids[i] \in ToSet(ids)
  BY DEF ToSet
<1>5. /\ \A i \in DOMAIN ids : row(i) \in RowBytes
      /\ \A i \in DOMAIN ids : row(i) = Right(l)[i] \/ <<l, ids[i]>> \in wanted
  <2>1. ASSUME NEW i \in DOMAIN ids
        PROVE  row(i) \in RowBytes /\ (row(i) = Right(l)[i] \/ <<l, ids[i]>> \in wanted)
    <3>1. Right(l)[i] = IF ids[i] \in Owned THEN ids[i] ELSE Zero
      BY DEF Right
    <3>2. CASE ids[i] \in Owned /\ ids[i] \notin DOMAIN cache[l]
      BY <1>4, <3>2 DEF RowBytes
    <3>3. CASE ids[i] \in Owned /\ ids[i] \in DOMAIN cache[l]
      <4>1. cache[l][ids[i]] = ids[i]
        BY <1>2, <3>3 DEF CacheInv
      <4> QED BY <1>3, <3>1, <3>3, <4>1 DEF RowBytes
    <3>4. CASE ids[i] \notin Owned
      BY <3>1, <3>4 DEF RowBytes
    <3> QED BY <3>2, <3>3, <3>4
  <2> QED BY <2>1
<1>6. /\ DOMAIN e = DOMAIN entry \cup new
      /\ \A k \in new : e[k] = FreshEntry(Rows(k))
      /\ \A k \in wanted \ new : e[k] = [entry[k] EXCEPT !.demand = TRUE, !.dsts = @ \cup Rows(k)]
      /\ \A k \in DOMAIN entry \ wanted : e[k] = entry[k]
  OBVIOUS
<1>7. \A k \in wanted : k[1] = l
  OBVIOUS
<1> HIDE DEF e, row, rem
<1>8. Demanded(l) = {}
  BY <1>2 DEF Counted
<1>9. /\ \A k \in DOMAIN entry : entry[k] \in Row
      /\ \A k \in wanted \ new : entry[k].dsts = {} /\ ~entry[k].demand /\ entry[k] \in Row
  <2>1. \A k \in wanted \ new : k \in DOMAIN entry /\ k[1] = l
    BY <1>7
  <2>2. \A k \in wanted \ new : ~entry[k].demand
    BY <1>8, <2>1 DEF Demanded
  <2> QED BY <1>2, <2>1, <2>2 DEF EntryInv, FetchTypes
<1> HIDE DEF wanted, new
<1>10. /\ \A k \in new : /\ e[k].demand /\ e[k].dsts = Rows(k)
                          /\ e[k].halves = {} /\ e[k].got = {}
       /\ \A k \in wanted \ new : /\ e[k].demand /\ e[k].dsts = Rows(k)
                            /\ e[k].halves = entry[k].halves /\ e[k].got = entry[k].got
                            /\ e[k].failed = entry[k].failed
  <2>1. ASSUME NEW k \in new
        PROVE  e[k].demand /\ e[k].dsts = Rows(k) /\ e[k].halves = {} /\ e[k].got = {}
    <3>1. e[k] = FreshEntry(Rows(k))
      BY <1>6
    <3> HIDE DEF Rows
    <3> QED BY <3>1 DEF FreshEntry
  <2>2. ASSUME NEW k \in wanted \ new
        PROVE  /\ e[k].demand /\ e[k].dsts = Rows(k) /\ e[k].halves = entry[k].halves
               /\ e[k].got = entry[k].got /\ e[k].failed = entry[k].failed
    <3> HIDE DEF Rows
    <3>1. e[k] = [entry[k] EXCEPT !.demand = TRUE, !.dsts = @ \cup Rows(k)]
      BY <1>6
    <3> QED BY <1>9, <3>1 DEF Row
  <2> QED BY <2>1, <2>2
<1>11. new \subseteq wanted /\ wanted \subseteq new \cup DOMAIN entry
  BY DEF new
<1> HIDE DEF Rows
<1>12. EntryInv'
  <2>1. ASSUME NEW k \in DOMAIN entry'
        PROVE  /\ ~entry'[k].failed => entry'[k].got = entry'[k].halves
               /\ ~entry'[k].demand => entry'[k].dsts = {}
    <3>1. CASE k \in new
      BY <1>1, <1>10, <3>1
    <3>2. CASE k \in wanted \ new
      <4>1. k \in DOMAIN entry
        BY <1>11, <3>2
      <4> QED BY <1>1, <1>2, <1>10, <3>2, <4>1 DEF EntryInv
    <3>3. CASE k \notin wanted
      <4>1. k \in DOMAIN entry \ wanted
        BY <1>1, <1>6, <1>11, <2>1, <3>3
      <4> QED BY <1>1, <1>2, <1>6, <4>1 DEF EntryInv
    <3> QED BY <3>1, <3>2, <3>3
  <2> QED BY <2>1 DEF EntryInv
<1>13. CacheInv'
  BY <1>1, <1>2 DEF CacheInv
<1>14. MoreTypes'
  <2>1. scan' \in 1 .. NLayers + 1 /\ at' \in {"scan", "reap", "issue", "wait", "conclude"}
    BY <1>1, EngramAssumption DEF Layers
  <2>2. [i \in DOMAIN ids |-> row(i)] \in Seq(RowBytes)
    BY <1>3, <1>5
  <2>3. staging' \in [Layers -> Seq(RowBytes)]
    <3>1. staging \in [Layers -> Seq(RowBytes)]
      BY <1>2 DEF MoreTypes
    <3> HIDE DEF ids
    <3> QED BY <1>1, <2>2, <3>1
  <2> QED BY <1>1, <1>2, <2>1, <2>3 DEF MoreTypes
<1>15. ASSUME NEW m \in Layers, m # l PROVE Numbers(m)' /\ Served(m)'
  <2>1. staging'[m] = staging[m] /\ job'[m] = job[m]
    BY <1>1, <1>2, <1>15 DEF MoreTypes, FetchTypes
  <2>2. ASSUME NEW k, k[1] = m
        PROVE  /\ k \in DOMAIN entry' <=> k \in DOMAIN entry
               /\ k \in DOMAIN entry => entry'[k] = entry[k]
    BY <1>1, <1>6, <1>7, <1>11, <1>15, <2>2
  <2>3. Demanded(m)' = Demanded(m) /\ \A k \in Demanded(m) : entry'[k].dsts = entry[k].dsts
    BY <2>2 DEF Demanded
  <2>4. ~Beginning(m)' /\ ~Beginning(m)
    BY <1>1, <1>15 DEF Beginning
  <2> QED BY <1>1, <2>1, <2>3, <2>4, SameNumbers, SameServed
<1>16. /\ job'[l].active /\ job'[l].seq = req[l].step /\ ~job'[l].failed
       /\ staging'[l] = [i \in DOMAIN ids |-> row(i)]
  <2> HIDE DEF ids
  <2> QED BY <1>1, <1>2 DEF MoreTypes, FetchTypes
<1>17. Numbers(l)'
  <2>1. ~Beginning(l)
    BY DEF Beginning
  <2>2. Beginning(l)'
    BY <1>1 DEF Beginning
  <2>3. /\ job[l].seq \in Nat /\ expected[l] \in Nat /\ seqDev[l] \in Nat
        /\ ack[l].step \in Nat /\ req[l].step \in Nat
    BY <1>2 DEF FetchTypes, MoreTypes, Job
  <2>4. ack[l].step < req[l].step /\ req[l].step = seqDev[l]
    BY <1>2, <2>1, <2>3 DEF Numbers
  <2>5. ack'[l] = ack[l] /\ req'[l].step = req[l].step /\ seqDev'[l] = seqDev[l] /\ expected'[l] = req[l].step
    BY <1>1, <1>2
  <2> QED BY <1>16, <2>2, <2>3, <2>4, <2>5 DEF Numbers
<1>18. Served(l)'
  <2>1. Right(l)' = Right(l) /\ req'[l].ids = ids
    BY <1>1 DEF Right
  <2>2. ASSUME NEW k \in Demanded(l)' PROVE k \in wanted /\ entry'[k].dsts = Rows(k)
    <3>1. k \in DOMAIN entry' /\ k[1] = l /\ entry'[k].demand
      BY <2>2 DEF Demanded
    <3>2. k \in wanted
      <4>1. SUFFICES ASSUME k \notin wanted PROVE FALSE
        OBVIOUS
      <4>2. k \in DOMAIN entry \ wanted
        BY <1>1, <1>6, <1>11, <3>1, <4>1
      <4> QED BY <1>1, <1>6, <1>8, <3>1, <4>2 DEF Demanded
    <3> QED BY <1>1, <1>10, <3>2
  <2>3. \A k \in Demanded(l)' : \A i \in entry'[k].dsts : i \in DOMAIN ids /\ ids[i] = k[2]
    BY <2>2 DEF Rows
  <2>4. ASSUME NEW i \in DOMAIN ids, <<l, ids[i]>> \in wanted
        PROVE  \E k \in Demanded(l)' : i \in entry'[k].dsts
    <3> DEFINE k == <<l, ids[i]>>
    <3>1. entry'[k].demand /\ entry'[k].dsts = Rows(k) /\ k \in DOMAIN entry'
      BY <1>1, <1>6, <1>10, <1>11, <2>4
    <3>2. i \in Rows(k)
      BY DEF Rows
    <3>3. k \in Demanded(l)'
      BY <3>1 DEF Demanded
    <3> QED BY <3>1, <3>2, <3>3
  <2>5. DOMAIN staging'[l] = DOMAIN ids /\ \A i \in DOMAIN ids : staging'[l][i] = row(i)
    <3> HIDE DEF ids
    <3> QED BY <1>16
  <2>6. \A i \in DOMAIN ids : staging'[l][i] = Right(l)[i] \/ \E k \in Demanded(l)' : i \in entry'[k].dsts
    BY <1>5, <2>4, <2>5
  <2> HIDE DEF ids
  <2> QED BY <2>1, <2>3, <2>5, <2>6 DEF Served
<1>19. \A m \in Layers : Landings(m)'
  BY <1>1, SameLandings
<1> QED BY <1>12, <1>13, <1>14, <1>15, <1>17, <1>18, <1>19 DEF RowInv

LEMMA LookRows ==
  ASSUME FetchInv, FetchInv', RowInv, Look
  PROVE  RowInv'
<1>1. PICK l \in scan .. NLayers : (Begins(l) /\ Begin(l)) \/ (Resyncs(l) /\ Resync(l))
  BY DEF Look
<1>2. l \in Layers
  BY EngramAssumption, <1>1 DEF FetchInv, FetchTypes, Layers
<1>3. at = "scan" /\ UNCHANGED <<gpuVars, req, err, aheadVars>>
  BY DEF Look
<1> QED BY <1>1, <1>2, <1>3, BeginRows, ResyncRows

\* What issue_entry leaves of the rows: their destinations, and halves that are there.
LEMMA IssueRows ==
  ASSUME FetchInv, FetchInv', RowInv, Issue
  PROVE  RowInv'
<1> USE DEF gpuVars, aheadVars, mailVars
<1>1. PICK B :
        /\ entry' = Prepared(B)
        /\ \/ reads' = Submitted(B, "flight") /\ UNCHANGED <<job, ringErr>>
           \/ /\ reads' = Submitted(B, "queued") /\ ringErr' = TRUE
              /\ job' = [job EXCEPT ![scan].failed = TRUE]
        /\ at = "issue" /\ at' \in {"conclude", "wait"}
        /\ at' = "wait" => queued' # <<>>
        /\ UNCHANGED <<scan, busy, expected, cache, gpu, seqDev, cta, land, req, ack, staging, err, plans>>
  BY DEF Issue
<1>2. /\ MoreTypes /\ EntryInv /\ CacheInv /\ FetchTypes /\ scan \in Layers
      /\ \A m \in Layers : Counted(m)
  BY <1>1 DEF RowInv, FetchInv, CountInv, PollInv, InBegin
<1>3. /\ DOMAIN entry' = DOMAIN entry
      /\ \A k \in DOMAIN entry :
           /\ entry'[k].demand = entry[k].demand /\ entry'[k].dsts = entry[k].dsts
           /\ entry'[k].failed = entry[k].failed
           /\ entry'[k].got = entry'[k].halves
              \/ (entry'[k].got = entry[k].got /\ entry'[k].halves = entry[k].halves)
  BY <1>1, <1>2 DEF Prepared, FetchTypes, Row
<1>4. EntryInv' /\ CacheInv'
  BY <1>1, <1>2, <1>3 DEF EntryInv, CacheInv
<1>5. \A x \in DOMAIN reads' : reads'[x] \in {"queued", "flight", "done", "short"}
  <2>1. ASSUME NEW as \in {"queued", "flight"}, reads' = Submitted(B, as)
        PROVE  \A x \in DOMAIN reads' : reads'[x] \in {"queued", "flight", "done", "short"}
    BY <1>2, <2>1 DEF Submitted, MoreTypes
  <2> QED BY <1>1, <2>1
<1>6. MoreTypes'
  <2>1. ringErr' \in BOOLEAN
    BY <1>1, <1>2 DEF MoreTypes
  <2> QED BY <1>1, <1>2, <1>5, <2>1 DEF MoreTypes
<1>7. ASSUME NEW m \in Layers PROVE Numbers(m)' /\ Served(m)' /\ Landings(m)'
  <2>1. Demanded(m)' = Demanded(m) /\ \A k \in Demanded(m) : entry'[k].dsts = entry[k].dsts
    BY <1>3 DEF Demanded
  <2>2. /\ job'[m].seq = job[m].seq /\ job'[m].active = job[m].active
        /\ job[m].failed => job'[m].failed
        /\ m # scan => job'[m].failed = job[m].failed
    <3>1. CASE job' = job
      BY <3>1
    <3>2. CASE job' = [job EXCEPT ![scan].failed = TRUE]
      BY <1>2, <3>2 DEF FetchTypes, Job
    <3> QED BY <1>1, <3>1, <3>2
  <2>3. job[scan].active
    BY <1>1, <1>2 DEF Counted, Beginning
  <2>4. Beginning(m)' <=> Beginning(m)
    BY <1>1 DEF Beginning
  <2> QED BY <1>1, <2>1, <2>2, <2>3, <2>4, SameNumbers, SameServed, SameLandings
<1> QED BY <1>4, <1>6, <1>7 DEF RowInv

LEMMA PollEndRows ==
  ASSUME FetchInv, FetchInv', RowInv, PollEnd
  PROVE  RowInv'
<1> USE DEF gpuVars, aheadVars, mailVars
<1> DEFINE row == [FreshEntry({}) EXCEPT !.demand = FALSE,
                     !.halves = Halves \ ReadHalves, !.got = Halves \ ReadHalves]
<1>1. /\ at = "scan" /\ scan' = 1 /\ busy' = FALSE
      /\ UNCHANGED <<at, expected, job, queued, cache, gpu, seqDev, cta, land, req, ack, staging, err, plans>>
      /\ PrefetchStep \/ UNCHANGED <<entry, reads, ringErr>>
  BY DEF PollEnd, LayersDone
<1>2. MoreTypes /\ EntryInv /\ CacheInv
  BY DEF RowInv
<1>3. PICK B :
        /\ \/ entry' = [k \in DOMAIN entry \cup B |-> IF k \in DOMAIN entry THEN entry[k] ELSE row]
           \/ entry' = entry /\ B = {}
        /\ \/ reads' = reads \/ reads' = Submitted(B, "flight") \/ reads' = Submitted(B, "queued")
        /\ ringErr' = ringErr \/ ringErr' = TRUE
  <2>1. CASE PrefetchStep
    BY <2>1 DEF PrefetchStep
  <2>2. CASE UNCHANGED <<entry, reads, ringErr>>
    BY <2>2
  <2> QED BY <1>1, <2>1, <2>2
<1>4. ~row.demand /\ row.dsts = {} /\ row.got = row.halves
  BY DEF FreshEntry
<1> HIDE DEF row
<1>5. /\ \A k \in DOMAIN entry : k \in DOMAIN entry' /\ entry'[k] = entry[k]
      /\ \A k \in DOMAIN entry' \ DOMAIN entry : entry'[k] = row
  BY <1>3
<1>6. EntryInv' /\ CacheInv'
  BY <1>1, <1>2, <1>4, <1>5 DEF EntryInv, CacheInv
<1>7. \A x \in DOMAIN reads' : reads'[x] \in {"queued", "flight", "done", "short"}
  <2>1. ASSUME NEW as \in {"queued", "flight"}, reads' = Submitted(B, as)
        PROVE  \A x \in DOMAIN reads' : reads'[x] \in {"queued", "flight", "done", "short"}
    BY <1>2, <2>1 DEF Submitted, MoreTypes
  <2>2. CASE reads' = reads
    BY <1>2, <2>2 DEF MoreTypes
  <2> QED BY <1>3, <2>1, <2>2
<1>8. MoreTypes'
  <2>1. NLayers \in Nat /\ scan' = 1
    BY <1>1, EngramAssumption
  <2>2. scan' \in 1 .. NLayers + 1
    BY <2>1
  <2>3. ringErr' \in BOOLEAN
    BY <1>2, <1>3 DEF MoreTypes
  <2> QED BY <1>1, <1>2, <1>7, <2>2, <2>3 DEF MoreTypes
<1>9. ASSUME NEW m \in Layers PROVE Numbers(m)' /\ Served(m)' /\ Landings(m)'
  <2>1. Demanded(m)' = Demanded(m) /\ \A k \in Demanded(m) : entry'[k].dsts = entry[k].dsts
    BY <1>4, <1>5 DEF Demanded
  <2>2. Beginning(m)' <=> Beginning(m)
    BY <1>1 DEF Beginning
  <2> QED BY <1>1, <2>1, <2>2, SameNumbers, SameServed, SameLandings
<1> QED BY <1>6, <1>8, <1>9 DEF RowInv

\* begin_job's own guard is dropped: the ack, if no row is left, and the next number.
LEMMA ConcludeRows ==
  ASSUME FetchInv, FetchInv', RowInv, Conclude
  PROVE  RowInv'
<1> USE DEF gpuVars, aheadVars
<1> DEFINE l == scan
<1>1. /\ at = "conclude" /\ at' = "scan" /\ scan' = l + 1 /\ busy' = TRUE
      /\ job' = [job EXCEPT ![l].remaining = @ - 1, ![l].active = job[l].remaining # 1]
      /\ ack' = (IF job[l].remaining = 1 THEN [ack EXCEPT ![l] = Acked(l, job[l].failed)] ELSE ack)
      /\ expected' = [expected EXCEPT ![l] = job[l].seq + 1]
      /\ UNCHANGED <<gpu, seqDev, cta, land, req, staging, err, entry, queued, reads, cache, ringErr, plans>>
  BY DEF Conclude
<1>2. /\ MoreTypes /\ EntryInv /\ CacheInv /\ FetchTypes /\ scan \in Layers /\ queued = <<>>
      /\ Counted(l) /\ Numbers(l) /\ Served(l)
  BY <1>1 DEF RowInv, FetchInv, CountInv, PollInv, InBegin
<1>3. /\ job[l].active /\ job[l] \in Job /\ ack[l].step \in Nat
      /\ expected[l] = job[l].seq /\ ack[l].step < job[l].seq
  BY <1>1, <1>2 DEF Counted, Beginning, Numbers, FetchTypes, MoreTypes
<1>4. /\ \A m \in Layers \ {l} : job'[m] = job[m] /\ ack'[m] = ack[m] /\ expected'[m] = expected[m]
      /\ job'[l].seq = job[l].seq /\ job'[l].failed = job[l].failed
      /\ job'[l].active = (job[l].remaining # 1)
      /\ expected'[l] = job[l].seq + 1
      /\ job[l].remaining # 1 => ack'[l] = ack[l]
      /\ job[l].remaining = 1 => ack'[l] = Acked(l, job[l].failed)
  BY <1>1, <1>2 DEF FetchTypes, MoreTypes, Job
<1>5. Acked(l, job[l].failed) \in [step : Nat, status : 0 .. 1]
  BY <1>3 DEF Acked, Job
<1>6. MoreTypes'
  <2>1. scan' \in 1 .. NLayers + 1
    BY <1>1, <1>2, EngramAssumption DEF Layers
  <2>2. ack' \in [Layers -> [step : Nat, status : 0 .. 1]] /\ expected' \in [Layers -> Nat]
    BY <1>1, <1>2, <1>3, <1>5 DEF MoreTypes, Job
  <2> QED BY <1>1, <1>2, <2>1, <2>2 DEF MoreTypes
<1>7. EntryInv' /\ CacheInv'
  BY <1>1, <1>2 DEF EntryInv, CacheInv
<1>8. ASSUME NEW m \in Layers PROVE Numbers(m)' /\ Served(m)' /\ Landings(m)'
  <2>1. Demanded(m)' = Demanded(m) /\ ~Beginning(m)'
    BY <1>1, <1>2 DEF Demanded, Beginning
  <2>2. Served(m)' /\ Landings(m)'
    <3>1. job'[m].seq = job[m].seq /\ (job[m].failed => job'[m].failed)
      BY <1>4
    <3> QED BY <1>1, <2>1, <3>1, SameServed, SameLandings
  <2>3. CASE m = l
    <3>1. /\ ~Beginning(m)' /\ req'[m].step = seqDev'[m] /\ job'[m].seq <= seqDev'[m]
          /\ job'[m].seq < expected'[m] /\ job'[m].seq \in Nat /\ job'[m].seq = job[m].seq
          /\ job'[m].failed = job[m].failed
      <4>1. job[m].seq \in Nat /\ job[m].seq < job[m].seq + 1
        BY <1>3, <2>3 DEF Job
      <4>2. req'[m].step = seqDev'[m] /\ job[m].seq <= seqDev'[m]
        BY <1>1, <1>2, <2>3 DEF Numbers
      <4>3. job'[m].seq = job[m].seq /\ job'[m].failed = job[m].failed /\ expected'[m] = job[m].seq + 1
        BY <1>4, <2>3
      <4> QED BY <2>1, <4>1, <4>2, <4>3
    <3>2. ack[m].step < job[m].seq /\ ack[m].step # job[m].seq /\ ack[m].step \in Nat
      BY <1>3, <2>3 DEF Job
    <3>3. Numbers(m)'
      <4>1. CASE job[m].remaining = 1
        <5>1. ack'[m].step = job[m].seq /\ (ack'[m].status = 0 => ~job[m].failed)
          BY <1>4, <2>3, <4>1 DEF Acked
        <5>2. ~job'[m].active
          BY <1>4, <2>3, <4>1
        <5> QED BY <3>1, <5>1, <5>2 DEF Numbers
      <4>2. CASE job[m].remaining # 1
        <5>1. ack'[m] = ack[m]
          BY <1>4, <2>3, <4>2
        <5> QED BY <3>1, <3>2, <5>1 DEF Numbers
      <4> QED BY <4>1, <4>2
    <3> QED BY <2>2, <3>3
  <2>4. CASE m # l
    <3>1. ~Beginning(m)
      BY <2>4 DEF Beginning
    <3> QED BY <1>1, <1>4, <2>1, <2>2, <2>4, <3>1, SameNumbers
  <2> QED BY <2>3, <2>4
<1> QED BY <1>6, <1>7, <1>8 DEF RowInv

\* What cache.insert leaves in a layer's cache, for a whole row.
LEMMA InsertKeeps ==
  ASSUME NEW c, DOMAIN c \subseteq Owned, \A id \in DOMAIN c : c[id] = id, NEW id \in Owned,
         NEW d \in Inserts(c, id, id)
  PROVE  DOMAIN d \subseteq Owned /\ \A i \in DOMAIN d : d[i] = i
<1> DEFINE W(v) == [i \in (DOMAIN c \cup {id}) \ v |-> IF i = id THEN id ELSE c[i]]
<1>1. \A v : DOMAIN W(v) \subseteq Owned /\ \A i \in DOMAIN W(v) : W(v)[i] = i
  OBVIOUS
<1>2. d = c \/ \E v : d = W(v)
  <2>1. CASE CacheRows = 0
    BY <2>1 DEF Inserts
  <2>2. CASE id \in DOMAIN c \/ Cardinality(DOMAIN c \ {id}) < CacheRows
    BY <2>2 DEF Inserts
  <2>3. CASE CacheRows # 0 /\ ~(id \in DOMAIN c \/ Cardinality(DOMAIN c \ {id}) < CacheRows)
    BY <2>3 DEF Inserts
  <2> QED BY <2>1, <2>2, <2>3
<1> HIDE DEF W
<1> QED BY <1>1, <1>2

\* What CompleteEntry does to the cache, the staging and the ack.
LEMMA EntryLands ==
  ASSUME NEW k, NEW e, CompleteEntry(k, e)
  PROVE  /\ IF ~e.failed
            THEN \E c \in Inserts(cache[k[1]], k[2], Bytes(e, k[2])) : cache' = [cache EXCEPT ![k[1]] = c]
            ELSE cache' = cache
         /\ IF e.demand
            THEN /\ staging' = [staging EXCEPT ![k[1]] = [i \in DOMAIN @ |->
                                  IF i \in e.dsts THEN Bytes(e, k[2]) ELSE @[i]]]
                 /\ ack' = IF job[k[1]].remaining = 1
                           THEN [ack EXCEPT ![k[1]] = Acked(k[1], job[k[1]].failed \/ e.failed)] ELSE ack
            ELSE staging' = staging /\ ack' = ack
BY DEF CompleteEntry, Cacheable

LEMMA ReapRows ==
  ASSUME FetchInv, FetchInv', RowInv, Reap
  PROVE  RowInv'
<1> USE DEF gpuVars, aheadVars, pollVars
<1> DEFINE after(x) == [entry[x[1]] EXCEPT !.halves = @ \cup {x[2]},
                          !.got = IF reads[x] = "done" THEN @ \cup {x[2]} ELSE @,
                          !.failed = @ \/ reads[x] = "short"]
<1>1. PICK x \in Completed :
        /\ reads' = [y \in DOMAIN reads \ {x} |-> reads[y]]
        /\ IF Whole(after(x)) THEN CompleteEntry(x[1], after(x))
           ELSE entry' = [entry EXCEPT ![x[1]] = after(x)] /\ UNCHANGED <<cache, staging, job, ack>>
  BY DEF Reap
<1> DEFINE k == x[1]
           h == x[2]
           e == after(x)
           l == k[1]
<1>2. UNCHANGED <<at, scan, busy, expected, queued, ringErr, gpu, seqDev, cta, land, req, err, plans>>
  BY DEF Reap
<1>3. /\ MoreTypes /\ EntryInv /\ CacheInv /\ FetchTypes /\ ReadInv
      /\ \A m \in Layers : Numbers(m) /\ Served(m) /\ Landings(m) /\ Counted(m)
  BY DEF RowInv, FetchInv, CountInv
<1>4. /\ x \in DOMAIN reads /\ k \in DOMAIN entry /\ h \in Halves
      /\ l \in Layers /\ k[2] \in Owned
      /\ reads[x] # "done" => reads[x] = "short"
  BY <1>1, <1>3, HalfFacts DEF Completed, ReadInv, FetchTypes, Keys
<1>5. /\ e \in Row /\ e.demand = entry[k].demand /\ e.dsts = entry[k].dsts
      /\ ~e.failed => e.got = e.halves
  <2>1. /\ entry[k] \in Row /\ h \in Halves
        /\ ~entry[k].failed => entry[k].got = entry[k].halves
    BY <1>3, <1>4 DEF FetchTypes, EntryInv
  <2> HIDE DEF k, h
  <2>2. e = [entry[k] EXCEPT !.halves = @ \cup {h},
               !.got = IF reads[x] = "done" THEN @ \cup {h} ELSE @,
               !.failed = @ \/ reads[x] = "short"]
    BY DEF k, h
  <2> HIDE DEF e
  <2> QED BY <1>4, <2>1, <2>2 DEF Row
<1>6. Whole(e) => CompleteEntry(k, e)
  BY <1>1
<1>7. ~Whole(e) => entry' = [entry EXCEPT ![k] = e] /\ UNCHANGED <<cache, staging, job, ack>>
  BY <1>1
<1> HIDE DEF e, k, h, after, l
<1>8. \A y \in DOMAIN reads' : reads'[y] \in {"queued", "flight", "done", "short"}
  BY <1>1, <1>3 DEF MoreTypes
<1>9. \A m \in Layers : (Beginning(m)' <=> Beginning(m)) /\ Landings(m)'
  BY <1>2, SameLandings DEF Beginning
<1>10. CASE ~Whole(e)
  <2>1. /\ DOMAIN entry' = DOMAIN entry /\ entry'[k] = e
        /\ \A j \in DOMAIN entry : j # k => entry'[j] = entry[j]
        /\ UNCHANGED <<cache, staging, job, ack>>
    BY <1>4, <1>7, <1>10
  <2>2. e.demand \/ e.dsts = {}
    BY <1>3, <1>4, <1>5 DEF EntryInv
  <2>3. EntryInv' /\ CacheInv'
    BY <1>3, <1>5, <2>1, <2>2 DEF EntryInv, CacheInv
  <2>4. MoreTypes'
    BY <1>2, <1>3, <1>8, <2>1 DEF MoreTypes
  <2>5. ASSUME NEW m \in Layers PROVE Numbers(m)' /\ Served(m)'
    <3>1. Demanded(m)' = Demanded(m) /\ \A j \in Demanded(m) : entry'[j].dsts = entry[j].dsts
      BY <1>5, <2>1 DEF Demanded
    <3> QED BY <1>2, <1>9, <2>1, <3>1, SameNumbers, SameServed
  <2> QED BY <1>9, <2>3, <2>4, <2>5 DEF RowInv
<1>11. CASE Whole(e)
  <2>1. /\ DOMAIN entry' = DOMAIN entry \ {k} /\ \A j \in DOMAIN entry \ {k} : entry'[j] = entry[j]
        /\ CompleteEntry(k, e) /\ e.halves = Halves
    BY <1>6, <1>11, EntryEnds DEF Whole
  <2>2. ~e.failed => Bytes(e, k[2]) = k[2]
    BY <1>5, <2>1 DEF Bytes
  <2>3. Bytes(e, k[2]) \in RowBytes
    BY <1>4 DEF Bytes, RowBytes, Ids
  <2>4. EntryInv'
    BY <1>3, <2>1 DEF EntryInv
  <2>5. CacheInv'
    <3>1. CASE ~e.failed
      <4>1. PICK c \in Inserts(cache[l], k[2], k[2]) : cache' = [cache EXCEPT ![l] = c]
        <5>1. \E c \in Inserts(cache[l], k[2], Bytes(e, k[2])) : cache' = [cache EXCEPT ![l] = c]
          BY <2>1, <3>1, EntryLands DEF l
        <5> QED BY <2>2, <3>1, <5>1
      <4>2. DOMAIN cache[l] \subseteq Owned /\ \A id \in DOMAIN cache[l] : cache[l][id] = id
        BY <1>3, <1>4 DEF CacheInv
      <4>3. DOMAIN c \subseteq Owned /\ \A i \in DOMAIN c : c[i] = i
        BY <1>4, <4>1, <4>2, InsertKeeps
      <4> QED BY <1>3, <1>4, <4>1, <4>3 DEF CacheInv
    <3>2. CASE e.failed
      <4>1. cache' = cache
        BY <2>1, <3>2, EntryLands
      <4> QED BY <1>3, <4>1 DEF CacheInv
    <3> QED BY <3>1, <3>2
  <2>6. CASE ~e.demand
    <3>1. UNCHANGED <<staging, job, ack>>
      BY <2>1, <2>6, EntryEnds, EntryLands
    <3>2. MoreTypes'
      BY <1>2, <1>3, <1>8, <3>1 DEF MoreTypes
    <3>3. ASSUME NEW m \in Layers PROVE Numbers(m)' /\ Served(m)'
      <4>1. Demanded(m)' = Demanded(m) /\ \A j \in Demanded(m) : entry'[j].dsts = entry[j].dsts
        BY <1>5, <2>1, <2>6 DEF Demanded
      <4> QED BY <1>2, <1>9, <3>1, <4>1, SameNumbers, SameServed
    <3> QED BY <1>9, <2>4, <2>5, <3>2, <3>3 DEF RowInv
  <2>7. CASE e.demand
    <3> DEFINE bytes == Bytes(e, k[2])
               failed == job[l].failed \/ e.failed
    <3>1. /\ job' = [job EXCEPT ![l].failed = failed, ![l].remaining = @ - 1,
                               ![l].active = job[l].remaining # 1]
          /\ staging' = [staging EXCEPT ![l] = [i \in DOMAIN @ |-> IF i \in e.dsts THEN bytes ELSE @[i]]]
          /\ ack' = IF job[l].remaining = 1 THEN [ack EXCEPT ![l] = Acked(l, failed)] ELSE ack
      BY <2>1, <2>7, EntryEnds, EntryLands DEF l
    <3>2. k \in Demanded(l) /\ job[l].active /\ job[l] \in Job
      BY <1>3, <1>4, <1>5, <2>7 DEF Demanded, Counted, FetchTypes, l
    <3>3. failed \in BOOLEAN
      OBVIOUS
    <3> HIDE DEF bytes, failed
    <3>4. /\ \A m \in Layers \ {l} : job'[m] = job[m] /\ ack'[m] = ack[m] /\ staging'[m] = staging[m]
          /\ job'[l].seq = job[l].seq /\ job'[l].failed = failed
          /\ job'[l].active = (job[l].remaining # 1)
          /\ job[l].remaining # 1 => ack'[l] = ack[l]
          /\ job[l].remaining = 1 => ack'[l] = Acked(l, failed)
      BY <1>3, <1>4, <3>1, <3>2, <3>3 DEF FetchTypes, MoreTypes, Job
    <3>5. staging[l] \in Seq(RowBytes) /\ staging \in [Layers -> Seq(RowBytes)]
      BY <1>3, <1>4 DEF MoreTypes
    <3>6. /\ staging'[l] = [i \in DOMAIN staging[l] |-> IF i \in e.dsts THEN bytes ELSE staging[l][i]]
          /\ staging'[l] \in Seq(RowBytes)
      <4>1. staging'[l] = [i \in DOMAIN staging[l] |-> IF i \in e.dsts THEN bytes ELSE staging[l][i]]
        BY <1>4, <3>1, <3>5
      <4>2. DOMAIN staging[l] = 1 .. Len(staging[l]) /\ Len(staging[l]) \in Nat
        BY <3>5
      <4>3. \A i \in 1 .. Len(staging[l]) : (IF i \in e.dsts THEN bytes ELSE staging[l][i]) \in RowBytes
        BY <2>3, <3>5 DEF bytes
      <4> QED BY <4>1, <4>2, <4>3
    <3>7. MoreTypes'
      <4>1. Acked(l, failed) \in [step : Nat, status : 0 .. 1]
        BY <3>2 DEF Acked, Job
      <4>2. ack' \in [Layers -> [step : Nat, status : 0 .. 1]]
        BY <1>3, <3>1, <4>1 DEF MoreTypes
      <4>3. staging' \in [Layers -> Seq(RowBytes)]
        BY <3>1, <3>4, <3>5, <3>6
      <4> QED BY <1>2, <1>3, <1>8, <4>2, <4>3 DEF MoreTypes
    <3>8. ASSUME NEW m \in Layers, m # l PROVE Numbers(m)' /\ Served(m)'
      <4>1. Demanded(m)' = Demanded(m) /\ \A j \in Demanded(m) : entry'[j].dsts = entry[j].dsts
        BY <2>1, <3>8 DEF Demanded, l
      <4> QED BY <1>2, <1>9, <3>4, <3>8, <4>1, SameNumbers, SameServed
    <3>9. Numbers(l)'
      <4>1. Numbers(l) /\ ack[l].step < job[l].seq /\ ack[l].step # job[l].seq
        BY <1>3, <1>4, <3>2 DEF Numbers, MoreTypes, Job
      <4>2. (Beginning(l)' <=> Beginning(l)) /\ req' = req /\ seqDev' = seqDev /\ expected' = expected
        BY <1>2, <1>4, <1>9
      <4>3. CASE job[l].remaining = 1
        <5>1. /\ ack'[l].step = job[l].seq /\ (ack'[l].status = 0 => ~failed) /\ ~job'[l].active
              /\ job[l].seq \in Nat
          <6>1. ack'[l] = Acked(l, failed) /\ ~job'[l].active /\ job[l].seq \in Nat
            BY <3>2, <3>4, <4>3 DEF Job
          <6>2. CASE failed
            BY <6>1, <6>2 DEF Acked
          <6>3. CASE ~failed
            BY <6>1, <6>3 DEF Acked
          <6> QED BY <6>2, <6>3
        <5>2. /\ ack'[l].step <= job'[l].seq
              /\ ack'[l].status = 0 => ~job'[l].failed
          BY <3>4, <5>1
        <5>3. /\ req'[l].step = seqDev'[l] /\ job'[l].seq <= seqDev'[l]
              /\ IF Beginning(l)' THEN expected'[l] = job'[l].seq ELSE job'[l].seq < expected'[l]
          BY <3>4, <4>1, <4>2 DEF Numbers
        <5> QED BY <5>1, <5>2, <5>3 DEF Numbers
      <4>4. CASE job[l].remaining # 1
        <5>1. ack'[l] = ack[l]
          BY <3>4, <4>4
        <5> QED BY <3>4, <4>1, <4>2, <5>1 DEF Numbers
      <4> QED BY <4>3, <4>4
    <3>10. Served(l)'
      <4>1. SUFFICES ASSUME gpu[l] = "waiting", job[l].seq = seqDev[l]
                     PROVE  Served(l)'
        BY <1>2, <3>4 DEF Served
      <4>2. /\ DOMAIN staging[l] = DOMAIN req[l].ids
            /\ \A j \in Demanded(l) : \A i \in entry[j].dsts :
                 i \in DOMAIN req[l].ids /\ req[l].ids[i] = j[2]
            /\ \A i \in DOMAIN req[l].ids :
                 \/ staging[l][i] = Right(l)[i] \/ job[l].failed
                 \/ \E j \in Demanded(l) : i \in entry[j].dsts
        BY <1>3, <1>4, <4>1 DEF Served
      <4>3. Right(l)' = Right(l) /\ req' = req
        BY <1>2 DEF Right
      <4>4. /\ Demanded(l)' = Demanded(l) \ {k}
            /\ \A j \in Demanded(l)' : entry'[j] = entry[j]
        BY <2>1 DEF Demanded
      <4>5. /\ DOMAIN staging'[l] = DOMAIN req[l].ids
            /\ \A i \in DOMAIN req[l].ids :
                 staging'[l][i] = IF i \in e.dsts THEN bytes ELSE staging[l][i]
        BY <3>6, <4>2
      <4>6. \A j \in Demanded(l)' : \A i \in entry'[j].dsts :
              i \in DOMAIN req[l].ids /\ req[l].ids[i] = j[2]
        BY <4>2, <4>4
      <4>7. ASSUME NEW i \in DOMAIN req[l].ids
            PROVE  \/ staging'[l][i] = Right(l)[i] \/ job'[l].failed
                   \/ \E j \in Demanded(l)' : i \in entry'[j].dsts
        <5>1. CASE i \in e.dsts
          <6>1. req[l].ids[i] = k[2]
            BY <1>5, <3>2, <4>2, <5>1
          <6>2. Right(l)[i] = k[2]
            BY <1>4, <6>1 DEF Right
          <6>3. ~e.failed => staging'[l][i] = k[2]
            BY <2>2, <4>5, <5>1 DEF bytes
          <6> QED BY <3>4, <6>2, <6>3 DEF failed
        <5>2. CASE i \notin e.dsts
          <6>1. staging'[l][i] = staging[l][i]
            BY <4>5, <5>2
          <6>2. job[l].failed => job'[l].failed
            BY <3>4 DEF failed
          <6>3. ASSUME NEW j \in Demanded(l), i \in entry[j].dsts
                PROVE  j \in Demanded(l)' /\ i \in entry'[j].dsts
            BY <1>5, <4>4, <5>2, <6>3
          <6> QED BY <4>2, <6>1, <6>2, <6>3
        <5> QED BY <5>1, <5>2
      <4> QED BY <4>3, <4>5, <4>6, <4>7 DEF Served
    <3> QED BY <1>4, <1>9, <2>4, <2>5, <3>7, <3>8, <3>9, <3>10 DEF RowInv
  <2> QED BY <2>6, <2>7
<1> QED BY <1>10, <1>11
-----------------------------------------------------------------------------
LEMMA NextRows ==
  ASSUME FetchInv, FetchInv', RowInv, [Next]_vars
  PROVE  RowInv'
<1>1. CASE \E l \in Layers : PublishIds(l) \/ Stream(l) \/ \E c \in Ctas : TimeOut(l, c)
  <2>1. PICK l \in Layers : PublishIds(l) \/ Stream(l) \/ \E c \in Ctas : TimeOut(l, c)
    BY <1>1
  <2>2. 0 \in Ctas
    BY EngramAssumption DEF Ctas
  <2> QED BY <2>1, <2>2, GpuRows DEF Stream
<1>2. CASE ClearError
  <2>1. 1 \in Layers /\ 0 \in Ctas
    BY EngramAssumption DEF Layers, Ctas
  <2> QED BY <1>2, <2>1, GpuRows
<1>3. CASE Look
  BY <1>3, LookRows
<1>4. CASE Issue
  BY <1>4, IssueRows
<1>5. CASE Reap
  BY <1>5, ReapRows
<1>6. CASE Conclude
  BY <1>6, ConcludeRows
<1>7. CASE PollEnd
  BY <1>7, PollEndRows
<1>8. CASE Wait \/ ReapDone \/ PollReap \/ Complete \/ Schedule \/ Queue \/ PrefetchClear \/ UNCHANGED vars
  BY <1>8, MovesRows
<1> QED BY <1>1, <1>2, <1>3, <1>4, <1>5, <1>6, <1>7, <1>8 DEF Next, Fetcher

LEMMA RowTypes ==
  ASSUME FetchInv, RowInv
  PROVE  TypeOK
<1>1. MoreTypes /\ CacheInv /\ FetchTypes /\ ReadInv
  BY DEF FetchInv, RowInv
<1>2. /\ seqDev \in [Layers -> Nat] /\ req \in [Layers -> [step : Nat, ids : Seq(Ids)]]
      /\ job \in [Layers -> [active : BOOLEAN, seq : Nat, remaining : Nat, failed : BOOLEAN]]
      /\ ahead \in Seq(Layers \X SUBSET Owned) /\ prefetch \in Seq(Layers \X Owned)
      /\ DOMAIN entry \subseteq Layers \X Owned /\ queued \in Seq(DOMAIN entry)
      /\ \A k \in DOMAIN entry :
           entry[k] \in [demand : BOOLEAN, dsts : SUBSET Nat, halves : SUBSET Halves,
                         got : SUBSET Halves, failed : BOOLEAN]
  BY <1>1 DEF FetchTypes, Keys, Row, Job
<1>3. DOMAIN reads \subseteq (DOMAIN entry) \X Halves
  BY <1>1, HalfFacts DEF ReadInv
<1>4. \A l \in Layers : DOMAIN cache[l] \subseteq Owned
  BY <1>1 DEF CacheInv
<1> QED BY <1>1, <1>2, <1>3, <1>4 DEF TypeOK, MoreTypes

\* The last CTA of a lookup's kernel, with the error word clear.
LEMMA LastCta ==
  ASSUME FetchInv, RowInv, [Next]_vars, NEW l \in Layers,
         gpu[l] = "waiting", gpu'[l] = "idle", err' = 0
  PROVE  land'[l] = Right(l)
<1>1. PICK c \in Ctas : Enter(l, c) \/ Copy(l, c) \/ TimeOut(l, c)
  <2> USE DEF gpuVars, mailVars, pollVars, rowVars, aheadVars, vars
  <2>1. gpu \in [Layers -> {"idle", "publishing", "waiting"}]
    BY DEF RowInv, MoreTypes
  <2>2. UNCHANGED gpu => FALSE
    OBVIOUS
  <2>3. ~Fetcher /\ ~ClearError /\ ~Complete /\ ~Schedule /\ ~Queue /\ ~PrefetchClear /\ ~UNCHANGED vars
    <3>1. ~Look /\ ~Issue /\ ~Wait /\ ~Reap /\ ~ReapDone /\ ~Conclude /\ ~PollReap /\ ~PollEnd
      BY <2>2 DEF Look, Issue, Wait, Reap, ReapDone, Conclude, PollReap, PollEnd
    <3> QED BY <2>2, <3>1 DEF Fetcher, ClearError, Complete, Schedule, Queue, PrefetchClear
  <2>4. PICK m \in Layers : PublishIds(m) \/ Stream(m) \/ \E c \in Ctas : TimeOut(m, c)
    BY <2>3 DEF Next
  <2>5. ~PublishIds(m) /\ ~PublishStep(m)
    BY <2>1 DEF PublishIds, PublishStep
  <2>6. PICK c \in Ctas : Enter(m, c) \/ Copy(m, c) \/ TimeOut(m, c)
    BY <2>4, <2>5 DEF Stream
  <2>7. m = l
    BY <2>6, WaitStep
  <2> QED BY <2>6, <2>7
<1>2. /\ err = 0 /\ ack[l].step = seqDev[l] /\ ack[l].status = 0
      /\ land'[l] = Landed(l, c) /\ CtaEnds(l, c)
  BY <1>1, WaitStep
<1>3. \A d \in Ctas \ {c} : cta[l][d] = "out"
  BY <1>2, CtaLeaves DEF RowInv
<1>4. \A d \in Ctas \ {c} : Copied(l, d)
  BY <1>2, <1>3 DEF RowInv, Landings
<1>5. /\ DOMAIN req[l].ids = 1 .. Len(req[l].ids) /\ Len(req[l].ids) \in Nat
  BY RightIsRows DEF FetchInv
<1>6. \A i \in DOMAIN req[l].ids : Landed(l, c)[i] = Right(l)[i]
  <2>1. ASSUME NEW i \in DOMAIN req[l].ids PROVE Landed(l, c)[i] = Right(l)[i]
    <3>1. i \in Nat /\ NCtas \in Nat \ {0}
      BY <1>5, EngramAssumption
    <3>2. i % NCtas \in Ctas
      BY <3>1 DEF Ctas
    <3> QED BY <1>2, <1>4, <3>2, CopyKeeps
  <2> QED BY <2>1
<1>7. DOMAIN Landed(l, c) = DOMAIN req[l].ids
  BY <1>2, CopyKeeps
<1> QED BY <1>2, <1>5, <1>6, <1>7 DEF Right, Landed

\* The variables keep their types.
THEOREM TypeCorrect == Spec => []TypeOK
<1>1. Init => FetchInv /\ RowInv
  BY InitFetch, InitRows
<1>2. FetchInv /\ RowInv /\ [Next]_vars => FetchInv' /\ RowInv'
  BY NextFetch, NextRows
<1>3. FetchInv /\ RowInv => TypeOK
  BY RowTypes
<1> QED BY <1>1, <1>2, <1>3, PTL DEF Spec

\* A lookup that ends with the error word clear has every row of its own ids, however
\* late the answer of an earlier one came, whichever rows were cached, prefetched or
\* evicted before, and whatever reads failed.
THEOREM RowsAreRight == Spec => RowsRight
<1> DEFINE Lands == \A l \in Layers : gpu[l] = "waiting" /\ gpu'[l] = "idle" /\ err' = 0 =>
             land'[l] = [i \in DOMAIN req[l].ids |->
                           IF req[l].ids[i] \in Owned THEN req[l].ids[i] ELSE Zero]
<1>1. Init => FetchInv /\ RowInv
  BY InitFetch, InitRows
<1>2. FetchInv /\ RowInv /\ [Next]_vars => FetchInv' /\ RowInv'
  BY NextFetch, NextRows
<1>3. FetchInv /\ RowInv /\ [Next]_vars => [Lands]_vars
  BY LastCta DEF Right
<1> QED BY <1>1, <1>2, <1>3, PTL DEF Spec, RowsRight
=============================================================================
