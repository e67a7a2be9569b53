--------------------------- MODULE CpuTierProofs ---------------------------
(* What holds of CpuTier for any number of layers, experts, slots, CTAs and *)
(* steps: the placement never hands the CPU a pair it has no record for,    *)
(* the slot table never names a slot that does not hold the expert, a       *)
(* record stays pinned while a queued promotion may read it, no layer ends  *)
(* its wait with a row left out unless the error word says so, and the      *)
(* mailboxes' numbers stay in their order.                                  *)
EXTENDS CpuTier, FiniteSetTheorems, TLAPS

-----------------------------------------------------------------------------
(* An expert without a record is resident from the start and stays so: no  *)
(* unmap names it, so its table entry is never empty, so no publish ever   *)
(* counts one of its pairs as missing.                                     *)

TableInv ==
  /\ table \in [Layers -> [Experts -> Slots \cup {None}]]
  /\ \A l \in Layers, e \in Experts : table[l][e] = None => e \in Recorded

CopyInv == step \in Nat /\ copy \in Seq(CopyCommand(Recorded))

RoutedInv ==
  /\ ids \in [Layers -> Seq(Experts)] /\ DOMAIN remapped = Layers
  /\ \A l \in Layers : \A p \in DOMAIN ids[l] : remapped[l][p] = None => ids[l][p] \in Recorded

\* The dispatcher answers with 0 or with one of the failures it may meet.
AckStatuses == \A l \in Layers : ack[l].status \in {0} \cup Faults
HasRecords(pairs) == \A i \in DOMAIN pairs : pairs[i].expert \in Recorded

MailInv ==
  /\ DOMAIN req = Layers /\ \A l \in Layers : HasRecords(req[l].pairs)
  /\ serving # <<>> => HasRecords(serving[2])
  /\ DOMAIN ack = Layers /\ AckStatuses

RecordInv == TableInv /\ CopyInv /\ RoutedInv /\ MailInv

LEMMA SetToSeqType ==
  ASSUME NEW S, IsFiniteSet(S)
  PROVE  /\ Cardinality(S) \in Nat
         /\ SetToSeq(S) \in [1 .. Cardinality(S) -> S]
<1>1. Cardinality(S) \in Nat /\ ExistsBijection(1 .. Cardinality(S), S)
  BY FS_CardinalityType
<1>2. PICK f \in Bijection(1 .. Cardinality(S), S) : TRUE
  BY <1>1 DEF ExistsBijection
<1>3. f \in [1 .. Cardinality(S) -> S] /\ IsInjective(f)
  BY <1>2 DEF Bijection, Injection, IsInjective
<1> QED BY <1>1, <1>3 DEF SetToSeq

LEMMA PairsRecorded ==
  ASSUME RoutedInv, NEW l \in Layers
  PROVE  HasRecords(Misses(l))
<1> DEFINE M == {p \in DOMAIN ids[l] : remapped[l][p] = None}
<1>1. ids[l] \in Seq(Experts)
  BY DEF RoutedInv
<1>2. DOMAIN ids[l] = 1 .. Len(ids[l]) /\ Len(ids[l]) \in Nat
  BY <1>1
<1>3. IsFiniteSet(DOMAIN ids[l])
  BY <1>2, FS_Interval
<1>4. IsFiniteSet(M)
  BY <1>3, FS_Subset
<1>5. SetToSeq(M) \in [1 .. Cardinality(M) -> M]
  BY <1>4, SetToSeqType
<1>6. \A m \in M : ids[l][m] \in Recorded
  BY DEF RoutedInv
<1> HIDE DEF M
<1>7. \A i \in 1 .. Cardinality(M) : ids[l][SetToSeq(M)[i]] \in Recorded
  BY <1>5, <1>6
<1>8. HasRecords(PairsOf(l, M))
  BY <1>7 DEF HasRecords, PairsOf
<1> QED BY <1>8 DEF Misses, M

LEMMA InitRecord ==
  ASSUME Init
  PROVE  RecordInv
<1>1. Experts \ Residents \subseteq Recorded /\ Placement \in [Slots -> Experts \cup {None}]
      /\ None \notin Experts \cup Slots
  BY TierAssumption
<1>2. \A e \in Residents : (CHOOSE s \in Slots : Placement[s] = e) \in Slots
  BY DEF Residents
<1>3. TableInv
  BY <1>1, <1>2 DEF Init, TableInv
<1>4. CopyInv /\ RoutedInv /\ MailInv
  BY DEF Init, CopyInv, RoutedInv, MailInv, HasRecords, AckStatuses
<1> QED BY <1>3, <1>4 DEF RecordInv

LEMMA TailSeq ==
  ASSUME NEW S, NEW q \in Seq(S), q # <<>>
  PROVE  Head(q) \in S /\ Tail(q) \in Seq(S)
OBVIOUS

LEMMA ConcatSeq ==
  ASSUME NEW S, NEW q \in Seq(S), NEW r \in Seq(S)
  PROVE  q \o r \in Seq(S)
OBVIOUS

LEMMA HeadPut ==
  ASSUME NEW S, NEW q \in Seq(S), NEW c \in S
  PROVE  <<c>> \o q \in Seq(S)
OBVIOUS

-----------------------------------------------------------------------------
(* The copy stream.                                                        *)

LEMMA CopyStreamRecord ==
  ASSUME RecordInv, CopyStream
  PROVE  RecordInv'
<1> DEFINE c == Head(copy)
<1> USE DEF RecordInv
<1>1. copy # <<>>
  BY DEF CopyStream, CopyWait, CopyRecord, Unmap, Tear, Fill, Map, Promoted, CopyDoes
<1>2. c \in CopyCommand(Recorded) /\ Tail(copy) \in Seq(CopyCommand(Recorded)) /\ step \in Nat
  BY <1>1, TailSeq DEF CopyInv
<1>3. UNCHANGED <<host, main, mail, tier, ids, remapped, seqDev>>
  BY DEF CopyStream, CopyWait, CopyRecord, Unmap, Tear, Fill, Map, Promoted, device
<1>4. RoutedInv' /\ MailInv'
  BY <1>3 DEF RoutedInv, MailInv, HasRecords, AckStatuses, mail, tier
<1>5. step' = step
  BY <1>3 DEF host
<1>6. CASE CopyWait \/ CopyRecord \/ Promoted
  <2>1. copy' = Tail(copy) /\ table' = table
    BY <1>6 DEF CopyWait, CopyRecord, Promoted, device
  <2> QED BY <1>2, <1>4, <1>5, <2>1 DEF TableInv, CopyInv
<1>7. CASE Unmap
  <2>1. c.experts \subseteq Recorded
    BY <1>2, <1>7 DEF CopyCommand, Unmap, CopyDoes
  <2>2. table' = [table EXCEPT ![c.layer] = [e \in Experts |-> IF e \in c.experts THEN None ELSE @[e]]]
    BY <1>7 DEF Unmap
  <2>3. TableInv'
    BY <2>1, <2>2 DEF TableInv
  <2>4. copy' = Tail(copy)
    BY <1>7 DEF Unmap
  <2> QED BY <1>2, <1>4, <1>5, <2>3, <2>4 DEF CopyInv
<1>8. CASE Tear
  <2>1. PICK e \in DOMAIN c.plan :
          copy' = <<Promote("fill", c.layer, c.plan, e)>> \o Tail(copy)
    BY <1>8 DEF Tear
  <2>2. c.layer \in Layers /\ c.plan \in PlanSet
    BY <1>2, <1>8 DEF Tear, CopyDoes, CopyCommand
  <2>3. e \in Experts
    BY <2>2 DEF PlanSet
  <2>4. Promote("fill", c.layer, c.plan, e) \in CopyCommand(Recorded)
    BY <2>2, <2>3 DEF Promote, CopyCommand
  <2>5. table' = table
    BY <1>8 DEF Tear
  <2> QED BY <1>2, <1>4, <1>5, <2>1, <2>4, <2>5, HeadPut DEF TableInv, CopyInv
<1>9. CASE Fill
  <2>1. c.layer \in Layers /\ c.plan \in PlanSet /\ c.expert \in Experts /\ c.expert \in DOMAIN c.plan
    BY <1>2, <1>9 DEF Fill, CopyDoes, CopyCommand
  <2>2. Promote("map", c.layer, c.plan, c.expert) \in CopyCommand(Recorded)
    BY <2>1 DEF Promote, CopyCommand
  <2>3. copy' = <<Promote("map", c.layer, c.plan, c.expert)>> \o Tail(copy) /\ table' = table
    BY <1>9 DEF Fill
  <2> QED BY <1>2, <1>4, <1>5, <2>2, <2>3, HeadPut DEF TableInv, CopyInv
<1>10. CASE Map
  <2> DEFINE left == [e \in DOMAIN c.plan \ {c.expert} |-> c.plan[e]]
  <2>1. c.layer \in Layers /\ c.plan \in PlanSet /\ c.expert \in Experts /\ c.expert \in DOMAIN c.plan
    BY <1>2, <1>10 DEF Map, CopyDoes, CopyCommand
  <2>2. c.plan[c.expert] \in Slots
    BY <2>1 DEF PlanSet
  <2>3. left \in PlanSet
    <3>1. PICK q \in SUBSET Experts : c.plan \in [q -> Slots]
      BY <2>1 DEF PlanSet
    <3>2. left \in [q \ {c.expert} -> Slots] /\ q \ {c.expert} \in SUBSET Experts
      BY <3>1
    <3> QED BY <3>2 DEF PlanSet
  <2>4. Promote("promote", c.layer, left, None) \in CopyCommand(Recorded)
    <3> HIDE DEF left
    <3> QED BY <2>1, <2>3 DEF Promote, CopyCommand
  <2>5. /\ table' = [table EXCEPT ![c.layer][c.expert] = c.plan[c.expert]]
        /\ copy' = <<Promote("promote", c.layer, left, None)>> \o Tail(copy)
    BY <1>10 DEF Map
  <2>6. TableInv'
    BY <2>1, <2>2, <2>5, TierAssumption DEF TableInv
  <2> QED BY <1>2, <1>4, <1>5, <2>4, <2>5, <2>6, HeadPut DEF CopyInv
<1> QED BY <1>6, <1>7, <1>8, <1>9, <1>10 DEF CopyStream

-----------------------------------------------------------------------------
(* The main stream and the dispatcher.                                     *)

LEMMA MainStreamRecord ==
  ASSUME RecordInv, MainStream
  PROVE  RecordInv'
<1> USE DEF RecordInv
<1>1. UNCHANGED <<copy, table, step, ack, serving>>
  BY DEF MainStream, MainWait, MainRecord, Remap, Publish, Moe, Enter, Skip, Inject, TimeOut,
         host, device, mail, tier
<1>2. TableInv' /\ CopyInv'
  BY <1>1 DEF TableInv, CopyInv
<1>3. CASE Remap
  <2>1. PICK r \in Routings :
          /\ ids' = [ids EXCEPT ![layerOf] = r]
          /\ remapped' = [remapped EXCEPT ![layerOf] = [p \in DOMAIN r |-> table[layerOf][r[p]]]]
    BY <1>3 DEF Remap
  <2>2. r \in Seq(Experts)
    BY TierAssumption
  <2>3. \A p \in DOMAIN r : r[p] \in Experts
    BY <2>2
  <2>4. RoutedInv'
    <3>1. ids' \in [Layers -> Seq(Experts)] /\ DOMAIN remapped' = Layers
      BY <2>1, <2>2 DEF RoutedInv
    <3>2. ASSUME NEW l \in Layers, NEW p \in DOMAIN ids'[l], remapped'[l][p] = None
          PROVE  ids'[l][p] \in Recorded
      <4>1. CASE l = layerOf
        <5>1. ids'[l] = r /\ remapped'[l] = [q \in DOMAIN r |-> table[l][r[q]]]
          BY <2>1, <4>1 DEF RoutedInv
        <5> QED BY <2>3, <3>2, <5>1 DEF TableInv
      <4>2. CASE l # layerOf
        <5>1. ids'[l] = ids[l] /\ remapped'[l] = remapped[l]
          BY <2>1, <4>2 DEF RoutedInv
        <5> QED BY <3>2, <5>1 DEF RoutedInv
      <4> QED BY <4>1, <4>2
    <3> QED BY <3>1, <3>2 DEF RoutedInv
  <2>5. UNCHANGED <<req, serving, ack>>
    BY <1>3 DEF Remap, mail, tier
  <2> QED BY <1>2, <2>4, <2>5 DEF MailInv, HasRecords, AckStatuses
<1>4. CASE Publish
  <2>1. req' = [req EXCEPT ![layerOf] = [seq |-> seqDev'[layerOf], pairs |-> Misses(layerOf)]]
    BY <1>4 DEF Publish
  <2>2. \A l \in Layers : HasRecords(Misses(l))
    BY PairsRecorded
  <2>3. \A l \in Layers : req'[l].pairs \in {req[l].pairs, Misses(l)}
    BY <2>1 DEF MailInv
  <2>4. \A l \in Layers : HasRecords(req'[l].pairs)
    BY <2>2, <2>3 DEF MailInv
  <2>5. UNCHANGED <<ids, remapped>>
    BY <1>4 DEF Publish
  <2>6. DOMAIN req' = Layers /\ (serving # <<>> => HasRecords(serving[2]))
        /\ DOMAIN ack = Layers /\ AckStatuses
    BY <2>1 DEF MailInv
  <2>7. MailInv'
    BY <1>1, <2>4, <2>6 DEF MailInv, AckStatuses, HasRecords
  <2> QED BY <1>2, <2>5, <2>7 DEF RoutedInv
<1>5. CASE ~Remap /\ ~Publish
  <2>1. UNCHANGED <<ids, remapped, req>>
    BY <1>5 DEF MainStream, MainWait, MainRecord, Moe, Enter, Skip, Inject, TimeOut, device, mail
  <2> QED BY <1>1, <1>2, <2>1 DEF RoutedInv, MailInv, HasRecords, AckStatuses
<1> QED BY <1>3, <1>4, <1>5

LEMMA DispatcherRecord ==
  ASSUME RecordInv, Dispatcher
  PROVE  RecordInv'
<1> USE DEF RecordInv
<1>1. UNCHANGED <<copy, table, step, ids, remapped, req>>
  BY DEF Dispatcher, Answer, Serve, Resync, host, device, mail
<1>2. TableInv' /\ CopyInv' /\ RoutedInv'
  BY <1>1 DEF TableInv, CopyInv, RoutedInv
<1>3. CASE Answer
  <2>1. \A e \in {serving[2][i].expert : i \in DOMAIN serving[2]} : HoldsRecord(e)
    BY <1>3 DEF Answer, MailInv, HasRecords, HoldsRecord
  <2>2. \E status \in {0} \cup Faults :
          ack' = [ack EXCEPT ![serving[1]] = [seq |-> expected[serving[1]], status |-> status]]
    BY <1>3, <2>1 DEF Answer
  <2>3. serving' = <<>>
    BY <1>3 DEF Answer
  <2> QED BY <1>1, <1>2, <2>2, <2>3 DEF MailInv, HasRecords, AckStatuses
<1>4. ASSUME NEW l \in Layers, Serve(l)
      PROVE  RecordInv'
  <2>1. serving' = <<l, req[l].pairs>> /\ ack' = ack
    BY <1>4 DEF Serve, mail
  <2>2. HasRecords(serving'[2])
    BY <2>1 DEF MailInv
  <2> QED BY <1>1, <1>2, <2>1, <2>2 DEF MailInv, HasRecords, AckStatuses
<1>5. ASSUME NEW l \in Layers, Resync(l)
      PROVE  RecordInv'
  BY <1>1, <1>2, <1>5 DEF Resync, mail, MailInv, HasRecords, AckStatuses
<1> QED BY <1>3, <1>4, <1>5 DEF Dispatcher

-----------------------------------------------------------------------------
(* The host.                                                               *)

\* What AfterLaunch plans, and what it unmaps for it.
Chosen(plans) == plans \in [Layers -> PlanSet] /\ \A l \in Layers : plans[l] \in Plans(l)

LEMMA PlansChosen ==
  ASSUME NEW plans \in [Layers -> UNION {Plans(l) : l \in Layers}],
         \A l \in Layers : plans[l] \in Plans(l)
  PROVE  Chosen(plans)
<1>1. ASSUME NEW l \in Layers, NEW p \in Plans(l)
      PROVE  p \in PlanSet
  <2>1. PICK q \in SUBSET {e \in Experts : <<l, e>> \in missed /\ e \notin Mapped(l)} :
          p \in [q -> Slots]
    BY <1>1 DEF Plans
  <2>2. q \in SUBSET Experts
    BY <2>1
  <2> QED BY <2>1, <2>2 DEF PlanSet
<1>2. plans \in [Layers -> PlanSet]
  BY <1>1
<1> QED BY <1>2 DEF Chosen

LEMMA ScheduleType ==
  ASSUME NEW plans, Chosen(plans), NEW n \in Nat
  PROVE  Schedule(plans, n) \in Seq(CopyCommand(Recorded))
<1> DEFINE C == CopyCommand(Recorded)
           victims(l) == {holder[l][plans[l][e]] : e \in DOMAIN plans[l]} \ {None}
<1>0. plans \in [Layers -> PlanSet] /\ \A l \in Layers : plans[l] \in Plans(l)
  BY DEF Chosen
<1>1. ASSUME NEW l \in Layers
      PROVE  victims(l) \subseteq Recorded
  <2>1. PICK q : plans[l] \in [q -> Slots] /\ \A e \in q : Evictable(l, plans[l][e])
    BY <1>0 DEF Plans
  <2> QED BY <2>1 DEF Evictable, HoldsRecord
<1>2. \A l \in Layers : [op |-> "unmap", layer |-> l, experts |-> victims(l)] \in C
  BY <1>1 DEF CopyCommand
<1>3. Unmaps(plans) = [l \in Layers |-> [op |-> "unmap", layer |-> l, experts |-> victims(l)]]
  BY DEF Unmaps
<1>4. Unmaps(plans) \in [Layers -> C]
  <2> HIDE DEF C, victims
  <2> QED BY <1>2, <1>3
<1>5. \A l \in Layers : Promote("promote", l, plans[l], None) \in C
  BY <1>0 DEF Promote, CopyCommand
<1>6. Promotes(plans) \in [Layers -> C]
  <2> HIDE DEF C
  <2> QED BY <1>5 DEF Promotes
<1>7. Layers = 1 .. NLayers /\ NLayers \in Nat
  BY TierAssumption DEF Layers
<1>8. Wait({<<"done", n>>}) \in C /\ Record(<<"U", n>>) \in C /\ Record(<<"M", n>>) \in C
  BY DEF Wait, Record, CopyCommand
<1> HIDE DEF C
<1>9. Unmaps(plans) \in Seq(C) /\ Promotes(plans) \in Seq(C)
  BY <1>4, <1>6, <1>7
<1>10. <<Wait({<<"done", n>>})>> \in Seq(C) /\ <<Record(<<"U", n>>)>> \in Seq(C)
         /\ <<Record(<<"M", n>>)>> \in Seq(C)
  BY <1>8
<1>11. Schedule(plans, n) \in Seq(C)
  BY <1>9, <1>10 DEF Schedule
<1> QED BY <1>11 DEF C

LEMMA HostRecord ==
  ASSUME RecordInv, Host
  PROVE  RecordInv'
<1> USE DEF RecordInv
<1>1. UNCHANGED <<table, ids, remapped, req, ack, serving>>
  BY DEF Host, BeforeLaunch, Launch, AfterLaunch, FailClosed, StopTier, RestartTier,
         device, mail, tier
<1>2. TableInv' /\ RoutedInv' /\ MailInv'
  BY <1>1 DEF TableInv, RoutedInv, MailInv, HasRecords, AckStatuses
<1>3. CASE AfterLaunch
  <2>1. step' = step + 1 /\ step' \in Nat
    BY <1>3 DEF AfterLaunch, CopyInv
  <2>2. PICK plans \in [Layers -> UNION {Plans(l) : l \in Layers}] :
          /\ \A l \in Layers : plans[l] \in Plans(l)
          /\ copy' = copy \/ copy' = copy \o Schedule(plans, step')
    BY <1>3 DEF AfterLaunch
  <2>3. Chosen(plans)
    BY <2>2, PlansChosen
  <2>4. PICK n \in Nat : n = step'
    BY <2>1
  <2>5. Schedule(plans, step') \in Seq(CopyCommand(Recorded))
    BY <2>3, <2>4, ScheduleType
  <2>6. copy \in Seq(CopyCommand(Recorded))
    BY DEF CopyInv
  <2>7. copy \o Schedule(plans, step') \in Seq(CopyCommand(Recorded))
    BY <2>5, <2>6, ConcatSeq
  <2>8. copy' \in Seq(CopyCommand(Recorded))
    BY <2>2, <2>6, <2>7
  <2> QED BY <1>2, <2>1, <2>8 DEF CopyInv
<1>4. CASE FailClosed
  BY <1>2, <1>4 DEF FailClosed, CopyInv
<1>5. CASE ~AfterLaunch /\ ~FailClosed
  <2>1. UNCHANGED <<step, copy>>
    BY <1>5 DEF Host, BeforeLaunch, Launch, StopTier, RestartTier, host
  <2> QED BY <1>2, <2>1 DEF CopyInv
<1> QED BY <1>3, <1>4, <1>5

LEMMA NextRecord ==
  ASSUME RecordInv, [Next]_vars
  PROVE  RecordInv'
<1>1. CASE Next
  BY <1>1, HostRecord, MainStreamRecord, CopyStreamRecord, DispatcherRecord DEF Next
<1>2. CASE UNCHANGED vars
  BY <1>2 DEF vars, host, device, mail, tier, RecordInv, TableInv, CopyInv, RoutedInv, MailInv,
              HasRecords, AckStatuses
<1> QED BY <1>1, <1>2

\* The dispatcher never answers with status 2 (no record), whatever the
\* placement, the routing, the timing of the streams and the restarts are:
\* pick_victim's record_ok test is enough, although the table the GPU reads
\* lags the mirror the test is made on.
THEOREM RecordsSuffice == Spec => []NoMissingRecord
<1>1. RecordInv => NoMissingRecord
  BY TierAssumption DEF RecordInv, MailInv, AckStatuses, NoMissingRecord
<1> QED BY <1>1, InitRecord, NextRecord, PTL DEF Spec
-----------------------------------------------------------------------------
(* Queues: what stands where once a command is through, put behind, or     *)
(* replaced, and what is queued behind what.                               *)

IsRecord(c, ev) == c.op = "record" /\ c.ev = ev
IsLayerOp(c) == c.op \in {"remap", "publish", "moe", "inject"}
RecordAfter(q, i, ev) == \E j \in i + 1 .. Len(q) : IsRecord(q[j], ev)
WaitBefore(q, i, ev) == \E j \in 1 .. i - 1 : q[j].op = "wait" /\ ev \in q[j].evs

\* The first command of q is through, q got longer by s, its first command was replaced.
Shifted(q, r) ==
  /\ Len(q) \in Nat \ {0} /\ Len(r) = Len(q) - 1
  /\ \A i \in 1 .. Len(r) : r[i] = q[i + 1]
Longer(q, r, s) ==
  /\ Len(q) \in Nat /\ Len(s) \in Nat /\ Len(r) = Len(q) + Len(s)
  /\ \A i \in 1 .. Len(q) : r[i] = q[i]
  /\ \A k \in 1 .. Len(s) : r[Len(q) + k] = s[k]
Replaced(q, r) ==
  /\ Len(q) \in Nat \ {0} /\ Len(r) = Len(q)
  /\ \A i \in 2 .. Len(q) : r[i] = q[i]

LEMMA TailShifts ==
  ASSUME NEW S, NEW q \in Seq(S), q # <<>>
  PROVE  Shifted(q, Tail(q)) /\ Head(q) = q[1]
BY DEF Shifted

LEMMA ConcatLengthens ==
  ASSUME NEW S, NEW q \in Seq(S), NEW T, NEW s \in Seq(T)
  PROVE  Longer(q, q \o s, s)
<1>1. Len(q) \in Nat /\ Len(s) \in Nat /\ Len(q \o s) = Len(q) + Len(s)
  OBVIOUS
<1>2. \A i \in 1 .. Len(q) : (q \o s)[i] = q[i]
  OBVIOUS
<1>3. \A k \in 1 .. Len(s) : (q \o s)[Len(q) + k] = s[k]
  OBVIOUS
<1> QED BY <1>1, <1>2, <1>3 DEF Longer

\* Position i is in the old part of the longer queue or in the new one.
Found(q, r, s, i) ==
  \/ i \in 1 .. Len(q) /\ r[i] = q[i]
  \/ \E k \in 1 .. Len(s) : i = Len(q) + k /\ r[i] = s[k]

LEMMA LongerAt ==
  ASSUME NEW q, NEW r, NEW s, Longer(q, r, s), NEW i \in 1 .. Len(r)
  PROVE  Found(q, r, s, i)
<1>1. CASE i \in 1 .. Len(q)
  BY <1>1 DEF Longer, Found
<1>2. CASE i \notin 1 .. Len(q)
  <2>1. i - Len(q) \in 1 .. Len(s) /\ i = Len(q) + (i - Len(q))
    BY <1>2 DEF Longer
  <2> QED BY <2>1 DEF Longer, Found
<1> QED BY <1>1, <1>2

LEMMA PutReplaces ==
  ASSUME NEW S, NEW q \in Seq(S), q # <<>>, NEW c
  PROVE  Replaced(q, <<c>> \o Tail(q)) /\ (<<c>> \o Tail(q))[1] = c
<1>1. Tail(q) \in Seq(S) /\ <<c>> \in Seq({c})
  OBVIOUS
<1>2. Longer(<<c>>, <<c>> \o Tail(q), Tail(q)) /\ Shifted(q, Tail(q))
  BY <1>1, ConcatLengthens, TailShifts
<1> DEFINE r == <<c>> \o Tail(q)
<1>3. Len(<<c>>) = 1 /\ <<c>>[1] = c
  OBVIOUS
<1> HIDE DEF r
<1>4. \A i \in 2 .. Len(q) : i - 1 \in 1 .. Len(Tail(q)) /\ 1 + (i - 1) = i /\ (i - 1) + 1 = i
  BY <1>2 DEF Shifted
<1>5. Longer(<<c>>, r, Tail(q))
  BY <1>2 DEF r
<1>6. PICK h : h = <<c>>
  OBVIOUS
<1>7. Len(h) = 1 /\ h[1] = c /\ Longer(h, r, Tail(q)) /\ Shifted(q, Tail(q))
  BY <1>2, <1>3, <1>5, <1>6
<1>8. \A i \in 2 .. Len(q) : r[i] = q[i]
  <2>1. ASSUME NEW i \in 2 .. Len(q) PROVE r[i] = q[i]
    <3>1. PICK j \in 1 .. Len(Tail(q)) : 1 + j = i /\ j + 1 = i
      BY <1>4
    <3>2. r[1 + j] = Tail(q)[j] /\ Tail(q)[j] = q[j + 1]
      BY <1>7, <3>1 DEF Longer, Shifted
    <3> QED BY <3>1, <3>2
  <2> QED BY <2>1
<1>9. Len(q) \in Nat \ {0} /\ Len(r) = Len(q) /\ r[1] = c
  BY <1>7 DEF Longer, Shifted
<1> QED BY <1>8, <1>9 DEF r, Replaced

LEMMA ShiftedAfter ==
  ASSUME NEW q, NEW r, Shifted(q, r), NEW i \in 1 .. Len(r), NEW ev, RecordAfter(q, i + 1, ev)
  PROVE  RecordAfter(r, i, ev)
<1>1. PICK j \in i + 2 .. Len(q) : IsRecord(q[j], ev)
  BY DEF RecordAfter, Shifted
<1>2. j - 1 \in i + 1 .. Len(r) /\ j - 1 \in 1 .. Len(r) /\ (j - 1) + 1 = j
  BY <1>1 DEF Shifted
<1>3. r[j - 1] = q[j]
  BY <1>2 DEF Shifted
<1> QED BY <1>1, <1>2, <1>3 DEF RecordAfter

LEMMA ShiftedBefore ==
  ASSUME NEW q, NEW r, Shifted(q, r), NEW i \in 1 .. Len(r) + 1, NEW ev, WaitBefore(q, i + 1, ev),
         ~(q[1].op = "wait" /\ ev \in q[1].evs)
  PROVE  WaitBefore(r, i, ev)
<1>1. PICK j \in 1 .. i : q[j].op = "wait" /\ ev \in q[j].evs
  BY DEF WaitBefore
<1>2. j # 1
  BY <1>1
<1>3. j - 1 \in 1 .. i - 1 /\ j - 1 \in 1 .. Len(r) /\ (j - 1) + 1 = j
  BY <1>1, <1>2 DEF Shifted
<1>4. r[j - 1] = q[j]
  BY <1>3 DEF Shifted
<1> QED BY <1>1, <1>3, <1>4 DEF WaitBefore

LEMMA LongerAfter ==
  ASSUME NEW q, NEW r, NEW s, Longer(q, r, s), NEW i \in 1 .. Len(q), NEW ev, RecordAfter(q, i, ev)
  PROVE  RecordAfter(r, i, ev)
<1>1. PICK j \in i + 1 .. Len(q) : IsRecord(q[j], ev)
  BY DEF RecordAfter
<1>2. j \in i + 1 .. Len(r) /\ r[j] = q[j]
  BY <1>1 DEF Longer
<1> QED BY <1>1, <1>2 DEF RecordAfter

LEMMA LongerBefore ==
  ASSUME NEW q, NEW r, NEW s, Longer(q, r, s), NEW i \in 1 .. Len(q) + 1, NEW ev,
         WaitBefore(q, i, ev), NEW k \in i .. Len(r) + 1
  PROVE  WaitBefore(r, k, ev)
<1>1. PICK j \in 1 .. i - 1 : q[j].op = "wait" /\ ev \in q[j].evs
  BY DEF WaitBefore
<1>2. j \in 1 .. k - 1 /\ r[j] = q[j]
  BY <1>1 DEF Longer
<1> QED BY <1>1, <1>2 DEF WaitBefore

LEMMA ReplacedAfter ==
  ASSUME NEW q, NEW r, Replaced(q, r), NEW i \in 1 .. Len(q), NEW ev, RecordAfter(q, i, ev)
  PROVE  RecordAfter(r, i, ev)
<1>1. PICK j \in i + 1 .. Len(q) : IsRecord(q[j], ev)
  BY DEF RecordAfter
<1>2. j \in i + 1 .. Len(r) /\ r[j] = q[j]
  BY <1>1 DEF Replaced
<1> QED BY <1>1, <1>2 DEF RecordAfter

LEMMA ReplacedBefore ==
  ASSUME NEW q, NEW r, Replaced(q, r), q[1].op # "wait", NEW i \in 1 .. Len(q) + 1, NEW ev,
         WaitBefore(q, i, ev)
  PROVE  WaitBefore(r, i, ev)
<1>1. PICK j \in 1 .. i - 1 : q[j].op = "wait" /\ ev \in q[j].evs
  BY DEF WaitBefore
<1>2. j # 1
  BY <1>1
<1>3. r[j] = q[j]
  BY <1>1, <1>2 DEF Replaced
<1> QED BY <1>1, <1>3 DEF WaitBefore

\* The events a stream is still to record: none is signalled, no two are the same.
Fresh(q, kinds, n, sig) ==
  \A i \in 1 .. Len(q) : q[i].op = "record" =>
    /\ q[i].ev \in kinds \X (0 .. n) /\ q[i].ev \notin sig
    /\ \A j \in 1 .. Len(q) : IsRecord(q[j], q[i].ev) => j = i

LEMMA FreshSame ==
  ASSUME NEW q, NEW K, NEW n \in Nat, NEW sig, Fresh(q, K, n, sig), NEW m \in Nat, n <= m,
         NEW tau, \A ev \in tau : ev \in sig \/ ev[1] \notin K
  PROVE  Fresh(q, K, m, tau)
<1> SUFFICES ASSUME NEW i \in 1 .. Len(q), q[i].op = "record"
             PROVE  /\ q[i].ev \in K \X (0 .. m) /\ q[i].ev \notin tau
                    /\ \A j \in 1 .. Len(q) : IsRecord(q[j], q[i].ev) => j = i
  BY DEF Fresh
<1>1. /\ q[i].ev \in K \X (0 .. n) /\ q[i].ev \notin sig
      /\ \A j \in 1 .. Len(q) : IsRecord(q[j], q[i].ev) => j = i
  BY DEF Fresh
<1>2. q[i].ev[1] \in K /\ q[i].ev \in K \X (0 .. m)
  BY <1>1
<1> QED BY <1>1, <1>2

LEMMA FreshShifted ==
  ASSUME NEW q, NEW r, Shifted(q, r), NEW K, NEW n, NEW sig, Fresh(q, K, n, sig),
         NEW tau, \A ev \in tau : ev \in sig \/ IsRecord(q[1], ev)
  PROVE  Fresh(r, K, n, tau)
<1> SUFFICES ASSUME NEW i \in 1 .. Len(r), r[i].op = "record"
             PROVE  /\ r[i].ev \in K \X (0 .. n) /\ r[i].ev \notin tau
                    /\ \A j \in 1 .. Len(r) : IsRecord(r[j], r[i].ev) => j = i
  BY DEF Fresh
<1>1. /\ i + 1 \in 1 .. Len(q) /\ 1 \in 1 .. Len(q) /\ i + 1 # 1 /\ r[i] = q[i + 1]
      /\ \A j \in 1 .. Len(r) : j + 1 \in 1 .. Len(q) /\ r[j] = q[j + 1] /\ (j + 1 = i + 1 => j = i)
  BY DEF Shifted
<1>2. /\ q[i + 1].ev \in K \X (0 .. n) /\ q[i + 1].ev \notin sig
      /\ \A j \in 1 .. Len(q) : IsRecord(q[j], q[i + 1].ev) => j = i + 1
  BY <1>1 DEF Fresh
<1>3. ~IsRecord(q[1], q[i + 1].ev)
  BY <1>1, <1>2
<1> QED BY <1>1, <1>2, <1>3

LEMMA FreshReplaced ==
  ASSUME NEW q, NEW r, Replaced(q, r), NEW K, NEW n, NEW sig, Fresh(q, K, n, sig),
         r[1].op # "record"
  PROVE  Fresh(r, K, n, sig)
<1> SUFFICES ASSUME NEW i \in 1 .. Len(r), r[i].op = "record"
             PROVE  /\ r[i].ev \in K \X (0 .. n) /\ r[i].ev \notin sig
                    /\ \A j \in 1 .. Len(r) : IsRecord(r[j], r[i].ev) => j = i
  BY DEF Fresh
<1>1. /\ i \in 1 .. Len(q) /\ r[i] = q[i]
      /\ \A j \in 1 .. Len(r) : j \in 1 .. Len(q) /\ (j # 1 => r[j] = q[j])
  BY DEF Replaced
<1>2. \A j \in 1 .. Len(r) : IsRecord(r[j], r[i].ev) => j # 1
  BY DEF IsRecord
<1> QED BY <1>1, <1>2 DEF Fresh

\* The records put behind q have later numbers than its own and than what is signalled.
LEMMA FreshLonger ==
  ASSUME NEW q, NEW r, NEW s, Longer(q, r, s), NEW K, NEW n \in Nat, NEW sig, Fresh(q, K, n, sig),
         NEW m \in Nat, n <= m, \A ev \in sig : ev[2] \in 0 .. n,
         \A k \in 1 .. Len(s) : s[k].op = "record" =>
           /\ s[k].ev \in K \X (n + 1 .. m)
           /\ \A j \in 1 .. Len(s) : IsRecord(s[j], s[k].ev) => j = k
  PROVE  Fresh(r, K, m, sig)
<1> SUFFICES ASSUME NEW i \in 1 .. Len(r), r[i].op = "record"
             PROVE  /\ r[i].ev \in K \X (0 .. m) /\ r[i].ev \notin sig
                    /\ \A j \in 1 .. Len(r) : IsRecord(r[j], r[i].ev) => j = i
  BY DEF Fresh
<1>1. \A j \in 1 .. Len(r) : \/ j \in 1 .. Len(q) /\ r[j] = q[j]
                             \/ \E k \in 1 .. Len(s) : j = Len(q) + k /\ r[j] = s[k]
  <2>1. \A j \in 1 .. Len(r) : Found(q, r, s, j)
    BY LongerAt
  <2> QED BY <2>1 DEF Found
<1>2. CASE i \in 1 .. Len(q) /\ r[i] = q[i]
  <2>1. /\ q[i].ev \in K \X (0 .. n) /\ q[i].ev \notin sig
        /\ \A j \in 1 .. Len(q) : IsRecord(q[j], q[i].ev) => j = i
    BY <1>2 DEF Fresh
  <2>2. q[i].ev[2] \in 0 .. n /\ q[i].ev \in K \X (0 .. m)
    BY <2>1
  <2>3. \A k \in 1 .. Len(s) : ~IsRecord(s[k], q[i].ev)
    <3>1. ASSUME NEW k \in 1 .. Len(s), IsRecord(s[k], q[i].ev) PROVE FALSE
      <4>1. q[i].ev \in K \X (n + 1 .. m)
        BY <3>1 DEF IsRecord
      <4> QED BY <2>2, <4>1
    <3> QED BY <3>1
  <2> QED BY <1>1, <1>2, <2>1, <2>2, <2>3
<1>3. ASSUME NEW k \in 1 .. Len(s), i = Len(q) + k, r[i] = s[k]
      PROVE  /\ r[i].ev \in K \X (0 .. m) /\ r[i].ev \notin sig
             /\ \A j \in 1 .. Len(r) : IsRecord(r[j], r[i].ev) => j = i
  <2>1. /\ s[k].ev \in K \X (n + 1 .. m)
        /\ \A j \in 1 .. Len(s) : IsRecord(s[j], s[k].ev) => j = k
    BY <1>3
  <2>2. s[k].ev[2] \in n + 1 .. m /\ s[k].ev \in K \X (0 .. m) /\ s[k].ev[2] \notin 0 .. n
    BY <2>1
  <2>3. \A j \in 1 .. Len(q) : ~IsRecord(q[j], s[k].ev)
    <3>1. ASSUME NEW j \in 1 .. Len(q), IsRecord(q[j], s[k].ev) PROVE FALSE
      <4>1. s[k].ev \in K \X (0 .. n)
        BY <3>1 DEF IsRecord, Fresh
      <4> QED BY <2>2, <4>1
    <3> QED BY <3>1
  <2> QED BY <1>1, <1>3, <2>1, <2>2, <2>3
<1> QED BY <1>1, <1>2, <1>3

-----------------------------------------------------------------------------
(* The slot table is the host's mirror, late by what the copy stream has    *)
(* queued.  EntryBefore is the entry a queued command will find: the value  *)
(* its last writer ahead of the command puts, or the table's own.           *)

IsPromotion(c) == c.op \in {"promote", "fill", "map"}
Touches(c, l, e) ==
  \/ c.op = "unmap" /\ c.layer = l /\ e \in c.experts
  \/ IsPromotion(c) /\ c.layer = l /\ e \in DOMAIN c.plan
Puts(c, e) == IF c.op = "unmap" THEN None ELSE c.plan[e]
Untouched(i, k, l, e) == \A j \in i .. k - 1 : ~Touches(copy[j], l, e)
EntryBefore(i, l, e, v) ==
  \/ Untouched(1, i, l, e) /\ table[l][e] = v
  \/ \E j \in 1 .. i - 1 : /\ Touches(copy[j], l, e) /\ Puts(copy[j], e) = v
                           /\ Untouched(j + 1, i, l, e)

\* A promotion finds its slots in nobody's entry and its experts' entries empty; the last
\* of the queue leaves the mirror's entries.
Takes(c, l, s) == IsPromotion(c) /\ c.layer = l /\ \E d \in DOMAIN c.plan : c.plan[d] = s
Adds(c, l, e) == IsPromotion(c) /\ c.layer = l /\ e \in DOMAIN c.plan
Claims(c, l, e, s) == Takes(c, l, s) \/ (Adds(c, l, e) /\ s # None)
OneEach(plan) == \A d, e \in DOMAIN plan : plan[d] = plan[e] => d = e
PlanInv ==
  /\ copy \in Seq(CopyCommand(Recorded))
  /\ \A i \in 1 .. Len(copy) : IsPromotion(copy[i]) =>
       (i # 1 => copy[i].op = "promote") /\ OneEach(copy[i].plan)
FreeInv ==
  \A i \in 1 .. Len(copy), l \in Layers, e \in Experts : \A s :
    Claims(copy[i], l, e, s) => ~EntryBefore(i, l, e, s)
Mirrors(l, e, v) == IF v = None THEN e \notin Mapped(l) ELSE v \in Slots /\ holder[l][v] = e
EndInv ==
  \A l \in Layers, e \in Experts : \A v, n :
    n = Len(copy) + 1 /\ EntryBefore(n, l, e, v) => Mirrors(l, e, v)
HeldInv ==
  /\ holder \in [Layers -> [Slots -> Experts \cup {None}]]
  /\ \A l \in Layers : \A s, t \in Slots :
       holder[l][s] # None /\ holder[l][s] = holder[l][t] => s = t
BytesInv ==
  /\ bytes \in [Layers -> [Slots -> Experts \cup {None, Torn}]] /\ MappedIsWhole
  /\ copy # <<>> /\ copy[1].op = "map" =>
       bytes[copy[1].layer][copy[1].plan[copy[1].expert]] = copy[1].expert
SoundInv == RecordInv /\ PlanInv /\ FreeInv /\ EndInv /\ HeldInv /\ BytesInv

LEMMA InitSound ==
  ASSUME Init
  PROVE  SoundInv
<1>1. RecordInv /\ TierAssumption
  BY InitRecord, TierAssumption
<1>2. PlanInv /\ FreeInv
  BY DEF Init, PlanInv, FreeInv
<1>3. HeldInv
  BY <1>1 DEF Init, HeldInv, TierAssumption
<1>4. ASSUME NEW e \in Experts, e \in Residents
      PROVE  (CHOOSE s \in Slots : Placement[s] = e) \in Slots
             /\ Placement[CHOOSE s \in Slots : Placement[s] = e] = e
  BY <1>4 DEF Residents
<1>5. ASSUME NEW l \in Layers, NEW e \in Experts
      PROVE  Mirrors(l, e, table[l][e])
  <2>1. Mapped(l) = Residents /\ holder[l] = Placement
    BY DEF Init, Mapped, Residents
  <2>2. table[l][e] = IF e \in Residents THEN CHOOSE s \in Slots : Placement[s] = e ELSE None
    BY DEF Init
  <2>3. None \notin Slots
    BY <1>1 DEF TierAssumption
  <2> QED BY <1>4, <2>1, <2>2, <2>3 DEF Mirrors
<1>6. EndInv
  <2>1. ASSUME NEW l, NEW e, NEW v, NEW n, n = Len(copy) + 1, EntryBefore(n, l, e, v)
        PROVE  table[l][e] = v
    <3>1. n = 1
      BY <2>1 DEF Init
    <3> QED BY <2>1, <3>1 DEF EntryBefore
  <2> QED BY <1>5, <2>1 DEF EndInv
<1>7. MappedIsWhole
  <2>1. bytes = holder
    BY DEF Init
  <2> QED BY <1>5, <2>1 DEF Mirrors, MappedIsWhole
<1>8. BytesInv
  BY <1>1, <1>7 DEF Init, BytesInv, TierAssumption
<1> QED BY <1>1, <1>2, <1>3, <1>6, <1>8 DEF SoundInv

\* The mirror is the table when nothing is queued.
LEMMA SoundTable ==
  ASSUME SoundInv
  PROVE  TableSound
<1>1. MappedIsWhole
  BY DEF SoundInv, BytesInv
<1>2. ASSUME copy = <<>>, NEW l \in Layers, NEW e \in Experts
      PROVE  IF e \in Mapped(l) THEN table[l][e] # None /\ holder[l][table[l][e]] = e
                                ELSE table[l][e] = None
  <2>1. 1 = Len(copy) + 1 /\ EntryBefore(1, l, e, table[l][e])
    BY <1>2 DEF EntryBefore, Untouched
  <2>2. Mirrors(l, e, table[l][e])
    BY <2>1 DEF SoundInv, EndInv
  <2>3. CASE table[l][e] = None
    BY <2>2, <2>3 DEF Mirrors
  <2>4. CASE table[l][e] # None
    <3>1. table[l][e] \in Slots /\ holder[l][table[l][e]] = e
      BY <2>2, <2>4 DEF Mirrors
    <3>2. e # None
      BY TierAssumption
    <3>3. e \in Mapped(l)
      BY <3>1, <3>2 DEF Mapped
    <3> QED BY <2>4, <3>1, <3>3
  <2> QED BY <2>3, <2>4
<1> QED BY <1>1, <1>2 DEF TableSound, MirrorAgrees

-----------------------------------------------------------------------------
(* What a step of the copy stream leaves of the entries *)

\* The head is done: what it puts is in the table.
LEMMA HeadDone ==
  ASSUME copy \in Seq(CopyCommand(Recorded)), copy # <<>>, copy' = Tail(copy),
         NEW l, NEW e,
         Touches(copy[1], l, e) => table'[l][e] = Puts(copy[1], e),
         ~Touches(copy[1], l, e) => table'[l][e] = table[l][e],
         NEW i \in 1 .. Len(copy), NEW v, EntryBefore(i, l, e, v)'
  PROVE  EntryBefore(i + 1, l, e, v)
<1>1. /\ Len(copy) \in Nat \ {0} /\ Len(copy') = Len(copy) - 1
      /\ \A j \in 1 .. Len(copy) - 1 : copy'[j] = copy[j + 1]
  OBVIOUS
<1>2. ASSUME NEW j \in Nat, \A k \in j + 1 .. i - 1 : ~Touches(copy'[k], l, e)
      PROVE  \A k \in j + 2 .. i : ~Touches(copy[k], l, e)
  <2>1. ASSUME NEW k \in j + 2 .. i PROVE ~Touches(copy[k], l, e)
    <3>1. k - 1 \in j + 1 .. i - 1 /\ copy'[k - 1] = copy[k]
      BY <1>1, <2>1
    <3> QED BY <1>2, <3>1
  <2> QED BY <2>1
<1>3. CASE Untouched(1, i, l, e)' /\ table'[l][e] = v
  <2>1. \A k \in 2 .. i : ~Touches(copy[k], l, e)
    <3>1. \A k \in 0 + 1 .. i - 1 : ~Touches(copy'[k], l, e)
      BY <1>3 DEF Untouched
    <3>2. \A k \in 0 + 2 .. i : ~Touches(copy[k], l, e)
      BY <1>2, <3>1
    <3> QED BY <3>2
  <2>2. CASE Touches(copy[1], l, e)
    <3>1. Puts(copy[1], e) = v /\ Untouched(1 + 1, i + 1, l, e) /\ 1 \in 1 .. (i + 1) - 1
      BY <1>3, <2>1, <2>2 DEF Untouched
    <3> QED BY <2>2, <3>1 DEF EntryBefore
  <2>3. CASE ~Touches(copy[1], l, e)
    <3>1. Untouched(1, i + 1, l, e) /\ table[l][e] = v
      BY <1>3, <2>1, <2>3 DEF Untouched
    <3> QED BY <3>1 DEF EntryBefore
  <2> QED BY <2>2, <2>3
<1>4. ASSUME NEW j \in 1 .. i - 1, Touches(copy'[j], l, e), Puts(copy'[j], e) = v,
             Untouched(j + 1, i, l, e)'
      PROVE  EntryBefore(i + 1, l, e, v)
  <2>1. copy'[j] = copy[j + 1] /\ j + 1 \in 1 .. (i + 1) - 1
    <3>1. j \in 1 .. Len(copy) - 1 /\ j + 1 \in 1 .. (i + 1) - 1
      BY <1>4, <1>1
    <3> QED BY <1>1, <3>1
  <2>2. \A k \in j + 2 .. i : ~Touches(copy[k], l, e)
    <3>1. j \in Nat /\ \A k \in j + 1 .. i - 1 : ~Touches(copy'[k], l, e)
      BY <1>4 DEF Untouched
    <3> QED BY <1>2, <3>1
  <2>3. Untouched((j + 1) + 1, i + 1, l, e)
    BY <2>2 DEF Untouched
  <2> QED BY <1>4, <2>1, <2>3 DEF EntryBefore
<1>5. EntryBefore(i, l, e, v)' =>
        \/ Untouched(1, i, l, e)' /\ table'[l][e] = v
        \/ \E j \in 1 .. i - 1 : /\ Touches(copy'[j], l, e) /\ Puts(copy'[j], e) = v
                                 /\ Untouched(j + 1, i, l, e)'
  BY DEF EntryBefore, Touches, Puts, IsPromotion
<1> QED BY <1>3, <1>4, <1>5

\* The head is under way: an entry it no longer touches holds what it was to put.
LEMMA HeadMoves ==
  ASSUME copy \in Seq(CopyCommand(Recorded)), copy # <<>>,
         Len(copy') = Len(copy), \A j \in 2 .. Len(copy) : copy'[j] = copy[j],
         NEW l, NEW e,
         Touches(copy'[1], l, e) =>
           Touches(copy[1], l, e) /\ Puts(copy'[1], e) = Puts(copy[1], e),
         ~Touches(copy'[1], l, e) =>
           IF Touches(copy[1], l, e) THEN table'[l][e] = Puts(copy[1], e)
                                     ELSE table'[l][e] = table[l][e],
         NEW i \in 2 .. Len(copy) + 1, NEW v, EntryBefore(i, l, e, v)'
  PROVE  EntryBefore(i, l, e, v)
<1>1. Len(copy) \in Nat \ {0}
  OBVIOUS
<1>2. ASSUME NEW j \in Nat \ {0}, \A k \in j + 1 .. i - 1 : ~Touches(copy'[k], l, e)
      PROVE  Untouched(j + 1, i, l, e)
  BY <1>1, <1>2 DEF Untouched
<1>3. CASE Untouched(1, i, l, e)' /\ table'[l][e] = v
  <2>1. ~Touches(copy'[1], l, e) /\ \A k \in 1 + 1 .. i - 1 : ~Touches(copy'[k], l, e)
    BY <1>3 DEF Untouched
  <2>2. Untouched(1 + 1, i, l, e)
    BY <1>2, <2>1
  <2>3. CASE Touches(copy[1], l, e)
    <3>1. Puts(copy[1], e) = v /\ 1 \in 1 .. i - 1
      BY <1>3, <2>1, <2>3
    <3> QED BY <2>2, <2>3, <3>1 DEF EntryBefore
  <2>4. CASE ~Touches(copy[1], l, e)
    <3>1. Untouched(1, i, l, e) /\ table[l][e] = v
      BY <1>3, <2>1, <2>2, <2>4 DEF Untouched
    <3> QED BY <3>1 DEF EntryBefore
  <2> QED BY <2>3, <2>4
<1>4. ASSUME NEW j \in 1 .. i - 1, Touches(copy'[j], l, e), Puts(copy'[j], e) = v,
             Untouched(j + 1, i, l, e)'
      PROVE  EntryBefore(i, l, e, v)
  <2>1. Untouched(j + 1, i, l, e)
    BY <1>2, <1>4 DEF Untouched
  <2>2. Touches(copy[j], l, e) /\ Puts(copy[j], e) = v
    <3>1. CASE j = 1
      BY <1>4, <3>1
    <3>2. CASE j # 1
      <4>1. copy'[j] = copy[j]
        BY <1>1, <3>2
      <4> QED BY <1>4, <4>1
    <3> QED BY <3>1, <3>2
  <2> QED BY <2>1, <2>2 DEF EntryBefore
<1>5. EntryBefore(i, l, e, v)' =>
        \/ Untouched(1, i, l, e)' /\ table'[l][e] = v
        \/ \E j \in 1 .. i - 1 : /\ Touches(copy'[j], l, e) /\ Puts(copy'[j], e) = v
                                 /\ Untouched(j + 1, i, l, e)'
  BY DEF EntryBefore, Touches, Puts, IsPromotion
<1> QED BY <1>3, <1>4, <1>5

\* A command of the copy stream is through.
LEMMA Consumed ==
  ASSUME SoundInv, copy # <<>>, copy' = Tail(copy), RecordInv', holder' = holder, bytes' = bytes,
         \A l \in Layers, e \in Experts :
           IF Touches(copy[1], l, e) THEN table'[l][e] = Puts(copy[1], e)
                                     ELSE table'[l][e] = table[l][e],
         \A l \in Layers, e \in Experts : table'[l][e] # None => table'[l][e] = table[l][e]
  PROVE  SoundInv'
<1>1. /\ copy \in Seq(CopyCommand(Recorded)) /\ copy' \in Seq(CopyCommand(Recorded))
      /\ PlanInv /\ FreeInv /\ EndInv /\ HeldInv /\ BytesInv
  BY DEF SoundInv, RecordInv, CopyInv
<1>2. /\ Len(copy) \in Nat \ {0} /\ Len(copy') = Len(copy) - 1
      /\ \A j \in 1 .. Len(copy) - 1 : copy'[j] = copy[j + 1]
  BY <1>1
<1>3. ASSUME NEW l \in Layers, NEW e \in Experts, NEW i \in 1 .. Len(copy), NEW v,
             EntryBefore(i, l, e, v)'
      PROVE  EntryBefore(i + 1, l, e, v)
  <2>1. /\ Touches(copy[1], l, e) => table'[l][e] = Puts(copy[1], e)
        /\ ~Touches(copy[1], l, e) => table'[l][e] = table[l][e]
    OBVIOUS
  <2> QED BY <1>1, <1>3, <2>1, HeadDone
<1>4. \A i \in 1 .. Len(copy') :
        copy'[i] = copy[i + 1] /\ i \in 1 .. Len(copy) /\ i + 1 \in 1 .. Len(copy) /\ i + 1 # 1
  BY <1>2
<1>5. PlanInv'
  BY <1>1, <1>4 DEF PlanInv
<1>6. FreeInv'
  <2>1. ASSUME NEW i \in 1 .. Len(copy'), NEW l \in Layers, NEW e \in Experts, NEW s,
               Claims(copy'[i], l, e, s), EntryBefore(i, l, e, s)'
        PROVE  FALSE
    <3>1. EntryBefore(i + 1, l, e, s)
      BY <1>3, <1>4, <2>1
    <3>2. Claims(copy[i + 1], l, e, s) /\ i + 1 \in 1 .. Len(copy)
      BY <1>4, <2>1
    <3> QED BY <1>1, <2>1, <3>1, <3>2 DEF FreeInv
  <2> QED BY <2>1 DEF FreeInv
<1>7. EndInv'
  <2>1. ASSUME NEW l \in Layers, NEW e \in Experts, NEW v, NEW n, n = Len(copy') + 1,
               EntryBefore(n, l, e, v)'
        PROVE  Mirrors(l, e, v)
    <3>1. n = Len(copy) /\ n \in 1 .. Len(copy)
      BY <1>2, <2>1
    <3>2. EntryBefore(n + 1, l, e, v)
      BY <1>3, <2>1, <3>1
    <3> QED BY <1>1, <3>1, <3>2 DEF EndInv
  <2> QED BY <2>1 DEF EndInv, Mirrors, Mapped
<1>8. HeldInv' /\ BytesInv'
  <2>1. MappedIsWhole'
    BY <1>1 DEF BytesInv, MappedIsWhole
  <2>2. copy' # <<>> => copy'[1].op # "map"
    <3>1. copy' # <<>> => 1 \in 1 .. Len(copy')
      BY <1>1
    <3> QED BY <1>1, <1>4, <3>1 DEF PlanInv, IsPromotion
  <2> QED BY <1>1, <2>1, <2>2 DEF HeldInv, BytesInv
<1> QED BY <1>5, <1>6, <1>7, <1>8 DEF SoundInv

\* The promotion at the head goes on with the experts it has left.
LEMMA Moved ==
  ASSUME SoundInv, copy # <<>>, RecordInv', holder' = holder,
         NEW c \in CopyCommand(Recorded), copy' = <<c>> \o Tail(copy),
         IsPromotion(copy[1]), IsPromotion(c), c.layer = copy[1].layer,
         \A d \in DOMAIN c.plan : d \in DOMAIN copy[1].plan /\ c.plan[d] = copy[1].plan[d],
         \A l \in Layers, e \in Experts :
           IF l = c.layer /\ e \in DOMAIN copy[1].plan /\ e \notin DOMAIN c.plan
           THEN table'[l][e] = copy[1].plan[e] ELSE table'[l][e] = table[l][e]
  PROVE  PlanInv' /\ FreeInv' /\ EndInv' /\ HeldInv'
<1>1. /\ copy \in Seq(CopyCommand(Recorded)) /\ copy' \in Seq(CopyCommand(Recorded))
      /\ PlanInv /\ FreeInv /\ EndInv /\ HeldInv
  BY DEF SoundInv, RecordInv, CopyInv
<1>2. /\ Len(copy) \in Nat \ {0} /\ Len(copy') = Len(copy) /\ copy'[1] = c
      /\ \A j \in 2 .. Len(copy) : copy'[j] = copy[j]
  BY <1>1
<1>3. ASSUME NEW l \in Layers, NEW e \in Experts
      PROVE  /\ Touches(c, l, e) => Touches(copy[1], l, e) /\ Puts(c, e) = Puts(copy[1], e)
             /\ ~Touches(c, l, e) =>
                  IF Touches(copy[1], l, e) THEN table'[l][e] = Puts(copy[1], e)
                                            ELSE table'[l][e] = table[l][e]
  BY <1>3 DEF Touches, Puts, IsPromotion
<1>4. ASSUME NEW l \in Layers, NEW e \in Experts, NEW i \in 2 .. Len(copy) + 1, NEW v,
             EntryBefore(i, l, e, v)'
      PROVE  EntryBefore(i, l, e, v)
  BY <1>1, <1>2, <1>3, <1>4, HeadMoves
<1>5. OneEach(copy[1].plan) /\ OneEach(c.plan)
  BY <1>1, <1>2 DEF PlanInv, OneEach
<1>6. PlanInv'
  <2>1. ASSUME NEW i \in 1 .. Len(copy'), IsPromotion(copy'[i])
        PROVE  (i # 1 => copy'[i].op = "promote") /\ OneEach(copy'[i].plan)
    <3>1. CASE i = 1
      BY <1>2, <1>5, <3>1
    <3>2. CASE i # 1
      <4>1. copy'[i] = copy[i] /\ i \in 1 .. Len(copy)
        BY <1>2, <3>2
      <4> QED BY <1>1, <2>1, <3>2, <4>1 DEF PlanInv
    <3> QED BY <3>1, <3>2
  <2> QED BY <1>1, <2>1 DEF PlanInv
<1>7. FreeInv'
  <2>1. ASSUME NEW i \in 1 .. Len(copy'), NEW l \in Layers, NEW e \in Experts, NEW s,
               Claims(copy'[i], l, e, s), EntryBefore(i, l, e, s)'
        PROVE  FALSE
    <3>1. CASE i = 1
      <4>1. table'[l][e] = s /\ Claims(c, l, e, s)
        BY <1>2, <2>1, <3>1 DEF EntryBefore
      <4>2. table[l][e] = s => ~Claims(copy[1], l, e, s)
        <5>1. table[l][e] = s => EntryBefore(1, l, e, s)
          BY DEF EntryBefore, Untouched
        <5> QED BY <1>1, <1>2, <5>1 DEF FreeInv
      <4>3. CASE Takes(c, l, s)
        <5>1. PICK d \in DOMAIN c.plan : c.plan[d] = s
          BY <4>3 DEF Takes
        <5>2. Takes(copy[1], l, s) /\ copy[1].plan[d] = s /\ l = c.layer
          BY <4>3, <5>1 DEF Takes
        <5>3. CASE e \in DOMAIN copy[1].plan /\ e \notin DOMAIN c.plan
          BY <1>5, <4>1, <5>1, <5>2, <5>3 DEF OneEach
        <5>4. CASE ~(e \in DOMAIN copy[1].plan /\ e \notin DOMAIN c.plan)
          BY <4>1, <4>2, <5>2, <5>4 DEF Claims
        <5> QED BY <5>3, <5>4
      <4>4. CASE Adds(c, l, e) /\ s # None
        <5>1. Adds(copy[1], l, e) /\ e \in DOMAIN c.plan
          BY <4>4 DEF Adds
        <5> QED BY <4>1, <4>2, <4>4, <5>1 DEF Claims
      <4> QED BY <4>1, <4>3, <4>4 DEF Claims
    <3>2. CASE i # 1
      <4>1. copy'[i] = copy[i] /\ i \in 1 .. Len(copy) /\ i \in 2 .. Len(copy) + 1
        BY <1>2, <3>2
      <4>2. EntryBefore(i, l, e, s)
        BY <1>4, <2>1, <4>1
      <4> QED BY <1>1, <2>1, <4>1, <4>2 DEF FreeInv
    <3> QED BY <3>1, <3>2
  <2> QED BY <2>1 DEF FreeInv
<1>8. EndInv'
  <2>1. ASSUME NEW l \in Layers, NEW e \in Experts, NEW v, NEW n, n = Len(copy') + 1,
               EntryBefore(n, l, e, v)'
        PROVE  Mirrors(l, e, v)
    <3>1. n = Len(copy) + 1 /\ n \in 2 .. Len(copy) + 1
      BY <1>2, <2>1
    <3>2. EntryBefore(n, l, e, v)
      BY <1>4, <2>1, <3>1
    <3> QED BY <1>1, <3>1, <3>2 DEF EndInv
  <2> QED BY <2>1 DEF EndInv, Mirrors, Mapped
<1> QED BY <1>1, <1>6, <1>7, <1>8 DEF HeldInv

\* A slot that a promotion at the head takes is in no entry.
LEMMA SlotUnmapped ==
  ASSUME SoundInv, copy # <<>>, NEW l \in Layers, NEW e \in Experts, NEW s, Takes(copy[1], l, s)
  PROVE  table[l][e] # s
<1>1. 1 \in 1 .. Len(copy)
  BY DEF SoundInv, PlanInv
<1>2. table[l][e] = s => EntryBefore(1, l, e, s)
  BY DEF EntryBefore, Untouched
<1> QED BY <1>1, <1>2 DEF SoundInv, FreeInv, Claims

\* An expert that it adds has no entry yet.
LEMMA EntryEmpty ==
  ASSUME SoundInv, copy # <<>>, NEW l \in Layers, NEW e \in Experts, Adds(copy[1], l, e)
  PROVE  table[l][e] = None
<1>1. 1 \in 1 .. Len(copy)
  BY DEF SoundInv, PlanInv
<1>2. EntryBefore(1, l, e, table[l][e])
  BY DEF EntryBefore, Untouched
<1> QED BY <1>1, <1>2 DEF SoundInv, FreeInv, Claims

LEMMA CopyStreamSound ==
  ASSUME SoundInv, CopyStream
  PROVE  SoundInv'
<1> DEFINE c == Head(copy)
<1>1. RecordInv'
  BY CopyStreamRecord DEF SoundInv
<1>2. copy # <<>> /\ holder' = holder
  BY DEF CopyStream, CopyWait, CopyRecord, Unmap, Tear, Fill, Map, Promoted, CopyDoes, host
<1>3. /\ copy \in Seq(CopyCommand(Recorded)) /\ c = copy[1] /\ c \in CopyCommand(Recorded)
      /\ 1 \in 1 .. Len(copy) /\ PlanInv /\ FreeInv /\ HeldInv /\ BytesInv
      /\ table \in [Layers -> [Experts -> Slots \cup {None}]]
  BY <1>2 DEF SoundInv, RecordInv, CopyInv, TableInv
<1>4. IsPromotion(c) =>
        c.layer \in Layers /\ c.plan \in PlanSet /\ DOMAIN c.plan \subseteq Experts
  BY <1>3 DEF IsPromotion, CopyCommand, PlanSet
<1>5. \A l \in Layers, e \in Experts, s \in Slots : Takes(c, l, s) => table[l][e] # s
  BY <1>2, <1>3, SlotUnmapped
<1>6. CASE CopyWait \/ CopyRecord
  <2>1. copy' = Tail(copy) /\ bytes' = bytes /\ table' = table /\ c.op \in {"wait", "record"}
    BY <1>6 DEF CopyWait, CopyRecord, CopyDoes, device
  <2>2. \A l, e : ~Touches(c, l, e)
    BY <2>1 DEF Touches, IsPromotion
  <2> QED BY <1>1, <1>2, <1>3, <2>1, <2>2, Consumed
<1>7. CASE Promoted
  <2>1. /\ copy' = Tail(copy) /\ bytes' = bytes /\ table' = table /\ c.op = "promote"
        /\ DOMAIN c.plan = {}
    BY <1>7 DEF Promoted, CopyDoes, device
  <2>2. \A l, e : ~Touches(c, l, e)
    BY <2>1 DEF Touches, IsPromotion
  <2> QED BY <1>1, <1>2, <1>3, <2>1, <2>2, Consumed
<1>8. CASE Unmap
  <2>1. /\ copy' = Tail(copy) /\ bytes' = bytes /\ c.op = "unmap"
        /\ table' = [table EXCEPT ![c.layer] =
                       [e \in Experts |-> IF e \in c.experts THEN None ELSE @[e]]]
    BY <1>8 DEF Unmap, CopyDoes
  <2>2. \A l \in Layers, e \in Experts :
          table'[l][e] = IF l = c.layer /\ e \in c.experts THEN None ELSE table[l][e]
    BY <1>3, <2>1
  <2>3. \A l \in Layers, e \in Experts :
          Touches(c, l, e) <=> l = c.layer /\ e \in c.experts
    BY <2>1 DEF Touches, IsPromotion
  <2>4. \A e : Puts(c, e) = None
    BY <2>1 DEF Puts
  <2> QED BY <1>1, <1>2, <1>3, <2>1, <2>2, <2>3, <2>4, Consumed
<1>9. CASE Tear
  <2>1. PICK x \in DOMAIN c.plan :
          /\ bytes' = [bytes EXCEPT ![c.layer][c.plan[x]] = Torn]
          /\ copy' = <<Promote("fill", c.layer, c.plan, x)>> \o Tail(copy)
    BY <1>9 DEF Tear
  <2> DEFINE f == Promote("fill", c.layer, c.plan, x)
  <2>2. IsPromotion(c) /\ table' = table
    BY <1>9 DEF Tear, CopyDoes, IsPromotion
  <2>3. c.layer \in Layers /\ c.plan \in PlanSet /\ x \in Experts /\ c.plan[x] \in Slots
    BY <1>4, <2>1, <2>2 DEF PlanSet
  <2>4. f \in CopyCommand(Recorded) /\ IsPromotion(f) /\ f.layer = c.layer /\ f.plan = c.plan
        /\ f.op = "fill"
    BY <2>1, <2>3 DEF Promote, CopyCommand, IsPromotion
  <2> HIDE DEF f
  <2>5. PlanInv' /\ FreeInv' /\ EndInv' /\ HeldInv'
    BY <1>1, <1>2, <1>3, <2>1, <2>2, <2>4, Moved DEF f
  <2>6. Takes(c, c.layer, c.plan[x])
    BY <2>1, <2>2 DEF Takes
  <2>7. MappedIsWhole'
    <3>1. \A e \in Experts : table[c.layer][e] # c.plan[x]
      BY <1>5, <2>3, <2>6
    <3>2. \A l \in Layers, s \in Slots :
            bytes'[l][s] = IF l = c.layer /\ s = c.plan[x] THEN Torn ELSE bytes[l][s]
      BY <1>3, <2>1, <2>3 DEF BytesInv
    <3> QED BY <1>3, <2>2, <3>1, <3>2 DEF BytesInv, MappedIsWhole
  <2>8. BytesInv'
    <3>1. copy'[1].op = "fill"
      BY <2>1, <2>4 DEF f
    <3>2. bytes' \in [Layers -> [Slots -> Experts \cup {None, Torn}]]
      BY <1>3, <2>1, <2>3 DEF BytesInv
    <3> QED BY <2>7, <3>1, <3>2 DEF BytesInv
  <2> QED BY <1>1, <2>5, <2>8 DEF SoundInv
<1>10. CASE Fill
  <2> DEFINE x == c.expert
             f == Promote("map", c.layer, c.plan, x)
  <2>1. /\ bytes' = [bytes EXCEPT ![c.layer][c.plan[x]] = x]
        /\ copy' = <<f>> \o Tail(copy) /\ c.op = "fill"
    BY <1>10 DEF Fill, CopyDoes
  <2>2. IsPromotion(c) /\ table' = table
    BY <1>10 DEF Fill, CopyDoes, IsPromotion
  <2>3. /\ c.layer \in Layers /\ c.plan \in PlanSet /\ x \in Experts /\ x \in DOMAIN c.plan
        /\ c.plan[x] \in Slots
    BY <1>3, <2>1 DEF CopyCommand, PlanSet
  <2> HIDE DEF x
  <2>4. f \in CopyCommand(Recorded) /\ IsPromotion(f) /\ f.layer = c.layer /\ f.plan = c.plan
        /\ f.op = "map" /\ f.expert = x
    BY <2>3 DEF Promote, CopyCommand, IsPromotion
  <2> HIDE DEF f
  <2>5. PlanInv' /\ FreeInv' /\ EndInv' /\ HeldInv'
    BY <1>1, <1>2, <1>3, <2>1, <2>2, <2>4, Moved
  <2>6. Takes(c, c.layer, c.plan[x])
    BY <2>2, <2>3 DEF Takes
  <2>7. \A l \in Layers, s \in Slots :
          bytes'[l][s] = IF l = c.layer /\ s = c.plan[x] THEN x ELSE bytes[l][s]
    BY <1>3, <2>1, <2>3 DEF BytesInv
  <2>8. MappedIsWhole'
    <3>1. \A e \in Experts : table[c.layer][e] # c.plan[x]
      BY <1>5, <2>3, <2>6
    <3> QED BY <1>3, <2>2, <2>7, <3>1 DEF BytesInv, MappedIsWhole
  <2>9. BytesInv'
    <3>1. copy'[1] = f
      BY <2>1, <2>4
    <3>2. bytes' \in [Layers -> [Slots -> Experts \cup {None, Torn}]]
      BY <1>3, <2>1, <2>3 DEF BytesInv
    <3> QED BY <2>3, <2>4, <2>7, <2>8, <3>1, <3>2 DEF BytesInv
  <2> QED BY <1>1, <2>5, <2>9 DEF SoundInv
<1>11. CASE Map
  <2> DEFINE x == c.expert
             left == [e \in DOMAIN c.plan \ {x} |-> c.plan[e]]
             f == Promote("promote", c.layer, left, None)
  <2>1. /\ table' = [table EXCEPT ![c.layer][x] = c.plan[x]]
        /\ copy' = <<f>> \o Tail(copy) /\ c.op = "map" /\ bytes' = bytes
    BY <1>11 DEF Map, CopyDoes
  <2>2. IsPromotion(c)
    BY <2>1 DEF IsPromotion
  <2>3. /\ c.layer \in Layers /\ c.plan \in PlanSet /\ x \in Experts /\ x \in DOMAIN c.plan
        /\ c.plan[x] \in Slots
    BY <1>3, <2>1 DEF CopyCommand, PlanSet
  <2>4. left \in PlanSet
    <3>1. PICK q \in SUBSET Experts : c.plan \in [q -> Slots]
      BY <2>3 DEF PlanSet
    <3>2. left \in [q \ {x} -> Slots] /\ q \ {x} \in SUBSET Experts
      BY <3>1
    <3> QED BY <3>2 DEF PlanSet
  <2>5. DOMAIN left = DOMAIN c.plan \ {x} /\ \A d \in DOMAIN left : left[d] = c.plan[d]
    OBVIOUS
  <2> HIDE DEF x, left
  <2>6. f \in CopyCommand(Recorded) /\ IsPromotion(f) /\ f.layer = c.layer /\ f.plan = left
        /\ f.op = "promote"
    BY <2>3, <2>4 DEF Promote, CopyCommand, IsPromotion
  <2> HIDE DEF f
  <2>7. \A l \in Layers, e \in Experts :
          table'[l][e] = IF l = c.layer /\ e = x THEN c.plan[x] ELSE table[l][e]
    BY <1>3, <2>1, <2>3
  <2>8. \A l \in Layers, e \in Experts :
          IF l = f.layer /\ e \in DOMAIN c.plan /\ e \notin DOMAIN f.plan
          THEN table'[l][e] = c.plan[e] ELSE table'[l][e] = table[l][e]
    BY <2>3, <2>5, <2>6, <2>7
  <2>9. PlanInv' /\ FreeInv' /\ EndInv' /\ HeldInv'
    BY <1>1, <1>2, <1>3, <2>1, <2>2, <2>5, <2>6, <2>8, Moved
  <2>10. BytesInv'
    <3>1. copy'[1] = f
      BY <2>1, <2>6
    <3>2. bytes[c.layer][c.plan[x]] = x
      BY <1>2, <1>3, <2>1 DEF BytesInv, x
    <3>3. MappedIsWhole'
      BY <1>3, <2>1, <2>7, <3>2 DEF BytesInv, MappedIsWhole
    <3> QED BY <1>3, <2>1, <2>6, <3>1, <3>3 DEF BytesInv
  <2> QED BY <1>1, <2>9, <2>10 DEF SoundInv
<1> QED BY <1>6, <1>7, <1>8, <1>9, <1>10, <1>11 DEF CopyStream

-----------------------------------------------------------------------------
(* Promotions are queued *)

\* What a step that leaves the queue, the table and the slots alone keeps.
LEMMA SameSound ==
  ASSUME SoundInv, RecordInv', UNCHANGED <<copy, table, holder, bytes>>
  PROVE  SoundInv'
<1>1. ASSUME NEW i, NEW l, NEW e, NEW v PROVE EntryBefore(i, l, e, v)' <=> EntryBefore(i, l, e, v)
  BY DEF EntryBefore, Untouched
<1>2. FreeInv' /\ EndInv'
  BY <1>1 DEF SoundInv, FreeInv, EndInv, Mirrors, Mapped
<1> QED BY <1>2 DEF SoundInv, PlanInv, HeldInv, BytesInv, MappedIsWhole

\* A command at place i of a longer queue finds v: it stands in the old part and found
\* v there, or behind it, where v is put by S or left by all of the old queue.
FoundIn(S, i, l, e, v) ==
  /\ i \in 1 .. Len(copy) + 1 => EntryBefore(i, l, e, v)
  /\ \A n \in 0 .. Len(S) : i = Len(copy) + n + 1 =>
       \/ /\ \A k \in 1 .. n : ~Touches(S[k], l, e)
          /\ EntryBefore(Len(copy) + 1, l, e, v)
       \/ \E j \in 1 .. n : /\ Touches(S[j], l, e) /\ Puts(S[j], e) = v
                            /\ \A k \in j + 1 .. n : ~Touches(S[k], l, e)

LEMMA LongerQueue ==
  ASSUME copy \in Seq(CopyCommand(Recorded)), NEW S \in Seq(CopyCommand(Recorded)),
         copy' = copy \o S, table' = table,
         NEW l, NEW e, NEW v, NEW i, EntryBefore(i, l, e, v)'
  PROVE  FoundIn(S, i, l, e, v)
<1>0. PICK L : L = Len(copy)
  OBVIOUS
<1>1. /\ L = Len(copy) /\ L \in Nat /\ Len(S) \in Nat
      /\ \A j \in 1 .. L : copy'[j] = copy[j]
      /\ \A k \in 1 .. Len(S) : copy'[L + k] = S[k]
  BY <1>0
<1>2. \/ Untouched(1, i, l, e)' /\ table[l][e] = v
      \/ \E j \in 1 .. i - 1 : /\ Touches(copy'[j], l, e) /\ Puts(copy'[j], e) = v
                               /\ Untouched(j + 1, i, l, e)'
  BY DEF EntryBefore
<1>3. ASSUME i \in 1 .. L + 1 PROVE EntryBefore(i, l, e, v)
  <2>1. \A j \in 1 .. i - 1 : copy'[j] = copy[j]
    BY <1>1, <1>3
  <2>2. ASSUME NEW j \in Nat \ {0}, Untouched(j, i, l, e)' PROVE Untouched(j, i, l, e)
    <3>1. \A k \in j .. i - 1 : k \in 1 .. i - 1 /\ ~Touches(copy'[k], l, e)
      BY <1>1, <1>3, <2>2 DEF Untouched
    <3> QED BY <2>1, <3>1 DEF Untouched
  <2>3. EntryBefore(i, l, e, v)
    <3>1. CASE Untouched(1, i, l, e)' /\ table[l][e] = v
      BY <2>2, <3>1 DEF EntryBefore
    <3>2. ASSUME NEW j \in 1 .. i - 1, Touches(copy'[j], l, e), Puts(copy'[j], e) = v,
                 Untouched(j + 1, i, l, e)'
          PROVE  EntryBefore(i, l, e, v)
      <4>1. Untouched(j + 1, i, l, e)
        BY <2>2, <3>2
      <4> QED BY <2>1, <3>2, <4>1 DEF EntryBefore
    <3> QED BY <1>2, <3>1, <3>2
  <2> QED BY <2>3
<1>4. ASSUME i \in L + 2 .. L + Len(S) + 1
      PROVE  \/ /\ \A k \in 1 .. i - 1 - L : ~Touches(S[k], l, e)
                /\ EntryBefore(L + 1, l, e, v)
             \/ \E j \in 1 .. i - 1 - L :
                  /\ Touches(S[j], l, e) /\ Puts(S[j], e) = v
                  /\ \A k \in j + 1 .. i - 1 - L : ~Touches(S[k], l, e)
  <2> DEFINE n == i - 1 - L
  <2>1. n \in 1 .. Len(S) /\ i = L + n + 1
    BY <1>1, <1>4
  <2>2. ASSUME NEW j \in Nat, Untouched(L + j + 1, i, l, e)'
        PROVE  \A k \in j + 1 .. n : ~Touches(S[k], l, e)
    <3>1. ASSUME NEW k \in j + 1 .. n PROVE ~Touches(S[k], l, e)
      <4>1. L + k \in L + j + 1 .. i - 1 /\ k \in 1 .. Len(S)
        BY <1>1, <2>1, <3>1
      <4>2. ~Touches(copy'[L + k], l, e)
        BY <2>2, <4>1 DEF Untouched
      <4> QED BY <1>1, <4>1, <4>2
    <3> QED BY <3>1
  <2>3. ASSUME NEW j \in 1 .. L + 1, Untouched(j, i, l, e)'
        PROVE  Untouched(j, L + 1, l, e) /\ \A k \in 1 .. n : ~Touches(S[k], l, e)
    <3>1. \A k \in j .. L : k \in j .. i - 1 /\ k \in 1 .. L
      BY <1>1, <1>4
    <3>2. Untouched(j, L + 1, l, e)
      BY <1>1, <2>3, <3>1 DEF Untouched
    <3>3. Untouched(L + 0 + 1, i, l, e)'
      BY <1>1, <1>4, <2>3 DEF Untouched
    <3>4. \A k \in 0 + 1 .. n : ~Touches(S[k], l, e)
      BY <2>2, <3>3
    <3> QED BY <3>2, <3>4
  <2>4. CASE Untouched(1, i, l, e)' /\ table[l][e] = v
    <3>1. Untouched(1, L + 1, l, e) /\ \A k \in 1 .. n : ~Touches(S[k], l, e)
      BY <1>1, <2>3, <2>4
    <3>2. EntryBefore(L + 1, l, e, v)
      BY <2>4, <3>1 DEF EntryBefore
    <3> QED BY <1>1, <1>4, <3>1, <3>2
  <2>5. ASSUME NEW j \in 1 .. i - 1, Touches(copy'[j], l, e), Puts(copy'[j], e) = v,
               Untouched(j + 1, i, l, e)'
        PROVE  \/ /\ \A k \in 1 .. n : ~Touches(S[k], l, e)
                  /\ EntryBefore(L + 1, l, e, v)
               \/ \E m \in 1 .. n : /\ Touches(S[m], l, e) /\ Puts(S[m], e) = v
                                    /\ \A k \in m + 1 .. n : ~Touches(S[k], l, e)
    <3>1. CASE j \in 1 .. L
      <4>1. j + 1 \in 1 .. L + 1 /\ j \in 1 .. (L + 1) - 1 /\ copy'[j] = copy[j]
        BY <1>1, <3>1
      <4>2. Untouched(j + 1, L + 1, l, e) /\ \A k \in 1 .. n : ~Touches(S[k], l, e)
        BY <2>3, <2>5, <4>1
      <4> QED BY <2>5, <4>1, <4>2 DEF EntryBefore
    <3>2. CASE j \notin 1 .. L
      <4> DEFINE m == j - L
      <4>1. m \in 1 .. n /\ m \in 1 .. Len(S) /\ j = L + m /\ m \in Nat
        BY <1>1, <2>1, <3>2
      <4>2. copy'[j] = S[m]
        BY <1>1, <4>1
      <4>3. Untouched(L + m + 1, i, l, e)'
        BY <2>5, <4>1
      <4> HIDE DEF m, n
      <4>4. \A k \in m + 1 .. n : ~Touches(S[k], l, e)
        BY <2>2, <4>1, <4>3
      <4> QED BY <2>5, <4>1, <4>2, <4>4
    <3> QED BY <3>1, <3>2
  <2>6. i \notin 1 .. L + 1
    BY <1>1, <1>4
  <2> QED BY <1>2, <2>4, <2>5, <2>6
<1>5. i \in 1 .. L + 1 => EntryBefore(i, l, e, v)
  BY <1>3
<1>6. ASSUME NEW n \in 0 .. Len(S), i = L + n + 1
      PROVE  \/ /\ \A k \in 1 .. n : ~Touches(S[k], l, e)
                /\ EntryBefore(L + 1, l, e, v)
             \/ \E j \in 1 .. n : /\ Touches(S[j], l, e) /\ Puts(S[j], e) = v
                                  /\ \A k \in j + 1 .. n : ~Touches(S[k], l, e)
  <2>1. i - 1 - L = n /\ ((i \in 1 .. L + 1 /\ i = L + 1 /\ n = 0) \/ i \in L + 2 .. L + Len(S) + 1)
    BY <1>1, <1>6
  <2> QED BY <1>1, <1>4, <1>5, <2>1
<1> QED BY <1>0, <1>5, <1>6 DEF FoundIn

LEMMA ConcatAt ==
  ASSUME NEW A, NEW q \in Seq(A), NEW r \in Seq(A)
  PROVE  /\ q \o r \in Seq(A) /\ Len(q \o r) = Len(q) + Len(r)
         /\ \A k \in 1 .. Len(q) : (q \o r)[k] = q[k]
         /\ \A k \in Len(q) + 1 .. Len(q) + Len(r) : (q \o r)[k] = r[k - Len(q)]
OBVIOUS

\* What a plan unmaps.
Victims(plans) ==
  [l \in Layers |-> {holder[l][plans[l][e]] : e \in DOMAIN plans[l]} \ {None}]

\* A plan's commands: unmap V of every layer, then promote every layer's plan.
PlanQueue(S, N, plans, V) ==
  /\ N \in Nat /\ Layers = 1 .. N /\ Len(S) = 2 * N + 3
  /\ S[1].op = "wait" /\ S[N + 2].op = "record" /\ S[2 * N + 3].op = "record"
  /\ \A l \in Layers :
       /\ S[l + 1] = [op |-> "unmap", layer |-> l, experts |-> V[l]]
       /\ S[N + 2 + l] = Promote("promote", l, plans[l], None)

\* Its events.
PlanEvents(S, N, n) ==
  /\ S[1] = Wait({<<"done", n>>}) /\ S[N + 2] = Record(<<"U", n>>)
  /\ S[2 * N + 3] = Record(<<"M", n>>)

\* What stands where in the commands of a plan.
LEMMA ScheduleAt ==
  ASSUME NEW plans, Chosen(plans), NEW n \in Nat, NEW S, S = Schedule(plans, n)
  PROVE  /\ S \in Seq(CopyCommand(Recorded))
         /\ PlanQueue(S, NLayers, plans, Victims(plans)) /\ PlanEvents(S, NLayers, n)
<1> DEFINE C == CopyCommand(Recorded)
           N == NLayers
           U == Unmaps(plans)
           P == Promotes(plans)
           w == Wait({<<"done", n>>})
           u == Record(<<"U", n>>)
           m == Record(<<"M", n>>)
<1>1. Layers = 1 .. N /\ N \in Nat
  BY TierAssumption DEF Layers
<1>2. S \in Seq(C)
  BY ScheduleType
<1>3. DOMAIN U = 1 .. N /\ DOMAIN P = 1 .. N
  BY <1>1 DEF Unmaps, Promotes
<1> DEFINE B == C \cup {U[l] : l \in 1 .. N} \cup {P[l] : l \in 1 .. N} \cup {w, u, m}
<1>4. U \in Seq(B) /\ P \in Seq(B) /\ Len(U) = N /\ Len(P) = N
  <2>1. U \in [1 .. N -> B] /\ P \in [1 .. N -> B]
    BY <1>1, <1>3 DEF Unmaps, Promotes
  <2> HIDE DEF U, P, B
  <2> QED BY <1>1, <2>1
<1>5. w \in B /\ u \in B /\ m \in B /\ w.op = "wait" /\ u.op = "record" /\ m.op = "record"
  BY DEF Wait, Record
<1>6. S = <<w>> \o U \o <<u>> \o P \o <<m>>
  BY DEF Schedule
<1> HIDE DEF B, U, P, w, u, m, N, C
<1> DEFINE q1 == <<w>> \o U
           q2 == q1 \o <<u>>
           q3 == q2 \o P
<1>7. <<w>> \in Seq(B) /\ <<u>> \in Seq(B) /\ <<m>> \in Seq(B)
  BY <1>5
<1>8. /\ q1 \in Seq(B) /\ Len(q1) = N + 1 /\ q1[1] = w
      /\ \A l \in 1 .. N : q1[l + 1] = U[l]
  BY <1>1, <1>4, <1>7
<1> HIDE DEF q1
<1>9. /\ q2 \in Seq(B) /\ Len(q2) = N + 2 /\ q2[1] = w /\ q2[N + 2] = u
      /\ \A l \in 1 .. N : q2[l + 1] = U[l]
  BY <1>1, <1>7, <1>8
<1> HIDE DEF q2
<1>10. /\ q3 \in Seq(B) /\ Len(q3) = 2 * N + 2 /\ q3[1] = w /\ q3[N + 2] = u
       /\ \A l \in 1 .. N : q3[l + 1] = U[l] /\ q3[N + 2 + l] = P[l]
  <2>1. /\ q3 \in Seq(B) /\ Len(q3) = Len(q2) + Len(P)
        /\ \A k \in 1 .. Len(q2) : q3[k] = q2[k]
        /\ \A k \in Len(q2) + 1 .. Len(q2) + Len(P) : q3[k] = P[k - Len(q2)]
    BY <1>4, <1>9, ConcatAt
  <2> HIDE DEF q3
  <2>2. Len(q3) = 2 * N + 2
    BY <1>1, <1>4, <1>9, <2>1
  <2>3. /\ 1 \in 1 .. Len(q2) /\ N + 2 \in 1 .. Len(q2)
        /\ \A l \in 1 .. N : l + 1 \in 1 .. Len(q2)
    BY <1>1, <1>9
  <2>4. \A l \in 1 .. N : N + 2 + l \in Len(q2) + 1 .. Len(q2) + Len(P) /\ (N + 2 + l) - Len(q2) = l
    BY <1>1, <1>4, <1>9
  <2> QED BY <1>9, <2>1, <2>2, <2>3, <2>4
<1> HIDE DEF q3
<1>11. S = q3 \o <<m>>
  BY <1>6 DEF q1, q2, q3
<1>12. /\ Len(S) = 2 * N + 3 /\ S[1] = w /\ S[N + 2] = u /\ S[2 * N + 3] = m
       /\ \A l \in 1 .. N : S[l + 1] = U[l] /\ S[N + 2 + l] = P[l]
  <2>1. /\ Len(<<m>>) = 1 /\ <<m>>[1] = m /\ Len(S) = Len(q3) + Len(<<m>>)
        /\ \A k \in 1 .. Len(q3) : S[k] = q3[k]
        /\ \A k \in Len(q3) + 1 .. Len(q3) + Len(<<m>>) : S[k] = <<m>>[k - Len(q3)]
    BY <1>7, <1>10, <1>11, ConcatAt
  <2>2. Len(S) = 2 * N + 3 /\ S[2 * N + 3] = m
    BY <1>1, <1>10, <2>1
  <2>3. /\ 1 \in 1 .. Len(q3) /\ N + 2 \in 1 .. Len(q3)
        /\ \A l \in 1 .. N : l + 1 \in 1 .. Len(q3) /\ N + 2 + l \in 1 .. Len(q3)
    BY <1>1, <1>10
  <2> QED BY <1>10, <2>1, <2>2, <2>3
<1>13. S \in Seq(CopyCommand(Recorded))
  BY <1>2 DEF C
<1>14. PlanEvents(S, NLayers, n)
  BY <1>12 DEF PlanEvents, N, w, u, m
<1>15. \A l \in Layers : S[l + 1] = Unmaps(plans)[l] /\ S[NLayers + 2 + l] = Promotes(plans)[l]
  BY <1>1, <1>12 DEF N, U, P
<1>16. /\ Len(S) = 2 * NLayers + 3 /\ S[1].op = "wait" /\ S[NLayers + 2].op = "record"
       /\ S[2 * NLayers + 3].op = "record"
  BY <1>5, <1>12 DEF N
<1>17. PlanQueue(S, NLayers, plans, Victims(plans))
  BY <1>1, <1>15, <1>16 DEF N, PlanQueue, Unmaps, Promotes, Victims
<1> QED BY <1>13, <1>14, <1>17

\* What a plan does with one layer's slots and entries.
LEMMA PlanFacts ==
  ASSUME HeldInv, NEW l \in Layers, NEW p \in Plans(l)
  PROVE  /\ p \in PlanSet /\ OneEach(p)
         /\ \A e \in DOMAIN p : e \in Experts /\ e \notin Mapped(l) /\ p[e] \in Slots
<1>1. PICK q \in SUBSET {e \in Experts : <<l, e>> \in missed /\ e \notin Mapped(l)} :
        p \in [q -> Slots] /\ \A d, e \in q : p[d] = p[e] => d = e
  BY DEF Plans
<1>2. q \in SUBSET Experts
  BY <1>1
<1> QED BY <1>1, <1>2 DEF PlanSet, OneEach

LEMMA CommandAt ==
  ASSUME NEW N \in Nat, Layers = 1 .. N, NEW k \in 1 .. 2 * N + 3
  PROVE  \/ k \in {1, N + 2, 2 * N + 3}
         \/ k - 1 \in Layers /\ k = (k - 1) + 1
         \/ k - (N + 2) \in Layers /\ k = N + 2 + (k - (N + 2))
<1>1. CASE k <= N + 2
  BY <1>1
<1>2. CASE ~(k <= N + 2)
  BY <1>2
<1> QED BY <1>1, <1>2

\* What a plan's commands do to an entry, in their order.
LEMMA ScheduleTouches ==
  ASSUME NEW N, NEW plans, NEW V, NEW S, PlanQueue(S, N, plans, V)
  PROVE  \A l \in Layers, k \in 1 .. Len(S) : \A e :
           /\ Touches(S[k], l, e) <=> \/ k = l + 1 /\ e \in V[l]
                                      \/ k = N + 2 + l /\ e \in DOMAIN plans[l]
           /\ k = l + 1 => Puts(S[k], e) = None
           /\ k = N + 2 + l => Puts(S[k], e) = plans[l][e]
<1> TAKE l \in Layers, k \in 1 .. Len(S)
<1> TAKE e
<1>0. /\ N \in Nat /\ Layers = 1 .. N /\ Len(S) = 2 * N + 3
      /\ S[1].op = "wait" /\ S[N + 2].op = "record" /\ S[2 * N + 3].op = "record"
      /\ \A m \in Layers :
           /\ S[m + 1] = [op |-> "unmap", layer |-> m, experts |-> V[m]]
           /\ S[N + 2 + m] = Promote("promote", m, plans[m], None)
  BY DEF PlanQueue
<1>1. \/ k \in {1, N + 2, 2 * N + 3}
      \/ k - 1 \in Layers /\ k = (k - 1) + 1
      \/ k - (N + 2) \in Layers /\ k = N + 2 + (k - (N + 2))
  <2>1. N \in Nat /\ Layers = 1 .. N /\ k \in 1 .. 2 * N + 3
    BY <1>0
  <2> QED BY <2>1, CommandAt
<1>2. /\ l + 1 \notin {1, N + 2, 2 * N + 3} /\ N + 2 + l \notin {1, N + 2, 2 * N + 3}
  <2>1. N \in Nat /\ l \in Nat /\ 1 <= l /\ l <= N
    BY <1>0
  <2>2. l + 1 # 1 /\ l + 1 # N + 2 /\ l + 1 # 2 * N + 3
    BY <2>1
  <2>3. N + 2 + l # 1 /\ N + 2 + l # N + 2 /\ N + 2 + l # 2 * N + 3
    BY <2>1
  <2> QED BY <2>2, <2>3
<1>3. CASE k \in {1, N + 2, 2 * N + 3}
  <2>1. S[k].op \in {"wait", "record"}
    BY <1>0, <1>3
  <2> QED BY <1>2, <1>3, <2>1 DEF Touches, IsPromotion
<1>4. ASSUME NEW m \in Layers, k = m + 1
      PROVE  /\ Touches(S[k], l, e) <=> m = l /\ e \in V[l]
             /\ Puts(S[k], e) = None
             /\ k # N + 2 + l /\ (k = l + 1 <=> m = l)
  <2>1. k # N + 2 + l /\ (k = l + 1 <=> m = l)
    BY <1>0, <1>4
  <2>2. S[k] = [op |-> "unmap", layer |-> m, experts |-> V[m]]
    BY <1>0, <1>4
  <2> QED BY <2>1, <2>2 DEF Touches, Puts, IsPromotion
<1>5. ASSUME NEW m \in Layers, k = N + 2 + m
      PROVE  /\ Touches(S[k], l, e) <=> m = l /\ e \in DOMAIN plans[l]
             /\ m = l => Puts(S[k], e) = plans[l][e]
             /\ k # l + 1 /\ (k = N + 2 + l <=> m = l)
  <2>1. k # l + 1 /\ (k = N + 2 + l <=> m = l)
    BY <1>0, <1>5
  <2>2. S[k] = Promote("promote", m, plans[m], None)
    BY <1>0, <1>5
  <2>3. S[k].op = "promote" /\ S[k].layer = m /\ S[k].plan = plans[m]
    BY <2>2 DEF Promote
  <2> QED BY <2>1, <2>3 DEF Touches, Puts, IsPromotion
<1>6. CASE k - 1 \in Layers /\ k = (k - 1) + 1
  BY <1>4, <1>6
<1>7. CASE k - (N + 2) \in Layers /\ k = N + 2 + (k - (N + 2))
  BY <1>5, <1>7
<1> QED BY <1>1, <1>3, <1>6, <1>7

\* Its promotions.
Promotions(S, N, plans) ==
  \A k \in 1 .. Len(S) : IsPromotion(S[k]) =>
    \E m \in Layers : /\ k = N + 2 + m /\ S[k].op = "promote" /\ S[k].layer = m
                      /\ S[k].plan = plans[m]

LEMMA SchedulePromotes ==
  ASSUME NEW N, NEW plans, NEW V, NEW S, PlanQueue(S, N, plans, V)
  PROVE  Promotions(S, N, plans)
<1> SUFFICES ASSUME NEW k \in 1 .. Len(S), IsPromotion(S[k])
             PROVE  \E m \in Layers : /\ k = N + 2 + m /\ S[k].op = "promote" /\ S[k].layer = m
                                      /\ S[k].plan = plans[m]
  BY DEF Promotions
<1>0. /\ N \in Nat /\ Layers = 1 .. N /\ Len(S) = 2 * N + 3
      /\ S[1].op = "wait" /\ S[N + 2].op = "record" /\ S[2 * N + 3].op = "record"
      /\ \A m \in Layers :
           /\ S[m + 1] = [op |-> "unmap", layer |-> m, experts |-> V[m]]
           /\ S[N + 2 + m] = Promote("promote", m, plans[m], None)
  BY DEF PlanQueue
<1>1. \/ k \in {1, N + 2, 2 * N + 3}
      \/ k - 1 \in Layers /\ k = (k - 1) + 1
      \/ k - (N + 2) \in Layers /\ k = N + 2 + (k - (N + 2))
  <2>1. N \in Nat /\ Layers = 1 .. N /\ k \in 1 .. 2 * N + 3
    BY <1>0
  <2> QED BY <2>1, CommandAt
<1>2. S[k].op \in {"promote", "fill", "map"}
  BY DEF IsPromotion
<1>3. k \notin {1, N + 2, 2 * N + 3}
  BY <1>0, <1>2
<1>4. ASSUME NEW m \in Layers, k = m + 1 PROVE FALSE
  <2>1. S[k] = [op |-> "unmap", layer |-> m, experts |-> V[m]]
    BY <1>0, <1>4
  <2>2. S[k].op = "unmap"
    BY <2>1
  <2> QED BY <1>2, <2>2
<1>5. ASSUME NEW m \in Layers, k = N + 2 + m
      PROVE  S[k].op = "promote" /\ S[k].layer = m /\ S[k].plan = plans[m]
  <2>1. S[k] = Promote("promote", m, plans[m], None)
    BY <1>0, <1>5
  <2> QED BY <2>1 DEF Promote
<1>6. CASE k - 1 \in Layers /\ k = (k - 1) + 1
  BY <1>4, <1>6
<1>7. CASE k - (N + 2) \in Layers /\ k = N + 2 + (k - (N + 2))
  BY <1>5, <1>7
<1> QED BY <1>1, <1>3, <1>6, <1>7

\* What the commands ahead of a layer's promotion leave, and what all of them leave.
Leaves(S, N, plans, V, l, e) ==
  /\ (\A k \in 1 .. N + 1 + l : ~Touches(S[k], l, e)) => e \notin V[l]
  /\ \A j \in 1 .. N + 1 + l : Touches(S[j], l, e) => Puts(S[j], e) = None
  /\ (\A k \in 1 .. Len(S) : ~Touches(S[k], l, e)) => e \notin V[l] /\ e \notin DOMAIN plans[l]
  /\ \A j \in 1 .. Len(S) :
       Touches(S[j], l, e) /\ (\A k \in j + 1 .. Len(S) : ~Touches(S[k], l, e)) =>
         IF e \in DOMAIN plans[l] THEN Puts(S[j], e) = plans[l][e]
                                  ELSE e \in V[l] /\ Puts(S[j], e) = None

LEMMA ScheduleLeaves ==
  ASSUME NEW N, NEW plans, NEW V, NEW S, PlanQueue(S, N, plans, V),
         NEW l \in Layers, NEW e
  PROVE  Leaves(S, N, plans, V, l, e)
<1>1. /\ l + 1 \in 1 .. N + 1 + l /\ l + 1 \in 1 .. Len(S) /\ N + 2 + l \in 1 .. Len(S)
      /\ N + 2 + l \in (l + 1) + 1 .. Len(S)
      /\ \A k \in 1 .. N + 1 + l : k \in 1 .. Len(S) /\ k # N + 2 + l
  BY DEF PlanQueue
<1>2. \A k \in 1 .. Len(S) :
        /\ Touches(S[k], l, e) <=> \/ k = l + 1 /\ e \in V[l]
                                   \/ k = N + 2 + l /\ e \in DOMAIN plans[l]
        /\ k = l + 1 => Puts(S[k], e) = None
        /\ k = N + 2 + l => Puts(S[k], e) = plans[l][e]
  <2>1. \A m \in Layers, k \in 1 .. Len(S) : \A x :
          /\ Touches(S[k], m, x) <=> \/ k = m + 1 /\ x \in V[m]
                                     \/ k = N + 2 + m /\ x \in DOMAIN plans[m]
          /\ k = m + 1 => Puts(S[k], x) = None
          /\ k = N + 2 + m => Puts(S[k], x) = plans[m][x]
    BY ScheduleTouches
  <2> QED BY <2>1
<1> QED BY <1>1, <1>2 DEF Leaves

LEMMA AfterLaunchSound ==
  ASSUME SoundInv, AfterLaunch
  PROVE  SoundInv'
<1>1. RecordInv'
  BY HostRecord DEF SoundInv, Host
<1>2. UNCHANGED <<table, bytes>>
  BY DEF AfterLaunch, device
<1>3. PICK plans \in [Layers -> UNION {Plans(l) : l \in Layers}] :
        /\ \A l \in Layers : plans[l] \in Plans(l)
        /\ \/ UNCHANGED <<holder, copy>>
           \/ /\ copy' = copy \o Schedule(plans, step')
              /\ holder' = [l \in Layers |-> [s \in Slots |->
                     IF \E e \in DOMAIN plans[l] : plans[l][e] = s
                     THEN CHOOSE e \in DOMAIN plans[l] : plans[l][e] = s
                     ELSE holder[l][s]]]
  BY DEF AfterLaunch
<1>4. CASE UNCHANGED <<holder, copy>>
  BY <1>1, <1>2, <1>4, SameSound
<1>5. CASE /\ copy' = copy \o Schedule(plans, step')
           /\ holder' = [l \in Layers |-> [s \in Slots |->
                  IF \E e \in DOMAIN plans[l] : plans[l][e] = s
                  THEN CHOOSE e \in DOMAIN plans[l] : plans[l][e] = s
                  ELSE holder[l][s]]]
  <2>1. PICK L : L = Len(copy)
    OBVIOUS
  <2>2. PICK S : S = Schedule(plans, step')
    OBVIOUS
  <2> DEFINE W(l) == {holder[l][plans[l][e]] : e \in DOMAIN plans[l]} \ {None}
  <2>3. /\ copy \in Seq(CopyCommand(Recorded)) /\ copy' \in Seq(CopyCommand(Recorded))
        /\ PlanInv /\ FreeInv /\ EndInv /\ HeldInv /\ BytesInv /\ step' \in Nat
    BY <1>1 DEF SoundInv, RecordInv, CopyInv
  <2>4. \A l \in Layers :
          /\ plans[l] \in PlanSet /\ OneEach(plans[l])
          /\ \A e \in DOMAIN plans[l] : e \in Experts /\ e \notin Mapped(l) /\ plans[l][e] \in Slots
    BY <1>3, <2>3, PlanFacts
  <2>5. plans \in [Layers -> PlanSet]
    BY <2>4
  <2>6. PICK N \in Nat : N = NLayers /\ Layers = 1 .. N
    BY TierAssumption DEF Layers
  <2>7. PICK V : V = Victims(plans)
    OBVIOUS
  <2>8. S \in Seq(CopyCommand(Recorded)) /\ PlanQueue(S, N, plans, V)
    <3>1. PICK n \in Nat : n = step'
      BY <2>3
    <3>2. S = Schedule(plans, n) /\ Chosen(plans)
      BY <1>3, <2>2, <2>5, <3>1 DEF Chosen
    <3>3. S \in Seq(CopyCommand(Recorded)) /\ PlanQueue(S, NLayers, plans, Victims(plans))
      BY <3>2, ScheduleAt
    <3> QED BY <2>6, <2>7, <3>3
  <2>9. PlanQueue(S, N, plans, V) /\ Len(S) = 2 * N + 3
    BY <2>8 DEF PlanQueue
  <2>10. S \in Seq(CopyCommand(Recorded))
    BY <2>8
  <2>11. copy' = copy \o S
    BY <1>5, <2>2
  <2>12. ASSUME NEW i \in 1 .. Len(copy')
         PROVE  \/ i \in 1 .. L /\ copy'[i] = copy[i]
                \/ \E k \in 1 .. Len(S) : i = L + k /\ copy'[i] = S[k]
    <3>1. Longer(copy, copy', S)
      BY <2>3, <2>10, <2>11, ConcatLengthens
    <3>2. Found(copy, copy', S, i)
      BY <3>1, LongerAt
    <3> QED BY <2>1, <3>2 DEF Found
  <2>13. ASSUME NEW k \in 1 .. Len(S), IsPromotion(S[k])
         PROVE  \E m \in Layers : /\ k = N + 2 + m /\ S[k].op = "promote" /\ S[k].layer = m
                                  /\ S[k].plan = plans[m]
    <3>1. Promotions(S, N, plans)
      BY <2>9, SchedulePromotes
    <3> QED BY <2>13, <3>1 DEF Promotions
  <2>14. \A l \in Layers : \A e : Leaves(S, N, plans, V, l, e)
    BY <2>9, ScheduleLeaves
  <2>15. ASSUME NEW l, NEW e, NEW v, NEW i, EntryBefore(i, l, e, v)'
         PROVE  /\ i \in 1 .. L + 1 => EntryBefore(i, l, e, v)
                /\ \A n \in 0 .. Len(S) : i = L + n + 1 =>
                     \/ /\ \A k \in 1 .. n : ~Touches(S[k], l, e)
                        /\ EntryBefore(L + 1, l, e, v)
                     \/ \E j \in 1 .. n : /\ Touches(S[j], l, e) /\ Puts(S[j], e) = v
                                          /\ \A k \in j + 1 .. n : ~Touches(S[k], l, e)
    <3>1. table' = table
      BY <1>2
    <3>2. FoundIn(S, i, l, e, v)
      BY <2>3, <2>10, <2>11, <2>15, <3>1, LongerQueue
    <3> QED BY <2>1, <3>2 DEF FoundIn
  <2>16. \A l \in Layers : V[l] = W(l)
    BY <2>7 DEF Victims
  <2>17. ASSUME NEW l \in Layers
         PROVE  /\ \A d \in DOMAIN plans[l] : holder'[l][plans[l][d]] = d
                /\ \A s \in Slots : (\A d \in DOMAIN plans[l] : plans[l][d] # s)
                                       => holder'[l][s] = holder[l][s]
                /\ holder'[l] \in [Slots -> Experts \cup {None}]
    <3>1. holder'[l] = [s \in Slots |->
                  IF \E e \in DOMAIN plans[l] : plans[l][e] = s
                  THEN CHOOSE e \in DOMAIN plans[l] : plans[l][e] = s
                  ELSE holder[l][s]]
      BY <1>5
    <3> QED BY <2>3, <2>4, <3>1 DEF OneEach, HeldInv
  <2>18. \A l \in Layers, s \in Slots :
           (\E d \in DOMAIN plans[l] : plans[l][d] = s) \/ holder'[l][s] = holder[l][s]
    BY <2>17
  <2>19. HeldInv'
    <3>1. ASSUME NEW l \in Layers, NEW s \in Slots, NEW t \in Slots,
                 holder'[l][s] # None, holder'[l][s] = holder'[l][t]
          PROVE  s = t
      <4>1. \A d \in DOMAIN plans[l], x \in Slots : holder[l][x] # d
        <5>1. ASSUME NEW d \in DOMAIN plans[l], NEW x \in Slots, holder[l][x] = d PROVE FALSE
          <6>1. d \in Experts /\ d \notin Mapped(l) /\ None \notin Experts
            BY <2>4, <5>1, TierAssumption
          <6> QED BY <5>1, <6>1 DEF Mapped
        <5> QED BY <5>1
      <4>2. CASE \E d \in DOMAIN plans[l] : plans[l][d] = s
        BY <2>17, <2>18, <3>1, <4>1, <4>2
      <4>3. CASE \E d \in DOMAIN plans[l] : plans[l][d] = t
        BY <2>17, <2>18, <3>1, <4>1, <4>3
      <4>4. CASE holder'[l][s] = holder[l][s] /\ holder'[l][t] = holder[l][t]
        BY <2>3, <3>1, <4>4 DEF HeldInv
      <4> QED BY <2>18, <4>2, <4>3, <4>4
    <3>2. holder' \in [Layers -> [Slots -> Experts \cup {None}]]
      BY <1>5, <2>17
    <3> QED BY <3>1, <3>2 DEF HeldInv
  <2>20. PlanInv'
    <3>1. ASSUME NEW i \in 1 .. Len(copy'), IsPromotion(copy'[i])
          PROVE  (i # 1 => copy'[i].op = "promote") /\ OneEach(copy'[i].plan)
      <4>1. CASE i \in 1 .. L /\ copy'[i] = copy[i]
        BY <2>1, <2>3, <3>1, <4>1 DEF PlanInv
      <4>2. CASE \E k \in 1 .. Len(S) : i = L + k /\ copy'[i] = S[k]
        BY <2>4, <2>13, <3>1, <4>2
      <4> QED BY <2>12, <4>1, <4>2
    <3> QED BY <2>3, <3>1 DEF PlanInv
  <2>21. \A e \in Experts : e # None
    BY TierAssumption
  <2>22. \A s \in Slots : s # None
    BY TierAssumption
  <2>23. FreeInv'
    <3>1. ASSUME NEW i \in 1 .. Len(copy'), NEW l \in Layers, NEW e \in Experts, NEW s,
                 Claims(copy'[i], l, e, s), EntryBefore(i, l, e, s)'
          PROVE  FALSE
      <4>1. CASE i \in 1 .. L /\ copy'[i] = copy[i]
        <5>1. i \in 1 .. L + 1
          BY <2>1, <2>3, <4>1
        <5>2. EntryBefore(i, l, e, s)
          BY <2>15, <3>1, <5>1
        <5> QED BY <2>1, <2>3, <3>1, <4>1, <5>2 DEF FreeInv
      <4>2. ASSUME NEW k \in 1 .. Len(S), i = L + k, copy'[i] = S[k]
            PROVE  FALSE
        <5>1. k = N + 2 + l /\ \/ \E d \in DOMAIN plans[l] : plans[l][d] = s
                               \/ e \in DOMAIN plans[l] /\ s # None
          BY <2>13, <3>1, <4>2 DEF Claims, Takes, Adds
        <5>2. s # None
          BY <2>4, <2>22, <5>1
        <5>3. N + 1 + l \in 0 .. Len(S) /\ i = L + (N + 1 + l) + 1
          <6>1. L \in Nat /\ l \in 1 .. N /\ i = L + k /\ k = N + 2 + l
            BY <2>1, <2>3, <2>6, <4>2, <5>1
          <6>2. Len(S) = 2 * N + 3
            BY <2>9
          <6> QED BY <6>1, <6>2
        <5>4. \/ /\ \A x \in 1 .. N + 1 + l : ~Touches(S[x], l, e)
                 /\ EntryBefore(L + 1, l, e, s)
              \/ \E j \in 1 .. N + 1 + l : Touches(S[j], l, e) /\ Puts(S[j], e) = s
          BY <2>15, <3>1, <5>3
        <5>5. e \notin V[l] /\ EntryBefore(L + 1, l, e, s)
          BY <2>14, <5>2, <5>4 DEF Leaves
        <5>6. s \in Slots /\ holder[l][s] = e
          BY <2>1, <2>3, <5>2, <5>5 DEF EndInv, Mirrors
        <5>7. CASE e \in DOMAIN plans[l]
          BY <2>4, <2>21, <5>6, <5>7 DEF Mapped
        <5>8. CASE \E d \in DOMAIN plans[l] : plans[l][d] = s
          BY <2>16, <2>21, <5>5, <5>6, <5>8
        <5> QED BY <5>1, <5>7, <5>8
      <4> QED BY <2>12, <4>1, <4>2
    <3> QED BY <3>1 DEF FreeInv
  <2>24. EndInv'
    <3>1. ASSUME NEW l \in Layers, NEW e \in Experts, NEW v, NEW n, n = Len(copy') + 1,
                 EntryBefore(n, l, e, v)'
          PROVE  Mirrors(l, e, v)'
      <4>1. Len(S) \in 0 .. Len(S) /\ n = L + Len(S) + 1
        <5>1. Len(copy') = Len(copy) + Len(S) /\ Len(copy) \in Nat /\ Len(S) \in Nat
          BY <2>3, <2>10, <2>11, ConcatAt
        <5> QED BY <2>1, <3>1, <5>1
      <4>2. \/ /\ \A k \in 1 .. Len(S) : ~Touches(S[k], l, e)
               /\ EntryBefore(L + 1, l, e, v)
            \/ \E j \in 1 .. Len(S) : /\ Touches(S[j], l, e) /\ Puts(S[j], e) = v
                                      /\ \A k \in j + 1 .. Len(S) : ~Touches(S[k], l, e)
        BY <2>15, <3>1, <4>1
      <4>3. CASE /\ \A k \in 1 .. Len(S) : ~Touches(S[k], l, e)
                 /\ EntryBefore(L + 1, l, e, v)
        <5>1. e \notin V[l] /\ e \notin DOMAIN plans[l]
          BY <2>14, <4>3 DEF Leaves
        <5>2. Mirrors(l, e, v)
          BY <2>1, <2>3, <4>3 DEF EndInv
        <5>3. CASE v = None
          <6>1. \A s \in Slots : holder'[l][s] # e
            BY <2>17, <2>18, <2>21, <5>1, <5>2, <5>3 DEF Mirrors, Mapped
          <6> QED BY <5>3, <6>1 DEF Mirrors, Mapped
        <5>4. CASE v # None
          <6>1. v \in Slots /\ holder[l][v] = e
            BY <5>2, <5>4 DEF Mirrors
          <6>2. \A d \in DOMAIN plans[l] : plans[l][d] # v
            BY <2>16, <2>21, <5>1, <6>1
          <6>3. holder'[l][v] = e
            BY <2>17, <6>1, <6>2
          <6> QED BY <5>4, <6>1, <6>3 DEF Mirrors
        <5> QED BY <5>3, <5>4
      <4>4. ASSUME NEW j \in 1 .. Len(S), Touches(S[j], l, e), Puts(S[j], e) = v,
                   \A k \in j + 1 .. Len(S) : ~Touches(S[k], l, e)
            PROVE  Mirrors(l, e, v)'
        <5>1. CASE e \in DOMAIN plans[l]
          <6>1. v = plans[l][e] /\ v \in Slots /\ holder'[l][v] = e
            BY <2>4, <2>14, <2>17, <4>4, <5>1 DEF Leaves
          <6> QED BY <2>22, <6>1 DEF Mirrors
        <5>2. CASE e \notin DOMAIN plans[l]
          <6>1. e \in V[l] /\ v = None
            BY <2>14, <4>4, <5>2 DEF Leaves
          <6>2. PICK d \in DOMAIN plans[l] : holder[l][plans[l][d]] = e
            BY <2>16, <6>1
          <6>3. ASSUME NEW s \in Slots, holder'[l][s] = e PROVE FALSE
            <7>1. \A x \in DOMAIN plans[l] : plans[l][x] # s
              BY <2>17, <5>2, <6>3
            <7>2. holder[l][s] = e /\ plans[l][d] \in Slots
              BY <2>4, <2>17, <6>2, <6>3, <7>1
            <7>3. s = plans[l][d]
              BY <2>3, <2>21, <6>2, <7>2 DEF HeldInv
            <7> QED BY <7>1, <7>3
          <6> QED BY <6>1, <6>3 DEF Mirrors, Mapped
        <5> QED BY <5>1, <5>2
      <4> QED BY <4>2, <4>3, <4>4
    <3> QED BY <3>1 DEF EndInv
  <2>25. BytesInv'
    <3>1. MappedIsWhole'
      BY <1>2, <2>3 DEF BytesInv, MappedIsWhole
    <3>2. copy' # <<>> => 1 \in 1 .. Len(copy')
      BY <2>3
    <3>3. CASE 1 \in 1 .. L /\ copy'[1] = copy[1]
      <4>1. copy # <<>>
        BY <2>1, <2>3, <3>3
      <4> QED BY <1>2, <2>3, <3>1, <3>3, <4>1 DEF BytesInv
    <3>4. ASSUME NEW k \in 1 .. Len(S), copy'[1] = S[k] PROVE BytesInv'
      <4>1. copy'[1].op # "map"
        BY <2>13, <3>4 DEF IsPromotion
      <4> QED BY <1>2, <2>3, <3>1, <4>1 DEF BytesInv
    <3>5. copy' = <<>> => BytesInv'
      BY <1>2, <2>3, <3>1 DEF BytesInv
    <3> QED BY <2>12, <3>2, <3>3, <3>4, <3>5
  <2> QED BY <1>1, <2>19, <2>20, <2>23, <2>24, <2>25 DEF SoundInv
<1> QED BY <1>3, <1>4, <1>5

LEMMA NextSound ==
  ASSUME SoundInv, [Next]_vars
  PROVE  SoundInv'
<1>1. RecordInv'
  BY NextRecord DEF SoundInv
<1>2. CASE CopyStream
  BY <1>2, CopyStreamSound
<1>3. CASE AfterLaunch
  BY <1>3, AfterLaunchSound
<1>4. CASE \/ BeforeLaunch \/ Launch \/ FailClosed \/ StopTier \/ RestartTier
           \/ MainStream \/ Dispatcher \/ UNCHANGED vars
  <2>1. CASE BeforeLaunch \/ Launch \/ FailClosed \/ StopTier \/ RestartTier \/ UNCHANGED vars
    <3>1. UNCHANGED <<copy, table, holder, bytes>>
      BY <2>1 DEF BeforeLaunch, Launch, FailClosed, StopTier, RestartTier, vars, host, device
    <3> QED BY <1>1, <3>1, SameSound
  <2>2. CASE MainStream
    <3>1. UNCHANGED <<copy, table, holder, bytes>>
      BY <2>2 DEF MainStream, MainWait, MainRecord, Remap, Publish, Moe, Enter, Skip, Inject,
                  TimeOut, host, device
    <3> QED BY <1>1, <3>1, SameSound
  <2>3. CASE Dispatcher
    <3>1. UNCHANGED <<copy, table, holder, bytes>>
      BY <2>3 DEF Dispatcher, Answer, Serve, Resync, host, device
    <3> QED BY <1>1, <3>1, SameSound
  <2> QED BY <1>4, <2>1, <2>2, <2>3
<1> QED BY <1>2, <1>3, <1>4 DEF Next, Host

\* A mapped expert's slot holds its whole bytes, and the table is the host's mirror
\* once the copy stream is drained: a plan made on the mirror, ahead of the stream,
\* never has a slot rewritten that an entry still names.
THEOREM TableIsSound == Spec => []TableSound
<1>1. SoundInv => TableSound
  BY SoundTable
<1> QED BY <1>1, InitSound, NextSound, PTL DEF Spec

-----------------------------------------------------------------------------
(* The streams: what is queued behind what.  A plan's unmaps wait for the   *)
(* step they were planned in, the next step waits for the unmaps, and the   *)
(* host waits for the maps before it drops the pins.                        *)

MainCommand ==
  [op : {"wait"}, evs : SUBSET ({"U", "M"} \X Nat)]
    \cup [op : {"record"}, ev : {"done"} \X Nat]
    \cup [op : {"remap", "publish", "moe", "inject"}, layer : Layers]

\* A queued promotion's records are pinned with the event that its maps end with.
Pinned(c, n) ==
  \/ <<"M", n>> \in mapLast /\ {c.layer} \X DOMAIN c.plan \subseteq pinnedLast
  \/ <<"M", n>> \in mapPrev /\ {c.layer} \X DOMAIN c.plan \subseteq pinnedPrev
PinInv ==
  \A i \in 1 .. Len(copy) : IsPromotion(copy[i]) /\ DOMAIN copy[i].plan # {} =>
    \E n \in 0 .. step : RecordAfter(copy, i, <<"M", n>>) /\ Pinned(copy[i], n)

\* The unmaps of a plan wait for the step they were planned in.
UnmapsWait(q, n, sig) ==
  \A k \in 1 .. Len(q) : q[k].op = "unmap" =>
    \E m \in 0 .. n : /\ RecordAfter(q, k, <<"U", m>>)
                      /\ <<"done", m>> \in sig \/ WaitBefore(q, k, <<"done", m>>)

\* A layer's operations stand ahead of the step's end or behind a wait for the unmaps.
Gated(q, n) ==
  \A i \in 1 .. Len(q) : IsLayerOp(q[i]) =>
    RecordAfter(q, i, <<"done", n>>) \/ WaitBefore(q, i, <<"U", n>>)
Pending(q, n) == \E k \in 1 .. Len(q) : IsRecord(q[k], <<"U", n>>)
Covered(n) ==
  \/ WaitBefore(main, Len(main) + 1, <<"U", n>>)
  \/ hook \in {"before", "down"} /\ <<"U", n>> \in unmapEvents
GateInv == \A n \in 0 .. step : Pending(copy, n) => Covered(n) /\ Gated(main, n)

FreshInv ==
  /\ Fresh(main, {"done"}, step, signalled) /\ Fresh(copy, {"U", "M"}, step, signalled)
  /\ \A ev \in signalled : ev[2] \in 0 .. step
StreamTypes ==
  /\ step \in Nat /\ copy \in Seq(CopyCommand(Recorded)) /\ main \in Seq(MainCommand)
  /\ unmapEvents \cup mapLast \cup mapPrev \subseteq {"U", "M"} \X (0 .. step)
StreamInv ==
  /\ StreamTypes /\ FreshInv /\ UnmapsWait(copy, step, signalled) /\ GateInv /\ PinInv

LEMMA InitStream ==
  ASSUME Init
  PROVE  StreamInv
<1>1. main = <<>> /\ copy = <<>> /\ signalled = {} /\ step = 0
      /\ unmapEvents \cup mapLast \cup mapPrev = {}
  BY DEF Init
<1>2. Len(main) = 0 /\ Len(copy) = 0
  BY <1>1
<1>3. StreamTypes
  BY <1>1 DEF StreamTypes
<1>4. FreshInv /\ UnmapsWait(copy, step, signalled) /\ PinInv
  BY <1>1, <1>2 DEF FreshInv, Fresh, UnmapsWait, PinInv
<1>5. GateInv
  BY <1>2 DEF GateInv, Pending
<1> QED BY <1>3, <1>4, <1>5 DEF StreamInv

\* A promotion's pins outlive it: the host drops them behind the event that its maps
\* end with.
LEMMA StreamPins ==
  ASSUME StreamInv
  PROVE  PinsOutliveCopies
<1> SUFFICES ASSUME NEW i \in DOMAIN copy, copy[i].op \in {"promote", "fill"}
             PROVE  {copy[i].layer} \X DOMAIN copy[i].plan \subseteq pinnedLast \cup pinnedPrev
  BY DEF PinsOutliveCopies
<1>1. i \in 1 .. Len(copy)
  BY DEF StreamInv, StreamTypes
<1>2. CASE DOMAIN copy[i].plan = {}
  BY <1>2
<1>3. CASE DOMAIN copy[i].plan # {}
  BY <1>1, <1>3 DEF StreamInv, PinInv, Pinned, IsPromotion
<1> QED BY <1>2, <1>3

-----------------------------------------------------------------------------
(* What a step does to one stream *)

LEMMA UnmapsShifted ==
  ASSUME NEW q, NEW r, Shifted(q, r), NEW n, NEW sig, UnmapsWait(q, n, sig),
         NEW tau, sig \subseteq tau, q[1].op = "wait" => q[1].evs \subseteq tau
  PROVE  UnmapsWait(r, n, tau)
<1> SUFFICES ASSUME NEW k \in 1 .. Len(r), r[k].op = "unmap"
             PROVE  \E m \in 0 .. n : /\ RecordAfter(r, k, <<"U", m>>)
                                      /\ <<"done", m>> \in tau \/ WaitBefore(r, k, <<"done", m>>)
  BY DEF UnmapsWait
<1>1. k + 1 \in 1 .. Len(q) /\ r[k] = q[k + 1] /\ k \in 1 .. Len(r) + 1
  BY DEF Shifted
<1>2. PICK m \in 0 .. n : /\ RecordAfter(q, k + 1, <<"U", m>>)
                          /\ <<"done", m>> \in sig \/ WaitBefore(q, k + 1, <<"done", m>>)
  BY <1>1 DEF UnmapsWait
<1>3. RecordAfter(r, k, <<"U", m>>)
  BY <1>2, ShiftedAfter
<1>4. WaitBefore(q, k + 1, <<"done", m>>) /\ <<"done", m>> \notin tau => WaitBefore(r, k, <<"done", m>>)
  BY <1>1, ShiftedBefore
<1> QED BY <1>2, <1>3, <1>4

LEMMA UnmapsReplaced ==
  ASSUME NEW q, NEW r, Replaced(q, r), NEW n, NEW sig, UnmapsWait(q, n, sig),
         q[1].op # "wait", r[1].op # "unmap"
  PROVE  UnmapsWait(r, n, sig)
<1> SUFFICES ASSUME NEW k \in 1 .. Len(r), r[k].op = "unmap"
             PROVE  \E m \in 0 .. n : /\ RecordAfter(r, k, <<"U", m>>)
                                      /\ <<"done", m>> \in sig \/ WaitBefore(r, k, <<"done", m>>)
  BY DEF UnmapsWait
<1>1. k \in 1 .. Len(q) /\ k \in 1 .. Len(q) + 1 /\ r[k] = q[k]
  BY DEF Replaced
<1>2. PICK m \in 0 .. n : /\ RecordAfter(q, k, <<"U", m>>)
                          /\ <<"done", m>> \in sig \/ WaitBefore(q, k, <<"done", m>>)
  BY <1>1 DEF UnmapsWait
<1>3. RecordAfter(r, k, <<"U", m>>)
  BY <1>1, <1>2, ReplacedAfter
<1>4. WaitBefore(q, k, <<"done", m>>) => WaitBefore(r, k, <<"done", m>>)
  BY <1>1, ReplacedBefore
<1> QED BY <1>2, <1>3, <1>4

LEMMA UnmapsMore ==
  ASSUME NEW q, NEW n \in Nat, NEW sig, UnmapsWait(q, n, sig), NEW m \in Nat, n <= m,
         NEW tau, sig \subseteq tau
  PROVE  UnmapsWait(q, m, tau)
<1>1. \A k \in 0 .. n : k \in 0 .. m
  OBVIOUS
<1> QED BY <1>1 DEF UnmapsWait

LEMMA GatedShifted ==
  ASSUME NEW q, NEW r, Shifted(q, r), NEW n, Gated(q, n),
         ~(q[1].op = "wait" /\ <<"U", n>> \in q[1].evs)
  PROVE  Gated(r, n)
<1> SUFFICES ASSUME NEW i \in 1 .. Len(r), IsLayerOp(r[i])
             PROVE  RecordAfter(r, i, <<"done", n>>) \/ WaitBefore(r, i, <<"U", n>>)
  BY DEF Gated
<1>1. i + 1 \in 1 .. Len(q) /\ r[i] = q[i + 1] /\ i \in 1 .. Len(r) + 1
  BY DEF Shifted
<1>2. RecordAfter(q, i + 1, <<"done", n>>) \/ WaitBefore(q, i + 1, <<"U", n>>)
  BY <1>1 DEF Gated
<1> QED BY <1>1, <1>2, ShiftedAfter, ShiftedBefore

LEMMA GatedLonger ==
  ASSUME NEW q, NEW r, NEW s, Longer(q, r, s), NEW n, Gated(q, n),
         WaitBefore(q, Len(q) + 1, <<"U", n>>) \/ \A k \in 1 .. Len(s) : ~IsLayerOp(s[k])
  PROVE  Gated(r, n)
<1> SUFFICES ASSUME NEW i \in 1 .. Len(r), IsLayerOp(r[i])
             PROVE  RecordAfter(r, i, <<"done", n>>) \/ WaitBefore(r, i, <<"U", n>>)
  BY DEF Gated
<1>1. CASE i \in 1 .. Len(q)
  <2>1. r[i] = q[i] /\ i \in 1 .. Len(q) + 1 /\ i \in i .. Len(r) + 1
    BY <1>1 DEF Longer
  <2>2. RecordAfter(q, i, <<"done", n>>) \/ WaitBefore(q, i, <<"U", n>>)
    BY <1>1, <2>1 DEF Gated
  <2> QED BY <1>1, <2>1, <2>2, LongerAfter, LongerBefore
<1>2. CASE i \notin 1 .. Len(q)
  <2>1. i - Len(q) \in 1 .. Len(s) /\ r[i] = s[i - Len(q)]
    <3>1. i - Len(q) \in 1 .. Len(s) /\ i = Len(q) + (i - Len(q))
      BY <1>2 DEF Longer
    <3> QED BY <3>1 DEF Longer
  <2>2. WaitBefore(q, Len(q) + 1, <<"U", n>>)
    BY <2>1
  <2>3. Len(q) + 1 \in 1 .. Len(q) + 1 /\ i \in Len(q) + 1 .. Len(r) + 1
    BY <1>2 DEF Longer
  <2> QED BY <2>2, <2>3, LongerBefore
<1> QED BY <1>1, <1>2

LEMMA PendingShifted ==
  ASSUME NEW q, NEW r, Shifted(q, r), NEW n, Pending(r, n)
  PROVE  Pending(q, n)
<1>1. PICK k \in 1 .. Len(r) : IsRecord(r[k], <<"U", n>>)
  BY DEF Pending
<1>2. k + 1 \in 1 .. Len(q) /\ r[k] = q[k + 1]
  BY DEF Shifted
<1> QED BY <1>1, <1>2 DEF Pending

LEMMA PendingReplaced ==
  ASSUME NEW q, NEW r, Replaced(q, r), r[1].op # "record", NEW n, Pending(r, n)
  PROVE  Pending(q, n)
<1>1. PICK k \in 1 .. Len(r) : IsRecord(r[k], <<"U", n>>)
  BY DEF Pending
<1>2. k # 1
  BY <1>1 DEF IsRecord
<1>3. k \in 1 .. Len(q) /\ r[k] = q[k]
  BY <1>1, <1>2 DEF Replaced
<1> QED BY <1>1, <1>3 DEF Pending

\* A pending event is not signalled yet.
LEMMA PendingUnsignalled ==
  ASSUME NEW q, NEW K, NEW n, NEW sig, Fresh(q, K, n, sig), NEW m, Pending(q, m)
  PROVE  <<"U", m>> \notin sig
BY DEF Fresh, Pending, IsRecord

LEMMA PendingBound ==
  ASSUME NEW q, NEW K, NEW n, NEW sig, Fresh(q, K, n, sig), NEW m, Pending(q, m)
  PROVE  m \in 0 .. n
BY DEF Fresh, Pending, IsRecord

LEMMA StreamStays ==
  ASSUME StreamInv, UNCHANGED <<main, copy, signalled, unmapEvents, mapLast, mapPrev>>,
         UNCHANGED <<pinnedLast, pinnedPrev>>, step' \in Nat, step <= step',
         hook \in {"before", "down"} => hook' \in {"before", "down"}
  PROVE  StreamInv'
<1> USE DEF StreamInv
<1>1. StreamTypes /\ step \in Nat /\ \A n \in 0 .. step : n \in 0 .. step'
  BY DEF StreamTypes
<1>2. StreamTypes'
  <2>1. {"U", "M"} \X (0 .. step) \subseteq {"U", "M"} \X (0 .. step')
    BY <1>1
  <2> QED BY <1>1, <2>1 DEF StreamTypes
<1>3. FreshInv'
  <2>1. Fresh(main, {"done"}, step', signalled) /\ Fresh(copy, {"U", "M"}, step', signalled)
    BY <1>1, FreshSame DEF FreshInv
  <2> QED BY <1>1, <2>1 DEF FreshInv
<1>4. UnmapsWait(copy, step', signalled)
  BY <1>1, UnmapsMore
<1>5. GateInv'
  <2>1. ASSUME NEW n \in 0 .. step', Pending(copy, n) PROVE Covered(n)' /\ Gated(main, n)
    <3>1. n \in 0 .. step
      BY <2>1, PendingBound DEF FreshInv
    <3>2. Covered(n) /\ Gated(main, n)
      BY <2>1, <3>1 DEF GateInv
    <3> QED BY <3>2 DEF Covered
  <2> QED BY <2>1 DEF GateInv
<1>6. PinInv'
  BY <1>1 DEF PinInv, Pinned
<1> QED BY <1>2, <1>3, <1>4, <1>5, <1>6

\* The main stream's next command is through.
LEMMA MainConsumes ==
  ASSUME StreamInv, main # <<>>, main' = Tail(main), UNCHANGED <<host, copy>>,
         signalled \subseteq signalled',
         \A ev \in signalled' : ev \in signalled \/ IsRecord(main[1], ev),
         main[1].op = "wait" => main[1].evs \subseteq signalled
  PROVE  StreamInv'
<1> USE DEF StreamInv
<1>1. /\ StreamTypes /\ step \in Nat /\ step' = step /\ hook' = hook /\ unmapEvents' = unmapEvents
      /\ main \in Seq(MainCommand) /\ main' \in Seq(MainCommand) /\ main[1] \in MainCommand
      /\ Shifted(main, main')
  <2>1. main \in Seq(MainCommand) /\ step \in Nat
    BY DEF StreamTypes
  <2>2. Shifted(main, Tail(main)) /\ Head(main) = main[1]
    BY <2>1, TailShifts
  <2>3. main' \in Seq(MainCommand) /\ main[1] \in MainCommand
    BY <2>1, <2>2, TailSeq
  <2> QED BY <2>1, <2>2, <2>3 DEF host
<1>2. ASSUME NEW ev, IsRecord(main[1], ev) PROVE ev[1] = "done" /\ ev[2] \in 0 .. step
  <2>1. 1 \in 1 .. Len(main)
    BY <1>1 DEF Shifted
  <2>2. main[1].ev \in {"done"} \X (0 .. step)
    BY <1>2, <2>1 DEF FreshInv, Fresh, IsRecord
  <2> QED BY <1>2, <2>2 DEF IsRecord
<1>3. StreamTypes'
  BY <1>1 DEF StreamTypes, host
<1>4. FreshInv'
  <2>1. Fresh(main', {"done"}, step, signalled')
    BY <1>1, FreshShifted DEF FreshInv
  <2>2. \A ev \in signalled' : ev \in signalled \/ ev[1] \notin {"U", "M"}
    BY <1>2
  <2>3. Fresh(copy, {"U", "M"}, step, signalled')
    BY <1>1, <2>2, FreshSame DEF FreshInv
  <2>4. \A ev \in signalled' : ev[2] \in 0 .. step
    BY <1>2 DEF FreshInv
  <2> QED BY <1>1, <2>1, <2>3, <2>4 DEF FreshInv
<1>5. UnmapsWait(copy, step, signalled')
  BY <1>1, UnmapsMore
<1>6. GateInv'
  <2>1. ASSUME NEW n \in 0 .. step, Pending(copy, n) PROVE Covered(n)' /\ Gated(main', n)
    <3>1. Covered(n) /\ Gated(main, n)
      BY <2>1 DEF GateInv
    <3>2. <<"U", n>> \notin signalled
      BY <2>1, PendingUnsignalled DEF FreshInv
    <3>3. ~(main[1].op = "wait" /\ <<"U", n>> \in main[1].evs)
      BY <3>2
    <3>4. Gated(main', n)
      BY <1>1, <3>1, <3>3, GatedShifted
    <3>5. Len(main') + 1 \in 1 .. Len(main') + 1 /\ (Len(main') + 1) + 1 = Len(main) + 1
      BY <1>1 DEF Shifted
    <3>6. WaitBefore(main, Len(main) + 1, <<"U", n>>) => WaitBefore(main', Len(main') + 1, <<"U", n>>)
      BY <1>1, <3>3, <3>5, ShiftedBefore
    <3> QED BY <1>1, <3>1, <3>4, <3>6 DEF Covered
  <2> QED BY <1>1, <2>1 DEF GateInv
<1>7. PinInv'
  BY DEF PinInv, Pinned, host
<1> QED BY <1>1, <1>3, <1>4, <1>5, <1>6, <1>7

\* The copy stream's next command is through.
LEMMA CopyConsumes ==
  ASSUME StreamInv, copy # <<>>, copy' = Tail(copy), UNCHANGED <<host, main>>,
         signalled \subseteq signalled',
         \A ev \in signalled' : ev \in signalled \/ IsRecord(copy[1], ev),
         copy[1].op = "wait" => copy[1].evs \subseteq signalled
  PROVE  StreamInv'
<1> USE DEF StreamInv
<1>1. /\ StreamTypes /\ step \in Nat /\ step' = step /\ hook' = hook /\ unmapEvents' = unmapEvents
      /\ copy' \in Seq(CopyCommand(Recorded)) /\ Shifted(copy, copy')
  <2>1. copy \in Seq(CopyCommand(Recorded)) /\ step \in Nat
    BY DEF StreamTypes
  <2>2. Shifted(copy, Tail(copy)) /\ Tail(copy) \in Seq(CopyCommand(Recorded))
    BY <2>1, TailShifts, TailSeq
  <2> QED BY <2>1, <2>2 DEF host
<1>2. ASSUME NEW ev, IsRecord(copy[1], ev) PROVE ev[1] # "done" /\ ev[2] \in 0 .. step
  <2>1. 1 \in 1 .. Len(copy)
    BY <1>1 DEF Shifted
  <2>2. copy[1].ev \in {"U", "M"} \X (0 .. step)
    BY <1>2, <2>1 DEF FreshInv, Fresh, IsRecord
  <2> QED BY <1>2, <2>2 DEF IsRecord
<1>3. StreamTypes'
  BY <1>1 DEF StreamTypes, host
<1>4. FreshInv'
  <2>1. Fresh(copy', {"U", "M"}, step, signalled')
    BY <1>1, FreshShifted DEF FreshInv
  <2>2. \A ev \in signalled' : ev \in signalled \/ ev[1] \notin {"done"}
    BY <1>2
  <2>3. Fresh(main, {"done"}, step, signalled')
    BY <1>1, <2>2, FreshSame DEF FreshInv
  <2>4. \A ev \in signalled' : ev[2] \in 0 .. step
    BY <1>2 DEF FreshInv
  <2> QED BY <1>1, <2>1, <2>3, <2>4 DEF FreshInv
<1>5. UnmapsWait(copy', step, signalled')
  BY <1>1, UnmapsShifted
<1>6. GateInv'
  <2>1. \A n \in 0 .. step : Pending(copy', n) => Covered(n) /\ Gated(main, n)
    BY <1>1, PendingShifted DEF GateInv
  <2> QED BY <1>1, <2>1 DEF GateInv, Covered
<1>7. PinInv'
  <2>1. ASSUME NEW i \in 1 .. Len(copy'), IsPromotion(copy'[i]), DOMAIN copy'[i].plan # {}
        PROVE  \E n \in 0 .. step : RecordAfter(copy', i, <<"M", n>>) /\ Pinned(copy'[i], n)
    <3>1. i + 1 \in 1 .. Len(copy) /\ copy'[i] = copy[i + 1]
      BY <1>1 DEF Shifted
    <3>2. PICK n \in 0 .. step : RecordAfter(copy, i + 1, <<"M", n>>) /\ Pinned(copy[i + 1], n)
      BY <2>1, <3>1 DEF PinInv
    <3>3. RecordAfter(copy', i, <<"M", n>>)
      BY <1>1, <3>2, ShiftedAfter
    <3> QED BY <3>1, <3>2, <3>3
  <2> QED BY <1>1, <2>1 DEF PinInv, Pinned, host
<1> QED BY <1>1, <1>3, <1>4, <1>5, <1>6, <1>7

\* The promotion at the head goes on.
LEMMA CopyMoves ==
  ASSUME StreamInv, copy # <<>>, UNCHANGED <<host, main, signalled>>,
         NEW c \in CopyCommand(Recorded), copy' = <<c>> \o Tail(copy),
         IsPromotion(copy[1]), IsPromotion(c), c.layer = copy[1].layer,
         DOMAIN c.plan \subseteq DOMAIN copy[1].plan
  PROVE  StreamInv'
<1> USE DEF StreamInv
<1>1. /\ StreamTypes /\ step \in Nat /\ step' = step /\ hook' = hook /\ unmapEvents' = unmapEvents
      /\ copy' \in Seq(CopyCommand(Recorded)) /\ Replaced(copy, copy') /\ copy'[1] = c
  <2>1. copy \in Seq(CopyCommand(Recorded)) /\ step \in Nat
    BY DEF StreamTypes
  <2>2. Replaced(copy, copy') /\ copy'[1] = c
    BY <2>1, PutReplaces
  <2>3. copy' \in Seq(CopyCommand(Recorded))
    BY <2>1, TailSeq, HeadPut
  <2> QED BY <2>1, <2>2, <2>3 DEF host, StreamTypes
<1>2. /\ copy[1].op \notin {"wait", "record", "unmap"} /\ copy'[1].op \notin {"wait", "record", "unmap"}
  BY <1>1 DEF IsPromotion
<1>3. StreamTypes'
  BY <1>1 DEF StreamTypes, host
<1>4. FreshInv'
  <2>1. Fresh(copy', {"U", "M"}, step, signalled)
    BY <1>1, <1>2, FreshReplaced DEF FreshInv
  <2> QED BY <1>1, <2>1 DEF FreshInv
<1>5. UnmapsWait(copy', step, signalled)
  BY <1>1, <1>2, UnmapsReplaced
<1>6. GateInv'
  <2>1. \A n \in 0 .. step : Pending(copy', n) => Covered(n) /\ Gated(main, n)
    BY <1>1, <1>2, PendingReplaced DEF GateInv
  <2> QED BY <1>1, <2>1 DEF GateInv, Covered
<1>7. PinInv'
  <2>1. ASSUME NEW i \in 1 .. Len(copy'), IsPromotion(copy'[i]), DOMAIN copy'[i].plan # {}
        PROVE  \E n \in 0 .. step : RecordAfter(copy', i, <<"M", n>>) /\ Pinned(copy'[i], n)
    <3>1. i \in 1 .. Len(copy) /\ IsPromotion(copy[i]) /\ copy[i].layer = copy'[i].layer
          /\ DOMAIN copy'[i].plan \subseteq DOMAIN copy[i].plan
      BY <1>1, <2>1 DEF Replaced
    <3>2. PICK n \in 0 .. step : RecordAfter(copy, i, <<"M", n>>) /\ Pinned(copy[i], n)
      BY <2>1, <3>1 DEF PinInv
    <3>3. RecordAfter(copy', i, <<"M", n>>)
      BY <1>1, <3>1, <3>2, ReplacedAfter
    <3>4. Pinned(copy'[i], n)
      BY <3>1, <3>2 DEF Pinned
    <3> QED BY <3>3, <3>4
  <2> QED BY <1>1, <2>1 DEF PinInv, Pinned, host
<1> QED BY <1>1, <1>3, <1>4, <1>5, <1>6, <1>7

-----------------------------------------------------------------------------
(* The host's steps *)

\* A step's operations, by layer.
LEMMA StepOpAt ==
  ASSUME NEW k \in 1 .. 4 * NLayers
  PROVE  \E l \in Layers, i \in 0 .. 3 : k + 3 = 4 * l + i /\ StepOps[k] = LayerOps(l)[1 + i]
<1>1. NLayers \in Nat /\ Layers = 1 .. NLayers
  BY TierAssumption DEF Layers
<1>2. PICK N : N = NLayers
  OBVIOUS
<1>3. \A x \in Nat : \E q \in Nat, r \in 0 .. 3 : x = 4 * q + r /\ q = x \div 4 /\ r = x % 4
  OBVIOUS
<1>4. k + 3 \in Nat /\ 4 <= k + 3 /\ k + 3 <= 4 * N + 3 /\ N \in Nat
  BY <1>1, <1>2
<1>5. PICK l \in Nat, i \in 0 .. 3 : k + 3 = 4 * l + i /\ l = (k + 3) \div 4 /\ i = (k + 3) % 4
  BY <1>3, <1>4
<1>6. l \in Layers
  BY <1>1, <1>2, <1>4, <1>5
<1>7. StepOps[k] = LayerOps(l)[1 + i]
  BY <1>5 DEF StepOps
<1> QED BY <1>5, <1>6, <1>7

LEMMA LayerOpIs ==
  ASSUME NEW l \in Layers
  PROVE  /\ LayerOps(l)[1 + 0] = Op("remap", l) /\ LayerOps(l)[1 + 1] = Op("publish", l)
         /\ LayerOps(l)[1 + 2] = Op("moe", l) /\ LayerOps(l)[1 + 3] = Op("inject", l)
BY DEF LayerOps

LEMMA StepOpsType ==
  /\ StepOps \in Seq(MainCommand) /\ Len(StepOps) = 4 * NLayers
  /\ \A k \in 1 .. Len(StepOps) : IsLayerOp(StepOps[k])
<1>1. ASSUME NEW k \in 1 .. 4 * NLayers
      PROVE  StepOps[k] \in MainCommand /\ IsLayerOp(StepOps[k])
  <2>1. PICK l \in Layers, i \in 0 .. 3 : k + 3 = 4 * l + i /\ StepOps[k] = LayerOps(l)[1 + i]
    BY StepOpAt
  <2>2. i = 0 \/ i = 1 \/ i = 2 \/ i = 3
    OBVIOUS
  <2>3. \E op \in {"remap", "publish", "moe", "inject"} : StepOps[k] = Op(op, l)
    BY <2>1, <2>2, LayerOpIs
  <2> QED BY <2>3 DEF Op, MainCommand, IsLayerOp
<1>2. 4 * NLayers \in Nat
  BY TierAssumption
<1>3. StepOps = [k \in 1 .. 4 * NLayers |-> StepOps[k]]
  BY DEF StepOps
<1> QED BY <1>1, <1>2, <1>3

LEMMA BeforeLaunchStream ==
  ASSUME StreamInv, BeforeLaunch
  PROVE  StreamInv'
<1> DEFINE w == Wait(mapPrev \cup unmapEvents)
<1> USE DEF StreamInv
<1>1. /\ hook = "before" /\ hook' = "launch" /\ step' = step /\ copy' = copy /\ signalled' = signalled
      /\ pinnedPrev # {} => mapPrev \subseteq signalled
      /\ main' = Append(main, w)
      /\ mapPrev' = mapLast /\ mapLast' = {} /\ unmapEvents' = {}
      /\ pinnedPrev' = pinnedLast /\ pinnedLast' = {}
  BY DEF BeforeLaunch
<1>2. /\ step \in Nat /\ copy \in Seq(CopyCommand(Recorded)) /\ main \in Seq(MainCommand)
      /\ unmapEvents \cup mapLast \cup mapPrev \subseteq {"U", "M"} \X (0 .. step)
  BY DEF StreamTypes
<1>3. w \in MainCommand /\ w.op = "wait" /\ w.evs = mapPrev \cup unmapEvents /\ ~IsLayerOp(w)
  <2>1. mapPrev \cup unmapEvents \in SUBSET ({"U", "M"} \X Nat)
    BY <1>2
  <2> HIDE DEF StreamInv
  <2> QED BY <2>1 DEF Wait, MainCommand, IsLayerOp
<1> HIDE DEF w
<1>4. main' = main \o <<w>> /\ main' \in Seq(MainCommand) /\ <<w>> \in Seq(MainCommand)
      /\ Len(<<w>>) = 1 /\ <<w>>[1] = w
  BY <1>1, <1>2, <1>3
<1>5. Longer(main, main', <<w>>)
  BY <1>2, <1>4, ConcatLengthens
<1>6. StreamTypes'
  BY <1>1, <1>2, <1>4 DEF StreamTypes
<1>7. FreshInv'
  <2>1. \A k \in 1 .. Len(<<w>>) : <<w>>[k].op # "record"
    BY <1>3, <1>4
  <2>2. Fresh(main', {"done"}, step, signalled)
    BY <1>2, <1>5, <2>1, FreshLonger DEF FreshInv
  <2> QED BY <1>1, <2>2 DEF FreshInv
<1>8. GateInv'
  <2>1. ASSUME NEW n \in 0 .. step, Pending(copy, n)
        PROVE  Gated(main', n) /\ WaitBefore(main', Len(main') + 1, <<"U", n>>)
    <3>1. Covered(n) /\ Gated(main, n)
      BY <2>1 DEF GateInv
    <3>2. \A k \in 1 .. Len(<<w>>) : ~IsLayerOp(<<w>>[k])
      BY <1>3, <1>4
    <3>3. Gated(main', n)
      BY <1>5, <3>1, <3>2, GatedLonger
    <3>4. CASE WaitBefore(main, Len(main) + 1, <<"U", n>>)
      <4>1. Len(main) + 1 \in 1 .. Len(main) + 1 /\ Len(main') + 1 \in Len(main) + 1 .. Len(main') + 1
        BY <1>4, <1>5 DEF Longer
      <4> QED BY <1>5, <3>3, <3>4, <4>1, LongerBefore
    <3>5. CASE <<"U", n>> \in unmapEvents
      <4>1. Len(main) + 1 \in 1 .. (Len(main') + 1) - 1 /\ main'[Len(main) + 1] = w
        BY <1>4, <1>5 DEF Longer
      <4> QED BY <1>3, <3>3, <3>5, <4>1 DEF WaitBefore
    <3> QED BY <3>1, <3>4, <3>5 DEF Covered
  <2> QED BY <1>1, <2>1 DEF GateInv, Covered
<1>9. PinInv'
  <2>1. ASSUME NEW i \in 1 .. Len(copy), IsPromotion(copy[i]), DOMAIN copy[i].plan # {}
        PROVE  \E n \in 0 .. step : RecordAfter(copy, i, <<"M", n>>) /\ Pinned(copy[i], n)'
    <3>1. PICK n \in 0 .. step : RecordAfter(copy, i, <<"M", n>>) /\ Pinned(copy[i], n)
      BY <2>1 DEF PinInv
    <3>2. CASE <<"M", n>> \in mapLast /\ {copy[i].layer} \X DOMAIN copy[i].plan \subseteq pinnedLast
      BY <1>1, <3>1, <3>2 DEF Pinned
    <3>3. CASE <<"M", n>> \in mapPrev /\ {copy[i].layer} \X DOMAIN copy[i].plan \subseteq pinnedPrev
      <4>1. <<"M", n>> \in signalled
        <5>1. PICK d : d \in DOMAIN copy[i].plan
          BY <2>1
        <5>2. <<copy[i].layer, d>> \in {copy[i].layer} \X DOMAIN copy[i].plan
          BY <5>1
        <5>3. pinnedPrev # {}
          BY <3>3, <5>2
        <5> QED BY <1>1, <3>3, <5>3
      <4>2. PICK j \in i + 1 .. Len(copy) : IsRecord(copy[j], <<"M", n>>)
        BY <3>1 DEF RecordAfter
      <4>3. j \in 1 .. Len(copy)
        BY <1>2
      <4>4. <<"M", n>> \notin signalled
        BY <4>2, <4>3 DEF FreshInv, Fresh, IsRecord
      <4> QED BY <4>1, <4>4
    <3> QED BY <3>1, <3>2, <3>3 DEF Pinned
  <2> QED BY <1>1, <2>1 DEF PinInv, Pinned
<1>10. UnmapsWait(copy, step, signalled)'
  BY <1>1
<1> QED BY <1>6, <1>7, <1>8, <1>9, <1>10

LEMMA LaunchStream ==
  ASSUME StreamInv, Launch
  PROVE  StreamInv'
<1> USE DEF StreamInv
<1>1. /\ hook = "launch" /\ hook' = "after" /\ main' = main \o StepOps
      /\ UNCHANGED <<step, copy, signalled, unmapEvents, mapLast, mapPrev, pinnedLast, pinnedPrev>>
  BY DEF Launch
<1>2. step \in Nat /\ main \in Seq(MainCommand) /\ main' \in Seq(MainCommand)
      /\ Longer(main, main', StepOps)
  BY <1>1, StepOpsType, ConcatLengthens, ConcatSeq DEF StreamTypes
<1>3. \A k \in 1 .. Len(StepOps) : StepOps[k].op # "record"
  BY StepOpsType DEF IsLayerOp
<1>4. StreamTypes'
  BY <1>1, <1>2 DEF StreamTypes
<1>5. FreshInv'
  <2>1. Fresh(main', {"done"}, step, signalled)
    BY <1>2, <1>3, FreshLonger DEF FreshInv
  <2> QED BY <1>1, <2>1 DEF FreshInv
<1>6. GateInv'
  <2>1. ASSUME NEW n \in 0 .. step, Pending(copy, n)
        PROVE  Gated(main', n) /\ WaitBefore(main', Len(main') + 1, <<"U", n>>)
    <3>1. WaitBefore(main, Len(main) + 1, <<"U", n>>) /\ Gated(main, n)
      BY <1>1, <2>1 DEF GateInv, Covered
    <3>2. Gated(main', n)
      BY <1>2, <3>1, GatedLonger
    <3>3. Len(main) + 1 \in 1 .. Len(main) + 1 /\ Len(main') + 1 \in Len(main) + 1 .. Len(main') + 1
      BY <1>2 DEF Longer
    <3> QED BY <1>2, <3>1, <3>2, <3>3, LongerBefore
  <2> QED BY <1>1, <2>1 DEF GateInv, Covered
<1>7. UnmapsWait(copy, step, signalled)' /\ PinInv'
  BY <1>1 DEF PinInv, Pinned
<1> QED BY <1>4, <1>5, <1>6, <1>7

\* What each of them is.
LEMMA PlanCommand ==
  ASSUME NEW N, NEW plans, NEW V, NEW S, PlanQueue(S, N, plans, V),
         NEW n, PlanEvents(S, N, n), NEW k \in 1 .. Len(S)
  PROVE  /\ S[k].op = "record" => \/ k = N + 2 /\ S[k].ev = <<"U", n>>
                                  \/ k = 2 * N + 3 /\ S[k].ev = <<"M", n>>
         /\ S[k].op = "unmap" => k \in 2 .. N + 1
<1>0. /\ N \in Nat /\ Layers = 1 .. N /\ Len(S) = 2 * N + 3
      /\ S[1].op = "wait" /\ S[N + 2].op = "record" /\ S[2 * N + 3].op = "record"
      /\ \A l \in Layers :
           /\ S[l + 1] = [op |-> "unmap", layer |-> l, experts |-> V[l]]
           /\ S[N + 2 + l] = Promote("promote", l, plans[l], None)
  BY DEF PlanQueue
<1>1. S[N + 2].ev = <<"U", n>> /\ S[2 * N + 3].ev = <<"M", n>>
  BY DEF PlanEvents, Record
<1>2. \/ k \in {1, N + 2, 2 * N + 3}
      \/ k - 1 \in Layers /\ k = (k - 1) + 1
      \/ k - (N + 2) \in Layers /\ k = N + 2 + (k - (N + 2))
  <2>1. N \in Nat /\ Layers = 1 .. N /\ k \in 1 .. 2 * N + 3
    BY <1>0
  <2> QED BY <2>1, CommandAt
<1>3. CASE k \in {1, N + 2, 2 * N + 3}
  BY <1>0, <1>1, <1>3
<1>4. ASSUME NEW m \in Layers, k = m + 1 PROVE S[k].op = "unmap" /\ k \in 2 .. N + 1
  <2>1. S[k] = [op |-> "unmap", layer |-> m, experts |-> V[m]]
    BY <1>0, <1>4
  <2> QED BY <1>0, <1>4, <2>1
<1>5. ASSUME NEW m \in Layers, k = N + 2 + m PROVE S[k].op = "promote"
  <2>1. S[k] = Promote("promote", m, plans[m], None)
    BY <1>0, <1>5
  <2> QED BY <2>1 DEF Promote
<1> QED BY <1>2, <1>3, <1>4, <1>5

\* A plan's commands behind the queue.
PlanBehind(q, r, S, n, sig) ==
  /\ Fresh(r, {"U", "M"}, n, sig) /\ UnmapsWait(r, n, sig)
  /\ \A k : Pending(r, k) => Pending(q, k) \/ k = n
  /\ \A k \in 1 .. Len(S) : k # Len(S) => RecordAfter(r, Len(q) + k, <<"M", n>>)
UpTo(sig, n) == \A ev \in sig : ev[2] \in 0 .. n

LEMMA PlannedCopy ==
  ASSUME NEW q, NEW r, NEW S, Longer(q, r, S), NEW N \in Nat, Layers = 1 .. N,
         NEW plans, NEW V, PlanQueue(S, N, plans, V), NEW m \in Nat, NEW n, n = m + 1,
         PlanEvents(S, N, n), NEW sig, UpTo(sig, m),
         Fresh(q, {"U", "M"}, m, sig), UnmapsWait(q, m, sig)
  PROVE  PlanBehind(q, r, S, n, sig)
<1>0. \A ev \in sig : ev[2] \in 0 .. m
  BY DEF UpTo
<1>1. N \in Nat /\ Len(S) = 2 * N + 3 /\ Len(q) \in Nat /\ Len(r) = Len(q) + Len(S) /\ n \in Nat
  BY DEF PlanQueue, Longer
<1>2. \A k \in 1 .. Len(S) :
        /\ S[k].op = "record" => \/ k = N + 2 /\ S[k].ev = <<"U", n>>
                                 \/ k = 2 * N + 3 /\ S[k].ev = <<"M", n>>
        /\ S[k].op = "unmap" => k \in 2 .. N + 1
  BY PlanCommand
<1>3. \A j \in 1 .. Len(r) : \/ j \in 1 .. Len(q) /\ r[j] = q[j]
                             \/ \E k \in 1 .. Len(S) : j = Len(q) + k /\ r[j] = S[k]
  <2>1. \A j \in 1 .. Len(r) : Found(q, r, S, j)
    BY LongerAt
  <2> QED BY <2>1 DEF Found
<1>4. /\ r[Len(q) + 1] = Wait({<<"done", n>>}) /\ IsRecord(r[Len(q) + (N + 2)], <<"U", n>>)
      /\ IsRecord(r[Len(q) + (2 * N + 3)], <<"M", n>>)
  <2>1. 1 \in 1 .. Len(S) /\ N + 2 \in 1 .. Len(S) /\ 2 * N + 3 \in 1 .. Len(S)
    BY <1>1
  <2>2. /\ r[Len(q) + 1] = S[1] /\ r[Len(q) + (N + 2)] = S[N + 2]
        /\ r[Len(q) + (2 * N + 3)] = S[2 * N + 3]
    BY <2>1 DEF Longer
  <2> QED BY <2>2 DEF PlanEvents, IsRecord, Record
<1>5. Fresh(r, {"U", "M"}, n, sig)
  <2>1. ASSUME NEW k \in 1 .. Len(S), S[k].op = "record"
        PROVE  /\ S[k].ev \in {"U", "M"} \X (m + 1 .. n)
               /\ \A j \in 1 .. Len(S) : IsRecord(S[j], S[k].ev) => j = k
    <3>1. S[k].ev \in {"U", "M"} \X (m + 1 .. n)
      <4>1. n \in m + 1 .. n
        OBVIOUS
      <4>2. S[k].ev = <<"U", n>> \/ S[k].ev = <<"M", n>>
        BY <1>2, <2>1
      <4>3. <<"U", n>> \in {"U", "M"} \X (m + 1 .. n)
        BY <4>1
      <4>4. <<"M", n>> \in {"U", "M"} \X (m + 1 .. n)
        BY <4>1
      <4>5. CASE S[k].ev = <<"U", n>>
        BY <4>3, <4>5
      <4>6. CASE S[k].ev = <<"M", n>>
        BY <4>4, <4>6
      <4> QED BY <4>2, <4>5, <4>6
    <3>2. ASSUME NEW j \in 1 .. Len(S), IsRecord(S[j], S[k].ev) PROVE j = k
      <4>1. S[j].op = "record" /\ S[j].ev = S[k].ev
        BY <3>2 DEF IsRecord
      <4>2. \/ j = N + 2 /\ S[j].ev = <<"U", n>>
            \/ j = 2 * N + 3 /\ S[j].ev = <<"M", n>>
        BY <1>2, <4>1
      <4>3. \/ k = N + 2 /\ S[k].ev = <<"U", n>>
            \/ k = 2 * N + 3 /\ S[k].ev = <<"M", n>>
        BY <1>2, <2>1
      <4>4. <<"U", n>> # <<"M", n>>
        OBVIOUS
      <4> QED BY <4>1, <4>2, <4>3, <4>4
    <3> QED BY <3>1, <3>2
  <2>2. m <= n
    OBVIOUS
  <2> QED BY <1>0, <1>1, <2>1, <2>2, FreshLonger
<1>6. UnmapsWait(r, n, sig)
  <2>1. ASSUME NEW j \in 1 .. Len(r), r[j].op = "unmap"
        PROVE  \E x \in 0 .. n : /\ RecordAfter(r, j, <<"U", x>>)
                                 /\ <<"done", x>> \in sig \/ WaitBefore(r, j, <<"done", x>>)
    <3>1. CASE j \in 1 .. Len(q) /\ r[j] = q[j]
      <4>1. PICK x \in 0 .. m : /\ RecordAfter(q, j, <<"U", x>>)
                                /\ <<"done", x>> \in sig \/ WaitBefore(q, j, <<"done", x>>)
        BY <2>1, <3>1 DEF UnmapsWait
      <4>2. x \in 0 .. n /\ j \in 1 .. Len(q) + 1 /\ j \in j .. Len(r) + 1
        BY <1>1, <3>1
      <4>3. RecordAfter(r, j, <<"U", x>>)
        BY <3>1, <4>1, LongerAfter
      <4>4. WaitBefore(q, j, <<"done", x>>) => WaitBefore(r, j, <<"done", x>>)
        BY <4>2, LongerBefore
      <4> QED BY <4>1, <4>2, <4>3, <4>4
    <3>2. ASSUME NEW k \in 1 .. Len(S), j = Len(q) + k, r[j] = S[k]
          PROVE  RecordAfter(r, j, <<"U", n>>) /\ WaitBefore(r, j, <<"done", n>>)
      <4>1. k \in 2 .. N + 1
        BY <1>2, <2>1, <3>2
      <4>2. Len(q) + (N + 2) \in j + 1 .. Len(r) /\ Len(q) + 1 \in 1 .. j - 1
        BY <1>1, <3>2, <4>1
      <4>3. r[Len(q) + 1].op = "wait" /\ <<"done", n>> \in r[Len(q) + 1].evs
        BY <1>4 DEF Wait
      <4> QED BY <1>4, <4>2, <4>3 DEF RecordAfter, WaitBefore
    <3>3. n \in 0 .. n
      BY <1>1
    <3> QED BY <1>3, <3>1, <3>2, <3>3
  <2> QED BY <2>1 DEF UnmapsWait
<1>7. ASSUME NEW k, Pending(r, k) PROVE Pending(q, k) \/ k = n
  <2>1. PICK j \in 1 .. Len(r) : IsRecord(r[j], <<"U", k>>)
    BY <1>7 DEF Pending
  <2>2. CASE j \in 1 .. Len(q) /\ r[j] = q[j]
    BY <2>1, <2>2 DEF Pending
  <2>3. ASSUME NEW i \in 1 .. Len(S), j = Len(q) + i, r[j] = S[i] PROVE k = n
    <3>1. S[i].op = "record" /\ S[i].ev = <<"U", k>>
      BY <2>1, <2>3 DEF IsRecord
    <3> QED BY <1>2, <3>1
  <2> QED BY <1>3, <2>2, <2>3
<1>8. ASSUME NEW k \in 1 .. Len(S), k # Len(S)
      PROVE  RecordAfter(r, Len(q) + k, <<"M", n>>)
  <2>1. Len(q) + (2 * N + 3) \in (Len(q) + k) + 1 .. Len(r)
    BY <1>1, <1>8
  <2> QED BY <1>4, <2>1 DEF RecordAfter
<1> QED BY <1>5, <1>6, <1>7, <1>8 DEF PlanBehind

LEMMA AfterLaunchStream ==
  ASSUME StreamInv, AfterLaunch
  PROVE  StreamInv'
<1> USE DEF StreamInv
<1>1. /\ hook = "after" /\ hook' = "before" /\ step' = step + 1 /\ signalled' = signalled
      /\ UNCHANGED <<mapPrev, pinnedPrev>>
  BY DEF AfterLaunch
<1>2. /\ step \in Nat /\ copy \in Seq(CopyCommand(Recorded)) /\ main \in Seq(MainCommand)
      /\ unmapEvents \cup mapLast \cup mapPrev \subseteq {"U", "M"} \X (0 .. step)
  BY DEF StreamTypes
<1>3. PICK plans \in [Layers -> UNION {Plans(l) : l \in Layers}] :
        /\ \A l \in Layers : plans[l] \in Plans(l)
        /\ \/ UNCHANGED <<pinnedLast, main, copy, unmapEvents, mapLast>>
           \/ /\ pinnedLast' = pinnedLast \cup
                    UNION {{<<l, e>> : e \in DOMAIN plans[l]} : l \in Layers}
              /\ main' = Append(main, Record(<<"done", step'>>))
              /\ copy' = copy \o Schedule(plans, step')
              /\ unmapEvents' = unmapEvents \cup {<<"U", step'>>}
              /\ mapLast' = mapLast \cup {<<"M", step'>>}
  BY DEF AfterLaunch
<1>4. CASE UNCHANGED <<pinnedLast, main, copy, unmapEvents, mapLast>>
  BY <1>1, <1>2, <1>4, StreamStays
<1>5. CASE /\ pinnedLast' = pinnedLast \cup
                 UNION {{<<l, e>> : e \in DOMAIN plans[l]} : l \in Layers}
           /\ main' = Append(main, Record(<<"done", step'>>))
           /\ copy' = copy \o Schedule(plans, step')
           /\ unmapEvents' = unmapEvents \cup {<<"U", step'>>}
           /\ mapLast' = mapLast \cup {<<"M", step'>>}
  <2>1. PICK n \in Nat : n = step' /\ n = step + 1 /\ step <= n
    BY <1>1, <1>2
  <2>2. PICK N : N = NLayers
    OBVIOUS
  <2>3. PICK S : S = Schedule(plans, n)
    OBVIOUS
  <2>4. N \in Nat /\ Layers = 1 .. N
    BY <2>2, TierAssumption DEF Layers
  <2>5. PICK V : S \in Seq(CopyCommand(Recorded)) /\ PlanQueue(S, N, plans, V) /\ PlanEvents(S, N, n)
    <3>1. Chosen(plans)
      BY <1>3, PlansChosen
    <3> QED BY <2>2, <2>3, <3>1, ScheduleAt
  <2>6. copy' = copy \o S /\ Longer(copy, copy', S) /\ copy' \in Seq(CopyCommand(Recorded))
    <3>1. copy' = copy \o S
      BY <1>5, <2>1, <2>3
    <3>2. Longer(copy, copy \o S, S)
      BY <1>2, <2>5, ConcatLengthens
    <3>3. copy \o S \in Seq(CopyCommand(Recorded))
      BY <1>2, <2>5, ConcatSeq
    <3> QED BY <3>1, <3>2, <3>3
  <2> DEFINE d == Record(<<"done", n>>)
  <2>7. d.op = "record" /\ d.ev = <<"done", n>> /\ d \in MainCommand
    BY DEF Record, MainCommand
  <2> HIDE DEF d
  <2>8. main' = main \o <<d>> /\ main' \in Seq(MainCommand) /\ <<d>> \in Seq(MainCommand)
        /\ Len(<<d>>) = 1 /\ <<d>>[1] = d
    <3>1. main' = Append(main, d)
      BY <1>5, <2>1 DEF d
    <3> QED BY <1>2, <2>7, <3>1
  <2>9. Longer(main, main', <<d>>)
    BY <1>2, <2>8, ConcatLengthens
  <2>10. /\ Fresh(copy, {"U", "M"}, step, signalled) /\ UnmapsWait(copy, step, signalled)
         /\ Fresh(main, {"done"}, step, signalled) /\ \A ev \in signalled : ev[2] \in 0 .. step
    BY DEF FreshInv
  <2>11. /\ Fresh(copy', {"U", "M"}, n, signalled) /\ UnmapsWait(copy', n, signalled)
         /\ \A k : Pending(copy', k) => Pending(copy, k) \/ k = n
         /\ \A k \in 1 .. Len(S) : k # Len(S) => RecordAfter(copy', Len(copy) + k, <<"M", n>>)
    <3>1. UpTo(signalled, step)
      BY <2>10 DEF UpTo
    <3>2. PlanBehind(copy, copy', S, n, signalled)
      BY <1>2, <2>1, <2>4, <2>5, <2>6, <2>10, <3>1, PlannedCopy
    <3> QED BY <3>2 DEF PlanBehind
  <2>12. StreamTypes'
    <3>1. {"U", "M"} \X (0 .. step) \subseteq {"U", "M"} \X (0 .. n)
          /\ <<"U", n>> \in {"U", "M"} \X (0 .. n) /\ <<"M", n>> \in {"U", "M"} \X (0 .. n)
      BY <1>2, <2>1
    <3> QED BY <1>1, <1>2, <1>5, <2>1, <2>6, <2>8, <3>1 DEF StreamTypes
  <2>13. FreshInv'
    <3>1. \A k \in 1 .. Len(<<d>>) : <<d>>[k].op = "record" =>
            /\ <<d>>[k].ev \in {"done"} \X (step + 1 .. n)
            /\ \A j \in 1 .. Len(<<d>>) : IsRecord(<<d>>[j], <<d>>[k].ev) => j = k
      <4>1. <<"done", n>> \in {"done"} \X (step + 1 .. n)
        BY <1>2, <2>1
      <4> QED BY <2>7, <2>8, <4>1
    <3>2. Fresh(main', {"done"}, n, signalled)
      BY <1>2, <2>1, <2>9, <2>10, <3>1, FreshLonger
    <3>3. \A ev \in signalled : ev[2] \in 0 .. n
      BY <1>2, <2>1, <2>10
    <3> QED BY <1>1, <2>1, <2>11, <3>2, <3>3 DEF FreshInv
  <2>14. GateInv'
    <3>1. ASSUME NEW k \in 0 .. n, Pending(copy', k) PROVE Covered(k)' /\ Gated(main', k)
      <4>1. CASE Pending(copy, k)
        <5>1. k \in 0 .. step
          BY <2>10, <4>1, PendingBound
        <5>2. WaitBefore(main, Len(main) + 1, <<"U", k>>) /\ Gated(main, k)
          BY <1>1, <4>1, <5>1 DEF GateInv, Covered
        <5>3. Gated(main', k)
          BY <2>9, <5>2, GatedLonger
        <5>4. Len(main) + 1 \in 1 .. Len(main) + 1 /\ Len(main') + 1 \in Len(main) + 1 .. Len(main') + 1
          BY <2>8, <2>9 DEF Longer
        <5>5. WaitBefore(main', Len(main') + 1, <<"U", k>>)
          BY <2>9, <5>2, <5>4, LongerBefore
        <5> QED BY <5>3, <5>5 DEF Covered
      <4>2. CASE k = n
        <5>1. ASSUME NEW i \in 1 .. Len(main'), IsLayerOp(main'[i])
              PROVE  RecordAfter(main', i, <<"done", n>>)
          <6>1. Len(main') = Len(main) + 1 /\ main'[Len(main) + 1] = d /\ Len(main) \in Nat
            BY <2>8, <2>9 DEF Longer
          <6>2. i # Len(main) + 1
            BY <2>7, <5>1, <6>1 DEF IsLayerOp
          <6>3. Len(main) + 1 \in i + 1 .. Len(main')
            BY <6>1, <6>2
          <6> QED BY <2>7, <6>1, <6>3 DEF RecordAfter, IsRecord
        <5>2. Gated(main', k)
          BY <4>2, <5>1 DEF Gated
        <5>3. hook' = "before" /\ <<"U", k>> \in unmapEvents'
          BY <1>1, <1>5, <2>1, <4>2
        <5> QED BY <5>2, <5>3 DEF Covered
      <4> QED BY <2>11, <3>1, <4>1, <4>2
    <3> QED BY <2>1, <3>1 DEF GateInv
  <2>15. PinInv'
    <3>1. ASSUME NEW i \in 1 .. Len(copy'), NEW c, c = copy'[i], IsPromotion(c), DOMAIN c.plan # {}
          PROVE  \E k \in 0 .. n : RecordAfter(copy', i, <<"M", k>>) /\ Pinned(c, k)'
      <4>1. CASE i \in 1 .. Len(copy)
        <5>1. c = copy[i]
          BY <2>6, <3>1, <4>1 DEF Longer
        <5>2. PICK k \in 0 .. step : RecordAfter(copy, i, <<"M", k>>) /\ Pinned(c, k)
          BY <3>1, <4>1, <5>1 DEF PinInv
        <5>3. k \in 0 .. n /\ RecordAfter(copy', i, <<"M", k>>)
          BY <1>2, <2>1, <2>6, <4>1, <5>2, LongerAfter
        <5>4. Pinned(c, k)'
          BY <1>1, <1>5, <5>2 DEF Pinned
        <5> QED BY <5>3, <5>4
      <4>2. CASE i \notin 1 .. Len(copy)
        <5>1. PICK k \in 1 .. Len(S) : i = Len(copy) + k /\ c = S[k]
          <6>1. i - Len(copy) \in 1 .. Len(S) /\ i = Len(copy) + (i - Len(copy))
            BY <2>6, <4>2 DEF Longer
          <6> QED BY <2>6, <3>1, <6>1 DEF Longer
        <5>2. PICK m \in Layers : k = N + 2 + m /\ S[k].layer = m /\ S[k].plan = plans[m]
          <6>1. IsPromotion(S[k])
            BY <3>1, <5>1
          <6>2. Promotions(S, N, plans)
            BY <2>5, SchedulePromotes
          <6> QED BY <6>1, <6>2 DEF Promotions
        <5>3. k # Len(S)
          BY <2>4, <2>5, <5>2 DEF PlanQueue
        <5>4. RecordAfter(copy', i, <<"M", n>>) /\ n \in 0 .. n
          BY <2>11, <5>1, <5>3
        <5>5. {m} \X DOMAIN plans[m] \subseteq pinnedLast'
          BY <1>5
        <5>6. Pinned(c, n)'
          BY <1>5, <2>1, <5>1, <5>2, <5>5 DEF Pinned
        <5> QED BY <5>4, <5>6
      <4> QED BY <4>1, <4>2
    <3> QED BY <2>1, <3>1 DEF PinInv
  <2> QED BY <1>1, <2>1, <2>11, <2>12, <2>13, <2>14, <2>15
<1> QED BY <1>3, <1>4, <1>5

LEMMA HostStream ==
  ASSUME StreamInv, Host
  PROVE  StreamInv'
<1>1. step \in Nat
  BY DEF StreamInv, StreamTypes
<1>2. CASE FailClosed
  BY <1>1, <1>2, StreamStays DEF FailClosed
<1>3. CASE StopTier
  BY <1>1, <1>3, StreamStays DEF StopTier, host
<1>4. CASE RestartTier
  BY <1>1, <1>4, StreamStays DEF RestartTier
<1> QED BY <1>2, <1>3, <1>4, BeforeLaunchStream, LaunchStream, AfterLaunchStream DEF Host

LEMMA MainStreamStream ==
  ASSUME StreamInv, MainStream
  PROVE  StreamInv'
<1>1. step \in Nat /\ main \in Seq(MainCommand)
  BY DEF StreamInv, StreamTypes
<1>2. main # <<>> => Head(main) = main[1]
  BY <1>1
<1>3. UNCHANGED <<host, copy>>
  BY DEF MainStream, MainWait, MainRecord, Remap, Publish, Moe, Enter, Skip, Inject, TimeOut
<1>4. CASE MainWait
  BY <1>2, <1>3, <1>4, MainConsumes DEF MainWait, MainDoes
<1>5. CASE MainRecord
  BY <1>2, <1>3, <1>5, MainConsumes DEF MainRecord, MainDoes, IsRecord
<1>6. CASE Remap \/ Publish \/ Moe
  <2>1. main # <<>> /\ main' = Tail(main) /\ signalled' = signalled /\ Head(main).op # "wait"
    BY <1>6 DEF Remap, Publish, Moe, MainDoes
  <2> QED BY <1>2, <1>3, <2>1, MainConsumes
<1>7. CASE \E c \in Ctas : Enter(c) \/ Skip(c) \/ Inject(c) \/ TimeOut(c)
  <2>1. main # <<>> /\ signalled' = signalled /\ Head(main).op # "wait"
        /\ (main' = Tail(main) \/ main' = main)
    BY <1>7 DEF Enter, Skip, Inject, TimeOut, CtaIs, CtaEnds, MainDoes
  <2>2. CASE main' = Tail(main)
    BY <1>2, <1>3, <2>1, <2>2, MainConsumes
  <2>3. CASE main' = main
    BY <1>1, <1>3, <2>1, <2>3, StreamStays DEF host
  <2> QED BY <2>1, <2>2, <2>3
<1> QED BY <1>4, <1>5, <1>6, <1>7 DEF MainStream

LEMMA CopyStreamStream ==
  ASSUME StreamInv, CopyStream
  PROVE  StreamInv'
<1> DEFINE c == Head(copy)
<1>1. copy \in Seq(CopyCommand(Recorded)) /\ copy # <<>> /\ UNCHANGED <<host, main>>
  BY DEF StreamInv, StreamTypes, CopyStream, CopyWait, CopyRecord, Unmap, Tear, Fill, Map,
         Promoted, CopyDoes
<1>2. c = copy[1] /\ c \in CopyCommand(Recorded)
  BY <1>1, TailSeq
<1>3. CASE CopyWait
  BY <1>1, <1>2, <1>3, CopyConsumes DEF CopyWait, CopyDoes
<1>4. CASE CopyRecord
  BY <1>1, <1>2, <1>4, CopyConsumes DEF CopyRecord, CopyDoes, IsRecord
<1>5. CASE Unmap \/ Promoted
  <2>1. copy' = Tail(copy) /\ signalled' = signalled /\ c.op # "wait"
    BY <1>5 DEF Unmap, Promoted, CopyDoes
  <2> QED BY <1>1, <1>2, <2>1, CopyConsumes
<1>6. CASE Tear
  <2>1. PICK x \in DOMAIN c.plan :
          copy' = <<Promote("fill", c.layer, c.plan, x)>> \o Tail(copy)
    BY <1>6 DEF Tear
  <2> DEFINE f == Promote("fill", c.layer, c.plan, x)
  <2>2. IsPromotion(c) /\ c.layer \in Layers /\ c.plan \in PlanSet /\ signalled' = signalled
    BY <1>2, <1>6 DEF Tear, CopyDoes, IsPromotion, CopyCommand
  <2>3. x \in Experts
    BY <2>1, <2>2 DEF PlanSet
  <2>4. f \in CopyCommand(Recorded) /\ IsPromotion(f) /\ f.layer = c.layer /\ f.plan = c.plan
    BY <2>1, <2>2, <2>3 DEF Promote, CopyCommand, IsPromotion
  <2> HIDE DEF f
  <2>5. copy' = <<f>> \o Tail(copy) /\ DOMAIN f.plan \subseteq DOMAIN copy[1].plan
    BY <1>2, <2>1, <2>4 DEF f
  <2> QED BY <1>1, <1>2, <2>2, <2>4, <2>5, CopyMoves
<1>7. CASE Fill
  <2> DEFINE f == Promote("map", c.layer, c.plan, c.expert)
  <2>1. copy' = <<f>> \o Tail(copy) /\ signalled' = signalled /\ c.op = "fill"
    BY <1>7 DEF Fill, CopyDoes
  <2>2. IsPromotion(c) /\ c.layer \in Layers /\ c.plan \in PlanSet /\ c.expert \in Experts
        /\ c.expert \in DOMAIN c.plan
    BY <1>2, <2>1 DEF IsPromotion, CopyCommand
  <2>3. f \in CopyCommand(Recorded) /\ IsPromotion(f) /\ f.layer = c.layer /\ f.plan = c.plan
    BY <2>2 DEF Promote, CopyCommand, IsPromotion
  <2> HIDE DEF f
  <2>4. DOMAIN f.plan \subseteq DOMAIN copy[1].plan
    BY <1>2, <2>3
  <2> QED BY <1>1, <1>2, <2>1, <2>2, <2>3, <2>4, CopyMoves
<1>8. CASE Map
  <2> DEFINE left == [e \in DOMAIN c.plan \ {c.expert} |-> c.plan[e]]
             f == Promote("promote", c.layer, left, None)
  <2>1. copy' = <<f>> \o Tail(copy) /\ signalled' = signalled /\ c.op = "map"
    BY <1>8 DEF Map, CopyDoes
  <2>2. IsPromotion(c) /\ c.layer \in Layers /\ c.plan \in PlanSet /\ c.expert \in Experts
    BY <1>2, <2>1 DEF IsPromotion, CopyCommand
  <2>3. left \in PlanSet
    <3>1. PICK q \in SUBSET Experts : c.plan \in [q -> Slots]
      BY <2>2 DEF PlanSet
    <3>2. left \in [q \ {c.expert} -> Slots] /\ q \ {c.expert} \in SUBSET Experts
      BY <3>1
    <3> QED BY <3>2 DEF PlanSet
  <2>4. DOMAIN left \subseteq DOMAIN c.plan
    OBVIOUS
  <2> HIDE DEF left
  <2>5. f \in CopyCommand(Recorded) /\ IsPromotion(f) /\ f.layer = c.layer /\ f.plan = left
    BY <2>2, <2>3 DEF Promote, CopyCommand, IsPromotion
  <2> HIDE DEF f
  <2>6. DOMAIN f.plan \subseteq DOMAIN copy[1].plan
    BY <1>2, <2>4, <2>5
  <2> QED BY <1>1, <1>2, <2>1, <2>2, <2>5, <2>6, CopyMoves
<1> QED BY <1>3, <1>4, <1>5, <1>6, <1>7, <1>8 DEF CopyStream

LEMMA NextStream ==
  ASSUME StreamInv, [Next]_vars
  PROVE  StreamInv'
<1>1. step \in Nat
  BY DEF StreamInv, StreamTypes
<1>2. CASE Dispatcher
  <2>1. UNCHANGED <<host, main, copy, signalled>>
    BY <1>2 DEF Dispatcher, Answer, Serve, Resync
  <2> QED BY <1>1, <2>1, StreamStays DEF host
<1>3. CASE UNCHANGED vars
  BY <1>1, <1>3, StreamStays DEF vars, host
<1> QED BY <1>2, <1>3, HostStream, MainStreamStream, CopyStreamStream DEF Next

\* A record stays pinned until the promotion that reads it is done, however far the copy
\* stream is behind: the host waits for the event that the older promotions end with
\* before it drops their pins.
THEOREM PinsAreKept == Spec => []PinsOutliveCopies
<1>1. StreamInv => PinsOutliveCopies
  BY StreamPins
<1> QED BY <1>1, InitStream, NextStream, PTL DEF Spec

-----------------------------------------------------------------------------
(* The rows of a step: what the main stream's next command finds.           *)

\* A layer's operations follow each other without a gap.
Follows(b, c) ==
  /\ c.op = "publish" => b.op = "remap" /\ b.layer = c.layer
  /\ c.op = "moe" => b.op = "publish" /\ b.layer = c.layer
  /\ c.op = "inject" => b.op = "moe" /\ b.layer = c.layer
Ordered(q) == \A i \in 2 .. Len(q) : Follows(q[i - 1], q[i])

\* The request of a layer is the latest; an ack with its number and no
\* error stands for its rows.
Staged(pairs) == [i \in DOMAIN pairs |-> pairs[i].expert]
Answered(l) ==
  /\ req[l].seq = seqDev[l] /\ ack[l].seq \in Nat /\ ack[l].seq <= seqDev[l]
  /\ ack[l].seq = seqDev[l] /\ ack[l].status = 0 => staging[l] = Staged(req[l].pairs)
Serves(l) == expected[l] <= seqDev[l] /\ (expected[l] = seqDev[l] => serving[2] = req[l].pairs)
AnswerInv ==
  /\ seqDev \in [Layers -> Nat] /\ expected \in [Layers -> Nat]
  /\ DOMAIN req = Layers /\ DOMAIN ack = Layers /\ DOMAIN staging = Layers
  /\ \A l \in Layers : Answered(l)
  /\ serving # <<>> => serving[1] \in Layers /\ Serves(serving[1])
  /\ ~running => serving = <<>>

\* Between publish and the MoE the table is the one that was read; the request is what it
\* had no slot for; the MoE's rows are the resident experts', and each CTA that is through
\* has copied its share of the rest.
ReadsTable(l) ==
  /\ DOMAIN remapped[l] = DOMAIN ids[l]
  /\ \A p \in DOMAIN ids[l] : remapped[l][p] # None => remapped[l][p] = table[l][ids[l][p]]
Resident(l) ==
  /\ DOMAIN rows[l] = DOMAIN ids[l]
  /\ \A p \in DOMAIN ids[l] : remapped[l][p] # None => rows[l][p] = ids[l][p]
Copied(l, C) ==
  \A i \in DOMAIN req[l].pairs :
    i % NCtas \in C => rows[l][req[l].pairs[i].row] = req[l].pairs[i].expert
Through == {d \in Ctas : cta[d] = "out"}
Ready(c) ==
  /\ c.op \in {"publish", "moe"} => ReadsTable(c.layer)
  /\ c.op \in {"moe", "inject"} => req[c.layer].pairs = Misses(c.layer)
  /\ c.op = "inject" => Resident(c.layer) /\ (err = 0 => Copied(c.layer, Through))
HeadInv ==
  /\ cta \in [Ctas -> {"new", "spin", "out"}] /\ DOMAIN rows = Layers
  /\ \A c : main # <<>> /\ c = main[1] => Ready(c)
  /\ main = <<>> \/ main[1].op # "inject" => cta = [d \in Ctas |-> "new"]
RowInv == Ordered(main) /\ AnswerInv /\ HeadInv

LEMMA OrderedShifted ==
  ASSUME NEW q, NEW r, Shifted(q, r), Ordered(q)
  PROVE  Ordered(r)
<1> SUFFICES ASSUME NEW i \in 2 .. Len(r) PROVE Follows(r[i - 1], r[i])
  BY DEF Ordered
<1>1. i + 1 \in 2 .. Len(q) /\ (i + 1) - 1 = i /\ i \in 1 .. Len(r) /\ i - 1 \in 1 .. Len(r)
      /\ (i - 1) + 1 = i
  BY DEF Shifted
<1>2. r[i] = q[i + 1] /\ r[i - 1] = q[i]
  BY <1>1 DEF Shifted
<1>3. Follows(q[(i + 1) - 1], q[i + 1])
  BY <1>1 DEF Ordered
<1> QED BY <1>1, <1>2, <1>3

LEMMA OrderedLonger ==
  ASSUME NEW q, NEW r, NEW s, Longer(q, r, s), Ordered(q), Ordered(s),
         s[1].op \notin {"publish", "moe", "inject"}
  PROVE  Ordered(r)
<1> SUFFICES ASSUME NEW i \in 2 .. Len(r) PROVE Follows(r[i - 1], r[i])
  BY DEF Ordered
<1>1. Len(q) \in Nat /\ Len(s) \in Nat /\ Len(r) = Len(q) + Len(s)
  BY DEF Longer
<1>2. CASE i \in 1 .. Len(q)
  <2>1. i \in 2 .. Len(q) /\ i - 1 \in 1 .. Len(q)
    BY <1>1, <1>2
  <2>2. r[i] = q[i] /\ r[i - 1] = q[i - 1]
    BY <1>2, <2>1 DEF Longer
  <2> QED BY <2>1, <2>2 DEF Ordered
<1>3. CASE i = Len(q) + 1
  <2>1. 1 \in 1 .. Len(s)
    BY <1>1, <1>3
  <2>2. r[i] = s[1]
    BY <1>3, <2>1 DEF Longer
  <2> QED BY <2>2 DEF Follows
<1>4. CASE i \notin 1 .. Len(q) + 1
  <2>1. PICK k \in 2 .. Len(s) : i = Len(q) + k
    <3>1. i - Len(q) \in 2 .. Len(s) /\ i = Len(q) + (i - Len(q))
      BY <1>1, <1>4
    <3> QED BY <3>1
  <2>2. k \in 1 .. Len(s) /\ k - 1 \in 1 .. Len(s) /\ i - 1 = Len(q) + (k - 1)
    BY <1>1, <2>1
  <2>3. r[i] = s[k] /\ r[i - 1] = s[k - 1]
    BY <2>1, <2>2 DEF Longer
  <2> QED BY <2>1, <2>3 DEF Ordered
<1> QED BY <1>1, <1>2, <1>3, <1>4

LEMMA StepOpsOrdered ==
  Ordered(StepOps) /\ StepOps[1].op = "remap"
<1>1. NLayers \in Nat \ {0} /\ Len(StepOps) = 4 * NLayers
  BY TierAssumption, StepOpsType
<1>2. ASSUME NEW k \in 2 .. Len(StepOps)
      PROVE  Follows(StepOps[k - 1], StepOps[k])
  <2>1. k \in 1 .. 4 * NLayers /\ k - 1 \in 1 .. 4 * NLayers /\ k \in Nat
    BY <1>1
  <2>2. PICK l \in Layers, i \in 0 .. 3 : k + 3 = 4 * l + i /\ StepOps[k] = LayerOps(l)[1 + i]
    BY <2>1, StepOpAt
  <2>3. PICK m \in Layers, j \in 0 .. 3 :
          (k - 1) + 3 = 4 * m + j /\ StepOps[k - 1] = LayerOps(m)[1 + j]
    BY <2>1, StepOpAt
  <2>4. l \in Nat /\ m \in Nat /\ \A op, x : Op(op, x).op = op /\ Op(op, x).layer = x
    BY DEF Layers, Op
  <2>5. i = 0 \/ (m = l /\ i = 1 /\ j = 0) \/ (m = l /\ i = 2 /\ j = 1) \/ (m = l /\ i = 3 /\ j = 2)
    <3>1. 4 * l + i = 4 * m + j + 1
      BY <2>1, <2>2, <2>3, <2>4
    <3> QED BY <2>4, <3>1
  <2>6. CASE i = 0
    <3>1. StepOps[k] = Op("remap", l)
      BY <2>2, <2>6, LayerOpIs
    <3> QED BY <2>4, <3>1 DEF Follows
  <2>7. CASE m = l /\ i = 1 /\ j = 0
    <3>1. StepOps[k] = Op("publish", l) /\ StepOps[k - 1] = Op("remap", l)
      BY <2>2, <2>3, <2>7, LayerOpIs
    <3> QED BY <2>4, <3>1 DEF Follows
  <2>8. CASE m = l /\ i = 2 /\ j = 1
    <3>1. StepOps[k] = Op("moe", l) /\ StepOps[k - 1] = Op("publish", l)
      BY <2>2, <2>3, <2>8, LayerOpIs
    <3> QED BY <2>4, <3>1 DEF Follows
  <2>9. CASE m = l /\ i = 3 /\ j = 2
    <3>1. StepOps[k] = Op("inject", l) /\ StepOps[k - 1] = Op("moe", l)
      BY <2>2, <2>3, <2>9, LayerOpIs
    <3> QED BY <2>4, <3>1 DEF Follows
  <2> QED BY <2>5, <2>6, <2>7, <2>8, <2>9
<1>3. StepOps[1].op = "remap"
  <2>1. 1 \in 1 .. 4 * NLayers
    BY <1>1
  <2>2. PICK l \in Layers, i \in 0 .. 3 : 1 + 3 = 4 * l + i /\ StepOps[1] = LayerOps(l)[1 + i]
    BY <2>1, StepOpAt
  <2>3. i = 0
    BY <2>2 DEF Layers
  <2>4. StepOps[1] = Op("remap", l)
    BY <2>2, <2>3, LayerOpIs
  <2> QED BY <2>4 DEF Op
<1> QED BY <1>2, <1>3 DEF Ordered

\* No unmap runs while a layer's operations are next on the main stream.
LEMMA HeadClear ==
  ASSUME StreamInv, main # <<>>, copy # <<>>, IsLayerOp(main[1])
  PROVE  copy[1].op # "unmap"
<1> SUFFICES ASSUME copy[1].op = "unmap" PROVE FALSE
  OBVIOUS
<1> USE DEF StreamInv
<1>1. Len(main) \in Nat /\ 1 \in 1 .. Len(main) /\ Len(copy) \in Nat /\ 1 \in 1 .. Len(copy)
  BY DEF StreamTypes
<1>2. PICK n \in 0 .. step : /\ RecordAfter(copy, 1, <<"U", n>>)
                             /\ <<"done", n>> \in signalled \/ WaitBefore(copy, 1, <<"done", n>>)
  BY <1>1 DEF UnmapsWait
<1>3. \A q, ev : ~WaitBefore(q, 1, ev)
  BY DEF WaitBefore
<1>4. Pending(copy, n)
  BY <1>1, <1>2 DEF RecordAfter, Pending
<1>5. RecordAfter(main, 1, <<"done", n>>)
  BY <1>1, <1>3, <1>4 DEF GateInv, Gated
<1>6. PICK j \in 1 .. Len(main) : IsRecord(main[j], <<"done", n>>)
  BY <1>1, <1>5 DEF RecordAfter
<1>7. <<"done", n>> \notin signalled
  BY <1>6 DEF FreshInv, Fresh, IsRecord
<1> QED BY <1>2, <1>3, <1>7

LEMMA SetToSeqOnto ==
  ASSUME NEW S, IsFiniteSet(S)
  PROVE  \A x \in S : \E i \in 1 .. Cardinality(S) : SetToSeq(S)[i] = x
<1> DEFINE D == 1 .. Cardinality(S)
<1>1. Cardinality(S) \in Nat /\ ExistsBijection(D, S)
  BY FS_CardinalityType
<1>2. PICK g \in Bijection(D, S) : TRUE
  BY <1>1 DEF ExistsBijection
<1>3. g \in [D -> S] /\ IsInjective(g)
  BY <1>2 DEF Bijection, Injection, IsInjective
<1>4. PICK f : f = SetToSeq(S)
  OBVIOUS
<1>5. f \in [D -> S] /\ IsInjective(f)
  BY <1>3, <1>4 DEF SetToSeq
<1>6. f \in Injection(D, S)
  BY <1>5 DEF Injection, IsInjective
<1>7. IsFiniteSet(D) /\ Cardinality(D) = Cardinality(S)
  BY <1>1, FS_Interval
<1>8. f \in Surjection(D, S)
  BY <1>6, <1>7, FS_Injection
<1> QED BY <1>4, <1>8 DEF Surjection

\* The request's pairs are the pairs without a slot, each of them once.
Compacted(l, pairs) ==
  /\ \A i \in DOMAIN pairs : /\ i \in Nat /\ pairs[i].row \in DOMAIN ids[l]
                             /\ remapped[l][pairs[i].row] = None
                             /\ pairs[i].expert = ids[l][pairs[i].row]
  /\ \A p \in DOMAIN ids[l] : remapped[l][p] = None => \E i \in DOMAIN pairs : pairs[i].row = p

LEMMA MissesCompacted ==
  ASSUME RoutedInv, NEW l \in Layers
  PROVE  Compacted(l, Misses(l))
<1> DEFINE M == {p \in DOMAIN ids[l] : remapped[l][p] = None}
<1>1. ids[l] \in Seq(Experts)
  BY DEF RoutedInv
<1>2. DOMAIN ids[l] = 1 .. Len(ids[l]) /\ Len(ids[l]) \in Nat
  BY <1>1
<1>3. IsFiniteSet(DOMAIN ids[l])
  BY <1>2, FS_Interval
<1>4. IsFiniteSet(M)
  BY <1>3, FS_Subset
<1>5. \A p \in M : p \in DOMAIN ids[l] /\ remapped[l][p] = None
  OBVIOUS
<1>6. \A p \in DOMAIN ids[l] : remapped[l][p] = None => p \in M
  OBVIOUS
<1> HIDE DEF M
<1>7. SetToSeq(M) \in [1 .. Cardinality(M) -> M]
      /\ \A x \in M : \E i \in 1 .. Cardinality(M) : SetToSeq(M)[i] = x
  BY <1>4, SetToSeqType, SetToSeqOnto
<1>8. PICK P : P = PairsOf(l, M)
  OBVIOUS
<1>9. /\ DOMAIN P = 1 .. Cardinality(M)
      /\ \A i \in DOMAIN P : i \in Nat /\ P[i].row = SetToSeq(M)[i]
                             /\ P[i].expert = ids[l][SetToSeq(M)[i]]
  BY <1>8 DEF PairsOf
<1>10. Compacted(l, P)
  BY <1>5, <1>6, <1>7, <1>9 DEF Compacted
<1> QED BY <1>8, <1>10 DEF Misses, M

LEMMA InitRow ==
  ASSUME Init
  PROVE  RowInv
<1>1. main = <<>> /\ serving = <<>> /\ running = TRUE
  BY DEF Init
<1>2. Ordered(main)
  BY <1>1 DEF Ordered
<1>3. Staged(<<>>) = <<>>
  BY DEF Staged
<1>4. \A l \in Layers : Answered(l)
  BY <1>3 DEF Init, Answered
<1>5. AnswerInv
  BY <1>1, <1>4 DEF Init, AnswerInv
<1>6. HeadInv
  BY <1>1 DEF Init, HeadInv
<1> QED BY <1>2, <1>5, <1>6 DEF RowInv

\* What the host queues on the main stream.
LEMMA HostQueues ==
  ASSUME StreamInv, Host
  PROVE  \/ main' = main
         \/ \E s \in Seq(MainCommand) :
              /\ main' = main \o s /\ s # <<>> /\ Ordered(s)
              /\ s[1].op \notin {"publish", "moe", "inject"}
<1>1. ASSUME NEW c \in MainCommand, c.op \in {"wait", "record"}, main' = Append(main, c)
      PROVE  \E s \in Seq(MainCommand) : /\ main' = main \o s /\ s # <<>> /\ Ordered(s)
                                         /\ s[1].op \notin {"publish", "moe", "inject"}
  <2>1. main \in Seq(MainCommand)
    BY DEF StreamInv, StreamTypes
  <2>2. <<c>> \in Seq(MainCommand) /\ <<c>> # <<>> /\ Len(<<c>>) = 1 /\ <<c>>[1] = c
    OBVIOUS
  <2>3. main' = main \o <<c>>
    BY <1>1, <2>1
  <2>4. Ordered(<<c>>)
    BY <2>2 DEF Ordered
  <2> QED BY <1>1, <2>2, <2>3, <2>4
<1>2. /\ step \in Nat /\ unmapEvents \cup mapLast \cup mapPrev \subseteq {"U", "M"} \X (0 .. step)
  BY DEF StreamInv, StreamTypes
<1>3. CASE BeforeLaunch
  <2>1. main' = Append(main, Wait(mapPrev \cup unmapEvents))
    BY <1>3 DEF BeforeLaunch
  <2>2. mapPrev \cup unmapEvents \in SUBSET ({"U", "M"} \X Nat)
    BY <1>2
  <2>3. Wait(mapPrev \cup unmapEvents) \in MainCommand /\ Wait(mapPrev \cup unmapEvents).op = "wait"
    BY <2>2 DEF Wait, MainCommand
  <2> QED BY <1>1, <2>1, <2>3
<1>4. CASE Launch
  <2>1. main' = main \o StepOps
    BY <1>4 DEF Launch
  <2>2. StepOps # <<>>
    BY StepOpsType, TierAssumption
  <2> QED BY <2>1, <2>2, StepOpsType, StepOpsOrdered
<1>5. CASE AfterLaunch
  <2>1. main' = main \/ main' = Append(main, Record(<<"done", step'>>))
    BY <1>5 DEF AfterLaunch
  <2>2. step' \in Nat
    BY <1>2, <1>5 DEF AfterLaunch
  <2>3. Record(<<"done", step'>>) \in MainCommand /\ Record(<<"done", step'>>).op = "record"
    BY <2>2 DEF Record, MainCommand
  <2> QED BY <1>1, <2>1, <2>3
<1>6. CASE FailClosed \/ StopTier \/ RestartTier
  BY <1>6 DEF FailClosed, StopTier, RestartTier
<1> QED BY <1>3, <1>4, <1>5, <1>6 DEF Host

LEMMA NextOrdered ==
  ASSUME StreamInv, Ordered(main), [Next]_vars
  PROVE  Ordered(main')
<1>1. main \in Seq(MainCommand)
  BY DEF StreamInv, StreamTypes
<1>2. CASE main # <<>> /\ main' = Tail(main)
  BY <1>1, <1>2, TailShifts, OrderedShifted
<1>3. CASE Host
  <2>1. ASSUME NEW s \in Seq(MainCommand), main' = main \o s, Ordered(s),
               s[1].op \notin {"publish", "moe", "inject"}
        PROVE  Ordered(main')
    <3>1. Longer(main, main', s)
      BY <1>1, <2>1, ConcatLengthens
    <3> QED BY <2>1, <3>1, OrderedLonger
  <2> QED BY <1>3, <2>1, HostQueues
<1>4. CASE MainStream
  <2>1. main' = main \/ (main # <<>> /\ main' = Tail(main))
    BY <1>4 DEF MainStream, MainWait, MainRecord, Remap, Publish, Moe, Enter, Skip, Inject, TimeOut,
                CtaIs, CtaEnds, MainDoes
  <2> QED BY <1>2, <2>1
<1>5. CASE CopyStream \/ Dispatcher \/ UNCHANGED vars
  <2>1. main' = main
    BY <1>5 DEF CopyStream, CopyWait, CopyRecord, Unmap, Tear, Fill, Map, Promoted, Dispatcher, Answer,
                Serve, Resync, vars
  <2> QED BY <2>1
<1> QED BY <1>3, <1>4, <1>5 DEF Next

-----------------------------------------------------------------------------
(* The mailboxes *)

LEMMA AnswersSame ==
  ASSUME AnswerInv, UNCHANGED <<seqDev, req, ack, staging, serving, running>>,
         expected' \in [Layers -> Nat], serving # <<>> => expected' = expected
  PROVE  AnswerInv'
<1>1. \A l \in Layers : Answered(l)'
  BY DEF AnswerInv, Answered
<1> QED BY <1>1 DEF AnswerInv, Serves

LEMMA PublishAnswers ==
  ASSUME AnswerInv, StreamInv, Publish
  PROVE  AnswerInv'
<1> DEFINE l == layerOf
<1>1. /\ seqDev' = [seqDev EXCEPT ![l] = @ + 1]
      /\ req' = [req EXCEPT ![l] = [seq |-> seqDev'[l], pairs |-> Misses(l)]]
      /\ UNCHANGED <<ack, staging, running, expected, serving>>
  BY DEF Publish, tier
<1> HIDE DEF l
<1>2. /\ seqDev \in [Layers -> Nat] /\ expected \in [Layers -> Nat]
      /\ DOMAIN req = Layers /\ DOMAIN ack = Layers /\ DOMAIN staging = Layers
      /\ seqDev' \in [Layers -> Nat] /\ DOMAIN req' = Layers
  <2>1. seqDev \in [Layers -> Nat] /\ DOMAIN req = Layers
    BY DEF AnswerInv
  <2>2. \A k \in Layers : seqDev[k] + 1 \in Nat
    BY <2>1
  <2>3. seqDev' \in [Layers -> Nat] /\ DOMAIN req' = Layers
    BY <1>1, <2>1, <2>2
  <2> QED BY <2>3 DEF AnswerInv
<1>3. ASSUME NEW k \in Layers PROVE Answered(k)'
  <2>1. CASE k = l
    <3>1. seqDev'[k] = seqDev[k] + 1 /\ req'[k].seq = seqDev'[k] /\ ack'[k] = ack[k]
      BY <1>1, <1>2, <2>1
    <3> QED BY <1>2, <3>1 DEF AnswerInv, Answered
  <2>2. CASE k # l
    <3>1. seqDev'[k] = seqDev[k] /\ req'[k] = req[k] /\ ack' = ack /\ staging' = staging
      BY <1>1, <1>2, <2>2
    <3> QED BY <3>1 DEF AnswerInv, Answered
  <2> QED BY <2>1, <2>2
<1>4. ASSUME serving # <<>> PROVE serving[1] \in Layers /\ Serves(serving[1])'
  <2>1. PICK k \in Layers : k = serving[1] /\ Serves(k)
    BY <1>4 DEF AnswerInv
  <2>2. CASE k = l
    <3>1. seqDev'[k] = seqDev[k] + 1 /\ expected'[k] = expected[k] /\ seqDev[k] \in Nat
          /\ expected[k] \in Nat
      BY <1>1, <1>2, <2>2
    <3> QED BY <1>1, <2>1, <3>1 DEF Serves
  <2>3. CASE k # l
    <3>1. seqDev'[k] = seqDev[k] /\ req'[k] = req[k]
      BY <1>1, <1>2, <2>3
    <3> QED BY <1>1, <2>1, <3>1 DEF Serves
  <2> QED BY <2>2, <2>3
<1>5. ~running' => serving' = <<>>
  BY <1>1 DEF AnswerInv
<1> QED BY <1>1, <1>2, <1>3, <1>4, <1>5 DEF AnswerInv

LEMMA AnswerAnswers ==
  ASSUME AnswerInv, MailInv, Answer
  PROVE  AnswerInv'
<1> DEFINE l == serving[1]
           pairs == serving[2]
<1>1. serving # <<>> /\ l \in Layers /\ Serves(l)
  BY DEF Answer, AnswerInv
<1>2. \A e \in {pairs[i].expert : i \in DOMAIN pairs} : HoldsRecord(e)
  BY <1>1 DEF MailInv, HasRecords, HoldsRecord
<1>8. PICK status \in {0} \cup Faults :
        /\ staging' = [staging EXCEPT ![l] =
                         IF status = 0 THEN [i \in DOMAIN pairs |-> pairs[i].expert] ELSE <<>>]
        /\ ack' = [ack EXCEPT ![l] = [seq |-> expected[l], status |-> status]]
  BY <1>2 DEF Answer
<1>3. /\ expected' = [expected EXCEPT ![l] = @ + 1] /\ serving' = <<>>
      /\ UNCHANGED <<req, seqDev, running>>
  BY DEF Answer, device
<1>4. Serves(l) <=> (expected[l] <= seqDev[l] /\ (expected[l] = seqDev[l] => pairs = req[l].pairs))
  BY DEF Serves
<1>5. staging' = [staging EXCEPT ![l] = IF status = 0 THEN Staged(pairs) ELSE <<>>]
  BY <1>8 DEF Staged
<1> HIDE DEF l, pairs
<1>6. /\ seqDev \in [Layers -> Nat] /\ expected \in [Layers -> Nat]
      /\ DOMAIN req = Layers /\ DOMAIN ack = Layers /\ DOMAIN staging = Layers
      /\ expected' \in [Layers -> Nat] /\ DOMAIN ack' = Layers /\ DOMAIN staging' = Layers
  <2>1. expected \in [Layers -> Nat] /\ DOMAIN ack = Layers /\ DOMAIN staging = Layers
    BY DEF AnswerInv
  <2>2. \A k \in Layers : expected[k] + 1 \in Nat
    BY <2>1
  <2>3. expected' \in [Layers -> Nat] /\ DOMAIN ack' = Layers /\ DOMAIN staging' = Layers
    BY <1>3, <1>5, <1>8, <2>1, <2>2
  <2> QED BY <2>3 DEF AnswerInv
<1>7. ASSUME NEW k \in Layers PROVE Answered(k)'
  <2>1. CASE k = l
    <3>1. /\ ack'[k].seq = expected[k] /\ (ack'[k].status = 0 => staging'[k] = Staged(pairs))
          /\ expected[k] \in Nat /\ req' = req /\ seqDev' = seqDev
      BY <1>3, <1>5, <1>6, <1>8, <2>1
    <3>2. req[k].seq = seqDev[k]
      BY DEF AnswerInv, Answered
    <3> QED BY <1>1, <1>4, <2>1, <3>1, <3>2 DEF Answered
  <2>2. CASE k # l
    <3>1. ack'[k] = ack[k] /\ staging'[k] = staging[k] /\ req' = req /\ seqDev' = seqDev
      BY <1>3, <1>5, <1>6, <1>8, <2>2
    <3> QED BY <3>1 DEF AnswerInv, Answered
  <2> QED BY <2>1, <2>2
<1> QED BY <1>3, <1>6, <1>7 DEF AnswerInv

LEMMA NextAnswer ==
  ASSUME AnswerInv, StreamInv, MailInv, [Next]_vars
  PROVE  AnswerInv'
<1>1. \A l \in Layers : seqDev[l] + 1 \in Nat /\ req[l].seq \in Nat
  BY DEF AnswerInv, Answered
<1>2. CASE \E l \in Layers : Serve(l)
  <2>1. PICK l \in Layers : Serve(l)
    BY <1>2
  <2>2. /\ running /\ serving' = <<l, req[l].pairs>> /\ req[l].seq = expected[l]
        /\ UNCHANGED <<seqDev, req, ack, staging, running, expected>>
    BY <2>1 DEF Serve, device, mail
  <2>3. \A k \in Layers : Answered(k)'
    BY <2>2 DEF AnswerInv, Answered
  <2>4. serving'[1] = l /\ serving'[2] = req[l].pairs /\ expected[l] = seqDev[l] /\ seqDev[l] \in Nat
    BY <2>2 DEF AnswerInv, Answered
  <2>5. Serves(l)'
    BY <2>2, <2>4 DEF Serves
  <2> QED BY <2>2, <2>3, <2>4, <2>5 DEF AnswerInv, Serves
<1>3. CASE \E l \in Layers : Resync(l)
  <2>1. PICK l \in Layers : Resync(l)
    BY <1>3
  <2>2. /\ serving = <<>> /\ expected' = [expected EXCEPT ![l] = req[l].seq]
        /\ UNCHANGED <<seqDev, req, ack, staging, running, serving>>
    BY <2>1 DEF Resync, device, mail
  <2>3. expected' \in [Layers -> Nat]
    BY <1>1, <2>2 DEF AnswerInv
  <2> QED BY <2>2, <2>3, AnswersSame
<1>4. CASE StopTier
  <2>1. serving = <<>> /\ UNCHANGED <<seqDev, req, ack, staging, serving, expected>>
    BY <1>4 DEF StopTier, device, mail
  <2>2. \A k \in Layers : Answered(k)'
    BY <2>1 DEF AnswerInv, Answered
  <2> QED BY <2>1, <2>2 DEF AnswerInv
<1>5. CASE RestartTier
  <2>1. ~running /\ UNCHANGED <<seqDev, req, ack, staging, serving>>
        /\ expected' = [l \in Layers |-> seqDev[l] + 1]
    BY <1>5 DEF RestartTier, device
  <2>2. serving = <<>> /\ expected' \in [Layers -> Nat]
    BY <1>1, <2>1 DEF AnswerInv
  <2>3. \A k \in Layers : Answered(k)'
    BY <2>1 DEF AnswerInv, Answered
  <2> QED BY <2>1, <2>2, <2>3 DEF AnswerInv
<1>6. CASE \/ BeforeLaunch \/ Launch \/ AfterLaunch \/ FailClosed \/ CopyStream
           \/ (MainStream /\ ~Publish) \/ UNCHANGED vars
  <2>1. CASE BeforeLaunch \/ Launch \/ AfterLaunch \/ FailClosed \/ UNCHANGED vars
    <3>1. UNCHANGED <<seqDev, req, ack, staging, serving, running, expected>>
      BY <2>1 DEF BeforeLaunch, Launch, AfterLaunch, FailClosed, vars, device, mail, tier
    <3> QED BY <3>1, AnswersSame DEF AnswerInv
  <2>2. CASE CopyStream
    <3>1. UNCHANGED <<seqDev, req, ack, staging, serving, running, expected>>
      BY <2>2 DEF CopyStream, CopyWait, CopyRecord, Unmap, Tear, Fill, Map, Promoted, device, mail, tier
    <3> QED BY <3>1, AnswersSame DEF AnswerInv
  <2>3. CASE MainStream /\ ~Publish
    <3>1. UNCHANGED <<seqDev, req, ack, staging, serving, running, expected>>
      BY <2>3 DEF MainStream, MainWait, MainRecord, Remap, Moe, Enter, Skip, Inject, TimeOut, device,
                  mail, tier
    <3> QED BY <3>1, AnswersSame DEF AnswerInv
  <2> QED BY <1>6, <2>1, <2>2, <2>3
<1> QED BY <1>2, <1>3, <1>4, <1>5, <1>6, PublishAnswers, AnswerAnswers DEF Next, Host, Dispatcher, MainStream

-----------------------------------------------------------------------------
(* The next command *)

LEMMA ReadySame ==
  ASSUME NEW c, Ready(c), UNCHANGED <<ids, remapped, rows, cta, req, err>>,
         c.op \in {"publish", "moe"} => ReadsTable(c.layer)'
  PROVE  Ready(c)'
<1>1. Misses(c.layer)' = Misses(c.layer) /\ Through' = Through
  BY DEF Misses, PairsOf, Through
<1>2. Resident(c.layer) => Resident(c.layer)'
  BY DEF Resident
<1>3. Copied(c.layer, Through) => Copied(c.layer, Through)'
  BY <1>1 DEF Copied
<1> QED BY <1>1, <1>2, <1>3 DEF Ready

LEMMA HeadSame ==
  ASSUME HeadInv, UNCHANGED <<main, table, ids, remapped, rows, cta, req, err>>
  PROVE  HeadInv'
<1>1. ASSUME NEW c, Ready(c) PROVE Ready(c)'
  <2>1. ReadsTable(c.layer) => ReadsTable(c.layer)'
    BY DEF ReadsTable
  <2> QED BY <1>1, <2>1, ReadySame DEF Ready
<1> QED BY <1>1 DEF HeadInv

LEMMA HostHead ==
  ASSUME RowInv, StreamInv, Host
  PROVE  HeadInv'
<1>1. UNCHANGED <<table, ids, remapped, rows, cta, req>> /\ (err' = err \/ main = <<>>)
  BY DEF Host, BeforeLaunch, Launch, AfterLaunch, FailClosed, StopTier, RestartTier, device, mail
<1>2. main \in Seq(MainCommand) /\ HeadInv
  BY DEF StreamInv, StreamTypes, RowInv
<1>3. CASE main # <<>>
  <2>1. main' = main \/ \E s \in Seq(MainCommand) : main' = main \o s
    BY HostQueues
  <2>2. main'[1] = main[1]
    <3>1. ASSUME NEW s \in Seq(MainCommand), main' = main \o s PROVE main'[1] = main[1]
      <4>1. Longer(main, main', s) /\ 1 \in 1 .. Len(main)
        BY <1>2, <1>3, <3>1, ConcatLengthens
      <4> QED BY <4>1 DEF Longer
    <3> QED BY <1>3, <2>1, <3>1
  <2>3. ASSUME NEW c, Ready(c) PROVE Ready(c)'
    <3>1. ReadsTable(c.layer) => ReadsTable(c.layer)'
      BY <1>1 DEF ReadsTable
    <3> QED BY <1>1, <1>3, <2>3, <3>1, ReadySame DEF Ready
  <2>4. \A c : main' # <<>> /\ c = main'[1] => Ready(c)'
    BY <1>2, <1>3, <2>2, <2>3 DEF HeadInv
  <2>5. main' = <<>> \/ main'[1].op # "inject" => cta = [d \in Ctas |-> "new"]
    <3>1. main' # <<>>
      BY <1>2, <1>3, <2>1
    <3> QED BY <1>2, <2>2, <3>1 DEF HeadInv
  <2> QED BY <1>1, <1>2, <2>4, <2>5 DEF HeadInv
<1>4. CASE main = <<>>
  <2>1. main' = <<>> \/ main'[1].op \notin {"publish", "moe", "inject"}
    <3>1. main' = main \/ \E s \in Seq(MainCommand) :
             main' = main \o s /\ s[1].op \notin {"publish", "moe", "inject"}
      BY HostQueues
    <3>2. \A s \in Seq(MainCommand) : <<>> \o s = s
      OBVIOUS
    <3> QED BY <1>4, <3>1, <3>2
  <2>2. ASSUME NEW c, main' # <<>>, c = main'[1] PROVE Ready(c)'
    BY <2>1, <2>2 DEF Ready
  <2> QED BY <1>1, <1>2, <1>4, <2>1, <2>2 DEF HeadInv
<1> QED BY <1>3, <1>4

\* An entry that the next operation relies on is neither emptied nor changed.
LEMMA CopyStreamHead ==
  ASSUME RowInv, StreamInv, SoundInv, CopyStream
  PROVE  HeadInv'
<1>1. UNCHANGED <<main, ids, remapped, rows, cta, req, err>> /\ copy # <<>>
  BY DEF CopyStream, CopyWait, CopyRecord, Unmap, Tear, Fill, Map, Promoted, CopyDoes, device, mail
<1>2. /\ main \in Seq(MainCommand) /\ copy \in Seq(CopyCommand(Recorded)) /\ HeadInv
      /\ table \in [Layers -> [Experts -> Slots \cup {None}]] /\ RoutedInv
  BY DEF StreamInv, StreamTypes, RowInv, SoundInv, RecordInv, TableInv
<1>3. Head(copy) = copy[1] /\ copy[1] \in CopyCommand(Recorded)
  BY <1>1, <1>2, TailSeq
<1>4. ASSUME NEW c, main # <<>>, c = main[1], c.op \in {"publish", "moe"}
      PROVE  ReadsTable(c.layer)'
  <2>1. main[1] \in MainCommand /\ IsLayerOp(main[1])
    BY <1>2, <1>4, TailSeq DEF IsLayerOp
  <2>2. PICK l \in Layers : l = c.layer
    BY <1>4, <2>1 DEF MainCommand
  <2>3. ReadsTable(l)
    BY <1>2, <1>4, <2>2 DEF HeadInv, Ready
  <2>4. copy[1].op # "unmap"
    BY <1>1, <1>4, <2>1, HeadClear
  <2>5. CASE ~Map
    <3>1. table' = table
      BY <1>3, <2>4, <2>5 DEF CopyStream, CopyWait, CopyRecord, Unmap, Tear, Fill, Promoted, CopyDoes, device
    <3> QED BY <1>1, <2>2, <2>3, <3>1 DEF ReadsTable
  <2>6. CASE Map
    <3> DEFINE d == copy[1]
    <3>1. d.op = "map" /\ table' = [table EXCEPT ![d.layer][d.expert] = d.plan[d.expert]]
      BY <1>3, <2>6 DEF Map, CopyDoes
    <3>2. d.layer \in Layers /\ d.expert \in Experts /\ Adds(d, d.layer, d.expert)
      BY <1>3, <3>1 DEF CopyCommand, Adds, IsPromotion
    <3>3. table[d.layer][d.expert] = None
      BY <1>1, <3>2, EntryEmpty
    <3> HIDE DEF d
    <3>4. ASSUME NEW e \in Experts, table[l][e] # None PROVE table'[l][e] = table[l][e]
      BY <1>2, <3>1, <3>2, <3>3, <3>4
    <3>5. \A p \in DOMAIN ids[l] : ids[l][p] \in Experts
      BY <1>2 DEF RoutedInv
    <3>6. ASSUME NEW p \in DOMAIN ids[l], remapped[l][p] # None
          PROVE  remapped[l][p] = table'[l][ids[l][p]]
      <4>1. remapped[l][p] = table[l][ids[l][p]]
        BY <2>3, <3>6 DEF ReadsTable
      <4> QED BY <3>4, <3>5, <3>6, <4>1
    <3> QED BY <1>1, <2>2, <2>3, <3>6 DEF ReadsTable
  <2> QED BY <2>5, <2>6
<1>5. \A c : Ready(c) /\ (c.op \in {"publish", "moe"} => ReadsTable(c.layer)') => Ready(c)'
  BY <1>1, ReadySame
<1> QED BY <1>1, <1>2, <1>4, <1>5 DEF HeadInv

\* What comes after a command that is through.
LEMMA HeadFollows ==
  ASSUME RowInv, StreamInv, main # <<>>, main' = Tail(main), main' # <<>>
  PROVE  Follows(main[1], main'[1])
<1>1. main \in Seq(MainCommand) /\ Shifted(main, main')
  BY TailShifts DEF StreamInv, StreamTypes
<1>2. main' \in Seq(MainCommand)
  BY <1>1, TailSeq
<1>3. 1 \in 1 .. Len(main') /\ 2 \in 2 .. Len(main)
  BY <1>1, <1>2 DEF Shifted
<1>4. Follows(main[2 - 1], main[2]) /\ main'[1] = main[1 + 1]
  BY <1>1, <1>3 DEF RowInv, Ordered, Shifted
<1> QED BY <1>4

LEMMA HeadLayer ==
  ASSUME StreamInv, NEW op \in {"remap", "publish", "moe", "inject"}, MainDoes(op)
  PROVE  main # <<>> /\ main[1].op = op /\ main[1].layer = layerOf /\ layerOf \in Layers
<1>1. main \in Seq(MainCommand) /\ main # <<>> /\ Head(main).op = op
  BY DEF StreamInv, StreamTypes, MainDoes
<1>2. Head(main) = main[1] /\ main[1] \in MainCommand
  BY <1>1, TailSeq
<1>3. main[1].layer \in Layers
  BY <1>1, <1>2 DEF MainCommand
<1> QED BY <1>1, <1>2, <1>3 DEF layerOf

LEMMA RemapHead ==
  ASSUME RowInv, StreamInv, RecordInv, Remap
  PROVE  HeadInv'
<1>1. /\ main # <<>> /\ main[1].op = "remap" /\ main[1].layer = layerOf /\ layerOf \in Layers
  BY HeadLayer DEF Remap
<1>2. PICK l \in Layers : l = layerOf
  BY <1>1
<1>3. PICK r \in Routings :
        /\ ids' = [ids EXCEPT ![l] = r]
        /\ remapped' = [remapped EXCEPT ![l] = [p \in DOMAIN r |-> table[l][r[p]]]]
  BY <1>2 DEF Remap
<1>4. main' = Tail(main) /\ UNCHANGED <<table, cta>> /\ rows' = [rows EXCEPT ![l] = <<>>]
  BY <1>2 DEF Remap
<1>5. ids \in [Layers -> Seq(Experts)] /\ DOMAIN remapped = Layers /\ HeadInv
  BY DEF RecordInv, RoutedInv, RowInv
<1>6. ReadsTable(l)'
  <2>1. ids'[l] = r /\ remapped'[l] = [p \in DOMAIN r |-> table[l][r[p]]]
    BY <1>3, <1>5
  <2> QED BY <1>4, <2>1 DEF ReadsTable
<1>7. ASSUME NEW c, main' # <<>>, c = main'[1] PROVE Ready(c)'
  <2>1. Follows(main[1], c)
    BY <1>1, <1>4, <1>7, HeadFollows
  <2>2. c.op \notin {"moe", "inject"} /\ (c.op = "publish" => c.layer = l)
    BY <1>1, <1>2, <2>1 DEF Follows
  <2> QED BY <1>6, <2>2 DEF Ready
<1>8. cta = [d \in Ctas |-> "new"]
  BY <1>1, <1>5 DEF HeadInv
<1>9. cta' \in [Ctas -> {"new", "spin", "out"}] /\ DOMAIN rows' = Layers
  BY <1>4, <1>5 DEF HeadInv
<1> QED BY <1>4, <1>7, <1>8, <1>9 DEF HeadInv

LEMMA PublishHead ==
  ASSUME RowInv, StreamInv, RecordInv, Publish
  PROVE  HeadInv'
<1>1. /\ main # <<>> /\ main[1].op = "publish" /\ main[1].layer = layerOf /\ layerOf \in Layers
  BY HeadLayer DEF Publish
<1>2. PICK l \in Layers : l = layerOf
  BY <1>1
<1>3. /\ main' = Tail(main) /\ UNCHANGED <<table, ids, remapped, rows, cta>>
      /\ req' = [req EXCEPT ![l] = [seq |-> seqDev'[l], pairs |-> Misses(l)]]
  BY <1>2 DEF Publish
<1>4. HeadInv /\ DOMAIN req = Layers
  BY DEF RecordInv, MailInv, RowInv
<1>5. ReadsTable(l)'
  <2>1. ReadsTable(l)
    BY <1>1, <1>2, <1>4 DEF HeadInv, Ready
  <2> QED BY <1>3, <2>1 DEF ReadsTable
<1>6. req'[l].pairs = Misses(l)'
  <2>1. req'[l].pairs = Misses(l)
    BY <1>3, <1>4
  <2>2. Misses(l)' = Misses(l)
    BY <1>3 DEF Misses, PairsOf
  <2> QED BY <2>1, <2>2
<1>7. ASSUME NEW c, main' # <<>>, c = main'[1] PROVE Ready(c)'
  <2>1. Follows(main[1], c)
    BY <1>1, <1>3, <1>7, HeadFollows
  <2>2. c.op \notin {"publish", "inject"} /\ (c.op = "moe" => c.layer = l)
    BY <1>1, <1>2, <2>1 DEF Follows
  <2> QED BY <1>5, <1>6, <2>2 DEF Ready
<1>8. cta = [d \in Ctas |-> "new"]
  BY <1>1, <1>4 DEF HeadInv
<1> QED BY <1>3, <1>4, <1>7, <1>8 DEF HeadInv

LEMMA MoeHead ==
  ASSUME RowInv, StreamInv, SoundInv, Moe
  PROVE  HeadInv'
<1>1. /\ main # <<>> /\ main[1].op = "moe" /\ main[1].layer = layerOf /\ layerOf \in Layers
  BY HeadLayer DEF Moe
<1>2. PICK l \in Layers : l = layerOf
  BY <1>1
<1>3. /\ main' = Tail(main) /\ UNCHANGED <<table, ids, remapped, cta, req, err>>
      /\ rows' = [rows EXCEPT ![l] = [p \in DOMAIN ids[l] |->
                    IF remapped[l][p] = None THEN None ELSE bytes[l][remapped[l][p]]]]
  BY <1>2 DEF Moe, mail
<1>4. HeadInv /\ MappedIsWhole /\ ids \in [Layers -> Seq(Experts)]
  BY DEF SoundInv, RecordInv, RoutedInv, BytesInv, RowInv
<1>5. ReadsTable(l) /\ req[l].pairs = Misses(l)
  BY <1>1, <1>2, <1>4 DEF HeadInv, Ready
<1>6. DOMAIN rows' = Layers /\ rows'[l] = [p \in DOMAIN ids[l] |->
                    IF remapped[l][p] = None THEN None ELSE bytes[l][remapped[l][p]]]
  BY <1>3, <1>4 DEF HeadInv
<1>7. Resident(l)'
  <2>1. \A p \in DOMAIN ids[l] : ids[l][p] \in Experts
    BY <1>4
  <2>2. ASSUME NEW p \in DOMAIN ids[l], remapped[l][p] # None
        PROVE  rows'[l][p] = ids[l][p]
    <3>1. remapped[l][p] = table[l][ids[l][p]]
      BY <1>5, <2>2 DEF ReadsTable
    <3>2. bytes[l][table[l][ids[l][p]]] = ids[l][p]
      BY <1>4, <2>1, <2>2, <3>1 DEF MappedIsWhole
    <3> QED BY <1>6, <2>2, <3>1, <3>2
  <2>3. DOMAIN rows'[l] = DOMAIN ids[l]
    BY <1>6
  <2> QED BY <1>3, <2>2, <2>3 DEF Resident
<1>8. req'[l].pairs = Misses(l)'
  <2>1. Misses(l)' = Misses(l)
    BY <1>3 DEF Misses, PairsOf
  <2> QED BY <1>3, <1>5, <2>1
<1>9. cta = [d \in Ctas |-> "new"]
  BY <1>1, <1>4 DEF HeadInv
<1>10. Copied(l, Through)'
  <2>1. \A x : x \notin Through'
    BY <1>3, <1>9 DEF Through
  <2> QED BY <2>1 DEF Copied
<1>11. ASSUME NEW c, main' # <<>>, c = main'[1] PROVE Ready(c)'
  <2>1. Follows(main[1], c)
    BY <1>1, <1>3, <1>11, HeadFollows
  <2>2. c.op \notin {"publish", "moe"} /\ (c.op = "inject" => c.layer = l)
    BY <1>1, <1>2, <2>1 DEF Follows
  <2> QED BY <1>7, <1>8, <1>10, <2>2 DEF Ready
<1> QED BY <1>3, <1>4, <1>6, <1>9, <1>11 DEF HeadInv

-----------------------------------------------------------------------------
(* The wait kernel *)

\* The rows that the CTAs through and CTA k have copied.
Copies(k, l) ==
  \A i \in DOMAIN req[l].pairs : i % NCtas \in Through \cup {k} =>
    rows'[l][req[l].pairs[i].row] = req[l].pairs[i].expert

\* A CTA that finds a failed request's ack arms the error word and copies nothing.
LEMMA InjectFails ==
  ASSUME SoundInv, StreamInv, NEW k \in Ctas, Inject(k), ack[layerOf].status # 0
  PROVE  err' # 0 /\ rows' = rows
<1>1. layerOf \in Layers /\ MailInv
  BY HeadLayer DEF SoundInv, RecordInv, Inject, CtaIs
<1>2. ack[layerOf].status \in Nat
  <2>1. ack[layerOf].status \in {0} \cup Faults
    BY <1>1 DEF MailInv, AckStatuses
  <2>2. \A f \in Faults : f = 4 \/ f = 5
    BY TierAssumption
  <2>3. ack[layerOf].status = 0 \/ ack[layerOf].status = 4 \/ ack[layerOf].status = 5
    BY <2>1, <2>2
  <2> QED BY <2>3
<1>3. err' = 16 + ack[layerOf].status /\ rows' = rows
  BY DEF Inject
<1> QED BY <1>2, <1>3

\* A CTA copies its share of the request and touches no other row.
LEMMA InjectRows ==
  ASSUME RowInv, StreamInv, SoundInv, NEW k \in Ctas, Inject(k), NEW l, l = layerOf,
         ack[l].status = 0
  PROVE  /\ err' = err /\ UNCHANGED <<table, ids, remapped, req>>
         /\ DOMAIN rows' = Layers /\ Resident(l)'
         /\ rows'[l] = [p \in DOMAIN ids[l] |-> rows'[l][p]]
         /\ Compacted(l, req[l].pairs)
         /\ err = 0 => Copies(k, l)
<1>1. /\ main # <<>> /\ main[1].op = "inject" /\ main[1].layer = l /\ l \in Layers
  BY HeadLayer DEF Inject, CtaIs
<1>2. HeadInv /\ RoutedInv /\ MailInv
  BY DEF RowInv, SoundInv, RecordInv
<1>3. ack[l].status = 0 /\ ack[l].seq = seqDev[l]
  BY <1>1, <1>2 DEF Inject
<1>4. /\ UNCHANGED <<table, ids, remapped, req, err>>
      /\ rows' = [rows EXCEPT ![l] = Injected(l, k)]
  BY <1>3 DEF Inject
<1>5. DOMAIN rows = Layers /\ Resident(l) /\ (err = 0 => Copied(l, Through))
      /\ req[l].pairs = Misses(l)
  BY <1>1, <1>2 DEF HeadInv, Ready
<1>6. Compacted(l, req[l].pairs)
  BY <1>1, <1>2, <1>5, MissesCompacted
<1>7. staging[l] = Staged(req[l].pairs)
  BY <1>1, <1>3 DEF RowInv, AnswerInv, Answered
<1>8. PICK P : P = req[l].pairs
  OBVIOUS
<1> DEFINE mine == {i \in DOMAIN P : i % NCtas = k}
           by(p) == CHOOSE i \in mine : P[i].row = p
<1>9. \A p \in DOMAIN rows[l] :
        rows'[l][p] = IF \E i \in mine : P[i].row = p THEN Staged(P)[by(p)] ELSE rows[l][p]
  BY <1>1, <1>4, <1>5, <1>7, <1>8 DEF Injected
<1>10. rows'[l] = [p \in DOMAIN ids[l] |-> rows'[l][p]] /\ DOMAIN rows' = Layers
       /\ DOMAIN rows'[l] = DOMAIN ids[l]
  BY <1>1, <1>4, <1>5 DEF Injected, Resident
<1>11. ASSUME NEW p \in DOMAIN ids[l], NEW i \in mine, P[i].row = p
       PROVE  rows'[l][p] = ids[l][p]
  <2>1. by(p) \in mine /\ P[by(p)].row = p
    BY <1>11
  <2> HIDE DEF by
  <2>2. by(p) \in DOMAIN P
    BY <2>1
  <2>3. rows'[l][p] = Staged(P)[by(p)]
    <3>1. p \in DOMAIN rows[l]
      BY <1>5, <1>11 DEF Resident
    <3> QED BY <1>9, <1>11, <3>1
  <2>4. Staged(P)[by(p)] = P[by(p)].expert
    BY <2>2 DEF Staged
  <2>5. P[by(p)].expert = ids[l][p]
    BY <1>6, <1>8, <2>1, <2>2 DEF Compacted
  <2> QED BY <2>3, <2>4, <2>5
<1>12. ASSUME NEW p \in DOMAIN ids[l], \A i \in mine : P[i].row # p
       PROVE  rows'[l][p] = rows[l][p]
  BY <1>5, <1>9, <1>12 DEF Resident
<1>13. Resident(l)'
  <2>1. ASSUME NEW p \in DOMAIN ids[l], remapped[l][p] # None
        PROVE  rows'[l][p] = ids[l][p]
    <3>1. \A i \in mine : P[i].row # p
      BY <1>6, <1>8, <2>1 DEF Compacted
    <3> QED BY <1>5, <1>12, <2>1, <3>1 DEF Resident
  <2> QED BY <1>4, <1>10, <2>1 DEF Resident
<1>14. ASSUME err = 0, NEW i \in DOMAIN P, i % NCtas \in Through \cup {k}
       PROVE  rows'[l][P[i].row] = P[i].expert
  <2>1. P[i].row \in DOMAIN ids[l] /\ P[i].expert = ids[l][P[i].row]
    BY <1>6, <1>8 DEF Compacted
  <2>2. CASE \E j \in mine : P[j].row = P[i].row
    BY <1>11, <2>1, <2>2
  <2>3. CASE \A j \in mine : P[j].row # P[i].row
    <3>1. i % NCtas # k
      BY <2>3
    <3>2. rows[l][P[i].row] = P[i].expert
      BY <1>5, <1>8, <1>14, <3>1 DEF Copied
    <3> QED BY <1>12, <2>1, <2>3, <3>2
  <2> QED BY <2>2, <2>3
<1> HIDE DEF mine, by
<1>15. err = 0 => Copies(k, l)
  BY <1>8, <1>14 DEF Copies
<1> QED BY <1>4, <1>6, <1>10, <1>13, <1>15

LEMMA CtaGoes ==
  ASSUME HeadInv, NEW k \in Ctas, CtaEnds(k)
  PROVE  \/ main' = Tail(main) /\ cta' = [d \in Ctas |-> "new"] /\ Ctas = Through \cup {k}
         \/ /\ main' = main /\ cta' \in [Ctas -> {"new", "spin", "out"}]
            /\ Through' = Through \cup {k}
<1>1. cta \in [Ctas -> {"new", "spin", "out"}]
  BY DEF HeadInv
<1> QED BY <1>1 DEF CtaEnds, Through

LEMMA CtaHead ==
  ASSUME RowInv, StreamInv, SoundInv, NEW k \in Ctas, Enter(k) \/ Skip(k) \/ Inject(k) \/ TimeOut(k)
  PROVE  HeadInv'
<1>1. /\ main # <<>> /\ main[1].op = "inject" /\ main[1].layer = layerOf /\ layerOf \in Layers
  BY HeadLayer DEF Enter, Skip, Inject, TimeOut, CtaIs
<1>2. PICK l \in Layers : l = layerOf
  BY <1>1
<1>3. HeadInv /\ Resident(l) /\ (err = 0 => Copied(l, Through)) /\ req[l].pairs = Misses(l)
  BY <1>1, <1>2 DEF RowInv, HeadInv, Ready
<1>4. UNCHANGED <<table, ids, remapped, req>>
  BY DEF Enter, Skip, Inject, TimeOut, mail
<1>5. req'[l].pairs = Misses(l)'
  BY <1>3, <1>4 DEF Misses, PairsOf
<1>6. ASSUME main' = main, cta' \in [Ctas -> {"new", "spin", "out"}], DOMAIN rows' = Layers,
             Resident(l)', err' = 0 => Copied(l, Through)'
      PROVE  HeadInv'
  <2>1. ASSUME NEW c, c = main[1] PROVE Ready(c)'
    <3>1. c.op = "inject" /\ c.layer = l
      BY <1>1, <1>2, <2>1
    <3> QED BY <1>5, <1>6, <3>1 DEF Ready
  <2> QED BY <1>1, <1>6, <2>1 DEF HeadInv
<1>7. ASSUME main' = Tail(main), cta' = [d \in Ctas |-> "new"], DOMAIN rows' = Layers
      PROVE  HeadInv'
  <2>1. ASSUME NEW c, main' # <<>>, c = main'[1] PROVE Ready(c)'
    <3>1. Follows(main[1], c)
      BY <1>1, <1>7, <2>1, HeadFollows
    <3>2. c.op \notin {"publish", "moe", "inject"}
      BY <1>1, <3>1 DEF Follows
    <3> QED BY <3>2 DEF Ready
  <2> QED BY <1>7, <2>1 DEF HeadInv
<1>8. CASE Enter(k)
  <2>1. cta' = [cta EXCEPT ![k] = "spin"] /\ cta[k] = "new" /\ UNCHANGED <<main, rows, err>>
    BY <1>8 DEF Enter, CtaIs, mail
  <2>2. cta' \in [Ctas -> {"new", "spin", "out"}] /\ Through' = Through
    BY <1>3, <2>1 DEF HeadInv, Through
  <2>3. DOMAIN rows' = Layers /\ Resident(l)'
    BY <1>3, <1>4, <2>1 DEF HeadInv, Resident
  <2>4. err' = 0 => Copied(l, Through)'
    BY <1>3, <1>4, <2>1, <2>2 DEF Copied
  <2> QED BY <1>6, <2>1, <2>2, <2>3, <2>4
<1>9. CASE Skip(k) \/ TimeOut(k) \/ (Inject(k) /\ ack[l].status # 0)
  <2>1. CtaEnds(k) /\ err' # 0 /\ UNCHANGED rows
    BY <1>2, <1>9, InjectFails DEF Skip, TimeOut, Inject, mail
  <2>2. DOMAIN rows' = Layers /\ Resident(l)'
    BY <1>3, <1>4, <2>1 DEF HeadInv, Resident
  <2> QED BY <1>3, <1>6, <1>7, <2>1, <2>2, CtaGoes
<1>10. CASE Inject(k) /\ ack[l].status = 0
  <2>1. /\ err' = err /\ DOMAIN rows' = Layers /\ Resident(l)'
        /\ err = 0 => Copies(k, l)
    BY <1>2, <1>10, InjectRows
  <2>2. CtaEnds(k)
    BY <1>10 DEF Inject
  <2>3. Through' = Through \cup {k} => (err' = 0 => Copied(l, Through)')
    BY <1>4, <2>1 DEF Copied, Copies
  <2> QED BY <1>3, <1>6, <1>7, <2>1, <2>2, <2>3, CtaGoes
<1> QED BY <1>8, <1>9, <1>10

LEMMA NextRow ==
  ASSUME RowInv, StreamInv, SoundInv, [Next]_vars
  PROVE  RowInv'
<1>1. Ordered(main')
  BY NextOrdered DEF RowInv
<1>2. RecordInv /\ MailInv /\ HeadInv
  BY DEF SoundInv, RecordInv, RowInv
<1>3. AnswerInv'
  BY <1>2, NextAnswer DEF RowInv
<1>4. HeadInv'
  <2>1. CASE Dispatcher \/ UNCHANGED vars
    <3>1. UNCHANGED <<main, table, ids, remapped, rows, cta, req, err>>
      BY <2>1 DEF Dispatcher, Answer, Serve, Resync, vars, device, mail
    <3> QED BY <1>2, <3>1, HeadSame
  <2>2. CASE MainWait \/ MainRecord
    <3>1. main # <<>> /\ Head(main).op \in {"wait", "record"} /\ main' = Tail(main)
          /\ UNCHANGED <<cta, rows>>
      BY <2>2 DEF MainWait, MainRecord, MainDoes, device
    <3>2. main[1].op \in {"wait", "record"}
      BY <3>1, TailSeq DEF StreamInv, StreamTypes
    <3>3. ASSUME NEW c, main' # <<>>, c = main'[1] PROVE Ready(c)'
      <4>1. Follows(main[1], c)
        BY <3>1, <3>3, HeadFollows
      <4>2. c.op \notin {"publish", "moe", "inject"}
        BY <3>2, <4>1 DEF Follows
      <4> QED BY <4>2 DEF Ready
    <3> QED BY <1>2, <3>1, <3>2, <3>3 DEF HeadInv
  <2> QED BY <1>2, <2>1, <2>2, HostHead, CopyStreamHead, RemapHead, PublishHead, MoeHead, CtaHead
          DEF Next, MainStream
<1> QED BY <1>1, <1>3, <1>4 DEF RowInv

LEMMA TailShorter ==
  ASSUME NEW S, NEW q \in Seq(S), q # <<>>
  PROVE  Tail(q) # q /\ \A s \in Seq(S) : Tail(q) # q \o s
<1>1. Len(q) \in Nat /\ Len(Tail(q)) = Len(q) - 1
  OBVIOUS
<1>2. \A s \in Seq(S) : Len(s) \in Nat /\ Len(q \o s) = Len(q) + Len(s)
  OBVIOUS
<1>3. \A k \in Nat : k - 1 # k /\ \A m \in Nat : k - 1 # k + m
  OBVIOUS
<1>4. Len(Tail(q)) # Len(q) /\ \A s \in Seq(S) : Len(Tail(q)) # Len(q \o s)
  <2>1. PICK k \in Nat : k = Len(q) /\ Len(Tail(q)) = k - 1
    BY <1>1
  <2>2. \A s \in Seq(S) : Len(q \o s) = k + Len(s)
    BY <1>2, <2>1
  <2> QED BY <1>2, <1>3, <2>1, <2>2, Zenon
<1> QED BY <1>4, Zenon

\* The step that ends a layer's wait.
LEMMA RowsWhole ==
  ASSUME RowInv, StreamInv, SoundInv, [Next]_vars,
         MainDoes("inject"), main' = Tail(main), err' = 0
  PROVE  rows'[layerOf] = ids[layerOf]
<1>1. main \in Seq(MainCommand) /\ main # <<>>
  BY DEF StreamInv, StreamTypes, MainDoes
<1>2. main' # main /\ \A s \in Seq(MainCommand) : main' # main \o s
  BY <1>1, TailShorter
<1>3. ~Host
  BY <1>2, HostQueues
<1>4. PICK k \in Ctas : Inject(k)
  <2>1. MainStream
    BY <1>2, <1>3 DEF Next, CopyStream, CopyWait, CopyRecord, Unmap, Tear, Fill, Map, Promoted,
                      Dispatcher, Answer, Serve, Resync, vars
  <2>2. \E k \in Ctas : Enter(k) \/ Skip(k) \/ Inject(k) \/ TimeOut(k)
    BY <2>1 DEF MainStream, MainWait, MainRecord, Remap, Publish, Moe, MainDoes
  <2>3. \A k \in Ctas : ~Enter(k) /\ ~Skip(k) /\ ~TimeOut(k)
    BY <1>2 DEF Enter, Skip, TimeOut, mail
  <2> QED BY <2>2, <2>3
<1>5. PICK l \in Layers : l = layerOf
  BY HeadLayer
<1>10. ack[l].status = 0
  BY <1>2, <1>4, <1>5, InjectFails
<1>6. /\ err' = err /\ UNCHANGED <<ids, remapped>> /\ Resident(l)'
      /\ rows'[l] = [p \in DOMAIN ids[l] |-> rows'[l][p]]
      /\ Compacted(l, req[l].pairs)
      /\ err = 0 => Copies(k, l)
  BY <1>4, <1>5, <1>10, InjectRows
<1>7. Ctas = Through \cup {k}
  BY <1>2, <1>4, CtaGoes DEF Inject, RowInv
<1>8. ASSUME NEW p \in DOMAIN ids[l] PROVE rows'[l][p] = ids[l][p]
  <2>1. CASE remapped[l][p] # None
    BY <1>6, <1>8, <2>1 DEF Resident
  <2>2. CASE remapped[l][p] = None
    <3>1. PICK i \in DOMAIN req[l].pairs : req[l].pairs[i].row = p
      BY <1>6, <2>2 DEF Compacted
    <3>2. i \in Nat /\ req[l].pairs[i].expert = ids[l][p]
      BY <1>6, <3>1 DEF Compacted
    <3>3. i % NCtas \in Ctas
      BY <3>2, TierAssumption DEF Ctas
    <3> QED BY <1>6, <1>7, <3>1, <3>2, <3>3 DEF Copies
  <2> QED BY <2>1, <2>2
<1>9. ids[l] = [p \in DOMAIN ids[l] |-> ids[l][p]]
  BY DEF SoundInv, RecordInv, RoutedInv
<1> QED BY <1>5, <1>6, <1>8, <1>9

\* However the streams, the dispatcher, timeouts, restarts and promotions interleave, a
\* layer's wait ends with the error word armed or with every routed pair's row computed
\* by that pair's own expert.
THEOREM NoRowIsSilent == Spec => NoSilentRow
<1>1. Init => RowInv /\ StreamInv /\ SoundInv
  BY InitRow, InitStream, InitSound
<1>2. RowInv /\ StreamInv /\ SoundInv /\ [Next]_vars => RowInv' /\ StreamInv' /\ SoundInv'
  BY NextRow, NextStream, NextSound
<1>3. RowInv /\ StreamInv /\ SoundInv /\ [Next]_vars =>
        [MainDoes("inject") /\ main' = Tail(main) /\ err' = 0
           => rows'[layerOf] = ids[layerOf]]_vars
  BY RowsWhole
<1> QED BY <1>1, <1>2, <1>3, PTL DEF Spec, NoSilentRow

-----------------------------------------------------------------------------
(* The types.  That a request's number is one of the steps' needs a count   *)
(* of the publishes that are still queued.                                  *)

\* The queued publishes of layer l have numbers of their own, in their order, after a
\* and up to b.
IsPublish(c, l) == c.op = "publish" /\ c.layer = l
Numbering(n, q, l, a, b) ==
  \A i \in 1 .. Len(q) : IsPublish(q[i], l) =>
    a < n[i] /\ n[i] <= b /\ \A j \in 1 .. i - 1 : IsPublish(q[j], l) => n[j] < n[i]
Numbered(q, l, a, b) == \E n \in [1 .. Len(q) -> Nat] : Numbering(n, q, l, a, b)

\* Each step launched has its publish behind it or queued.
Launched == IF hook = "after" THEN step + 1 ELSE step
CountInv ==
  \A l \in Layers : seqDev[l] <= Launched /\ Numbered(main, l, seqDev[l], Launched)

BoundInv ==
  /\ hook \in {"before", "launch", "after", "down"} /\ running \in BOOLEAN
  /\ step \in 0 .. MaxSteps /\ (hook \in {"launch", "after"} => step < MaxSteps)
  /\ restarts \in 0 .. MaxRestarts /\ (~running => restarts < MaxRestarts)
OfEvents(q) == \A i \in 1 .. Len(q) : q[i].op = "record" => q[i].ev \in Events
EventInv ==
  /\ unmapEvents \cup mapLast \cup mapPrev \cup signalled \subseteq Events
  /\ OfEvents(main) /\ OfEvents(copy)
PairTypes ==
  /\ pinnedLast \cup pinnedPrev \cup missed \subseteq Layers \X Experts
  /\ \A l \in Layers :
       /\ ids[l] \in Routings \cup {<<>>} /\ DOMAIN remapped[l] = DOMAIN ids[l]
       /\ req[l].pairs \in Seq(Pair) /\ staging[l] \in Seq(Experts) /\ 1 <= expected[l]
       /\ expected[l] <= seqDev[l] + 1
  /\ serving # <<>> => serving[2] \in Seq(Pair)
TypeInv == BoundInv /\ CountInv /\ EventInv /\ PairTypes
TierInv == SoundInv /\ StreamInv /\ RowInv /\ TypeInv

LEMMA NumberedShifted ==
  ASSUME NEW q, NEW r, Shifted(q, r), NEW l, NEW a \in Nat, NEW b \in Nat, Numbered(q, l, a, b)
  PROVE  /\ IsPublish(q[1], l) => a + 1 <= b /\ Numbered(r, l, a + 1, b)
         /\ Numbered(r, l, a, b)
<1>1. PICK n \in [1 .. Len(q) -> Nat] : Numbering(n, q, l, a, b)
  BY DEF Numbered
<1> DEFINE m == [i \in 1 .. Len(r) |-> n[i + 1]]
<1>2. /\ Len(q) \in Nat \ {0} /\ Len(r) = Len(q) - 1 /\ Len(r) \in Nat
      /\ \A i \in 1 .. Len(r) : r[i] = q[i + 1] /\ i + 1 \in 1 .. Len(q)
  BY DEF Shifted
<1>3. m \in [1 .. Len(r) -> Nat] /\ \A i \in 1 .. Len(r) : m[i] = n[i + 1]
  BY <1>2
<1> HIDE DEF m
<1>4. ASSUME NEW i \in 1 .. Len(r), IsPublish(r[i], l)
      PROVE  /\ a < m[i] /\ m[i] <= b /\ \A j \in 1 .. i - 1 : IsPublish(r[j], l) => m[j] < m[i]
             /\ IsPublish(q[1], l) => a + 1 < m[i]
  <2>1. i + 1 \in 1 .. Len(q) /\ IsPublish(q[i + 1], l) /\ m[i] = n[i + 1] /\ m[i] \in Nat
    BY <1>2, <1>3, <1>4
  <2>2. a < m[i] /\ m[i] <= b
    BY <1>1, <2>1 DEF Numbering
  <2>3. ASSUME NEW j \in 1 .. i - 1, IsPublish(r[j], l) PROVE m[j] < m[i]
    <3>1. j \in 1 .. Len(r) /\ j + 1 \in 1 .. (i + 1) - 1
      BY <1>2
    <3>2. IsPublish(q[j + 1], l) /\ m[j] = n[j + 1]
      BY <1>2, <1>3, <2>3, <3>1
    <3> QED BY <1>1, <2>1, <3>1, <3>2 DEF Numbering
  <2>4. ASSUME IsPublish(q[1], l) PROVE a + 1 < m[i]
    <3>1. 1 \in 1 .. Len(q) /\ 1 \in 1 .. (i + 1) - 1 /\ n[1] \in Nat
      BY <1>2
    <3>2. a < n[1] /\ n[1] < n[i + 1]
      BY <1>1, <2>1, <2>4, <3>1 DEF Numbering
    <3> QED BY <2>1, <3>1, <3>2
  <2> QED BY <2>2, <2>3, <2>4
<1>5. Numbered(r, l, a, b)
  BY <1>3, <1>4 DEF Numbered, Numbering
<1>6. ASSUME IsPublish(q[1], l) PROVE a + 1 <= b /\ Numbered(r, l, a + 1, b)
  <2>1. 1 \in 1 .. Len(q) /\ n[1] \in Nat
    BY <1>2
  <2>2. a < n[1] /\ n[1] <= b
    BY <1>1, <1>6, <2>1 DEF Numbering
  <2>3. a + 1 <= b
    BY <2>1, <2>2
  <2> QED BY <1>3, <1>4, <1>6, <2>3 DEF Numbered, Numbering
<1> QED BY <1>5, <1>6

LEMMA NumberedLonger ==
  ASSUME NEW q, NEW r, NEW s, Longer(q, r, s), NEW l, NEW a \in Nat, NEW b \in Nat, a <= b,
         Numbered(q, l, a, b), NEW c \in {b, b + 1},
         \A k \in 1 .. Len(s) : IsPublish(s[k], l) =>
           c = b + 1 /\ \A j \in 1 .. k - 1 : ~IsPublish(s[j], l)
  PROVE  Numbered(r, l, a, c)
<1>1. PICK n \in [1 .. Len(q) -> Nat] : Numbering(n, q, l, a, b)
  BY DEF Numbered
<1> DEFINE m == [i \in 1 .. Len(r) |-> IF i <= Len(q) THEN n[i] ELSE c]
<1>2. /\ Len(q) \in Nat /\ Len(s) \in Nat /\ Len(r) \in Nat /\ Len(r) = Len(q) + Len(s)
      /\ \A i \in 1 .. Len(q) : r[i] = q[i]
      /\ \A k \in 1 .. Len(s) : r[Len(q) + k] = s[k]
  BY DEF Longer
<1>3. /\ m \in [1 .. Len(r) -> Nat]
      /\ \A i \in 1 .. Len(r) : m[i] = IF i <= Len(q) THEN n[i] ELSE c
  BY <1>2
<1> HIDE DEF m
<1>4. ASSUME NEW i \in 1 .. Len(r), IsPublish(r[i], l)
      PROVE  a < m[i] /\ m[i] <= c /\ \A j \in 1 .. i - 1 : IsPublish(r[j], l) => m[j] < m[i]
  <2>1. CASE i <= Len(q)
    <3>1. i \in 1 .. Len(q) /\ IsPublish(q[i], l) /\ m[i] = n[i] /\ n[i] \in Nat
      BY <1>2, <1>3, <1>4, <2>1
    <3>2. a < n[i] /\ n[i] <= b /\ \A j \in 1 .. i - 1 : IsPublish(q[j], l) => n[j] < n[i]
      BY <1>1, <3>1 DEF Numbering
    <3>3. \A j \in 1 .. i - 1 : j \in 1 .. Len(q) /\ j \in 1 .. Len(r) /\ j <= Len(q)
      BY <1>2, <3>1
    <3>4. \A j \in 1 .. i - 1 : IsPublish(r[j], l) => m[j] < m[i]
      BY <1>2, <1>3, <3>1, <3>2, <3>3
    <3> QED BY <3>1, <3>2, <3>4
  <2>2. CASE ~(i <= Len(q))
    <3>1. PICK k \in 1 .. Len(s) : i = Len(q) + k
      <4>1. i - Len(q) \in 1 .. Len(s) /\ i = Len(q) + (i - Len(q))
        BY <1>2, <2>2
      <4> QED BY <4>1
    <3>2. IsPublish(s[k], l) /\ m[i] = c
      BY <1>2, <1>3, <1>4, <2>2, <3>1
    <3>3. c = b + 1 /\ \A j \in 1 .. k - 1 : ~IsPublish(s[j], l)
      BY <3>2
    <3>4. ASSUME NEW j \in 1 .. i - 1, IsPublish(r[j], l) PROVE m[j] < m[i]
      <4>1. CASE j <= Len(q)
        <5>1. j \in 1 .. Len(q) /\ j \in 1 .. Len(r)
          BY <1>2, <4>1
        <5>2. IsPublish(q[j], l) /\ m[j] = n[j] /\ n[j] \in Nat
          BY <1>2, <1>3, <3>4, <4>1, <5>1
        <5>3. n[j] <= b
          BY <1>1, <5>1, <5>2 DEF Numbering
        <5> QED BY <3>2, <3>3, <5>2, <5>3
      <4>2. CASE ~(j <= Len(q))
        <5>1. PICK h \in 1 .. k - 1 : j = Len(q) + h
          <6>1. j - Len(q) \in 1 .. k - 1 /\ j = Len(q) + (j - Len(q))
            BY <1>2, <3>1, <4>2
          <6> QED BY <6>1
        <5>2. h \in 1 .. Len(s) /\ r[j] = s[h]
          BY <1>2, <5>1
        <5> QED BY <3>3, <3>4, <5>1, <5>2
      <4> QED BY <4>1, <4>2
    <3> QED BY <3>2, <3>3, <3>4
  <2> QED BY <2>1, <2>2
<1> QED BY <1>3, <1>4 DEF Numbered, Numbering

\* A step has one publish per layer.
LEMMA StepPublishes ==
  ASSUME NEW l \in Layers, NEW k \in 1 .. Len(StepOps), IsPublish(StepOps[k], l)
  PROVE  \A j \in 1 .. k - 1 : ~IsPublish(StepOps[j], l)
<1>1. NLayers \in Nat /\ Len(StepOps) = 4 * NLayers /\ Layers = 1 .. NLayers
  BY TierAssumption, StepOpsType DEF Layers
<1>2. ASSUME NEW h \in 1 .. 4 * NLayers, IsPublish(StepOps[h], l)
      PROVE  h + 3 = 4 * l + 1
  <2>1. PICK m \in Layers, i \in 0 .. 3 : h + 3 = 4 * m + i /\ StepOps[h] = LayerOps(m)[1 + i]
    BY StepOpAt
  <2>2. i = 0 \/ i = 1 \/ i = 2 \/ i = 3
    OBVIOUS
  <2>3. StepOps[h].op = "publish" /\ StepOps[h].layer = l
    BY <1>2 DEF IsPublish
  <2>4. /\ i = 0 => StepOps[h] = Op("remap", m)
        /\ i = 1 => StepOps[h] = Op("publish", m)
        /\ i = 2 => StepOps[h] = Op("moe", m)
        /\ i = 3 => StepOps[h] = Op("inject", m)
    BY <2>1, LayerOpIs
  <2>5. i = 1 /\ m = l
    BY <2>2, <2>3, <2>4 DEF Op
  <2> QED BY <2>1, <2>5
<1>3. ASSUME NEW j \in 1 .. k - 1, IsPublish(StepOps[j], l) PROVE FALSE
  <2>1. j \in 1 .. 4 * NLayers /\ k \in 1 .. 4 * NLayers /\ j \in Int /\ k \in Int /\ j < k
    BY <1>1
  <2>2. j + 3 = 4 * l + 1 /\ k + 3 = 4 * l + 1
    BY <1>2, <1>3, <2>1
  <2> QED BY <2>1, <2>2
<1> QED BY <1>3

LEMMA InitType ==
  ASSUME Init
  PROVE  TypeInv
<1>1. BoundInv
  BY TierAssumption DEF Init, BoundInv
<1>2. CountInv
  <2>1. main = <<>> /\ Launched = 0 /\ \A l \in Layers : seqDev[l] = 0
    BY DEF Init, Launched
  <2>2. PICK q : q = <<>> /\ Len(q) = 0
    OBVIOUS
  <2>3. ASSUME NEW l \in Layers PROVE Numbered(q, l, 0, 0)
    <3> DEFINE n == [i \in 1 .. Len(q) |-> 0]
    <3>1. n \in [1 .. Len(q) -> Nat] /\ \A i \in 1 .. Len(q) : FALSE
      BY <2>2
    <3> HIDE DEF n
    <3> QED BY <3>1 DEF Numbered, Numbering
  <2> QED BY <2>1, <2>2, <2>3 DEF CountInv
<1>3. EventInv
  BY DEF Init, EventInv, OfEvents
<1>4. PairTypes
  <2>1. <<>> \in Seq(Pair) /\ <<>> \in Seq(Experts)
    OBVIOUS
  <2>2. /\ pinnedLast = {} /\ pinnedPrev = {} /\ missed = {} /\ serving = <<>>
        /\ \A l \in Layers : /\ ids[l] = <<>> /\ remapped[l] = <<>> /\ req[l].pairs = <<>>
                              /\ staging[l] = <<>> /\ expected[l] = 1 /\ seqDev[l] = 0
    BY DEF Init
  <2>3. pinnedLast \cup pinnedPrev \cup missed \subseteq Layers \X Experts
    BY <2>2
  <2>4. ASSUME NEW l \in Layers
        PROVE  /\ ids[l] \in Routings \cup {<<>>} /\ DOMAIN remapped[l] = DOMAIN ids[l]
               /\ req[l].pairs \in Seq(Pair) /\ staging[l] \in Seq(Experts)
    BY <2>1, <2>2
  <2>5. \A l \in Layers : 1 <= expected[l] /\ expected[l] <= seqDev[l] + 1
    BY <2>2
  <2> QED BY <2>2, <2>3, <2>4, <2>5 DEF PairTypes
<1> QED BY <1>1, <1>2, <1>3, <1>4 DEF TypeInv

LEMMA NextBound ==
  ASSUME BoundInv, [Next]_vars
  PROVE  BoundInv'
<1>1. /\ step \in 0 .. MaxSteps /\ restarts \in 0 .. MaxRestarts /\ running \in BOOLEAN
      /\ MaxSteps \in Nat /\ MaxRestarts \in Nat
  BY TierAssumption DEF BoundInv
<1>2. CASE BeforeLaunch
  <2>1. hook' = "launch" /\ step < MaxSteps /\ UNCHANGED <<step, restarts, running>>
    BY <1>2 DEF BeforeLaunch, tier
  <2> QED BY <1>1, <2>1 DEF BoundInv
<1>3. CASE Launch
  <2>1. hook = "launch" /\ hook' = "after" /\ UNCHANGED <<step, restarts, running>>
    BY <1>3 DEF Launch, tier
  <2> QED BY <1>1, <2>1 DEF BoundInv
<1>4. CASE AfterLaunch \/ FailClosed
  <2>1. hook = "after" /\ hook' \in {"before", "down"} /\ step' = step + 1
        /\ UNCHANGED <<restarts, running>>
    BY <1>4 DEF AfterLaunch, FailClosed, tier
  <2> QED BY <1>1, <2>1 DEF BoundInv
<1>5. CASE StopTier
  <2>1. restarts < MaxRestarts /\ running' = FALSE /\ UNCHANGED <<hook, step, restarts>>
    BY <1>5 DEF StopTier, host
  <2> QED BY <1>1, <2>1 DEF BoundInv
<1>6. CASE RestartTier
  <2>1. ~running /\ running' = TRUE /\ hook' = "before" /\ restarts' = restarts + 1 /\ step' = step
    BY <1>6 DEF RestartTier
  <2> QED BY <1>1, <2>1 DEF BoundInv
<1>7. CASE MainStream \/ CopyStream \/ Dispatcher \/ UNCHANGED vars
  <2>1. UNCHANGED <<hook, step, restarts, running>>
    BY <1>7 DEF MainStream, MainWait, MainRecord, Remap, Publish, Moe, Enter, Skip, Inject, TimeOut,
                CopyStream, CopyWait, CopyRecord, Unmap, Tear, Fill, Map, Promoted,
                Dispatcher, Answer, Serve, Resync, vars, host, tier
  <2> QED BY <2>1 DEF BoundInv
<1> QED BY <1>2, <1>3, <1>4, <1>5, <1>6, <1>7 DEF Next, Host

LEMMA NextCount ==
  ASSUME CountInv, BoundInv, AnswerInv, StreamInv, [Next]_vars
  PROVE  CountInv'
<1>1. /\ main \in Seq(MainCommand) /\ step \in Nat /\ seqDev \in [Layers -> Nat] /\ Launched \in Nat
  BY DEF StreamInv, StreamTypes, AnswerInv, Launched
<1>2. ASSUME NEW b \in {Launched, Launched + 1}, NEW s \in Seq(MainCommand), main' = main \o s,
             Launched' = b, seqDev' = seqDev,
             \A l \in Layers, k \in 1 .. Len(s) : IsPublish(s[k], l) =>
               b = Launched + 1 /\ \A j \in 1 .. k - 1 : ~IsPublish(s[j], l)
      PROVE  CountInv'
  <2>1. Longer(main, main', s)
    BY <1>1, <1>2, ConcatLengthens
  <2>2. ASSUME NEW l \in Layers PROVE seqDev[l] <= b /\ Numbered(main', l, seqDev[l], b)
    <3>1. seqDev[l] \in Nat /\ seqDev[l] <= Launched /\ Numbered(main, l, seqDev[l], Launched)
      BY <1>1 DEF CountInv
    <3>2. Numbered(main', l, seqDev[l], b)
      BY <1>1, <1>2, <2>1, <3>1, NumberedLonger
    <3> QED BY <1>1, <1>2, <3>1, <3>2
  <2> QED BY <1>2, <2>2 DEF CountInv
<1>3. ASSUME main' = main, Launched' = Launched, seqDev' = seqDev PROVE CountInv'
  BY <1>3 DEF CountInv
<1>4. CASE BeforeLaunch
  <2>1. PICK c : c.op = "wait" /\ c \in MainCommand /\ main' = Append(main, c)
    <3>1. main' = Append(main, Wait(mapPrev \cup unmapEvents))
      BY <1>4 DEF BeforeLaunch
    <3>2. unmapEvents \cup mapLast \cup mapPrev \subseteq {"U", "M"} \X (0 .. step)
      BY DEF StreamInv, StreamTypes
    <3>3. mapPrev \cup unmapEvents \in SUBSET ({"U", "M"} \X Nat)
      BY <1>1, <3>2
    <3>4. Wait(mapPrev \cup unmapEvents) \in MainCommand /\ Wait(mapPrev \cup unmapEvents).op = "wait"
      BY <3>3 DEF Wait, MainCommand
    <3> QED BY <3>1, <3>4
  <2>2. <<c>> \in Seq(MainCommand) /\ Len(<<c>>) = 1 /\ <<c>>[1] = c /\ main' = main \o <<c>>
    BY <1>1, <2>1
  <2>3. \A l \in Layers, k \in 1 .. Len(<<c>>) : ~IsPublish(<<c>>[k], l)
    BY <2>1, <2>2 DEF IsPublish
  <2>4. Launched' = Launched /\ seqDev' = seqDev
    BY <1>4 DEF BeforeLaunch, Launched, device
  <2> QED BY <1>2, <2>2, <2>3, <2>4
<1>5. CASE Launch
  <2>1. main' = main \o StepOps /\ Launched' = Launched + 1 /\ seqDev' = seqDev
    BY <1>5 DEF Launch, Launched, device
  <2> QED BY <1>1, <1>2, <2>1, StepOpsType, StepPublishes
<1>6. CASE AfterLaunch
  <2>1. main' = main \/ main' = Append(main, Record(<<"done", step'>>))
    BY <1>6 DEF AfterLaunch
  <2>2. Launched' = Launched /\ seqDev' = seqDev /\ step' \in Nat
    BY <1>1, <1>6 DEF AfterLaunch, Launched, device
  <2>3. PICK c : c = Record(<<"done", step'>>)
    OBVIOUS
  <2>4. c \in MainCommand /\ c.op = "record"
    BY <2>2, <2>3 DEF Record, MainCommand
  <2>5. CASE main' = Append(main, c)
    <3>1. <<c>> \in Seq(MainCommand) /\ Len(<<c>>) = 1 /\ <<c>>[1] = c /\ main' = main \o <<c>>
      BY <1>1, <2>4, <2>5
    <3>2. \A l \in Layers, k \in 1 .. Len(<<c>>) : ~IsPublish(<<c>>[k], l)
      BY <2>4, <3>1 DEF IsPublish
    <3> QED BY <1>2, <2>2, <3>1, <3>2
  <2> QED BY <1>3, <2>1, <2>2, <2>3, <2>5
<1>7. CASE FailClosed
  <2>1. main' = main /\ Launched' = Launched /\ seqDev' = seqDev
    BY <1>7 DEF FailClosed, Launched, device
  <2> QED BY <1>3, <2>1
<1>8. CASE StopTier \/ RestartTier
  <2>1. main' = main /\ seqDev' = seqDev /\ step' = step /\ (hook' = "after" <=> hook = "after")
    BY <1>8 DEF StopTier, RestartTier, host, device
  <2> QED BY <1>3, <2>1 DEF Launched
<1>9. CASE Publish
  <2>1. /\ main # <<>> /\ main' = Tail(main) /\ IsPublish(main[1], layerOf) /\ Head(main) = main[1]
        /\ seqDev' = [seqDev EXCEPT ![layerOf] = @ + 1] /\ Launched' = Launched
    BY <1>1, <1>9 DEF Publish, MainDoes, IsPublish, layerOf, host, Launched
  <2>2. Shifted(main, main')
    BY <1>1, <2>1, TailShifts
  <2>3. ASSUME NEW l \in Layers PROVE seqDev'[l] <= Launched /\ Numbered(main', l, seqDev'[l], Launched)
    <3>1. seqDev[l] \in Nat /\ seqDev[l] <= Launched /\ Numbered(main, l, seqDev[l], Launched)
      BY <1>1 DEF CountInv
    <3>2. CASE l = layerOf
      <4>1. seqDev'[l] = seqDev[l] + 1 /\ IsPublish(main[1], l)
        BY <1>1, <2>1, <3>2
      <4> QED BY <1>1, <2>2, <3>1, <4>1, NumberedShifted
    <3>3. CASE l # layerOf
      <4>1. seqDev'[l] = seqDev[l]
        BY <1>1, <2>1, <3>3
      <4> QED BY <1>1, <2>2, <3>1, <4>1, NumberedShifted
    <3> QED BY <3>2, <3>3
  <2> QED BY <2>1, <2>3 DEF CountInv
<1>10. CASE MainStream /\ ~Publish
  <2>1. /\ main' = main \/ (main # <<>> /\ main' = Tail(main))
        /\ Launched' = Launched /\ seqDev' = seqDev
    BY <1>10 DEF MainStream, MainWait, MainRecord, Remap, Moe, Enter, Skip, Inject, TimeOut, CtaIs,
                 CtaEnds, MainDoes, host, device, Launched
  <2>2. CASE main # <<>> /\ main' = Tail(main)
    <3>1. Shifted(main, main')
      BY <1>1, <2>2, TailShifts
    <3>2. ASSUME NEW l \in Layers PROVE seqDev[l] <= Launched /\ Numbered(main', l, seqDev[l], Launched)
      BY <1>1, <3>1, NumberedShifted DEF CountInv
    <3> QED BY <2>1, <3>2 DEF CountInv
  <2> QED BY <1>3, <2>1, <2>2
<1>11. CASE CopyStream \/ Dispatcher \/ UNCHANGED vars
  <2>1. main' = main /\ Launched' = Launched /\ seqDev' = seqDev
    BY <1>11 DEF CopyStream, CopyWait, CopyRecord, Unmap, Tear, Fill, Map, Promoted, Dispatcher,
                 Answer, Serve, Resync, vars, host, device, Launched
  <2> QED BY <1>3, <2>1
<1> QED BY <1>4, <1>5, <1>6, <1>7, <1>8, <1>9, <1>10, <1>11 DEF Next, Host

LEMMA EventsShifted ==
  ASSUME NEW q, NEW r, Shifted(q, r), OfEvents(q)
  PROVE  OfEvents(r)
<1>1. ASSUME NEW i \in 1 .. Len(r) PROVE r[i] = q[i + 1] /\ i + 1 \in 1 .. Len(q)
  BY DEF Shifted
<1> QED BY <1>1 DEF OfEvents

LEMMA EventsLonger ==
  ASSUME NEW q, NEW r, NEW s, Longer(q, r, s), OfEvents(q), OfEvents(s)
  PROVE  OfEvents(r)
<1>1. ASSUME NEW i \in 1 .. Len(r), r[i].op = "record" PROVE r[i].ev \in Events
  <2>1. Found(q, r, s, i)
    BY LongerAt
  <2> QED BY <1>1, <2>1 DEF Found, OfEvents
<1> QED BY <1>1 DEF OfEvents

LEMMA EventsAppended ==
  ASSUME NEW T, NEW q \in Seq(T), OfEvents(q), NEW c, c.op = "record" => c.ev \in Events
  PROVE  OfEvents(Append(q, c))
<1>1. /\ Len(q) \in Nat /\ Len(Append(q, c)) = Len(q) + 1 /\ Append(q, c)[Len(q) + 1] = c
      /\ \A i \in 1 .. Len(q) : Append(q, c)[i] = q[i]
  OBVIOUS
<1> DEFINE r == Append(q, c)
<1> HIDE DEF r
<1>2. /\ Len(r) = Len(q) + 1 /\ r[Len(q) + 1] = c /\ \A i \in 1 .. Len(q) : r[i] = q[i]
  BY <1>1 DEF r
<1>3. ASSUME NEW i \in 1 .. Len(r), r[i].op = "record" PROVE r[i].ev \in Events
  <2>1. i \in 1 .. Len(q) \/ i = Len(q) + 1
    BY <1>1, <1>2
  <2> QED BY <1>2, <1>3, <2>1 DEF OfEvents
<1> QED BY <1>3 DEF OfEvents, r

\* The copy stream's next command is done, or replaced by the next part of its promotion.
LEMMA CopyGoes ==
  ASSUME StreamInv, CopyStream
  PROVE  /\ UNCHANGED <<host, main>> /\ copy # <<>>
         /\ \/ copy' = Tail(copy) /\ \/ signalled' = signalled
                                     \/ /\ copy[1].op = "record"
                                        /\ signalled' = signalled \cup {copy[1].ev}
            \/ /\ signalled' = signalled
               /\ \E c : c.op # "record" /\ copy' = <<c>> \o Tail(copy)
<1>1. copy \in Seq(CopyCommand(Recorded)) /\ copy # <<>> /\ UNCHANGED <<host, main>>
  BY DEF StreamInv, StreamTypes, CopyStream, CopyWait, CopyRecord, Unmap, Tear, Fill, Map,
         Promoted, CopyDoes
<1>2. Head(copy) = copy[1]
  BY <1>1
<1>3. CASE CopyWait \/ Unmap \/ Promoted \/ CopyRecord
  BY <1>1, <1>2, <1>3 DEF CopyWait, Unmap, Promoted, CopyRecord, CopyDoes
<1>4. CASE Tear \/ Fill \/ Map
  <2>1. signalled' = signalled
    BY <1>4 DEF Tear, Fill, Map
  <2>2. \E op \in {"fill", "map", "promote"} : \E l, p, e :
          copy' = <<Promote(op, l, p, e)>> \o Tail(copy)
    BY <1>4 DEF Tear, Fill, Map
  <2>3. \A op \in {"fill", "map", "promote"} : \A l, p, e : Promote(op, l, p, e).op # "record"
    BY DEF Promote
  <2> QED BY <1>1, <2>1, <2>2, <2>3
<1> QED BY <1>3, <1>4 DEF CopyStream

LEMMA NextEvents ==
  ASSUME EventInv, BoundInv, StreamInv, [Next]_vars
  PROVE  EventInv'
<1>1. /\ main \in Seq(MainCommand) /\ copy \in Seq(CopyCommand(Recorded)) /\ step \in Nat
      /\ MaxSteps \in Nat
  BY TierAssumption DEF StreamInv, StreamTypes
<1>2. CASE BeforeLaunch
  <2>1. main' = Append(main, Wait(mapPrev \cup unmapEvents)) /\ UNCHANGED <<copy, signalled>>
        /\ mapPrev' = mapLast /\ mapLast' = {} /\ unmapEvents' = {}
    BY <1>2 DEF BeforeLaunch
  <2>2. Wait(mapPrev \cup unmapEvents).op = "wait"
    BY DEF Wait
  <2>3. OfEvents(main')
    BY <1>1, <2>1, <2>2, EventsAppended DEF EventInv
  <2> QED BY <2>1, <2>3 DEF EventInv
<1>3. CASE Launch
  <2>1. main' = main \o StepOps /\ UNCHANGED <<copy, signalled, mapPrev, mapLast, unmapEvents>>
    BY <1>3 DEF Launch
  <2>2. OfEvents(StepOps) /\ Longer(main, main', StepOps)
    BY <1>1, <2>1, StepOpsType, ConcatLengthens DEF OfEvents, IsLayerOp
  <2>3. OfEvents(main')
    BY <2>2, EventsLonger DEF EventInv
  <2> QED BY <2>1, <2>3 DEF EventInv
<1>4. CASE AfterLaunch
  <2>1. hook = "after" /\ step' = step + 1 /\ UNCHANGED <<signalled, mapPrev>>
    BY <1>4 DEF AfterLaunch
  <2>2. PICK n : n = step' /\ n \in 1 .. MaxSteps /\ n \in Nat
    BY <1>1, <2>1 DEF BoundInv
  <2>3. <<"done", n>> \in Events /\ <<"U", n>> \in Events /\ <<"M", n>> \in Events
    BY <2>2 DEF Events
  <2>4. PICK plans \in [Layers -> UNION {Plans(l) : l \in Layers}] :
          /\ \A l \in Layers : plans[l] \in Plans(l)
          /\ \/ UNCHANGED <<main, copy, unmapEvents, mapLast>>
             \/ /\ main' = Append(main, Record(<<"done", n>>)) /\ copy' = copy \o Schedule(plans, n)
                /\ unmapEvents' = unmapEvents \cup {<<"U", n>>} /\ mapLast' = mapLast \cup {<<"M", n>>}
    BY <1>4, <2>2 DEF AfterLaunch
  <2>5. CASE UNCHANGED <<main, copy, unmapEvents, mapLast>>
    BY <2>1, <2>5 DEF EventInv
  <2>6. CASE /\ main' = Append(main, Record(<<"done", n>>)) /\ copy' = copy \o Schedule(plans, n)
             /\ unmapEvents' = unmapEvents \cup {<<"U", n>>} /\ mapLast' = mapLast \cup {<<"M", n>>}
    <3>1. Record(<<"done", n>>).ev = <<"done", n>>
      BY DEF Record
    <3>4. OfEvents(main')
      BY <1>1, <2>3, <2>6, <3>1, EventsAppended DEF EventInv
    <3>5. PICK S : S = Schedule(plans, n)
      OBVIOUS
    <3>6. /\ S \in Seq(CopyCommand(Recorded)) /\ PlanQueue(S, NLayers, plans, Victims(plans))
          /\ PlanEvents(S, NLayers, n)
      BY <2>2, <2>4, <3>5, PlansChosen, ScheduleAt
    <3>7. ASSUME NEW k \in 1 .. Len(S), S[k].op = "record" PROVE S[k].ev \in Events
      <4>1. S[k].ev = <<"U", n>> \/ S[k].ev = <<"M", n>>
        BY <3>6, <3>7, PlanCommand
      <4> QED BY <2>3, <4>1
    <3>8. OfEvents(S) /\ Longer(copy, copy', S)
      BY <1>1, <2>6, <3>5, <3>6, <3>7, ConcatLengthens DEF OfEvents
    <3>9. OfEvents(copy')
      BY <3>8, EventsLonger DEF EventInv
    <3> QED BY <2>1, <2>3, <2>6, <3>4, <3>9 DEF EventInv
  <2> QED BY <2>4, <2>5, <2>6
<1>5. CASE FailClosed \/ StopTier \/ RestartTier \/ Dispatcher \/ UNCHANGED vars
  <2>1. UNCHANGED <<main, copy, signalled, unmapEvents, mapLast, mapPrev>>
    BY <1>5 DEF FailClosed, StopTier, RestartTier, Dispatcher, Answer, Serve, Resync, vars, host
  <2> QED BY <2>1 DEF EventInv
<1>6. CASE MainStream
  <2>1. /\ UNCHANGED <<copy, unmapEvents, mapLast, mapPrev>>
        /\ \/ main' = main /\ signalled' = signalled
           \/ main # <<>> /\ main' = Tail(main) /\ signalled' = signalled
           \/ /\ main # <<>> /\ main' = Tail(main) /\ Head(main).op = "record"
              /\ signalled' = signalled \cup {Head(main).ev}
    BY <1>6 DEF MainStream, MainWait, MainRecord, Remap, Publish, Moe, Enter, Skip, Inject, TimeOut,
                CtaIs, CtaEnds, MainDoes, host
  <2>2. CASE main' = main /\ signalled' = signalled
    BY <2>1, <2>2 DEF EventInv
  <2>3. CASE main # <<>> /\ main' = Tail(main)
    <3>1. Shifted(main, main') /\ Head(main) = main[1] /\ 1 \in 1 .. Len(main)
      BY <1>1, <2>3, TailShifts DEF Shifted
    <3>2. OfEvents(main')
      BY <3>1, EventsShifted DEF EventInv
    <3>3. Head(main).op = "record" => Head(main).ev \in Events
      BY <3>1 DEF EventInv, OfEvents
    <3> QED BY <2>1, <3>2, <3>3 DEF EventInv
  <2> QED BY <2>1, <2>2, <2>3
<1>7. CASE CopyStream
  <2>1. UNCHANGED <<main, unmapEvents, mapLast, mapPrev>> /\ copy # <<>>
    BY <1>7, CopyGoes DEF host
  <2>2. CASE copy' = Tail(copy) /\ \/ signalled' = signalled
                                   \/ copy[1].op = "record" /\ signalled' = signalled \cup {copy[1].ev}
    <3>1. Shifted(copy, copy') /\ 1 \in 1 .. Len(copy)
      BY <1>1, <2>1, <2>2, TailShifts DEF Shifted
    <3>2. OfEvents(copy') /\ (copy[1].op = "record" => copy[1].ev \in Events)
      BY <3>1, EventsShifted DEF EventInv, OfEvents
    <3> QED BY <2>1, <2>2, <3>2 DEF EventInv
  <2>3. CASE signalled' = signalled /\ \E c : c.op # "record" /\ copy' = <<c>> \o Tail(copy)
    <3>1. PICK c : c.op # "record" /\ copy' = <<c>> \o Tail(copy)
      BY <2>3
    <3>2. Replaced(copy, copy') /\ copy'[1] = c
      BY <1>1, <2>1, <3>1, PutReplaces
    <3>3. ASSUME NEW i \in 1 .. Len(copy'), copy'[i].op = "record" PROVE copy'[i].ev \in Events
      <4>1. i # 1
        BY <3>1, <3>2, <3>3
      <4>2. i \in 2 .. Len(copy) /\ i \in 1 .. Len(copy)
        BY <3>2, <4>1 DEF Replaced
      <4> QED BY <3>2, <3>3, <4>2 DEF Replaced, EventInv, OfEvents
    <3>4. OfEvents(copy')
      BY <3>3 DEF OfEvents
    <3> QED BY <2>1, <2>3, <3>4 DEF EventInv
  <2> QED BY <1>7, <2>2, <2>3, CopyGoes
<1> QED BY <1>2, <1>3, <1>4, <1>5, <1>6, <1>7 DEF Next, Host

LEMMA MissesTyped ==
  ASSUME RoutedInv, NEW l \in Layers
  PROVE  Misses(l) \in Seq(Pair)
<1> DEFINE M == {p \in DOMAIN ids[l] : remapped[l][p] = None}
<1>1. ids[l] \in Seq(Experts)
  BY DEF RoutedInv
<1>2. /\ DOMAIN ids[l] = 1 .. Len(ids[l]) /\ Len(ids[l]) \in Nat
      /\ \A p \in DOMAIN ids[l] : ids[l][p] \in Experts
  BY <1>1
<1>3. IsFiniteSet(DOMAIN ids[l])
  BY <1>2, FS_Interval
<1>4. IsFiniteSet(M)
  BY <1>3, FS_Subset
<1>5. \A p \in M : p \in Nat \ {0} /\ ids[l][p] \in Experts
  BY <1>2
<1> HIDE DEF M
<1>6. Cardinality(M) \in Nat /\ SetToSeq(M) \in [1 .. Cardinality(M) -> M]
  BY <1>4, SetToSeqType
<1>7. \A i \in 1 .. Cardinality(M) :
        [row |-> SetToSeq(M)[i], expert |-> ids[l][SetToSeq(M)[i]]] \in Pair
  BY <1>5, <1>6 DEF Pair
<1>8. PairsOf(l, M) \in [1 .. Cardinality(M) -> Pair]
  BY <1>7 DEF PairsOf
<1>9. \A n \in Nat : [1 .. n -> Pair] \subseteq Seq(Pair)
  OBVIOUS
<1>10. PairsOf(l, M) \in Seq(Pair)
  BY <1>6, <1>8, <1>9
<1> QED BY <1>10 DEF Misses, M

LEMMA StagedTyped ==
  ASSUME NEW pairs \in Seq(Pair)
  PROVE  /\ Staged(pairs) \in Seq(Experts) /\ \A i \in DOMAIN pairs : pairs[i].expert \in Experts
<1>1. DOMAIN pairs = 1 .. Len(pairs) /\ Len(pairs) \in Nat /\ \A i \in DOMAIN pairs : pairs[i] \in Pair
  OBVIOUS
<1>2. \A i \in DOMAIN pairs : pairs[i].expert \in Experts
  BY <1>1 DEF Pair
<1>3. Staged(pairs) \in [1 .. Len(pairs) -> Experts]
  BY <1>1, <1>2 DEF Staged
<1>4. \A n \in Nat : [1 .. n -> Experts] \subseteq Seq(Experts)
  OBVIOUS
<1> QED BY <1>1, <1>2, <1>3, <1>4

\* A step that leaves the pairs alone.
LEMMA PairsSame ==
  ASSUME PairTypes, UNCHANGED <<ids, remapped, req, staging, expected, seqDev, serving>>,
         pinnedLast' \cup pinnedPrev' \cup missed' \subseteq Layers \X Experts
  PROVE  PairTypes'
BY DEF PairTypes

LEMMA HostPairs ==
  ASSUME PairTypes, AnswerInv, Host
  PROVE  PairTypes'
<1>1. pinnedLast \cup pinnedPrev \cup missed \subseteq Layers \X Experts
  BY DEF PairTypes
<1>2. CASE BeforeLaunch \/ Launch \/ FailClosed \/ StopTier
  <2>1. /\ UNCHANGED <<ids, remapped, req, staging, expected, seqDev, serving, missed>>
        /\ pinnedLast' \cup pinnedPrev' \subseteq pinnedLast \cup pinnedPrev
    BY <1>2 DEF BeforeLaunch, Launch, FailClosed, StopTier, host, device, mail, tier
  <2> QED BY <1>1, <2>1, PairsSame
<1>3. CASE AfterLaunch
  <2>1. /\ UNCHANGED <<ids, remapped, req, staging, expected, seqDev, serving, pinnedPrev>>
        /\ missed' = {}
    BY <1>3 DEF AfterLaunch, device, mail
  <2>2. PICK plans \in [Layers -> UNION {Plans(l) : l \in Layers}] :
          /\ \A l \in Layers : plans[l] \in Plans(l)
          /\ \/ pinnedLast' = pinnedLast
             \/ pinnedLast' = pinnedLast \cup UNION {{<<l, e>> : e \in DOMAIN plans[l]} : l \in Layers}
    BY <1>3 DEF AfterLaunch
  <2>3. \A l \in Layers : plans[l] \in PlanSet
    BY <2>2, PlansChosen DEF Chosen
  <2>4. \A l \in Layers : DOMAIN plans[l] \subseteq Experts
    BY <2>3 DEF PlanSet
  <2>5. pinnedLast' \subseteq Layers \X Experts
    BY <1>1, <2>2, <2>4
  <2> QED BY <1>1, <2>1, <2>5, PairsSame
<1>4. CASE RestartTier
  <2>1. /\ UNCHANGED <<ids, remapped, req, staging, seqDev, serving, missed, pinnedLast, pinnedPrev>>
        /\ expected' = [l \in Layers |-> seqDev[l] + 1]
    BY <1>4 DEF RestartTier, device
  <2>2. \A l \in Layers : seqDev[l] \in Nat
    BY DEF AnswerInv
  <2>3. \A l \in Layers : 1 <= expected'[l] /\ expected'[l] <= seqDev[l] + 1
    BY <2>1, <2>2
  <2> QED BY <2>1, <2>3 DEF PairTypes
<1> QED BY <1>2, <1>3, <1>4 DEF Host

LEMMA MainPairs ==
  ASSUME PairTypes, AnswerInv, RoutedInv, StreamInv, MainStream
  PROVE  PairTypes'
<1>1. pinnedLast \cup pinnedPrev \cup missed \subseteq Layers \X Experts
  BY DEF PairTypes
<1>2. main \in Seq(MainCommand)
  BY DEF StreamInv, StreamTypes
<1>3. ASSUME MainDoes("remap") \/ MainDoes("publish") PROVE layerOf \in Layers
  <2>1. Head(main) \in MainCommand /\ Head(main).op \in {"remap", "publish"}
    BY <1>2, <1>3, TailSeq DEF MainDoes
  <2> QED BY <2>1 DEF MainCommand, layerOf
<1>4. CASE Remap
  <2>1. PICK r \in Routings :
          /\ ids' = [ids EXCEPT ![layerOf] = r]
          /\ remapped' = [remapped EXCEPT ![layerOf] = [p \in DOMAIN r |-> table[layerOf][r[p]]]]
    BY <1>4 DEF Remap
  <2>2. UNCHANGED <<req, staging, expected, seqDev, serving, pinnedLast, pinnedPrev, missed>>
        /\ layerOf \in Layers
    BY <1>3, <1>4 DEF Remap, host, mail, tier
  <2>3. DOMAIN ids = Layers /\ DOMAIN remapped = Layers
    BY DEF RoutedInv
  <2>4. ASSUME NEW l \in Layers
        PROVE  ids'[l] \in Routings \cup {<<>>} /\ DOMAIN remapped'[l] = DOMAIN ids'[l]
    <3>1. CASE l = layerOf
      BY <2>1, <2>3, <3>1
    <3>2. CASE l # layerOf
      <4>1. ids'[l] = ids[l] /\ remapped'[l] = remapped[l]
        BY <2>1, <2>3, <3>2
      <4> QED BY <4>1 DEF PairTypes
    <3> QED BY <3>1, <3>2
  <2> QED BY <2>2, <2>4 DEF PairTypes
<1>5. CASE Publish
  <2>1. /\ seqDev' = [seqDev EXCEPT ![layerOf] = @ + 1]
        /\ req' = [req EXCEPT ![layerOf] = [seq |-> seqDev'[layerOf], pairs |-> Misses(layerOf)]]
        /\ UNCHANGED <<ids, remapped, staging, expected, serving, pinnedLast, pinnedPrev, missed>>
    BY <1>5 DEF Publish, host, tier
  <2>2. /\ layerOf \in Layers /\ seqDev \in [Layers -> Nat] /\ expected \in [Layers -> Nat]
        /\ DOMAIN req = Layers
    BY <1>3, <1>5 DEF Publish, AnswerInv
  <2>3. Misses(layerOf) \in Seq(Pair)
    BY <2>2, MissesTyped
  <2>4. ASSUME NEW l \in Layers
        PROVE  req'[l].pairs \in Seq(Pair) /\ expected[l] <= seqDev'[l] + 1
    <3>1. expected[l] <= seqDev[l] + 1 /\ req[l].pairs \in Seq(Pair) /\ expected[l] \in Nat
          /\ seqDev[l] \in Nat
      BY <2>2 DEF PairTypes
    <3>2. CASE l = layerOf
      <4>1. seqDev'[l] = seqDev[l] + 1 /\ req'[l].pairs = Misses(layerOf)
        BY <2>1, <2>2, <3>2
      <4> QED BY <2>3, <3>1, <4>1
    <3>3. CASE l # layerOf
      <4>1. seqDev'[l] = seqDev[l] /\ req'[l] = req[l]
        BY <2>1, <2>2, <3>3
      <4> QED BY <3>1, <4>1
    <3> QED BY <3>2, <3>3
  <2> QED BY <2>1, <2>4 DEF PairTypes
<1>6. CASE MainStream /\ ~Remap /\ ~Publish
  <2>1. /\ UNCHANGED <<ids, remapped, req, staging, expected, seqDev, serving, pinnedLast, pinnedPrev>>
        /\ missed' = missed
    BY <1>6 DEF MainStream, MainWait, MainRecord, Moe, Enter, Skip, Inject, TimeOut, host, device,
                mail, tier
  <2> QED BY <1>1, <2>1, PairsSame
<1> QED BY <1>4, <1>5, <1>6

LEMMA TierPairs ==
  ASSUME PairTypes, AnswerInv, Dispatcher
  PROVE  PairTypes'
<1>1. pinnedLast \cup pinnedPrev \cup missed \subseteq Layers \X Experts
  BY DEF PairTypes
<1>2. ASSUME NEW l \in Layers
      PROVE  /\ seqDev[l] \in Nat /\ expected[l] \in Nat /\ req[l].seq = seqDev[l]
             /\ 1 <= expected[l] /\ expected[l] <= seqDev[l] + 1
  BY DEF AnswerInv, Answered, PairTypes
<1>3. ASSUME NEW k \in Layers, Serve(k) PROVE PairTypes'
  <2>1. /\ serving' = <<k, req[k].pairs>>
        /\ UNCHANGED <<ids, remapped, req, staging, expected, seqDev, pinnedLast, pinnedPrev, missed>>
    BY <1>3 DEF Serve, host, device, mail
  <2>2. serving'[2] \in Seq(Pair)
    BY <2>1 DEF PairTypes
  <2> QED BY <2>1, <2>2 DEF PairTypes
<1>4. ASSUME NEW k \in Layers, Resync(k) PROVE PairTypes'
  <2>1. /\ expected' = [expected EXCEPT ![k] = req[k].seq] /\ req[k].seq > expected[k]
        /\ UNCHANGED <<ids, remapped, req, staging, serving, seqDev, pinnedLast, pinnedPrev, missed>>
    BY <1>4 DEF Resync, host, device, mail
  <2>2. expected \in [Layers -> Nat]
    BY DEF AnswerInv
  <2>3. ASSUME NEW l \in Layers PROVE 1 <= expected'[l] /\ expected'[l] <= seqDev[l] + 1
    <3>1. CASE l = k
      <4>1. expected'[l] = seqDev[l] /\ seqDev[l] > expected[l]
        BY <1>2, <2>1, <2>2, <3>1
      <4> QED BY <1>2, <4>1
    <3>2. CASE l # k
      <4>1. expected'[l] = expected[l]
        BY <2>1, <2>2, <3>2
      <4> QED BY <1>2, <4>1
    <3> QED BY <3>1, <3>2
  <2> QED BY <2>1, <2>3 DEF PairTypes
<1>5. CASE Answer
  <2>1. PICK k, pairs : k = serving[1] /\ pairs = serving[2] /\ serving # <<>>
    BY <1>5 DEF Answer
  <2>2. k \in Layers /\ expected[k] <= seqDev[k] /\ pairs \in Seq(Pair)
    BY <2>1 DEF AnswerInv, Serves, PairTypes
  <2>3. PICK status \in {0, 2} \cup Faults :
          /\ staging' = [staging EXCEPT ![k] =
                           IF status = 0 THEN [i \in DOMAIN pairs |-> pairs[i].expert] ELSE <<>>]
          /\ missed' = IF status = 2 THEN missed
                       ELSE missed \cup ({k} \X {pairs[i].expert : i \in DOMAIN pairs})
          /\ expected' = [expected EXCEPT ![k] = @ + 1] /\ serving' = <<>>
          /\ UNCHANGED <<ids, remapped, req, seqDev, pinnedLast, pinnedPrev>>
    <3>1. PICK status \in {0, 2} \cup Faults :
            /\ staging' = [staging EXCEPT ![serving[1]] =
                  IF status = 0 THEN [i \in DOMAIN serving[2] |-> serving[2][i].expert] ELSE <<>>]
            /\ missed' = IF status = 2 THEN missed
                 ELSE missed \cup ({serving[1]} \X {serving[2][i].expert : i \in DOMAIN serving[2]})
      BY <1>5 DEF Answer
    <3>2. /\ expected' = [expected EXCEPT ![serving[1]] = @ + 1] /\ serving' = <<>>
          /\ UNCHANGED <<ids, remapped, req, seqDev, pinnedLast, pinnedPrev>>
      BY <1>5 DEF Answer, host, device
    <3> QED BY <2>1, <3>1, <3>2
  <2>4. Staged(pairs) \in Seq(Experts) /\ \A i \in DOMAIN pairs : pairs[i].expert \in Experts
    BY <2>2, StagedTyped
  <2>5. missed' \subseteq Layers \X Experts
    BY <1>1, <2>2, <2>3, <2>4
  <2>6. DOMAIN staging = Layers /\ expected \in [Layers -> Nat]
    BY DEF AnswerInv
  <2>7. ASSUME NEW l \in Layers PROVE staging'[l] \in Seq(Experts)
    <3>1. staging'[l] \in {staging[l], <<>>, Staged(pairs)}
      BY <2>3, <2>6 DEF Staged
    <3>2. staging[l] \in Seq(Experts) /\ <<>> \in Seq(Experts)
      BY DEF PairTypes
    <3> QED BY <2>4, <3>1, <3>2
  <2>8. ASSUME NEW l \in Layers PROVE 1 <= expected'[l] /\ expected'[l] <= seqDev[l] + 1
    <3>1. CASE l = k
      <4>1. expected'[l] = expected[l] + 1
        BY <2>3, <2>6, <3>1
      <4> QED BY <1>2, <2>2, <3>1, <4>1
    <3>2. CASE l # k
      <4>1. expected'[l] = expected[l]
        BY <2>3, <2>6, <3>2
      <4> QED BY <1>2, <4>1
    <3> QED BY <3>1, <3>2
  <2> QED BY <1>1, <2>3, <2>5, <2>7, <2>8 DEF PairTypes
<1> QED BY <1>3, <1>4, <1>5 DEF Dispatcher

LEMMA NextType ==
  ASSUME TierInv, [Next]_vars
  PROVE  TypeInv'
<1>1. /\ PairTypes /\ AnswerInv /\ RoutedInv /\ StreamInv /\ BoundInv /\ CountInv /\ EventInv
  BY DEF TierInv, TypeInv, SoundInv, RecordInv, RowInv
<1>2. BoundInv' /\ CountInv' /\ EventInv'
  BY <1>1, NextBound, NextCount, NextEvents
<1>3. CASE CopyStream \/ UNCHANGED vars
  <2>1. UNCHANGED <<ids, remapped, req, staging, expected, seqDev, serving, pinnedLast, pinnedPrev, missed>>
    BY <1>3 DEF CopyStream, CopyWait, CopyRecord, Unmap, Tear, Fill, Map, Promoted, vars, host,
                device, mail, tier
  <2>2. PairTypes'
    BY <1>1, <2>1, PairsSame DEF PairTypes
  <2> QED BY <1>2, <2>2 DEF TypeInv
<1> QED BY <1>1, <1>2, <1>3, HostPairs, MainPairs, TierPairs DEF Next, TypeInv

\* The invariants together give the types, and the bounds of the mailboxes' numbers.
LEMMA TypesHold ==
  ASSUME TierInv
  PROVE  TypeOK
<1>1. /\ BoundInv /\ CountInv /\ EventInv /\ PairTypes /\ TableInv /\ HeldInv /\ BytesInv
      /\ AnswerInv /\ HeadInv /\ copy \in Seq(CopyCommand(Recorded))
  BY DEF TierInv, TypeInv, SoundInv, RecordInv, PlanInv, RowInv
<1>2. copy \in Seq(CopyCommand(Experts))
  <2>1. CopyCommand(Recorded) \subseteq CopyCommand(Experts)
    <3>1. SUBSET Recorded \subseteq SUBSET Experts
      BY TierAssumption
    <3> QED BY <3>1 DEF CopyCommand
  <2>2. \A S, T : S \subseteq T => Seq(S) \subseteq Seq(T)
    OBVIOUS
  <2> QED BY <1>1, <2>1, <2>2
<1>3. Launched \in 0 .. MaxSteps
  BY <1>1, TierAssumption DEF BoundInv, Launched
<1>4. ASSUME NEW l \in Layers
      PROVE  /\ ids[l] \in Routings \cup {<<>>} /\ DOMAIN remapped[l] = DOMAIN ids[l]
             /\ req[l].seq \in 0 .. MaxSteps /\ req[l].pairs \in Seq(Pair)
             /\ seqDev[l] = req[l].seq /\ ack[l].seq <= seqDev[l]
             /\ expected[l] \in 1 .. seqDev[l] + 1
             /\ staging[l] \in Seq(Experts)
  <2>1. /\ seqDev[l] \in Nat /\ expected[l] \in Nat /\ req[l].seq = seqDev[l] /\ ack[l].seq <= seqDev[l]
        /\ seqDev[l] <= Launched /\ 1 <= expected[l] /\ expected[l] <= seqDev[l] + 1
    BY <1>1 DEF AnswerInv, Answered, CountInv, PairTypes
  <2>2. req[l].seq \in 0 .. MaxSteps /\ expected[l] \in 1 .. seqDev[l] + 1
    BY <1>3, <2>1, TierAssumption
  <2> QED BY <1>1, <2>1, <2>2 DEF PairTypes
<1>5. /\ hook \in {"before", "launch", "after", "down"}
      /\ step \in 0 .. MaxSteps /\ restarts \in 0 .. MaxRestarts /\ running \in BOOLEAN
  BY <1>1 DEF BoundInv
<1>6. unmapEvents \cup mapLast \cup mapPrev \cup signalled \subseteq Events
  BY <1>1 DEF EventInv
<1>7. pinnedLast \cup pinnedPrev \cup missed \subseteq Layers \X Experts
  BY <1>1 DEF PairTypes
<1>8. /\ holder \in [Layers -> [Slots -> Experts \cup {None}]]
      /\ table \in [Layers -> [Experts -> Slots \cup {None}]]
      /\ bytes \in [Layers -> [Slots -> Experts \cup {None, Torn}]]
      /\ cta \in [Ctas -> {"new", "spin", "out"}] /\ (serving # <<>> => running)
  BY <1>1 DEF HeldInv, TableInv, BytesInv, HeadInv, AnswerInv
<1> QED BY <1>2, <1>4, <1>5, <1>6, <1>7, <1>8 DEF TypeOK

\* The variables keep their types, however the four actors interleave: no request has a
\* number that no step has, an ack is never ahead of the requests, and the dispatcher
\* never ahead of the next one, even after a restart from the device's counters.
THEOREM TypeCorrect == Spec => []TypeOK
<1>1. Init => TierInv
  BY InitSound, InitStream, InitRow, InitType DEF TierInv
<1>2. TierInv /\ [Next]_vars => TierInv'
  BY NextSound, NextStream, NextRow, NextType DEF TierInv
<1>3. TierInv => TypeOK
  BY TypesHold
<1> QED BY <1>1, <1>2, <1>3, PTL DEF Spec

=============================================================================
