------------------------------- MODULE CpuTier -------------------------------
(***************************************************************************)
(* The CPU expert tier of one rank: the GPU's expert cache and its         *)
(* promotions (placement_manager.py) composed with the publish / inject    *)
(* mailboxes (cpu_tier_cuda.cu) and the dispatcher that answers them       *)
(* (cpu_tier.cpp, dispatcher_main and serve).                              *)
(*                                                                         *)
(* Four actors interleave: the host (the hooks around execute_model), the  *)
(* main CUDA stream (a captured step: per layer publish, the MoE on the    *)
(* resident pairs, wait_inject), the copy stream (unmaps, copies, maps) and *)
(* the dispatcher thread.  A stream is the sequence of the commands queued *)
(* on it; an event is signalled when the stream reaches its record.        *)
(*                                                                         *)
(* Abstracted: an expert's bytes are the expert itself (Torn while they    *)
(* are being rewritten), a computed row is the expert whose weights made   *)
(* it, and which evictable slot is the coldest is left open (pick_victim   *)
(* may choose any), as is whether a missed expert is admitted at all (the  *)
(* window, the per-layer cap, a record the store tail could not read).     *)
(***************************************************************************)
EXTENDS Naturals, Sequences, FiniteSets, SequencesExt

CONSTANTS
  NLayers,        \* hybrid layers, numbered from 1
  Experts,        \* experts of a layer
  Slots,          \* resident slots of a layer
  Recorded,       \* experts whose record the tier's store holds (record_ok)
  Placement,      \* [Slots -> Experts \cup {None}]: what fill_initial loads
  Routings,       \* the routings (sequences of experts, one per pair) a step may have
  NCtas,          \* CTAs of the wait kernel
  Faults,         \* statuses with which serve may fail on pairs that have records:
                  \* 4 (the expert kernel), 5 (a read of the store tail)
  MaxSteps,       \* bound: steps the host launches
  MaxRestarts,    \* bound: stop / clear_error / restart_from_device cycles
  None, Torn      \* no slot, no expert, a zero row; bytes being rewritten

Layers == 1 .. NLayers
Ctas == 0 .. NCtas - 1
Residents == {Placement[s] : s \in Slots} \ {None}

ASSUME TierAssumption ==
  /\ NLayers \in Nat \ {0} /\ NCtas \in Nat \ {0}
  /\ MaxSteps \in Nat /\ MaxRestarts \in Nat /\ Faults \subseteq {4, 5}
  /\ Recorded \subseteq Experts /\ Placement \in [Slots -> Experts \cup {None}]
  /\ \A s, t \in Slots : s # t /\ Placement[s] # None => Placement[s] # Placement[t]
  /\ Experts \ Residents \subseteq Recorded
  /\ Routings \subseteq Seq(Experts)
  /\ None \notin Experts \cup Slots /\ Torn \notin Experts \cup Slots \cup {None}

VARIABLES
  \* the host: runner hooks, PlacementManager and ResidentPool
  hook,           \* what the runner does next: "before" "launch" "after", or "down"
  step,           \* S.step
  holder,         \* expert_of_slot per layer
  unmapEvents, mapLast, mapPrev,    \* events of the last and the previous after_launch
  pinnedLast, pinnedPrev,           \* records pinned for promotions: <<layer, expert>>
  restarts,
  \* the streams
  main, copy,     \* queued commands
  signalled,      \* events reached
  \* device memory
  table,          \* slot_table per layer
  bytes,          \* what a slot's weights hold
  seqDev,         \* seq_dev per layer
  ids, remapped, rows,              \* per layer: routed pairs, remapped ids, route rows
  cta,            \* CTAs of the wait kernel: "new", "spin" (found no error), "out"
  \* the mailboxes (mapped host memory) and the error word
  req, ack, staging, err,
  \* the dispatcher
  running, expected,
  serving,        \* <<layer, the request's pairs>> while serve runs, else <<>>
  missed          \* the miss log after the reader's cursor

host == <<hook, step, holder, unmapEvents, mapLast, mapPrev, pinnedLast, pinnedPrev, restarts>>
device == <<table, bytes, seqDev, ids, remapped, rows, cta>>
mail == <<req, ack, staging, err>>
tier == <<running, expected, serving, missed>>
vars == <<host, main, copy, signalled, device, mail, tier>>

Events == {"done", "U", "M"} \X (1 .. MaxSteps)
Pair == [row : Nat \ {0}, expert : Experts]
Op(op, l) == [op |-> op, layer |-> l]
Wait(evs) == [op |-> "wait", evs |-> evs]
Record(ev) == [op |-> "record", ev |-> ev]

\* A layer's promotions still to do, and the one being done.
Promote(op, l, plan, e) == [op |-> op, layer |-> l, plan |-> plan, expert |-> e]
PlanSet == UNION {[q -> Slots] : q \in SUBSET Experts}

\* The commands of the copy stream; the experts it may unmap are in E.
CopyCommand(E) ==
  [op : {"wait"}, evs : SUBSET ({"done", "U", "M"} \X Nat)]
    \cup [op : {"record"}, ev : {"done", "U", "M"} \X Nat]
    \cup [op : {"unmap"}, layer : Layers, experts : SUBSET E]
    \cup [op : {"promote"}, layer : Layers, plan : PlanSet, expert : {None}]
    \cup {c \in [op : {"fill", "map"}, layer : Layers, plan : PlanSet, expert : Experts] :
            c.expert \in DOMAIN c.plan}

HoldsRecord(e) == e \in Recorded
Mapped(l) == {holder[l][s] : s \in Slots} \ {None}

-----------------------------------------------------------------------------
(* The host *)

\* The next step does not wait for the last unmaps.
BeforeLaunchNoWait ==
  /\ hook = "before" /\ step < MaxSteps
  /\ pinnedPrev # {} => mapPrev \subseteq signalled
  /\ main' = Append(main, Wait(mapPrev))
  /\ mapPrev' = mapLast /\ mapLast' = {} /\ unmapEvents' = {}
  /\ pinnedPrev' = pinnedLast /\ pinnedLast' = {}
  /\ hook' = "launch"
  /\ UNCHANGED <<step, holder, restarts, copy, signalled, device, mail, tier>>

\* The pins are dropped without the host's wait for the copies.
BeforeLaunchNoSync ==
  /\ hook = "before" /\ step < MaxSteps
  /\ main' = Append(main, Wait(mapPrev \cup unmapEvents))
  /\ mapPrev' = mapLast /\ mapLast' = {} /\ unmapEvents' = {}
  /\ pinnedPrev' = pinnedLast /\ pinnedLast' = {}
  /\ hook' = "launch"
  /\ UNCHANGED <<step, holder, restarts, copy, signalled, device, mail, tier>>

\* before_launch: the main stream waits for the last unmaps and the previous
\* maps; the host waits for those maps before it drops the older pins.
BeforeLaunch ==
  /\ hook = "before" /\ step < MaxSteps
  /\ pinnedPrev # {} => mapPrev \subseteq signalled
  /\ main' = Append(main, Wait(mapPrev \cup unmapEvents))
  /\ mapPrev' = mapLast /\ mapLast' = {} /\ unmapEvents' = {}
  /\ pinnedPrev' = pinnedLast /\ pinnedLast' = {}
  /\ hook' = "launch"
  /\ UNCHANGED <<step, holder, restarts, copy, signalled, device, mail, tier>>

\* The captured step: per layer publish (the table is read, then the misses
\* are compacted and released), the GPU's MoE, wait and inject.
LayerOps(l) == <<Op("remap", l), Op("publish", l), Op("moe", l), Op("inject", l)>>

\* The layers' operations one after the other.
StepOps == [k \in 1 .. 4 * NLayers |-> LayerOps((k + 3) \div 4)[1 + ((k + 3) % 4)]]

Launch ==
  /\ hook = "launch"
  /\ main' = main \o StepOps
  /\ hook' = "after"
  /\ UNCHANGED <<step, holder, unmapEvents, mapLast, mapPrev, pinnedLast, pinnedPrev, restarts,
                 copy, signalled, device, mail, tier>>

\* The victim's record is not asked for.
EvictableAny(l, s) ==
  \/ holder[l][s] = None
  \/ /\ \A t \in Slots : holder[l][t] # None
     /\ <<l, holder[l][s]>> \notin missed

\* pick_victim: an empty slot first, else one whose expert has a record and is
\* not a miss of this plan (protect).
Evictable(l, s) ==
  \/ holder[l][s] = None
  \/ /\ \A t \in Slots : holder[l][t] # None
     /\ HoldsRecord(holder[l][s])
     /\ <<l, holder[l][s]>> \notin missed

\* plan, one layer: missed experts that are not mapped, each into a slot of
\* its own.
Plans(l) ==
  LET new == {e \in Experts : <<l, e>> \in missed /\ e \notin Mapped(l)}
  IN  UNION {{p \in [q -> Slots] : /\ \A e \in q : Evictable(l, p[e])
                                   /\ \A d, e \in q : p[d] = p[e] => d = e}
             : q \in SUBSET new}

\* The copy stream's commands of one plan: phase 1 unmaps every victim of
\* every layer, phase 2 copies each record and then maps it.
Unmaps(plans) ==
  [l \in Layers |-> [op |-> "unmap", layer |-> l,
                     experts |-> {holder[l][plans[l][e]] : e \in DOMAIN plans[l]} \ {None}]]

Promotes(plans) == [l \in Layers |-> Promote("promote", l, plans[l], None)]

\* The victims stay mapped while their slots are rewritten.
ScheduleUnmapLate(plans, n) ==
  <<Wait({<<"done", n>>}), Record(<<"U", n>>)>> \o Promotes(plans)
    \o Unmaps(plans) \o <<Record(<<"M", n>>)>>

\* The victims are never unmapped: only the new experts' entries are written.
ScheduleNoUnmap(plans, n) ==
  <<Wait({<<"done", n>>}), Record(<<"U", n>>)>> \o Promotes(plans) \o <<Record(<<"M", n>>)>>

Schedule(plans, n) ==
  <<Wait({<<"done", n>>})>> \o Unmaps(plans) \o <<Record(<<"U", n>>)>>
    \o Promotes(plans) \o <<Record(<<"M", n>>)>>

\* runner_after_step on a clean error word: the miss log is drained, the
\* promotions are planned (host mirror first) and queued behind the step.
AfterLaunch ==
  /\ hook = "after" /\ err = 0
  /\ step' = step + 1 /\ hook' = "before" /\ missed' = {}
  /\ \E plans \in [Layers -> UNION {Plans(l) : l \in Layers}] :
       /\ \A l \in Layers : plans[l] \in Plans(l)
       /\ IF \A l \in Layers : DOMAIN plans[l] = {}
          THEN UNCHANGED <<holder, pinnedLast, main, copy, unmapEvents, mapLast>>
          ELSE /\ holder' = [l \in Layers |-> [s \in Slots |->
                     IF \E e \in DOMAIN plans[l] : plans[l][e] = s
                     THEN CHOOSE e \in DOMAIN plans[l] : plans[l][e] = s
                     ELSE holder[l][s]]]
               /\ pinnedLast' = pinnedLast \cup
                     UNION {{<<l, e>> : e \in DOMAIN plans[l]} : l \in Layers}
               /\ main' = Append(main, Record(<<"done", step'>>))
               /\ copy' = copy \o Schedule(plans, step')
               /\ unmapEvents' = unmapEvents \cup {<<"U", step'>>}
               /\ mapLast' = mapLast \cup {<<"M", step'>>}
  /\ UNCHANGED <<mapPrev, pinnedPrev, restarts, signalled, device, mail, running, expected, serving>>

\* runner_after_step raises on an armed error word: the step failed closed.
FailClosed ==
  /\ hook = "after" /\ err # 0
  /\ step' = step + 1 /\ hook' = "down"
  /\ UNCHANGED <<holder, unmapEvents, mapLast, mapPrev, pinnedLast, pinnedPrev, restarts,
                 main, copy, signalled, device, mail, tier>>

\* stop: joins the dispatcher, which finishes the request it serves.
StopTier ==
  /\ hook \in {"before", "down"} /\ restarts < MaxRestarts
  /\ running /\ serving = <<>>
  /\ running' = FALSE
  /\ UNCHANGED <<host, main, copy, signalled, device, mail, expected, serving, missed>>

\* The restart expects one number too many.
RestartTierAhead ==
  /\ ~running /\ main = <<>> /\ hook \in {"before", "down"}
  /\ hook' = "before" /\ restarts' = restarts + 1
  /\ err' = 0 /\ running' = TRUE
  /\ expected' = [l \in Layers |-> seqDev[l] + 2]
  /\ UNCHANGED <<step, holder, unmapEvents, mapLast, mapPrev, pinnedLast, pinnedPrev,
                 main, copy, signalled, device, req, ack, staging, serving, missed>>

\* clear_error and restart_from_device: reading the counters syncs the stream.
RestartTier ==
  /\ ~running /\ main = <<>> /\ hook \in {"before", "down"}
  /\ hook' = "before" /\ restarts' = restarts + 1
  /\ err' = 0 /\ running' = TRUE
  /\ expected' = [l \in Layers |-> seqDev[l] + 1]
  /\ UNCHANGED <<step, holder, unmapEvents, mapLast, mapPrev, pinnedLast, pinnedPrev,
                 main, copy, signalled, device, req, ack, staging, serving, missed>>

-----------------------------------------------------------------------------
(* The main stream *)

MainDoes(op) == main # <<>> /\ Head(main).op = op
layerOf == Head(main).layer

MainWait ==
  /\ MainDoes("wait") /\ Head(main).evs \subseteq signalled
  /\ main' = Tail(main)
  /\ UNCHANGED <<host, copy, signalled, device, mail, tier>>

MainRecord ==
  /\ MainDoes("record")
  /\ signalled' = signalled \cup {Head(main).ev} /\ main' = Tail(main)
  /\ UNCHANGED <<host, copy, device, mail, tier>>

\* publish_kernel, first part: the router's ids through the slot table, read
\* once per pair.
Remap ==
  /\ MainDoes("remap")
  /\ main' = Tail(main)
  /\ \E r \in Routings :
       /\ ids' = [ids EXCEPT ![layerOf] = r]
       /\ remapped' = [remapped EXCEPT ![layerOf] = [p \in DOMAIN r |-> table[layerOf][r[p]]]]
  /\ rows' = [rows EXCEPT ![layerOf] = <<>>]
  /\ UNCHANGED <<host, copy, signalled, table, bytes, seqDev, cta, mail, tier>>

\* The request's pairs: a sequence of the given rows of a layer.
PairsOf(l, missing) ==
  LET at == SetToSeq(missing)
  IN  [i \in 1 .. Cardinality(missing) |-> [row |-> at[i], expert |-> ids[l][at[i]]]]

\* The table is read again for the compaction.
MissesTableAgain(l) == PairsOf(l, {p \in DOMAIN ids[l] : table[l][ids[l][p]] = None})

\* The pairs publish hands to the CPU: those the GPU will not compute.
Misses(l) == PairsOf(l, {p \in DOMAIN ids[l] : remapped[l][p] = None})

\* publish_kernel, second part: the misses compacted into the request, which
\* is released under the layer's next number.
Publish ==
  /\ MainDoes("publish")
  /\ main' = Tail(main)
  /\ seqDev' = [seqDev EXCEPT ![layerOf] = @ + 1]
  /\ req' = [req EXCEPT ![layerOf] = [seq |-> seqDev'[layerOf], pairs |-> Misses(layerOf)]]
  /\ UNCHANGED <<host, copy, signalled, table, bytes, ids, remapped, rows, cta,
                 ack, staging, err, tier>>

\* The compact kernel: a resident pair reads its slot's weights, a pair that
\* is not resident gets a zero row.
Moe ==
  /\ MainDoes("moe")
  /\ main' = Tail(main)
  /\ rows' = [rows EXCEPT ![layerOf] = [p \in DOMAIN ids[layerOf] |->
                IF remapped[layerOf][p] = None THEN None ELSE bytes[layerOf][remapped[layerOf][p]]]]
  /\ UNCHANGED <<host, copy, signalled, table, bytes, seqDev, ids, remapped, cta, mail, tier>>

\* A CTA is through; the kernel ends with its last one.
CtaEnds(c) ==
  IF \A d \in Ctas \ {c} : cta[d] = "out"
  THEN cta' = [d \in Ctas |-> "new"] /\ main' = Tail(main)
  ELSE cta' = [cta EXCEPT ![c] = "out"] /\ UNCHANGED main

CtaIs(c, at) == MainDoes("inject") /\ cta[c] = at

\* The rows CTA c copies: its share of the request's pairs.
Injected(l, c) ==
  LET mine == {i \in DOMAIN req[l].pairs : i % NCtas = c}
  IN  [p \in DOMAIN rows[l] |->
        IF \E i \in mine : req[l].pairs[i].row = p
        THEN staging[l][CHOOSE i \in mine : req[l].pairs[i].row = p]
        ELSE rows[l][p]]

\* wait_inject_kernel, one CTA that finds the error word clear and starts to
\* spin: it does not look at the word again.
Enter(c) ==
  /\ CtaIs(c, "new") /\ err = 0
  /\ cta' = [cta EXCEPT ![c] = "spin"]
  /\ UNCHANGED <<host, main, copy, signalled, table, bytes, seqDev, ids, remapped, rows, mail, tier>>

\* One that finds it armed.
Skip(c) ==
  /\ CtaIs(c, "new") /\ err # 0
  /\ CtaEnds(c)
  /\ UNCHANGED <<host, copy, signalled, table, bytes, seqDev, ids, remapped, rows, mail, tier>>

\* One that finds its own ack.
Inject(c) ==
  /\ CtaIs(c, "spin") /\ ack[layerOf].seq = seqDev[layerOf]
  /\ IF ack[layerOf].status = 0
     THEN /\ rows' = [rows EXCEPT ![layerOf] = Injected(layerOf, c)]
          /\ UNCHANGED err
     ELSE err' = 16 + ack[layerOf].status /\ UNCHANGED rows
  /\ CtaEnds(c)
  /\ UNCHANGED <<host, copy, signalled, table, bytes, seqDev, ids, remapped, req, ack, staging, tier>>

\* The wait has no bound.
TimeOutNever(c) == FALSE /\ UNCHANGED vars

\* One whose wait expires first.
TimeOut(c) ==
  /\ CtaIs(c, "spin") /\ ack[layerOf].seq # seqDev[layerOf]
  /\ err' = 1
  /\ CtaEnds(c)
  /\ UNCHANGED <<host, copy, signalled, table, bytes, seqDev, ids, remapped, rows, req, ack, staging, tier>>

-----------------------------------------------------------------------------
(* The copy stream *)

CopyDoes(op) == copy # <<>> /\ Head(copy).op = op

CopyWait ==
  /\ CopyDoes("wait") /\ Head(copy).evs \subseteq signalled
  /\ copy' = Tail(copy)
  /\ UNCHANGED <<host, main, signalled, device, mail, tier>>

CopyRecord ==
  /\ CopyDoes("record")
  /\ signalled' = signalled \cup {Head(copy).ev} /\ copy' = Tail(copy)
  /\ UNCHANGED <<host, main, device, mail, tier>>

\* table_write of a layer's victims.
Unmap ==
  /\ CopyDoes("unmap")
  /\ copy' = Tail(copy)
  /\ table' = [table EXCEPT ![Head(copy).layer] =
                 [e \in Experts |-> IF e \in Head(copy).experts THEN None ELSE @[e]]]
  /\ UNCHANGED <<host, main, signalled, bytes, seqDev, ids, remapped, rows, cta, mail, tier>>

\* promote_batch, one expert: its record is copied and repacked into the slot
\* (torn until the repack ends) and its entry is written after that.
Tear ==
  /\ CopyDoes("promote")
  /\ \E e \in DOMAIN Head(copy).plan :
       /\ bytes' = [bytes EXCEPT ![Head(copy).layer][Head(copy).plan[e]] = Torn]
       /\ copy' = <<Promote("fill", Head(copy).layer, Head(copy).plan, e)>> \o Tail(copy)
  /\ UNCHANGED <<host, main, signalled, table, seqDev, ids, remapped, rows, cta, mail, tier>>

Fill ==
  /\ CopyDoes("fill")
  /\ LET c == Head(copy)
     IN  /\ bytes' = [bytes EXCEPT ![c.layer][c.plan[c.expert]] = c.expert]
         /\ copy' = <<Promote("map", c.layer, c.plan, c.expert)>> \o Tail(copy)
  /\ UNCHANGED <<host, main, signalled, table, seqDev, ids, remapped, rows, cta, mail, tier>>

Map ==
  /\ CopyDoes("map")
  /\ LET c == Head(copy)
         left == [e \in DOMAIN c.plan \ {c.expert} |-> c.plan[e]]
     IN  /\ table' = [table EXCEPT ![c.layer][c.expert] = c.plan[c.expert]]
         /\ copy' = <<Promote("promote", c.layer, left, None)>> \o Tail(copy)
  /\ UNCHANGED <<host, main, signalled, bytes, seqDev, ids, remapped, rows, cta, mail, tier>>

\* The layer's last promotion is done.
Promoted ==
  /\ CopyDoes("promote") /\ DOMAIN Head(copy).plan = {}
  /\ copy' = Tail(copy)
  /\ UNCHANGED <<host, main, signalled, device, mail, tier>>

-----------------------------------------------------------------------------
(* The dispatcher *)

\* dispatcher_main finds the number it expects and serve reads the request.
Serve(l) ==
  /\ running /\ serving = <<>> /\ req[l].seq = expected[l]
  /\ serving' = <<l, req[l].pairs>>
  /\ UNCHANGED <<host, main, copy, signalled, device, mail, running, expected, missed>>

\* A later number is left alone.
ResyncNever(l) == FALSE /\ UNCHANGED vars

\* dispatcher_main finds a later number: the GPU went on without it.
Resync(l) ==
  /\ running /\ serving = <<>> /\ req[l].seq > expected[l]
  /\ expected' = [expected EXCEPT ![l] = req[l].seq]
  /\ UNCHANGED <<host, main, copy, signalled, device, mail, running, serving, missed>>

\* serve ends: the rows are staged by pair index, the distinct experts logged
\* and the ack released.  A pair without a record has status 2 and nothing is
\* logged; a request that fails later is logged.  The rows a failed request
\* leaves in staging are undefined (<<>>).
Answer ==
  /\ serving # <<>>
  /\ LET l == serving[1]
         pairs == serving[2]
         wanted == {pairs[i].expert : i \in DOMAIN pairs}
     IN \E status \in IF \E e \in wanted : ~HoldsRecord(e) THEN {2}
                      ELSE {0} \cup IF wanted = {} THEN {} ELSE Faults :
         /\ staging' = [staging EXCEPT ![l] =
                          IF status = 0 THEN [i \in DOMAIN pairs |-> pairs[i].expert] ELSE <<>>]
         /\ missed' = IF status = 2 THEN missed ELSE missed \cup ({l} \X wanted)
         /\ ack' = [ack EXCEPT ![l] = [seq |-> expected[l], status |-> status]]
         /\ expected' = [expected EXCEPT ![l] = @ + 1]
  /\ serving' = <<>>
  /\ UNCHANGED <<host, main, copy, signalled, device, req, err, running>>

-----------------------------------------------------------------------------
\* fill_initial, the mailboxes zeroed and the dispatcher started at 1.
Init ==
  /\ hook = "before" /\ step = 0 /\ restarts = 0
  /\ holder = [l \in Layers |-> Placement]
  /\ unmapEvents = {} /\ mapLast = {} /\ mapPrev = {}
  /\ pinnedLast = {} /\ pinnedPrev = {}
  /\ main = <<>> /\ copy = <<>> /\ signalled = {}
  /\ table = [l \in Layers |-> [e \in Experts |->
               IF e \in Residents THEN CHOOSE s \in Slots : Placement[s] = e ELSE None]]
  /\ bytes = [l \in Layers |-> Placement]
  /\ seqDev = [l \in Layers |-> 0]
  /\ ids = [l \in Layers |-> <<>>] /\ remapped = ids /\ rows = ids
  /\ cta = [c \in Ctas |-> "new"]
  /\ req = [l \in Layers |-> [seq |-> 0, pairs |-> <<>>]]
  /\ ack = [l \in Layers |-> [seq |-> 0, status |-> 0]]
  /\ staging = [l \in Layers |-> <<>>] /\ err = 0
  /\ running = TRUE /\ expected = [l \in Layers |-> 1] /\ serving = <<>> /\ missed = {}

Host == BeforeLaunch \/ Launch \/ AfterLaunch \/ FailClosed \/ StopTier \/ RestartTier
MainStream ==
  \/ MainWait \/ MainRecord \/ Remap \/ Publish \/ Moe
  \/ \E c \in Ctas : Enter(c) \/ Skip(c) \/ Inject(c) \/ TimeOut(c)
CopyStream == CopyWait \/ CopyRecord \/ Unmap \/ Tear \/ Fill \/ Map \/ Promoted
Dispatcher == Answer \/ \E l \in Layers : Serve(l) \/ Resync(l)

Next == Host \/ MainStream \/ CopyStream \/ Dispatcher
Spec == Init /\ [][Next]_vars

\* A stream runs its next command once it can, the wait kernel's bound
\* expires, and the dispatcher thread polls every layer in turn.
Fairness ==
  /\ WF_vars(MainStream) /\ WF_vars(CopyStream)
  /\ WF_vars(Answer) /\ \A l \in Layers : WF_vars(Serve(l) \/ Resync(l))
FairSpec == Spec /\ Fairness

-----------------------------------------------------------------------------
(* Properties *)

\* Every variable keeps the type its declaration gives it; an ack is never
\* ahead of the requests, nor the dispatcher of the next one, even after a
\* restart from the device's counters.
TypeOK ==
  /\ hook \in {"before", "launch", "after", "down"}
  /\ step \in 0 .. MaxSteps /\ restarts \in 0 .. MaxRestarts
  /\ holder \in [Layers -> [Slots -> Experts \cup {None}]]
  /\ unmapEvents \cup mapLast \cup mapPrev \cup signalled \subseteq Events
  /\ pinnedLast \cup pinnedPrev \cup missed \subseteq Layers \X Experts
  /\ table \in [Layers -> [Experts -> Slots \cup {None}]]
  /\ bytes \in [Layers -> [Slots -> Experts \cup {None, Torn}]]
  /\ copy \in Seq(CopyCommand(Experts))
  /\ \A l \in Layers :
       /\ ids[l] \in Routings \cup {<<>>} /\ DOMAIN remapped[l] = DOMAIN ids[l]
       /\ req[l].seq \in 0 .. MaxSteps /\ req[l].pairs \in Seq(Pair)
       /\ seqDev[l] = req[l].seq /\ ack[l].seq <= seqDev[l]
       /\ expected[l] \in 1 .. seqDev[l] + 1
       /\ staging[l] \in Seq(Experts)
  /\ cta \in [Ctas -> {"new", "spin", "out"}] /\ running \in BOOLEAN
  /\ serving # <<>> => running

-----------------------------------------------------------------------------
\* A layer's wait ends with the error word armed or with every routed pair's
\* row computed by that pair's own expert, on the GPU or on the CPU: no pair
\* is left to a zero row, to another expert's weights, or to another
\* request's rows (docs/moet-hybrid.md: "never a silent zero row").
NoSilentRow ==
  [][MainDoes("inject") /\ main' = Tail(main) /\ err' = 0
       => rows'[layerOf] = ids[layerOf]]_vars

\* A mapped expert's slot holds that expert's whole bytes, although the slots
\* are rewritten while steps run.
MappedIsWhole ==
  \A l \in Layers, e \in Experts : table[l][e] # None => bytes[l][table[l][e]] = e

\* When the copy stream is drained the slot table is the host's mirror, as
\* _debug_check_promotions compares them: plans made ahead of the stream, on
\* slots whose earlier promotion is still queued, come out right.
MirrorAgrees ==
  copy = <<>> =>
    \A l \in Layers, e \in Experts :
      IF e \in Mapped(l) THEN table[l][e] # None /\ holder[l][table[l][e]] = e
                         ELSE table[l][e] = None

\* What the GPU reads through the slot table is what the host planned for it.
TableSound == MappedIsWhole /\ MirrorAgrees

\* A record stays pinned until the promotion that reads it is done.
PinsOutliveCopies ==
  \A i \in DOMAIN copy :
    copy[i].op \in {"promote", "fill"} =>
      {copy[i].layer} \X DOMAIN copy[i].plan \subseteq pinnedLast \cup pinnedPrev

\* The placement never leaves the CPU a pair it has no record for.
NoMissingRecord == \A l \in Layers : ack[l].status # 2

\* A running dispatcher answers the request it has yet to serve or is given a
\* later one, even when the GPU went on without it or it was restarted: it
\* does not wait for a number that has passed.
CatchesUp ==
  \A l \in Layers : \A k \in 1 .. MaxSteps :
    (req[l].seq = k /\ running /\ expected[l] <= k) ~> (ack[l].seq >= k \/ req[l].seq > k \/ ~running)

\* The GPU never hangs in a step, whatever becomes of the dispatcher.
StepsEnd == []<>(main = <<>>)

=============================================================================
