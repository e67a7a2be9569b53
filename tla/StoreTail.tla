----------------------------- MODULE StoreTail -----------------------------
(***************************************************************************)
(* The store tail of the CPU expert tier (tools/dsv41_5090/cpu_tier):      *)
(* N expert records per layer stay in a pinned host arena as an LRU, every *)
(* other record is cold and read from the store file into a spare slot     *)
(* when a decode step misses it, when a promotion needs it, or (into an    *)
(* arena of its own) when a prefill round streams it.                      *)
(*                                                                         *)
(* Four parties share the arena under one mutex (Tail.mu):                 *)
(*   the dispatcher thread - serves one request at a time: pins resident   *)
(*       records, reads cold ones through io_uring, runs the CPU kernel on *)
(*       the record pointers it resolved (serve, cpu_tier.cpp);            *)
(*   the engine thread     - pins records for promotions and for prefill   *)
(*       rounds, and releases the pins of earlier steps (the runner hooks, *)
(*       placement_manager.py);                                            *)
(*   the kernel's io_uring - completes the reads, in any order;            *)
(*   the GPU               - runs the copies the engine scheduled, later.  *)
(* An action is one critical section of the code, or one step of a thread  *)
(* between two of them.  What a slot's bytes are is the record they hold   *)
(* (content), or Torn while a read is writing them.                        *)
(***************************************************************************)
EXTENDS Integers, FiniteSets, Sequences, FiniteSetsExt, Functions

CONSTANTS
  Layers,        \* the tier's layers
  Experts,       \* expert ids, numbers: a request is grouped in id order
  Slots,         \* the arena's slots (n_slots)
  PerLayer,      \* N: resident records per layer
  Entries,       \* io_uring entries (2 * qd)
  InStore,       \* <<layer, expert>> whose record is in the store file (cold[e] = 1)
  MaxPairs,      \* bound: distinct experts of one request
  MaxPromotions, \* promotions per layer and step (0: a static placement)
  PrefillSets,   \* scratch sets of the prefill streaming: none, one, or two (overlap)
  MaxAhead,      \* bound: decode steps launched and not finished
  Faults,        \* the faults this instance exposes the code to
  NoSlot, NoRec, Torn

ASSUME PerLayerAssumption == PerLayer \in Nat \ {0}
ASSUME SlotsAssumption    == IsFiniteSet(Slots)
ASSUME ExpertsAssumption  == Experts \subseteq Nat /\ IsFiniteSet(Experts)
ASSUME InStoreAssumption  == InStore \subseteq Layers \X Experts
ASSUME NoSlotAssumption   == NoSlot \notin Slots
ASSUME NoRecAssumption    == /\ NoRec \notin Layers \X Experts /\ Torn \notin Layers \X Experts
                             /\ NoRec \notin [layer : Layers, experts : SUBSET Experts]
ASSUME BoundsAssumption   == /\ Entries \in Nat /\ MaxPairs \in Nat
                             /\ MaxPromotions \in Nat /\ MaxAhead \in Nat
ASSUME FaultsAssumption   ==
  Faults \subseteq {"short", "kernel", "pread", "submit", "partial"}

Record == Layers \X Experts

VARIABLES
  \* the arena, under Tail.mu
  slotOf,    \* Layer.slot_of / Layer.records: layer -> expert -> slot
  holds,     \* Slot.layer, Slot.expert: the record a resident slot holds
  older,     \* the LRU lists: <<s, t>> when s was served before t, same layer
  pins,      \* Slot.pins
  free,      \* Tail.free_slots
  content,   \* the bytes of each slot
  io,        \* the ring: the reads queued, in flight or completed and not reaped
  \* the dispatcher, serve's locals
  dpc,       \* where serve is
  layer,     \* the request's layer
  asked,     \* eid: the distinct experts resolved so far
  cold,      \* cold_idx: the experts to read, in order
  tgt,       \* slot_of_cold: the slots of the reads issued so far
  landed,    \* how many of them landed
  pinned,    \* the slots this request pins
  reads,     \* recs: <<expert, slot>> the next kernel call reads
  status,
  \* the engine thread
  epc,       \* where the runner hooks are
  acqLast, acqPrev,  \* PlacementManager.acquired_last / acquired_prev
  copies,    \* the copies queued on the GPU that read the arena, and for whom
  acquiring, \* record_acquire's locals while it reads a cold record
  tailLast,  \* set -> the prefill round it staged last
  missLog, todo,     \* the miss log not yet drained; the misses plan() works on
  backlog,   \* decode steps launched and not finished on the GPU
  err        \* the engine's error word is set

tailVars == <<slotOf, holds, older, pins, free, content>>
reqVars  == <<layer, asked, cold, tgt, landed>>
dispVars == <<dpc, reqVars, pinned, reads, status>>
engVars  == <<epc, acqLast, acqPrev, copies, acquiring, tailLast, todo>>
stepVars == <<missLog, backlog, err>>
vars     == <<tailVars, io, dispVars, engVars, stepVars>>

-----------------------------------------------------------------------------
(* The LRU. *)

Residents(h, l) == {s \in Slots : h[s] # NoRec /\ h[s][1] = l}
\* mutant: the trim forgets the pins
UnpinnedAny(h, p, l) == Residents(h, l)

Unpinned(h, p, l) == {s \in Residents(h, l) : p[s] = 0}

\* lru_trim: while the layer holds more than N, its least recently served
\* unpinned slot leaves; the loop stops early when every slot is pinned.  The
\* sets of slots the whole loop may evict (there is exactly one).
VictimSets(h, o, p, l) ==
  {V \in SUBSET Unpinned(h, p, l) :
     /\ \A v \in V, u \in Unpinned(h, p, l) \ V : <<v, u>> \in o
     /\ \/ Cardinality(Residents(h, l) \ V) <= PerLayer
        \/ V = Unpinned(h, p, l)
     /\ V # {} => Cardinality(Residents(h, l) \ V) >= PerLayer}

\* lru_unlink + lru_push_tail of the slots of S, in the order of their experts
MoveToTail(o, l, S) ==
  {x \in o : x[1] \notin S /\ x[2] \notin S}
    \cup ((Residents(holds, l) \ S) \X S)
    \cup {x \in S \X S : holds[x[1]][2] < holds[x[2]][2]}

\* the pins of the slots of S drop (never below zero)
Unpin(S) == [s \in Slots |-> IF s \in S /\ pins[s] > 0 THEN pins[s] - 1 ELSE pins[s]]

\* mutant: the evicted record keeps its entry in the pointer table
EvictLeavesTable(l, V, h, so, o) ==
  /\ holds'  = [s \in Slots |-> IF s \in V THEN NoRec ELSE h[s]]
  /\ slotOf' = so
  /\ older'  = {x \in o : x[1] \notin V /\ x[2] \notin V}

Evict(l, V, h, so, o) ==
  /\ holds'  = [s \in Slots |-> IF s \in V THEN NoRec ELSE h[s]]
  /\ slotOf' = [so EXCEPT ![l] = [e \in Experts |-> IF so[l][e] \in V THEN NoSlot ELSE so[l][e]]]
  /\ older'  = {x \in o : x[1] \notin V /\ x[2] \notin V}

\* mutant: the caller that drops pins does not trim again
UnpinOnly(l, S) == pins' = Unpin(S) /\ UNCHANGED <<slotOf, holds, older, free>>

\* unpin the slots of S, then trim layer l
UnpinTrim(l, S) ==
  /\ pins' = Unpin(S)
  /\ \E V \in VictimSets(holds, older, Unpin(S), l) :
       /\ Evict(l, V, holds, slotOf, older)
       /\ free' = free \cup V

\* the two outcomes of an insertion: s is not needed, or becomes resident
KeepFirst(l, e, s) ==
  /\ free' = free \cup {s}
  /\ pins' = [pins EXCEPT ![slotOf[l][e]] = @ + 1]
  /\ UNCHANGED <<slotOf, holds, older>>
BecomeResident(l, e, s) ==
  LET h  == [holds EXCEPT ![s] = <<l, e>>]
      so == [slotOf EXCEPT ![l] = [@ EXCEPT ![e] = s]]
      o  == older \cup (Residents(holds, l) \X {s})
      p  == [pins EXCEPT ![s] = 1]
  IN  /\ pins' = p
      /\ \E V \in VictimSets(h, o, p, l) :
           /\ Evict(l, V, h, so, o)
           /\ free' = free \cup V

\* mutants: the slot of the second copy is lost; the second copy replaces the first
InsertLosesSlot(l, e, s) ==
  \/ slotOf[l][e] # NoSlot /\ free' = free /\ pins' = [pins EXCEPT ![slotOf[l][e]] = @ + 1]
     /\ UNCHANGED <<slotOf, holds, older>>
  \/ slotOf[l][e] = NoSlot /\ BecomeResident(l, e, s)
InsertAnyway(l, e, s) == BecomeResident(l, e, s)

\* lru_insert of slot s (not free, holding no record) + the caller's pin: a
\* record that became resident meanwhile keeps its first copy; otherwise s
\* becomes the layer's most recently served slot, and the layer is trimmed
InsertAndPin(l, e, s) ==
  \/ slotOf[l][e] # NoSlot /\ KeepFirst(l, e, s)
  \/ slotOf[l][e] = NoSlot /\ BecomeResident(l, e, s)

\* the slot that holds the record once InsertAndPin(l, e, s) is done
Inserted(l, e, s) == IF slotOf[l][e] # NoSlot THEN slotOf[l][e] ELSE s

-----------------------------------------------------------------------------
(* The ring. *)

Queued     == {x \in io : x.st = "queued"}
InFlight   == io \ Queued                       \* submitted and not reaped
Completed  == {x \in io : x.st \in {"ok", "bad"}}
Issued     == Len(tgt)

At(x, st) == [ud |-> x.ud, rec |-> x.rec, slot |-> x.slot, st |-> st]

\* issue_some goes on while it can; the reads it queues, in order, f their slots
CanIssue == Issued < Len(cold) /\ free # {} /\ Cardinality(io) < Entries
IssueCounts ==
  {n \in 0 .. (Len(cold) - Issued) :
     /\ n <= Cardinality(free) /\ n <= Entries - Cardinality(io)
     /\ n \in {Len(cold) - Issued, Cardinality(free), Entries - Cardinality(io)}}
NewReads(f) ==
  {[ud |-> Issued + i, rec |-> <<layer, cold[Issued + i]>>, slot |-> f[i], st |-> "queued"] :
     i \in DOMAIN f}
IssueChoices == UNION {Injection(1 .. n, free) : n \in IssueCounts}

\* Ring::submit of the reads in q: all of them, or with the faults of the
\* system call, some of them or none (an error: the entries stay queued)
SubmitResults(q) ==
  {q} \cup (IF "partial" \in Faults THEN {a \in SUBSET q : a # {}} ELSE {})
      \cup (IF "submit" \in Faults THEN {{}} ELSE {})

\* issue_some + submit: the dispatcher goes on at ok, or at failed with status 5
IssueAndSubmit(ok, failed) ==
  \E f \in IssueChoices :
    LET q == Queued \cup NewReads(f) IN
    \E sent \in SubmitResults(q) :
      /\ free' = free \ {f[i] : i \in DOMAIN f}
      /\ tgt' = tgt \o f
      /\ io' = (InFlight \cup (q \ sent)) \cup {At(x, "flight") : x \in sent}
      /\ content' = [s \in Slots |-> IF \E x \in sent : x.slot = s THEN Torn ELSE content[s]]
      /\ IF q # {} /\ sent = {}
           THEN status' = 5 /\ dpc' = failed
           ELSE status' = status /\ dpc' = ok
      /\ UNCHANGED <<slotOf, holds, older, pins>>

\* the kernel completes a read: its bytes are in the slot, or it came up short
IoComplete ==
  \E x \in io :
    /\ x.st = "flight"
    /\ \/ /\ io' = (io \ {x}) \cup {At(x, "ok")}
          /\ content' = [content EXCEPT ![x.slot] = x.rec]
       \/ /\ "short" \in Faults
          /\ io' = (io \ {x}) \cup {At(x, "bad")}
          /\ UNCHANGED content
    /\ UNCHANGED <<slotOf, holds, older, pins, free, dispVars, engVars, stepVars>>

-----------------------------------------------------------------------------
(* The dispatcher: serve, one request at a time.                           *)

ResidentIn(l, E)  == {e \in E : slotOf[l][e] # NoSlot}
AbsentIn(l, E)    == {e \in E : slotOf[l][e] = NoSlot /\ <<l, e>> \notin InStore}
\* the experts of E the code looks at: it stops at the first absent one
Until(E, A)       == IF A = {} THEN E ELSE {e \in E : e < Min(A)}

\* the sequence of the experts of S, smallest first (as a set of one)
InOrder(S) ==
  {q \in [1 .. Cardinality(S) -> S] : \A i, j \in DOMAIN q : i < j => q[i] < q[j]}

\* a request (distinct experts E of layer l) is resolved in one critical
\* section: residents pinned and moved to the list's tail, the rest cold
Resolve(l, E) ==
  LET A  == AbsentIn(l, E)
      F  == Until(E, A)
      Rs == ResidentIn(l, F)
      S  == {slotOf[l][e] : e \in Rs}
  IN
  /\ dpc = "idle" /\ backlog > 0
  /\ pins' = [s \in Slots |-> IF s \in S THEN pins[s] + 1 ELSE pins[s]]
  /\ older' = MoveToTail(older, l, S)
  /\ layer' = l /\ asked' = F /\ pinned' = S
  /\ cold' \in InOrder(F \ Rs)
  /\ reads' = {<<e, slotOf[l][e]>> : e \in Rs}
  /\ tgt' = <<>> /\ landed' = 0
  /\ status' = IF A = {} THEN 0 ELSE 2
  /\ dpc' = IF A # {} THEN "finish" ELSE IF F = Rs THEN "forward" ELSE "issue"
  /\ UNCHANGED <<slotOf, holds, free, content, io, engVars, stepVars>>

\* the outcome of a kernel call
Compute == status' \in {status} \cup (IF "kernel" \in Faults THEN {4} ELSE {})

\* nothing cold: one kernel call over every record
Forward ==
  /\ dpc = "forward"
  /\ Compute
  /\ reads' = {} /\ dpc' = "finish"
  /\ UNCHANGED <<tailVars, io, reqVars, pinned, engVars, stepVars>>

\* the first reads, before the residents are computed
IssueFirst ==
  /\ dpc = "issue"
  /\ IssueAndSubmit("resident", "resident")
  /\ UNCHANGED <<layer, asked, cold, landed, pinned, reads, engVars, stepVars>>

\* the residents' kernel call ends; their pins drop, the layer is trimmed
ResidentDone ==
  /\ dpc = "resident"
  /\ IF status = 0 /\ reads # {} THEN Compute ELSE UNCHANGED status
  /\ UnpinTrim(layer, pinned)
  /\ pinned' = {} /\ reads' = {} /\ dpc' = "loop"
  /\ UNCHANGED <<content, io, reqVars, engVars, stepVars>>

\* mutant: a failed request leaves without waiting for its reads
LoopExitNoDrain ==
  /\ dpc = "loop" /\ (status # 0 \/ landed = Len(cold)) /\ dpc' = "finish"
  /\ UNCHANGED <<tailVars, io, reqVars, pinned, reads, status, engVars, stepVars>>

\* the landing loop: over, or...
LoopExit ==
  /\ dpc = "loop"
  /\ \/ status # 0 /\ dpc' = "drain"
     \/ status = 0 /\ landed = Len(cold) /\ dpc' = "finish"
  /\ UNCHANGED <<tailVars, io, reqVars, pinned, reads, status, engVars, stepVars>>

Landing == dpc = "loop" /\ status = 0 /\ landed < Len(cold)

\* nothing in flight: issue what can be issued.  (When nothing can, the code
\* spins here: the action is disabled until a slot comes back.)
Reissue ==
  /\ Landing /\ InFlight = {} /\ Issued < Len(cold)
  /\ CanIssue \/ Queued # {}
  /\ IssueAndSubmit("loop", "drain")
  /\ UNCHANGED <<layer, asked, cold, landed, pinned, reads, engVars, stepVars>>

\* ring.wait(1) returns
Wait ==
  /\ Landing /\ Completed # {}
  /\ dpc' = "reap"
  /\ UNCHANGED <<tailVars, io, reqVars, pinned, reads, status, engVars, stepVars>>

\* one completion: a bad read fails the request and gives its slot back, a
\* good one is inserted, pinned, and computed with the batch.  (An entry an
\* earlier request left queued may name an index this one never issued: the
\* code reads memory it did not write, and the model stops.)
Reap ==
  /\ dpc = "reap"
  /\ \E x \in Completed :
       /\ x.ud \in DOMAIN tgt
       /\ io' = io \ {x}
       /\ LET s == tgt[x.ud]
              e == cold[x.ud]
          IN  \/ /\ x.st = "bad"
                 /\ status' = 5
                 /\ free' = free \cup {s}
                 /\ UNCHANGED <<slotOf, holds, older, pins, pinned, reads, landed>>
              \/ /\ x.st = "ok"
                 /\ InsertAndPin(layer, e, s)
                 /\ pinned' = pinned \cup {Inserted(layer, e, s)}
                 /\ reads' = reads \cup {<<e, Inserted(layer, e, s)>>}
                 /\ landed' = landed + 1
                 /\ UNCHANGED status
  /\ UNCHANGED <<content, dpc, layer, asked, cold, tgt, engVars, stepVars>>

\* the completion queue is empty: the next reads, whatever the status
ReapDone ==
  /\ dpc = "reap" /\ Completed = {}
  /\ \/ /\ Issued < Len(cold)
        /\ IssueAndSubmit("batch", "drain")
     \/ /\ Issued = Len(cold)
        /\ dpc' = "batch"
        /\ UNCHANGED <<tailVars, io, tgt, status>>
  /\ UNCHANGED <<layer, asked, cold, landed, pinned, reads, engVars, stepVars>>

\* the landed records are computed (unless the request failed) and unpinned
Batch ==
  /\ dpc = "batch"
  /\ IF status = 0 /\ reads # {} THEN Compute ELSE UNCHANGED status
  /\ IF pinned # {} THEN UnpinTrim(layer, pinned)
                    ELSE UNCHANGED <<slotOf, holds, older, pins, free>>
  /\ pinned' = {} /\ reads' = {} /\ dpc' = "loop"
  /\ UNCHANGED <<content, io, reqVars, engVars, stepVars>>

\* mutant: the reads are waited for, their slots not given back
DrainKeepsSlots ==
  /\ dpc = "drain"
  /\ \/ \E x \in Completed : io' = io \ {x} /\ UNCHANGED dpc
     \/ InFlight = {} /\ dpc' = "finish" /\ UNCHANGED io
  /\ UNCHANGED <<tailVars, reqVars, pinned, reads, status, engVars, stepVars>>

\* a failed request waits for its reads and gives their slots back
Drain ==
  /\ dpc = "drain"
  /\ \/ \E x \in Completed :
          /\ x.ud \in DOMAIN tgt
          /\ io' = io \ {x} /\ free' = free \cup {tgt[x.ud]}
          /\ UNCHANGED dpc
     \/ InFlight = {} /\ dpc' = "finish" /\ UNCHANGED <<io, free>>
  /\ UNCHANGED <<slotOf, holds, older, pins, content, reqVars, pinned, reads,
                 status, engVars, stepVars>>

\* the miss log, the ack (whose status fails the step), and the last pins
Answer ==
  /\ missLog' = missLog \cup (IF status = 2 THEN {} ELSE {layer} \X asked)
  /\ err' = (err \/ status # 0)
  /\ asked' = {} /\ cold' = <<>> /\ landed' = 0
  /\ pinned' = {} /\ reads' = {} /\ status' = 0 /\ dpc' = "idle"
  /\ UNCHANGED <<content, io, layer, engVars, backlog>>
LastPins ==
  IF pinned # {} THEN UnpinTrim(layer, pinned)
                 ELSE UNCHANGED <<slotOf, holds, older, pins, free>>
\* mutants: a failed request keeps its pins; slot_of_cold is not cleared
FinishKeepsPins ==
  /\ dpc = "finish" /\ Answer /\ tgt' = <<>>
  /\ IF status = 0 THEN LastPins ELSE UNCHANGED <<slotOf, holds, older, pins, free>>
FinishKeepsReads == dpc = "finish" /\ LastPins /\ Answer /\ UNCHANGED tgt

Finish == dpc = "finish" /\ LastPins /\ Answer /\ tgt' = <<>>

Dispatcher ==
  \/ \E l \in Layers, E \in SUBSET Experts :
       E # {} /\ Cardinality(E) <= MaxPairs /\ Resolve(l, E)
  \/ Forward \/ IssueFirst \/ ResidentDone \/ LoopExit \/ Reissue \/ Wait
  \/ Reap \/ ReapDone \/ Batch \/ Drain \/ Finish

-----------------------------------------------------------------------------
(* The engine thread: the hooks around a model step.                       *)

SlotsOf(l, E) == {slotOf[l][e] : e \in ResidentIn(l, E)}

\* the copies queued by one of: a scratch set, this step's promotions ("last"),
\* the step's before ("prev"); all done when the owner's event is
CopiesOf(by) == {c \in copies : c.by = by}
NewCopies(by, l, E) == {[by |-> by, rec |-> <<l, e>>, slot |-> slotOf[l][e]] : e \in E}

\* mutant: the round's pins drop before its copies are done
ReleaseRoundEarly(set) ==
  /\ epc \in {"release", "prefill"}
  /\ tailLast[set] # NoRec
  /\ UnpinTrim(tailLast[set].layer, SlotsOf(tailLast[set].layer, tailLast[set].experts))
  /\ tailLast' = [tailLast EXCEPT ![set] = NoRec]
  /\ UNCHANGED <<content, io, dispVars, epc, acqLast, acqPrev, copies, acquiring, todo, stepVars>>

\* cpu_tier_prefill_release of the round the set staged last, once its copies
\* were read (free_event): whatever slots hold its experts now lose a pin
ReleaseRound(set) ==
  /\ epc \in {"release", "prefill"}
  /\ tailLast[set] # NoRec /\ CopiesOf(set) = {}
  /\ UnpinTrim(tailLast[set].layer, SlotsOf(tailLast[set].layer, tailLast[set].experts))
  /\ tailLast' = [tailLast EXCEPT ![set] = NoRec]
  /\ UNCHANGED <<content, io, dispVars, epc, acqLast, acqPrev, copies, acquiring, todo, stepVars>>

NoRounds == \A set \in PrefillSets : tailLast[set] = NoRec

\* mutant: a promotion's pin drops before its copy is done
ReleaseRecordEarly(r) ==
  /\ epc = "release" /\ NoRounds /\ r \in acqPrev
  /\ UnpinTrim(r[1], SlotsOf(r[1], {r[2]}))
  /\ acqPrev' = acqPrev \ {r}
  /\ UNCHANGED <<content, io, dispVars, epc, acqLast, copies, acquiring, tailLast, todo, stepVars>>

\* before_launch: the records acquired two steps ago are released by name, one
\* at a time, when their M event is done
ReleaseRecord(r) ==
  /\ epc = "release" /\ NoRounds
  /\ r \in acqPrev /\ CopiesOf("prev") = {}
  /\ UnpinTrim(r[1], SlotsOf(r[1], {r[2]}))
  /\ acqPrev' = acqPrev \ {r}
  /\ UNCHANGED <<content, io, dispVars, epc, acqLast, copies, acquiring, tailLast, todo, stepVars>>

Aging ==
  /\ acqPrev' = acqLast /\ acqLast' = {}
  /\ copies' = {IF c.by = "last" THEN [by |-> "prev", rec |-> c.rec, slot |-> c.slot] ELSE c : c \in copies}
  /\ epc' = "launch"
  /\ UNCHANGED <<tailVars, io, dispVars, acquiring, tailLast, todo, stepVars>>
BeforeLaunchEnd == epc = "release" /\ NoRounds /\ acqPrev = {} /\ Aging

\* the model step: a decode step is queued on the GPU behind the earlier ones;
\* a prefill waits for them (its missing experts are read on the host)
LaunchDecode ==
  /\ epc = "launch" /\ backlog < MaxAhead
  /\ backlog' = backlog + 1 /\ epc' = "after"
  /\ UNCHANGED <<tailVars, io, dispVars, acqLast, acqPrev, copies, acquiring, tailLast, todo,
                 missLog, err>>

LaunchPrefill ==
  /\ epc = "launch" /\ PrefillSets # {} /\ backlog = 0
  /\ epc' = "prefill"
  /\ UNCHANGED <<tailVars, io, dispVars, acqLast, acqPrev, copies, acquiring, tailLast, todo,
                 stepVars>>

\* cpu_tier_prefill_fetch of one round: residents pinned where they are, cold
\* records read into the set's own arena; an absent record ends the call with
\* the pins taken so far, a failed read with all of them
Stage(set, l, E) ==
  LET A  == AbsentIn(l, E)
      Rs == ResidentIn(l, Until(E, A))
  IN
  /\ pins' = [s \in Slots |-> IF s \in SlotsOf(l, Rs) THEN pins[s] + 1 ELSE pins[s]]
  /\ \/ /\ A = {}
        /\ tailLast' = [tailLast EXCEPT ![set] = [layer |-> l, experts |-> E]]
        /\ copies' = copies \cup NewCopies(set, l, Rs)
        /\ UNCHANGED epc
     \/ /\ A # {} \/ ("pread" \in Faults /\ Rs # E)
        /\ epc' = "failed"
        /\ UNCHANGED <<tailLast, copies>>
  /\ UNCHANGED <<slotOf, holds, older, free, content, io, dispVars, acqLast, acqPrev,
                 acquiring, todo, stepVars>>
\* mutant: the set is staged again before its last round is released
PrefillRoundOver(set, l, E) == epc = "prefill" /\ Stage(set, l, E)
PrefillRound(set, l, E) == epc = "prefill" /\ tailLast[set] = NoRec /\ Stage(set, l, E)

EndPrefill ==
  /\ epc = "prefill" /\ epc' = "after"
  /\ UNCHANGED <<tailVars, io, dispVars, acqLast, acqPrev, copies, acquiring, tailLast, todo, stepVars>>

\* runner_after_step: a failed tier raises, else the misses so far are drained
AfterStep ==
  /\ epc = "after"
  /\ \/ err /\ epc' = "failed" /\ UNCHANGED <<missLog, todo>>
     \/ ~err /\ epc' = "promote" /\ todo' = missLog /\ missLog' = {}
  /\ UNCHANGED <<tailVars, io, dispVars, acqLast, acqPrev, copies, acquiring, tailLast, backlog, err>>

PromotedIn(l) == {r \in acqLast : r[1] = l}

\* plan(): a miss with a GPU slot to take has its record acquired - a resident
\* one pinned, a cold one read into a spare slot, none spare: skipped.  Which
\* misses are skipped before that (already mapped, no victim) is left open.
Skip(r) ==
  /\ epc = "promote" /\ r \in todo
  /\ todo' = todo \ {r}
  /\ UNCHANGED <<tailVars, io, dispVars, epc, acqLast, acqPrev, copies, acquiring, tailLast, stepVars>>

AcquireResident(r) ==
  /\ epc = "promote" /\ r \in todo
  /\ Cardinality(PromotedIn(r[1])) < MaxPromotions
  /\ slotOf[r[1]][r[2]] # NoSlot
  /\ pins' = [pins EXCEPT ![slotOf[r[1]][r[2]]] = @ + 1]
  /\ acqLast' = acqLast \cup {r}
  /\ copies' = copies \cup NewCopies("last", r[1], {r[2]})
  /\ todo' = todo \ {r}
  /\ UNCHANGED <<slotOf, holds, older, free, content, io, dispVars, epc, acqPrev, acquiring,
                 tailLast, stepVars>>

AcquireCold(r) ==
  /\ epc = "promote" /\ r \in todo
  /\ Cardinality(PromotedIn(r[1])) < MaxPromotions
  /\ slotOf[r[1]][r[2]] = NoSlot /\ r \in InStore
  /\ \E s \in free :
       /\ free' = free \ {s}
       /\ content' = [content EXCEPT ![s] = Torn]
       /\ acquiring' = [layer |-> r[1], expert |-> r[2], slot |-> s]
  /\ todo' = todo \ {r} /\ epc' = "pread"
  /\ UNCHANGED <<slotOf, holds, older, pins, io, dispVars, acqLast, acqPrev, copies, tailLast, stepVars>>

\* the read ends, outside the lock: the record may be resident by now
AcquireRead ==
  /\ epc = "pread"
  /\ LET l == acquiring.layer
         e == acquiring.expert
         s == acquiring.slot
     IN  \/ /\ content' = [content EXCEPT ![s] = <<l, e>>]
            /\ InsertAndPin(l, e, s)
            /\ acqLast' = acqLast \cup {<<l, e>>}
            /\ copies' = copies \cup {[by |-> "last", rec |-> <<l, e>>, slot |-> Inserted(l, e, s)]}
         \/ /\ "pread" \in Faults
            /\ free' = free \cup {s}
            /\ UNCHANGED <<slotOf, holds, older, pins, content, acqLast, copies>>
  /\ acquiring' = NoRec /\ epc' = "promote"
  /\ UNCHANGED <<io, dispVars, acqPrev, tailLast, todo, stepVars>>

\* after_launch has queued the copies; the next step's hooks
EndAfterStep ==
  /\ epc = "promote" /\ todo = {}
  /\ epc' = "release"
  /\ UNCHANGED <<tailVars, io, dispVars, acqLast, acqPrev, copies, acquiring, tailLast, todo, stepVars>>

Engine ==
  \/ \E set \in PrefillSets : ReleaseRound(set)
  \/ (\E r \in acqPrev : ReleaseRecord(r)) \/ BeforeLaunchEnd \/ LaunchDecode \/ LaunchPrefill
  \/ \E set \in PrefillSets, l \in Layers, E \in SUBSET Experts :
       E # {} /\ PrefillRound(set, l, E)
  \/ EndPrefill \/ AfterStep
  \/ \E r \in todo : Skip(r) \/ AcquireResident(r) \/ AcquireCold(r)
  \/ AcquireRead \/ EndAfterStep

-----------------------------------------------------------------------------
(* The GPU: the copies the engine scheduled, at any later time.            *)

\* copies end: those of one promotion, or of a prefill round and its run
CopyDone ==
  /\ \/ \E c \in copies : c.by \in {"last", "prev"} /\ copies' = copies \ {c}
     \/ \E set \in PrefillSets : CopiesOf(set) # {} /\ copies' = copies \ CopiesOf(set)
  /\ UNCHANGED <<tailVars, io, dispVars, epc, acqLast, acqPrev, acquiring, tailLast, todo, stepVars>>

\* a decode step ends: every request it published is answered
StepDone ==
  /\ backlog > 0 /\ dpc = "idle"
  /\ backlog' = backlog - 1
  /\ UNCHANGED <<tailVars, io, dispVars, engVars, missLog, err>>

Gpu == CopyDone \/ StepDone

\* adopt: some warm records, at most N per layer, listed in expert order
Init ==
  /\ \E W \in SUBSET (InStore) :
       /\ \A l \in Layers : Cardinality({e \in Experts : <<l, e>> \in W}) <= PerLayer
       /\ \E f \in Injection(W, Slots) :
            /\ slotOf = [l \in Layers |-> [e \in Experts |-> IF <<l, e>> \in W THEN f[<<l, e>>] ELSE NoSlot]]
            /\ holds = [s \in Slots |-> IF \E r \in W : f[r] = s THEN CHOOSE r \in W : f[r] = s ELSE NoRec]
  /\ older = {x \in Slots \X Slots :
                /\ holds[x[1]] # NoRec /\ holds[x[2]] # NoRec
                /\ holds[x[1]][1] = holds[x[2]][1] /\ holds[x[1]][2] < holds[x[2]][2]}
  /\ pins = [s \in Slots |-> 0]
  /\ free = {s \in Slots : holds[s] = NoRec}
  /\ content = [s \in Slots |-> IF holds[s] = NoRec THEN Torn ELSE holds[s]]
  /\ io = {}
  /\ dpc = "idle" /\ layer \in Layers /\ asked = {} /\ cold = <<>> /\ tgt = <<>>
  /\ landed = 0 /\ pinned = {} /\ reads = {} /\ status = 0
  /\ epc = "release" /\ acqLast = {} /\ acqPrev = {} /\ copies = {} /\ acquiring = NoRec
  /\ tailLast = [set \in PrefillSets |-> NoRec]
  /\ missLog = {} /\ todo = {} /\ backlog = 0 /\ err = FALSE

Next == Dispatcher \/ IoComplete \/ Engine \/ Gpu

Spec == Init /\ [][Next]_vars

-----------------------------------------------------------------------------
(* What must hold.                                                         *)

SlotOrNone   == Slots \cup {NoSlot}
RecordOrNone == Record \cup {NoRec}
Read  == [ud : Nat, rec : Record, slot : Slots, st : {"queued", "flight", "ok", "bad"}]
Round == [layer : Layers, experts : SUBSET Experts]
Copy  == [by : PrefillSets \cup {"last", "prev"}, rec : Record, slot : Slots]
Reading == [layer : Layers, expert : Experts, slot : Slots]
DispatcherAt ==
  {"idle", "forward", "issue", "resident", "loop", "reap", "batch", "drain", "finish"}
EngineAt == {"release", "launch", "prefill", "after", "promote", "pread", "failed"}

TailTypeOK ==
  /\ slotOf \in [Layers -> [Experts -> SlotOrNone]]
  /\ holds \in [Slots -> RecordOrNone]
  /\ older \subseteq Slots \X Slots
  /\ pins \in [Slots -> Nat]
  /\ free \subseteq Slots
  /\ content \in [Slots -> Record \cup {Torn}]
  /\ io \subseteq Read
RequestTypeOK ==
  /\ dpc \in DispatcherAt /\ layer \in Layers /\ asked \subseteq Experts
  /\ cold \in Seq(Experts) /\ tgt \in Seq(Slots) /\ Len(tgt) <= Len(cold) /\ landed \in Nat
  /\ pinned \subseteq Slots /\ reads \subseteq Experts \X Slots /\ status \in {0, 2, 4, 5}
EngineTypeOK ==
  /\ epc \in EngineAt /\ acqLast \subseteq Record /\ acqPrev \subseteq Record
  /\ copies \subseteq Copy
  /\ IF epc = "pread" THEN acquiring \in Reading ELSE acquiring = NoRec
  /\ tailLast \in [PrefillSets -> Round \cup {NoRec}]
  /\ todo \subseteq Record
StepTypeOK == missLog \subseteq Record /\ backlog \in Nat /\ err \in BOOLEAN

\* The type invariant: the arena, the request (which never issues more reads
\* than it has cold experts), the engine's lists.
TypeOK == TailTypeOK /\ RequestTypeOK /\ EngineTypeOK /\ StepTypeOK

\* the slots nobody but their owner may touch: spare, resident, a read's target
\* (as the code will give it back: tgt), record_acquire's own
ResidentSlots == {s \in Slots : holds[s] # NoRec}
ReadSlots     == {x.slot : x \in io}
PrivateSlot   == IF epc = "pread" THEN {acquiring.slot} ELSE {}

\* No slot is lost, and none has two owners: every slot is spare, or resident,
\* or the target of a read of the current request, or being filled by
\* record_acquire.  The code moves slots between these by hand on eleven paths
\* (free_slots push_back / pop_back, lru_insert, lru_trim).
SlotPartition ==
  /\ free \cup ResidentSlots \cup ReadSlots \cup PrivateSlot = Slots
  /\ free \cap ResidentSlots = {} /\ free \cap ReadSlots = {} /\ free \cap PrivateSlot = {}
  /\ ResidentSlots \cap ReadSlots = {} /\ ResidentSlots \cap PrivateSlot = {}
  /\ ReadSlots \cap PrivateSlot = {}

\* The two sides of the pointer table agree (Layer.slot_of and Slot.expert): the
\* record a request or a copy finds by name is the one its slot holds.
TableConsistent ==
  \A l \in Layers, e \in Experts, s \in Slots : slotOf[l][e] = s <=> holds[s] = <<l, e>>

\* The arena's books: one owner for every slot, and tables that say which.
SlotsSound == SlotPartition /\ TableConsistent

\* A layer holds more than N records only while pins keep it from evicting:
\* whoever drops the last pin trims ("the callers that drop pins trim again").
OnlyPinnedOverflow ==
  \A l \in Layers :
    Cardinality(Residents(holds, l)) > PerLayer => Unpinned(holds, pins, l) = {}

\* The kernel reads the record it was asked to read, for as long as it runs.
ComputeReadsRight ==
  dpc \in {"forward", "issue", "resident", "batch"} =>
    \A r \in reads : content[r[2]] = <<layer, r[1]>>

\* A copy finds its record in the slot whenever the GPU runs it: a promotion's
\* two steps later at most, a prefill round's until its event.
CopiesReadRight == \A c \in copies : content[c.slot] = c.rec

\* Whoever was given a slot to read finds its record there until it is done,
\* although both the dispatcher and the engine evict and rewrite slots meanwhile.
ReadsRight == ComputeReadsRight /\ CopiesReadRight

\* who will drop a pin of s: the request, the promotions and the rounds that
\* name the record it holds
Holders(s) ==
  (IF s \in pinned THEN 1 ELSE 0)
    + (IF holds[s] \in acqLast THEN 1 ELSE 0) + (IF holds[s] \in acqPrev THEN 1 ELSE 0)
    + Cardinality({set \in PrefillSets :
                     tailLast[set] # NoRec /\ s \in SlotsOf(tailLast[set].layer, tailLast[set].experts)})

\* Every pin is owned by someone who will drop it, so that no slot stays pinned
\* for ever and none is evicted under its holder (an engine that raised in a
\* prefill leaves its pins).
PinAccounting == epc # "failed" => \A s \in Slots : pins[s] = Holders(s)

\* Between two requests the ring is empty: "no completion of this request leaks
\* into the next one" (cpu_tier.cpp, the fail-closed exit).
RingQuiet == dpc = "idle" => io = {}

\* While system calls accept what they are given: every entry of the ring is a
\* read this request issued, into the slot it will be reaped to, each once;
\* as many were issued as are in the ring or landed, unless the request failed;
\* the ring is empty wherever the request leaves it behind, and only a failed
\* request is drained.
ReadsOwned ==
  /\ Queued = {} /\ IsFiniteSet(io)
  /\ \A x \in io : x.ud \in DOMAIN tgt /\ x.slot = tgt[x.ud]
  /\ \A x, y \in io : x.ud = y.ud \/ x.slot = y.slot => x = y
ReadCount == status = 0 => Cardinality(io) + landed = Len(tgt)
RingIdle  == /\ dpc \in {"idle", "forward", "issue", "finish"} => io = {}
             /\ dpc = "drain" => status # 0
RingInv   == ReadsOwned /\ ReadCount /\ RingIdle

\* A record stays where it is: a resident one never moves - of two copies that
\* land, the first stays and the other's slot goes back ("keeps the first copy"),
\* so that a release by name finds the pinned slot - and while a pin lasts nobody
\* evicts or rewrites its slot.
ResidentStays ==
  [][/\ \A l \in Layers, e \in Experts :
          slotOf[l][e] # NoSlot /\ slotOf'[l][e] # NoSlot => slotOf'[l][e] = slotOf[l][e]
     /\ \A s \in Slots : pins[s] > 0 /\ pins'[s] > 0 =>
          holds'[s] = holds[s] /\ content'[s] = content[s]]_vars

-----------------------------------------------------------------------------
(* Progress.  The dispatcher and the engine are threads of their own, the  *)
(* kernel completes what it accepted, the GPU runs what was queued.        *)

Fairness ==
  /\ WF_vars(Dispatcher) /\ WF_vars(IoComplete) /\ WF_vars(Engine)
  /\ WF_vars(CopyDone) /\ WF_vars(StepDone)

LiveSpec == Spec /\ Fairness

\* Every request the dispatcher takes is answered.
RequestAnswered == (dpc # "idle") ~> (dpc = "idle")

=============================================================================
