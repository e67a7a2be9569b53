---------------------------- MODULE PrefillPipe ----------------------------
(***************************************************************************)
(* The pipelined prefill of sp_pipeline/moet_prefill_pipe.py: a step of    *)
(* more than Rows tokens is cut into two row groups whose forward tails    *)
(* run on two threads of each rank.  One thread runs at a time; they hand  *)
(* the CPU over at the end of every phase.  What they issue goes to three  *)
(* GPU streams: C (compute), N (collectives of a sequence-parallel         *)
(* boundary) and R (replay layers).  Every rank of the tensor-parallel     *)
(* group does the same, and the collectives of the ranks meet in the order *)
(* in which they are issued.                                               *)
(***************************************************************************)
EXTENDS Integers, Sequences, FiniteSets, SequencesExt

CONSTANTS
  Ranks,      \* the ranks of the tensor-parallel group
  Rows,       \* group_rows(): rows of the first group
  SpLayers,   \* number of sequence-parallel layers
  TailLayers, \* number of layers that a replay batch runs on its own rows
  Window,     \* DecoderReplayLayers.window: rows a request keeps in a replay batch
  Cases       \* the steps, switches and faulty ranks to look at (a subset of Case)

Groups == 0..1
Other(g) == 1 - g
Streams == {"C", "N", "R"}

\* The switches read from the environment, and whether both groups are long
\* enough to be sequence parallel.
Setup == [replay : {"serial", "stream"}, tail : {"serial", "barrier", "sync"},
          mixed : {"pipe", "today", "error"}, parallel : BOOLEAN, forced : BOOLEAN]

\* A step: the rows of each request, how many requests (the first ones) decode,
\* the requests that keep all their rows (prompt logprobs), and whether it is an
\* eager, unpadded step of a plain tensor-parallel engine.
Batch == [lens : Seq(Nat \ {0}), decodes : Nat, keeps : SUBSET Nat, plain : BOOLEAN]

\* On the ranks `faulty` a thread may raise, on `hasty` a wait for a turn may time out.
Case == [batch : Batch, setup : Setup, faulty : SUBSET Ranks, hasty : SUBSET Ranks]

ASSUME PipeAssumption ==
  /\ Rows \in Nat \ {0} /\ SpLayers \in Nat \ {0} /\ TailLayers \in Nat \ {0} /\ Window \in Nat
  /\ \A c \in Cases : c \in Case /\ c.batch.decodes <= Len(c.batch.lens)

VARIABLES
  case,     \* the step and the switches, the same for all ranks, and who may fail
  main,     \* the runner thread of a rank: "plan", "threads" (PipeStep.run), "alone"
            \* (run_sequential), "returned", "raised"
  groups,   \* the planned row groups of a rank
  pc,       \* a group's thread: "off", "waiting", "running", "unwinding", "ending",
            \* "leaving" (finished is set, the other group not yet woken), "ended"
  pos,      \* next instruction of a group's forward tail
  wake,     \* wake[g] of PipeStep
  finished, \* finished[g]
  errors,   \* keys of PipeStep.errors
  phases,   \* phases_done of a group
  open,     \* phase_kind of a group, "none" (its "") when no phase is open
  pending,  \* the event a group's compute stream waits for when it resumes
  lastEvent,\* last_phase_event of a group: what was on its stream ({}: none yet)
  kept,     \* forward context and pin a group saved when it handed over
  ctx,      \* _fc._forward_context of a rank
  pin,      \* _MOET_SP_PIN_TOKENS of a rank
  row,      \* the group whose row buffers are swapped in
  ahead,    \* per stream: what the GPU has done before anything issued next on it
  calls,    \* the collectives of a rank in the order it issued them
  early,    \* operations issued before something they read was ordered ahead
  foreign   \* operations issued under another group's context, pin or row buffers

threadVars == <<pc, pos, wake, finished, errors, phases, open, pending, lastEvent, kept>>
globalVars == <<ctx, pin, row>>
gpuVars == <<ahead, calls, early, foreign>>
vars == <<case, main, groups, threadVars, globalVars, gpuVars>>

-----------------------------------------------------------------------------
(* The plan: row groups of a step *)

batch == case.batch
setup == case.setup
\* query_start_loc: the first row of request j (counted from 0), and the end.
Starts(lens) ==
  LET start[j \in 0..Len(lens)] == IF j = 0 THEN 0 ELSE start[j - 1] + lens[j]
  IN  start
QueryStart(j) == Starts(batch.lens)[j]
Tokens == QueryStart(Len(batch.lens))
\* searchsorted(qsl, row, side="right") - 1
RequestAtLeft(x) == Cardinality({j \in 0..Len(batch.lens) : QueryStart(j) < x}) - 1
RequestAt(x) == Cardinality({j \in 0..Len(batch.lens) : QueryStart(j) <= x}) - 1

\* One row group, with the requests it touches, its slot and its first row of a
\* prefilling request.
RowGroup(i, lo, hi) ==
  LET first == RequestAt(lo)
      last  == RequestAt(hi - 1)
      pre   == {j \in first..last : j >= batch.decodes}
      start == IF QueryStart(batch.decodes) > lo THEN QueryStart(batch.decodes) - lo ELSE 0
  IN  [lo |-> lo, hi |-> hi, first |-> first, last |-> last, slot |-> i + 1,
       from |-> IF pre = {} THEN hi - lo ELSE start]

Mixed == batch.decodes > 0
Verdict ==
  IF ~batch.plain \/ Tokens <= Rows THEN "today"
  ELSE IF Mixed /\ setup.mixed = "error" THEN "error"
  ELSE IF Mixed /\ setup.mixed = "today" THEN "today"
  ELSE "groups"

Pipelined == setup.parallel /\ ~setup.forced

\* The rows of request j in group g, and the requests whose earlier rows the
\* replay layers of g leave out.
RowsIn(b, g, j) ==
  LET start == Starts(b.lens)
      span  == IF g = 0 THEN 0..(Rows - 1) ELSE Rows..(start[Len(b.lens)] - 1)
  IN  Cardinality((start[j]..(start[j + 1] - 1)) \cap span)
Trimmed(b, g) == {j \in 0..(Len(b.lens) - 1) : j \notin b.keeps /\ RowsIn(b, g, j) > Window}
\* _prepare_replay_batch, once per group: without a prefilling request to trim the
\* group has no replay batch.
Replays ==
  [b \in {c.batch : c \in Cases} |-> {g \in Groups : \E j \in Trimmed(b, g) : j >= b.decodes}]
HasReplay(g) == g \in Replays[batch]
\* A request with rows in both groups that group 1 does not trim: its rows there
\* read the keys and values of its rows in group 0 in every layer.
Untrimmed ==
  \E j \in 0..(Len(batch.lens) - 1) :
    (\A g \in Groups : RowsIn(batch, g, j) > 0) /\ j \notin Trimmed(batch, 1)
-----------------------------------------------------------------------------
(* A group's forward tail, as the instructions it issues *)

I(do, name, l) == [do |-> do, name |-> name, layer |-> l]
\* A boundary chain (reduce-scatter, mHC, shard GEMMs, all-gather) is one
\* collective; "in" ends before the attention, "out" before the MoE.
SpLayer(l) ==
  <<I("begin", "in", l), I("coll", "in", l), I("end", "in", l), I("comp", "attn", l),
    I("begin", "out", l), I("coll", "out", l), I("end", "out", l), I("comp", "moe", l)>>
\* The pin is set behind the reduce-scatter of the same chain.
WriteKv ==
  LET l == SpLayers + 1
  IN  <<I("begin", "in", l), I("coll", "in", l), I("end", "kv", l), I("comp", "kv", l)>>
ReplayLayer(l) == <<I("yield", "tail", l), I("coll", "tail", l)>>
\* The k instructions of each of n layers, one layer after the other.
Layers(n, k, Of(_)) == [i \in 1..(k * n) |-> Of((i - 1) \div k + 1)[((i - 1) % k) + 1]]
\* With a replay batch: the keys and values of every row, then the kept rows alone.
CutTail ==
  Layers(SpLayers, 8, SpLayer) \o WriteKv
  \o <<I("replay", "none", 0), I("coll", "gather", 0), I("enter", "none", 0)>>
  \o Layers(TailLayers, 2, ReplayLayer)
  \o <<I("coll", "collapse", 0), I("leave", "none", 0), I("rend", "none", 0), I("comp", "norm", 0)>>
\* Without one the remaining layers are sequence parallel, too.
WholeTail ==
  Layers(SpLayers + TailLayers, 8, SpLayer) \o <<I("coll", "collapse", 0), I("comp", "norm", 0)>>
Tail_(g) == IF HasReplay(g) THEN CutTail ELSE WholeTail

Op(g, i) == <<g, i.name, i.layer>>
\* The operation that writes the keys and values of a group's rows at a layer.
KvOp(g, l) ==
  IF l <= SpLayers \/ ~HasReplay(g) THEN <<g, "attn", l>>
  ELSE IF l = SpLayers + 1 THEN <<g, "kv", l>> ELSE <<g, "tail", l - SpLayers>>
\* What an operation reads: the group's own previous operations on other
\* streams, and the keys and values that the earlier rows wrote at its layer.
Own(g, name, l) == {<<g, name, l>>}
Earlier(g, l) == {KvOp(h, l) : h \in 0..(g - 1)}
Reads(g, i) ==
  LET l == i.layer IN
  CASE i.name = "in"     -> IF l = 1 THEN {} ELSE Own(g, "moe", l - 1)
    [] i.name = "attn"   -> Own(g, "in", l) \cup Earlier(g, l)
    [] i.name = "out"    -> Own(g, "attn", l)
    [] i.name = "moe"    -> Own(g, "out", l)
    [] i.name = "kv"     -> Own(g, "in", l) \cup Earlier(g, l)
    [] i.name = "gather" -> Own(g, "kv", SpLayers + 1) \cup Earlier(g, SpLayers + 1)
    [] i.name = "tail" /\ l = 1 -> Own(g, "gather", 0)
    [] i.name = "tail" /\ l # 1 ->
         Own(g, "tail", l - 1) \cup IF Untrimmed THEN Earlier(g, SpLayers + l) ELSE {}
    [] i.name = "collapse" /\ HasReplay(g) -> Own(g, "tail", TailLayers)
    [] i.name = "collapse" /\ ~HasReplay(g) -> Own(g, "moe", SpLayers + TailLayers)
    [] i.name = "norm"   -> Own(g, "collapse", 0)

\* The operations of a group up to the end of the layers that both tails have.
SpOps(g) == {<<g, "attn", l>> : l \in 1..SpLayers} \cup {<<g, "in", SpLayers + 1>>}
-----------------------------------------------------------------------------
None(x) == [r \in Ranks |-> [g \in Groups |-> x]]
\* Contexts: "step", a group's own <<g, "batch">> or its replay batch <<g, "replay">>.
Ctx(g) == <<g, "batch">>
ReplayCtx(g) == <<g, "replay">>

Init ==
  /\ case \in Cases
  /\ main = [r \in Ranks |-> "plan"] /\ groups = [r \in Ranks |-> <<>>]
  /\ pc = None("off") /\ pos = None(1) /\ wake = None(FALSE) /\ finished = None(FALSE)
  /\ errors = [r \in Ranks |-> {}] /\ phases = None(0) /\ open = None("none")
  /\ pending = None({}) /\ lastEvent = None({}) /\ kept = None(<<>>)
  /\ ctx = [r \in Ranks |-> <<"step">>] /\ pin = [r \in Ranks |-> <<>>]
  /\ row = [r \in Ranks |-> 0]
  /\ ahead = [r \in Ranks |-> [s \in Streams |-> {}]] /\ calls = [r \in Ranks |-> <<>>]
  /\ early = [r \in Ranks |-> {}] /\ foreign = [r \in Ranks |-> {}]

\* wake[0].set()
FirstTurnBoth == [g \in Groups |-> Pipelined]
FirstTurn == [g \in Groups |-> Pipelined /\ g = 0]

\* PipeRunner.plan, PipeRunner._build and the start of run_groups.
Plan(r) ==
  /\ main[r] = "plan"
  /\ \/ /\ Verdict = "today" /\ main' = [main EXCEPT ![r] = "returned"]
        /\ UNCHANGED <<groups, threadVars>>
     \/ /\ Verdict = "error" /\ main' = [main EXCEPT ![r] = "raised"]
        /\ UNCHANGED <<groups, threadVars>>
     \/ /\ Verdict = "groups"
        /\ main' = [main EXCEPT ![r] = IF Pipelined THEN "threads" ELSE "alone"]
        /\ groups' = [groups EXCEPT ![r] =
             <<RowGroup(0, 0, Rows), RowGroup(1, Rows, Tokens)>>]
        /\ kept' = [kept EXCEPT ![r] = [g \in Groups |-> [ctx |-> Ctx(g), pin |-> <<>>]]]
        /\ pc' = [pc EXCEPT ![r] = [g \in Groups |-> IF Pipelined THEN "waiting" ELSE "off"]]
        /\ wake' = [wake EXCEPT ![r] = FirstTurn]
        /\ UNCHANGED <<pos, finished, errors, phases, open, pending, lastEvent>>
  /\ UNCHANGED <<case, globalVars, gpuVars>>
-----------------------------------------------------------------------------
(* The hand-off of a rank's two threads *)

\* _resume: context, row buffers, pin and stream of the group, and then the wait
\* for the phase that ended at the hand-over.
ResumeNoContext(r, g) ==
  /\ ctx' = ctx
  /\ pin' = [pin EXCEPT ![r] = kept[r][g].pin]
  /\ row' = [row EXCEPT ![r] = g]
  /\ ahead' = [ahead EXCEPT ![r]["C"] = @ \cup pending[r][g]]
  /\ pending' = [pending EXCEPT ![r][g] = {}]
Resume(r, g) ==
  /\ ctx' = [ctx EXCEPT ![r] = kept[r][g].ctx]
  /\ pin' = [pin EXCEPT ![r] = kept[r][g].pin]
  /\ row' = [row EXCEPT ![r] = g]
  /\ ahead' = [ahead EXCEPT ![r]["C"] = @ \cup pending[r][g]]
  /\ pending' = [pending EXCEPT ![r][g] = {}]

\* _wait_turn returns.
TakeTurn(r, g) ==
  /\ pc[r][g] = "waiting" /\ wake[r][g]
  /\ wake' = [wake EXCEPT ![r][g] = FALSE]
  /\ pc' = [pc EXCEPT ![r][g] = "running"]
  /\ Resume(r, g)
  /\ UNCHANGED <<case, main, groups, pos, finished, errors, phases, open, lastEvent, kept,
                 calls, early, foreign>>

\* _wait_turn gives up after _TURN_TIMEOUT_S and raises.
TurnTimeout(r, g) ==
  /\ r \in case.hasty /\ pc[r][g] = "waiting" /\ ~wake[r][g]
  /\ pc' = [pc EXCEPT ![r][g] = "unwinding"]
  /\ UNCHANGED <<case, main, groups, pos, wake, finished, errors, phases, open, pending,
                 lastEvent, kept, globalVars, gpuVars>>

\* yield_: the thread goes on, because the other group is finished ...
GoOn(r, g, event, myPin) ==
  /\ ahead' = [ahead EXCEPT ![r]["C"] = @ \cup event]
  /\ row' = [row EXCEPT ![r] = g]
  /\ pin' = [pin EXCEPT ![r] = myPin]
  /\ UNCHANGED <<pc, wake, kept, pending, ctx>>

\* ... or saves its state, wakes the other thread and waits for its turn.
GiveTurn(r, g, event, myPin) ==
  /\ kept' = [kept EXCEPT ![r][g] = [ctx |-> ctx[r], pin |-> myPin]]
  /\ pending' = [pending EXCEPT ![r][g] = event]
  /\ wake' = [wake EXCEPT ![r][Other(g)] = TRUE]
  /\ pc' = [pc EXCEPT ![r][g] = "waiting"]
  /\ pin' = [pin EXCEPT ![r] = myPin]
  /\ UNCHANGED <<ahead, row, ctx>>

\* yield_ with the pin the thread has set; afterwards the compute stream waits
\* for event.
HandOverAlways(r, g, event, myPin) == GiveTurn(r, g, event, myPin)
HandOverMaybe(r, g, event, myPin) == GoOn(r, g, event, myPin) \/ GiveTurn(r, g, event, myPin)
HandOver(r, g, event, myPin) ==
  IF finished[r][Other(g)] THEN GoOn(r, g, event, myPin) ELSE GiveTurn(r, g, event, myPin)
-----------------------------------------------------------------------------
(* The instructions of a forward tail *)

At(r, g) == Tail_(g)[pos[r][g]]
Runs(r, g, do) == pc[r][g] = "running" /\ pos[r][g] <= Len(Tail_(g)) /\ At(r, g).do = do
Advance(r, g) == pos' = [pos EXCEPT ![r][g] = @ + 1]
Stream(r, g) == CASE open[r][g] = "none"       -> "C"
                  [] open[r][g] = "comm"   -> "N"
                  [] open[r][g] = "replay" -> "R"

\* Does the thread find its own context, row buffers and pin?
AtHome(r, g) ==
  LET i == At(r, g) IN
  /\ row[r] = g
  /\ ctx[r] = IF i.name = "tail" \/ (i.name = "collapse" /\ HasReplay(g)) THEN ReplayCtx(g) ELSE Ctx(g)
  /\ i.name \in {"in", "out"} => pin[r] = <<g>>

\* Launches an operation on the thread's current stream.
Issue(r, g) ==
  LET i == At(r, g)
      op == Op(g, i)
      s == Stream(r, g)
  IN /\ ahead' = [ahead EXCEPT ![r][s] = @ \cup {op}]
     /\ early' = [early EXCEPT ![r] =
          IF Reads(g, i) \subseteq ahead[r][s] THEN @ ELSE @ \cup {op}]
     /\ foreign' = [foreign EXCEPT ![r] = IF AtHome(r, g) THEN @ ELSE @ \cup {op}]

\* A layer sets the pin at its start and releases it at its end.
Compute(r, g) ==
  /\ Runs(r, g, "comp") /\ Issue(r, g) /\ Advance(r, g)
  /\ pin' = IF At(r, g).name = "moe" THEN [pin EXCEPT ![r] = <<>>] ELSE pin
  /\ UNCHANGED <<case, main, groups, pc, wake, finished, errors, phases, open, pending,
                 lastEvent, kept, ctx, row, calls>>

Collective(r, g) ==
  /\ Runs(r, g, "coll") /\ Issue(r, g) /\ Advance(r, g)
  /\ calls' = [calls EXCEPT ![r] = Append(@, Op(g, At(r, g)))]
  /\ UNCHANGED <<case, main, groups, pc, wake, finished, errors, phases, open, pending,
                 lastEvent, kept, globalVars>>

\* _phase_begin: the phase's stream waits for what the compute stream has so far
\* (mutant: it does not).
OpenPhaseNoWait(r, g, kind, s, upTo) ==
  IF Pipelined
  THEN /\ open' = [open EXCEPT ![r][g] = kind]
       /\ ahead' = [ahead EXCEPT ![r]["C"] = upTo]
  ELSE UNCHANGED <<open, ahead>>
OpenPhase(r, g, kind, s, upTo) ==
  IF Pipelined
  THEN /\ open' = [open EXCEPT ![r][g] = kind]
       /\ ahead' = [ahead EXCEPT ![r][s] = @ \cup upTo, ![r]["C"] = upTo]
  ELSE UNCHANGED <<open, ahead>>

\* phase_begin.  Only the layer's start (and write_kv) sets the pin: the second phase
\* relies on the one it had before the hand-over.
PhaseBegin(r, g) ==
  /\ Runs(r, g, "begin") /\ Advance(r, g)
  /\ OpenPhase(r, g, "comm", "N", ahead[r]["C"])
  /\ pin' = IF At(r, g).name = "in" THEN [pin EXCEPT ![r] = <<g>>] ELSE pin
  /\ UNCHANGED <<case, main, groups, pc, wake, finished, errors, phases, pending, lastEvent,
                 kept, ctx, row, calls, early, foreign>>

\* check_order: group g's phase may only end after that of every earlier group
\* (mutant: one phase later).
InOrderStrict(r, g) == \A h \in 0..(g - 1) : phases[r][h] > phases[r][g] + 1
InOrder(r, g) == \A h \in 0..(g - 1) : phases[r][h] >= phases[r][g] + 1

\* phase_end up to the hand-over; the replay section ends in the same way.
ClosePhase(r, g, myPin) ==
  LET event == ahead[r][Stream(r, g)] IN
  /\ lastEvent' = [lastEvent EXCEPT ![r][g] = IF open[r][g] = "comm" THEN event ELSE @]
  /\ open' = [open EXCEPT ![r][g] = "none"]
  /\ phases' = [phases EXCEPT ![r][g] = @ + 1]
  /\ IF InOrder(r, g)
     THEN HandOver(r, g, event, myPin)
     ELSE /\ pc' = [pc EXCEPT ![r][g] = "unwinding"]
          /\ UNCHANGED <<ahead, wake, kept, pending, globalVars>>

\* write_kv releases the pin before its phase ends.
PhaseEnd(r, g) ==
  /\ Runs(r, g, "end") /\ Advance(r, g)
  /\ LET myPin == IF At(r, g).name = "kv" THEN <<>> ELSE pin[r] IN
     IF Pipelined
     THEN ClosePhase(r, g, myPin)
     ELSE /\ pin' = [pin EXCEPT ![r] = myPin]
          /\ UNCHANGED <<pc, wake, phases, open, pending, lastEvent, kept, ctx, row, ahead>>
  /\ UNCHANGED <<case, main, groups, finished, errors, calls, early, foreign>>

\* _tail_gate: what the compute stream has ahead of the tail.
LaterSkipsOne(g) == {h \in Groups : h > g + 1}
Later(g) == {h \in Groups : h > g}
Gated(g) == Pipelined /\ setup.tail # "serial" /\ Later(g) # {}
AfterGate(r, g) ==
  ahead[r]["C"] \cup IF Gated(g) THEN UNION {lastEvent[r][h] : h \in Later(g)} ELSE {}
\* synchronize() returns when every collective it waits for met those of the peers.
Drained(r, ops) ==
  \A k \in 1..Len(calls[r]) : calls[r][k] \in ops => \A q \in Ranks : Len(calls[q]) >= k

ReplayBegin(r, g) ==
  /\ Runs(r, g, "replay") /\ Advance(r, g)
  /\ (Gated(g) /\ setup.tail = "sync") => Drained(r, AfterGate(r, g))
  /\ IF setup.replay = "stream"
     THEN OpenPhase(r, g, "replay", "R", AfterGate(r, g))
     ELSE /\ ahead' = [ahead EXCEPT ![r]["C"] = AfterGate(r, g)]
          /\ UNCHANGED open
  /\ UNCHANGED <<case, main, groups, pc, wake, finished, errors, phases, pending, lastEvent,
                 kept, globalVars, calls, early, foreign>>

\* The replay layers run under the replay batch's context (override_forward_context).
EnterReplay(r, g) ==
  /\ Runs(r, g, "enter") /\ Advance(r, g)
  /\ ctx' = [ctx EXCEPT ![r] = ReplayCtx(g)]
  /\ UNCHANGED <<case, main, groups, pc, wake, finished, errors, phases, open, pending,
                 lastEvent, kept, pin, row, gpuVars>>

LeaveReplay(r, g) ==
  /\ Runs(r, g, "leave") /\ Advance(r, g)
  /\ ctx' = [ctx EXCEPT ![r] = Ctx(g)]
  /\ UNCHANGED <<case, main, groups, pc, wake, finished, errors, phases, open, pending,
                 lastEvent, kept, pin, row, gpuVars>>

\* yield_point, at the start of a replay layer.
YieldPoint(r, g) ==
  /\ Runs(r, g, "yield") /\ Advance(r, g)
  /\ IF Pipelined /\ setup.replay = "stream"
     THEN HandOver(r, g, {}, <<>>)
     ELSE /\ pin' = [pin EXCEPT ![r] = <<>>]
          /\ UNCHANGED <<pc, wake, pending, kept, ctx, row, ahead>>
  /\ UNCHANGED <<case, main, groups, finished, errors, phases, open, lastEvent, calls, early,
                 foreign>>

ReplayEnd(r, g) ==
  /\ Runs(r, g, "rend") /\ Advance(r, g)
  /\ IF open[r][g] = "replay"
     THEN ClosePhase(r, g, pin[r])
     ELSE UNCHANGED <<pc, wake, phases, open, pending, lastEvent, kept, globalVars, ahead>>
  /\ UNCHANGED <<case, main, groups, finished, errors, calls, early, foreign>>
-----------------------------------------------------------------------------
(* The end of a thread and of the step *)

\* The model's code raises while it issues something.
Raise(r, g) ==
  /\ r \in case.faulty
  /\ Runs(r, g, "comp") \/ Runs(r, g, "coll")
  /\ pc' = [pc EXCEPT ![r][g] = "unwinding"]
  /\ UNCHANGED <<case, main, groups, pos, wake, finished, errors, phases, open, pending,
                 lastEvent, kept, globalVars, gpuVars>>

\* A thread has a finally block to go through; run_sequential has none per group.
Over(r) == IF main[r] = "threads" THEN "ending" ELSE "ended"

\* The exception passes override_forward_context, which puts the group's context
\* back, and is kept for the runner.
Where(do) == CHOOSE k \in 1..Len(CutTail) : CutTail[k].do = do
InReplay(r, g) == HasReplay(g) /\ pos[r][g] > Where("enter") /\ pos[r][g] <= Where("leave")
Unwind(r, g) ==
  /\ pc[r][g] = "unwinding"
  /\ ctx' = IF InReplay(r, g) THEN [ctx EXCEPT ![r] = Ctx(g)] ELSE ctx
  /\ errors' = [errors EXCEPT ![r] = @ \cup {g}]
  /\ pc' = [pc EXCEPT ![r][g] = Over(r)]
  /\ UNCHANGED <<case, main, groups, pos, wake, finished, phases, open, pending, lastEvent,
                 kept, pin, row, gpuVars>>

FinishTail(r, g) ==
  /\ pc[r][g] = "running" /\ pos[r][g] > Len(Tail_(g))
  /\ pc' = [pc EXCEPT ![r][g] = Over(r)]
  /\ UNCHANGED <<case, main, groups, pos, wake, finished, errors, phases, open, pending,
                 lastEvent, kept, globalVars, gpuVars>>

\* The finally block of _thread_main: first finished, then the wake-up.
SetFinished(r, g) ==
  /\ pc[r][g] = "ending"
  /\ finished' = [finished EXCEPT ![r][g] = TRUE]
  /\ pc' = [pc EXCEPT ![r][g] = "leaving"]
  /\ UNCHANGED <<case, main, groups, pos, wake, errors, phases, open, pending, lastEvent,
                 kept, globalVars, gpuVars>>

WakeOther(r, g) ==
  /\ pc[r][g] = "leaving"
  /\ wake' = [wake EXCEPT ![r][Other(g)] = TRUE]
  /\ pc' = [pc EXCEPT ![r][g] = "ended"]
  /\ UNCHANGED <<case, main, groups, pos, finished, errors, phases, open, pending, lastEvent,
                 kept, globalVars, gpuVars>>

\* run_sequential: the next group on the runner thread itself.
RunAlone(r, g) ==
  /\ main[r] = "alone" /\ pc[r][g] = "off" /\ errors[r] = {}
  /\ \A h \in 0..(g - 1) : pc[r][h] = "ended"
  /\ pc' = [pc EXCEPT ![r][g] = "running"]
  /\ ctx' = [ctx EXCEPT ![r] = Ctx(g)]
  /\ row' = [row EXCEPT ![r] = g]
  /\ UNCHANGED <<case, main, groups, pos, wake, finished, errors, phases, open, pending,
                 lastEvent, kept, pin, gpuVars>>

\* run and run_sequential after the groups: restore the runner's state, then
\* return the outputs or raise.
AllDone(r) ==
  \/ main[r] = "threads" /\ \A g \in Groups : pc[r][g] = "ended"
  \/ main[r] = "alone" /\ \A g \in Groups : pc[r][g] = "ended" \/ (errors[r] # {} /\ pc[r][g] = "off")
Join(r) ==
  /\ AllDone(r)
  /\ ctx' = [ctx EXCEPT ![r] = <<"step">>]
  /\ row' = [row EXCEPT ![r] = 0]
  /\ pin' = IF main[r] = "threads" THEN [pin EXCEPT ![r] = <<>>] ELSE pin
  /\ main' = [main EXCEPT ![r] = IF errors[r] = {} THEN "returned" ELSE "raised"]
  /\ UNCHANGED <<case, groups, threadVars, gpuVars>>
-----------------------------------------------------------------------------
Thread(r, g) ==
  \/ TakeTurn(r, g) \/ Compute(r, g) \/ Collective(r, g) \/ PhaseBegin(r, g) \/ PhaseEnd(r, g)
  \/ ReplayBegin(r, g) \/ EnterReplay(r, g) \/ LeaveReplay(r, g) \/ YieldPoint(r, g)
  \/ ReplayEnd(r, g) \/ Unwind(r, g) \/ FinishTail(r, g) \/ SetFinished(r, g) \/ WakeOther(r, g)
  \/ RunAlone(r, g)
Fault(r, g) == Raise(r, g) \/ TurnTimeout(r, g)
Rank(r) == Plan(r) \/ Join(r) \/ \E g \in Groups : Thread(r, g)

Next == \E r \in Ranks : Rank(r) \/ \E g \in Groups : Fault(r, g)
Spec == Init /\ [][Next]_vars
\* A thread that can run does; nothing makes a thread raise or time out.
FairSpec == Spec /\ \A r \in Ranks : WF_vars(Plan(r)) /\ WF_vars(Join(r))
                    /\ \A g \in Groups : WF_vars(Thread(r, g))
-----------------------------------------------------------------------------
Failing(r) == errors[r] # {} \/ \E g \in Groups : pc[r][g] = "unwinding"
Ended(r) == main[r] \in {"returned", "raised"}

\* "Exactly one thread runs at a time": the two threads of a rank never issue
\* together, whatever raises or times out.
OneRunner == \A r \in Ranks : ~ \A g \in Groups : pc[r][g] = "running"

\* Whatever a thread launches runs under its own forward context, row buffers and
\* split-k pin, across every hand-over, unless the step already fails.
OwnState == \A r \in Ranks : Failing(r) \/ foreign[r] = {}

\* On the GPU everything a kernel reads is ordered before it: the phase before its
\* compute, the compute before its phase, and at each layer the keys and values of
\* the earlier rows.
StreamOrder == \A r \in Ranks : Failing(r) \/ early[r] = {}

\* Ranks that do not fail issue the same collectives in the same order, however
\* their threads are scheduled and whatever the switches.
SameCollectives ==
  \A q, r \in Ranks : Failing(q) \/ Failing(r) \/ IsPrefix(calls[q], calls[r])
                      \/ IsPrefix(calls[r], calls[q])

\* With TAIL=barrier or sync no tail starts before the sequence-parallel layers of
\* both groups are complete on the GPU.
TailGated ==
  \A r \in Ranks, g \in Groups :
    (~Failing(r) /\ Pipelined /\ setup.tail # "serial" /\ Runs(r, g, "coll") /\ At(r, g).name = "gather")
       => \A h \in Groups : SpOps(h) \subseteq ahead[r][Stream(r, g)]

\* A step fails only where a thread raised or timed out, or where the later group has
\* phases that the earlier one lacks: there check_order fails it, always.
MorePhases == Pipelined /\ HasReplay(0) /\ ~HasReplay(1)
RaisesForAReason ==
  \A r \in Ranks :
    /\ Failing(r) => r \in case.faulty \cup case.hasty \/ MorePhases
    /\ MorePhases /\ groups[r] # <<>> => main[r] # "returned"

\* The groups partition the rows of the step, each names exactly the requests
\* that have rows in it, and the rows before `from` are those of decodes.
RowsOf(b) == b.lo..(b.hi - 1)
OwnerOf(x) == CHOOSE j \in 0..(Len(batch.lens) - 1) : QueryStart(j) <= x /\ x < QueryStart(j + 1)
GroupsCover ==
  \A r \in Ranks : groups[r] # <<>> =>
    /\ RowsOf(groups[r][1]) \cap RowsOf(groups[r][2]) = {}
    /\ RowsOf(groups[r][1]) \cup RowsOf(groups[r][2]) = 0..(Tokens - 1)
    /\ \A i \in 1..2 :
         LET b == groups[r][i] IN
         /\ {OwnerOf(x) : x \in RowsOf(b)} = b.first..b.last
         /\ \A x \in RowsOf(b) : (x - b.lo < b.from) <=> OwnerOf(x) < batch.decodes

\* Every rank ends its step: a thread that raised or gave up leaves the other one
\* able to go on.  Only a drain of the stream may wait for a rank that failed.
StepEnds ==
  \A r \in Ranks :
    <>(Ended(r) \/ (setup.tail = "sync" /\ \E q \in Ranks : main[q] = "raised"))
=============================================================================
