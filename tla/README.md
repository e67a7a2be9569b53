# vLLM-Moet: a verification project

TLA+ models, TLC runs and TLAPS proofs of the concurrent parts of this
repository. The modules are translations of the source; the line ranges each
definition stands for are in `PROJECT.json` ("map").

The repository makes a mixture-of-experts model too large for its GPU serve at
speed: experts live in a GPU pool, in pinned host memory and in store files, a
CPU thread computes the experts the GPU does not hold, an engram fetcher reads
table rows from NVMe, and ranks exchange tensors through peer-to-peer kernels.
Most of its lines are numerical kernels and patches to an external engine. What
a state machine can say something about is the protocols between threads, the
kernel's io_uring, and GPU streams, and those are the subject here.

## Inventory

Paths are under `src/tools/dsv41_5090/` unless they say otherwise.

| Component | State | Operations | Hard behaviour |
|---|---|---|---|
| **Store tail** `cpu_tier/cpu_tier.cpp`, `engram_v2/uring.h` | arena slots, an LRU list per layer, pins, spare slots, pointer tables, one io_uring | `serve` (resolve, read, compute), `record_acquire/release`, `prefill_fetch/release`, `adopt` | two threads and the kernel share slots; pointers are used after the lock is dropped; pins are dropped by name and later; short reads, failed submits |
| **Engine hooks** `cpu_tier/vllm_moet_cpu_tier.py`, `placement_manager.py` | records acquired last / two steps ago, a scratch set's last round | before-step, after-step, prefill rounds | releases two steps late, GPU copies that run later |
| **Mailboxes** `cpu_tier/cpu_tier_cuda.cu`, `cpu_tier.py` | per-layer request / ack words, sequence counters, error word | publish, wait + inject, start, restart | time-out racing a late ack; eight CTAs deciding alone; restart with requests outstanding |
| **Rings** `cpu_tier.cpp` (miss, use, KPI) | ring arrays and counters | append, drain with a cursor | publication before the entry is written; overwriting while copied |
| **Poll hook** `cpu_tier.cpp`, `engram_v2/engram_v2.py` | hook pointer, argument, polling flag | call, set, clear | clear must not return while a call runs |
| **Promotions** `placement_manager.py` | slot table, host mirror, U / M events | plan, after_launch, before_launch | a captured step reads the table while the copy stream writes it |
| **Engram fetcher** `engram_v2/engram_v2.cpp`, `engram_v2.py` | jobs, row cache entries, in-flight reads, prefetch queue | begin_job, issue, complete, reap, prefetch | one entry awaited by several jobs; a failed submit; cache full of reads |
| **P2P collectives** `src/tools/dsv41_sm120/p2p_ar`, `p2p_rs` | per-rank sequence counter, slots, flags | push, wait + reduce | slots reused by sequence number without an acknowledgement |
| **Prefill pipeline** `src/tools/dsv41_sm120/sp_pipeline/moet_prefill_pipe.py` | turn, two threads, phase | yield, wait turn, run | one thread raising, time-outs, collectives in the same order on every rank, groups with different phases |
| **Hand-off prototype** `handoff/handoff_proto.cu` | request / answer words | publish, wait | prototype of the mailboxes |
| **Benchmark runner** `src/bench/runner` (`common.py`, `serverctl.py`, `bench.py`) | result and reservation files, guard lock, server processes and containers, the port | preflight, reserve, boot, wait for health, measure, stop, publish, release | runners that are killed at any step leave files and servers; two runners on one box |
| CPU kernels `cpu_moe`, routing simulators `routing`, GPU kernels and generators `src/tools/dsv41_sm120`, `src/kernels`, engine patches `src/patch`, `src/tools/ripple_sm120`, the runner's probes, linter and reports, deployment `src/docker` | - | - | arithmetic, offline or sequential: see "Not modelled" |

What makes each component correct:

- Store tail: no slot lost or owned twice; tables, lists and slots agree; a
  kernel call and a copy read the record they were asked for; every pin is
  dropped exactly once; every request is answered.
- Mailboxes: injected rows belong to the current request; after an error
  nothing is injected; a late answer is never taken for a new one.
- Rings: a drained entry is the one that was written; none is skipped silently.
- Poll hook: after a clear returned, no call runs.
- Promotions: a step never reads a slot being rewritten; each pair is computed
  once, by the GPU or by the tier.
- Engram: a lookup ends with an armed error word or with its own rows, and a
  lookup that waits is answered.
- Collectives: a slot is not overwritten while a rank still reads it, unless a
  rank has told that a wait gave up.
- Pipeline: one thread at a time, every thread ends, same order of collectives
  on all ranks, every operation under its own group's context and behind what it
  reads, no step failed without a reason.
- Runner: a published result is never replaced, a run is refused only for a
  result or a live run, no server outlives its runner, every runner ends.

The hazards, each at its line and with the properties aimed at it, are in
`PROJECT.json`.

## Modules

| Module | Models |
|---|---|
| `StoreTail` | the store tail and the engine hooks that use it |
| `StoreTailProofs` | its types, slots, tables and ring, proved |
| `StoreTailPins` | its pins, what is read through them and the layers' sizes, proved |
| `CpuTier` | GPU expert cache, promotions, mailboxes and dispatcher, composed |
| `CpuTierProofs` | types, no request without a record, the slot table, pins and rows are sound, proved |
| `PollHook` | the dispatcher's poll hook and the life of the fetcher it polls |
| `PollHookProofs` | one poller, jobs begun in order, and what alone lets a call outlive the fetcher, proved |
| `Engram` | the Engram row fetcher, its mailboxes, cache, ring and lookahead |
| `EngramProofs` | types, a job counts the rows it waits for, a lookup copies its own rows, proved |
| `Exchange` | what a collective of the tensor-parallel group promises |
| `P2pSlots` | the peer-to-peer collectives; implements `Exchange` |
| `P2pSlotsProofs` | slot reuse, told time-outs and the refinement, proved |
| `PrefillPipe` | the pipelined prefill: plan, threads, streams, ranks |
| `PrefillPipeProofs` | one thread runs at a time; own state, order on the streams, the same collectives on every rank, gated tails, failures with a reason, groups that cover the step: proved |
| `BenchRun` | the benchmark runner's processes on one box |
| `BenchRunProofs` | results kept, servers stopped, refusals with a reason, proved |
| `MC...` | the small instances of a module |

### StoreTail

`StoreTail.tla` models `serve` statement by statement between lock regions, the
engine thread's hooks, the kernel's io_uring and the GPU's copies.

- **Slots.** `holds[s]` is a slot's `(layer, expert)`, `slotOf` is
  `Layer.slot_of` (and `records`, which the code always sets together with it),
  `pins`, `free` as in the code. `content[s]` is not in the code: it is what the
  bytes are - the record last read, or `Torn` from the moment a read into the
  slot is submitted.
- **LRU lists.** `older` is the order of each layer's list (a set of pairs), not
  its links. `VictimSets` is the whole loop of `lru_trim`; it has one element,
  so a trim is deterministic as in the code.
- **Ring.** `io` holds the reads queued, in flight and completed, each with the
  index (`user_data`) it names. Completions come in any order. `issue_some` and
  the submit that always follows it are one action: nobody else sees the ring,
  and a slot taken from the spares is not visible elsewhere before the read
  starts.
- **Dispatcher.** `dpc` is where `serve` is. Actions are the lock regions and
  kernel calls: `Resolve`, `Forward`, `IssueFirst`, `ResidentDone`, `LoopExit`,
  `Reissue`, `Wait`, `Reap` (one completion), `ReapDone`, `Batch`, `Drain`,
  `Finish`. When nothing is in flight and no slot is spare the code spins;
  `Reissue` is disabled then. Token, weight and row arrays are left out:
  `reads` is the set of `(expert, slot)` the next kernel call reads.
- **Engine.** `ReleaseRound`, `ReleaseRecord`, `BeforeLaunchEnd` (before-step),
  `LaunchDecode` / `LaunchPrefill`, `PrefillRound`, `AfterStep`, `Skip`,
  `AcquireResident`, `AcquireCold`, `AcquireRead` (after-step). Which misses
  `plan()` skips depends on GPU slots and use counts and is left open, so every
  promotion the code could make is possible.
- **GPU.** `CopyDone` runs a queued copy at any later time, `StepDone` ends a
  decode step. A prefill starts when the decode steps before it are done, since
  the engine reads the missing experts on the host.
- **Start.** `Init` is the state after `adopt` with any warm set.
- **Answer.** `Answer` is one step for the end of `serve` (`cpu_tier.cpp:376-407`):
  unpin and trim in a lock region, miss log, ack. Behind the lock region `serve`
  touches no slot, so the rest commutes with what the other threads do. Left out is
  status 3 (line 238): the launcher of the publish kernel refuses a step that would
  exceed the tier's arrays (`cpu_tier_cuda.cu:511-513`).
- **Faults** are a constant: `short` (a read completes short), `kernel` (the
  expert kernel fails), `pread` (a synchronous read fails), `submit` (the submit
  call fails), `partial` (it takes only some entries).

Sizes: 720 lines for about 900 lines of C++ and Python, a third of them
properties, types and mutants (definitions such as `ReissueNever` that
`PROJECT.json` substitutes for a definition of the code to show that a property
notices).

### CpuTier

`CpuTier.tla` composes what happens above the store tail: the slot table the GPU
routes by, the promotions that rewrite it, and the mailboxes through which the
pairs of experts that are not resident reach the CPU.

- **Host.** `BeforeLaunch`, `Launch`, `AfterLaunch` are the runner's hooks
  around `execute_model`; `FailClosed` is the raise on an armed error word.
  `holder` is `expert_of_slot`, the mirror in which plans are made while the copy
  stream is behind.
- **Streams.** `main` and `copy` are the commands queued, `signalled` the events
  reached. A captured step is `Remap`, `Publish`, `Moe` and the wait kernel per
  layer. `Schedule` is the copy stream's order: wait for the step, unmap every
  victim, record U, copy and map one expert after the other, record M.
- **Bytes.** `bytes[l][s]` is the expert whose weights fill the slot, `Torn`
  while `promote_batch` rewrites it; a row is the expert whose weights made it.
- **Wait kernel.** Each CTA looks at the error word once (`Enter`, `Skip`), and
  then injects, or times out, alone.
- **Dispatcher.** `Serve`, `Answer`, `Resync`; the miss log is a set, drained by
  `AfterLaunch`. `Answer` gives status 2 for a pair without a record, and may give
  those of `Faults` for any other request with pairs: 4 (an expert kernel failed)
  or 5 (the store tail failed to read one). A failed request's rows are cleared,
  and the CTA that finds its ack arms the error word with the status. Status 3 (too
  many tokens or pairs) cannot occur: publish refuses such a step
  (`cpu_tier_cuda.cu:511-513`).
- **Restart.** `StopTier` and `RestartTier` are `stop`, `clear_error` and
  `restart_from_device` in the order in which
  `src/tools/dsv41_5090/cpu_tier/test_cpu_tier.py` (lines 271-290) recovers
  after a failed step.
- Left open: which evictable slot is the coldest (any), and which misses the
  admission window, the cap per layer and the store tail let through (any
  subset). Every plan of the code is among these.

### PollHook

`PollHook.tla` models `dispatcher_main`'s poll step (load the hook, announce,
load again, call, retract), `cpu_tier_set_poll_hook` (install, and clear with
its spin), and around them the fetcher: its own thread, `engram_v2_stop`,
`engram_v2_start_polled`, `engram_v2_destroy`, and the order in which
`EngramV2.attach_dispatcher`, `detach_dispatcher` and `close` and
`cpu_tier_stop` make these calls.

- **Memory.** The three words (`fn`, `arg`, `polling`) are written through a
  store buffer per thread: `Store` appends, `Flush` takes the oldest entry to
  memory, `Load` sees the thread's own entries first. That is x86; with
  `BufferDepth = 0` stores are visible at once. The code's release / acquire
  accesses compile to plain moves there.
- **Fetcher.** One mailbox, whose request number (`step`) the GPU raises;
  `expected` is the layer's counter, `Look` and `Serve` the two halves of
  `poll_once`, taken by whichever thread polls.
- Left out: what the dispatcher serves between two polls (it always ends) and
  the reads themselves (module `Engram`).

### Engram

`Engram.tla` is `poll_once` with everything it calls, the publish and wait
kernels, the kernel's io_uring, and the lookahead.

- **Lookup.** `PublishIds` writes the ids, `PublishStep` raises the number; the
  CTAs of the wait kernel copy the staging or give up. `PublishIds` may overwrite
  a mailbox whose earlier request is still being served: after a time-out the GPU
  goes on.
- **Poll.** `Look` is the scan over the layers up to one that begins a job
  (`Begin`) or skips to a later number (`Resync`). A layer that is passed over
  changes nothing, so the looks that find nothing are part of the next step. That
  the layers before it are idle is asked at one moment, where the loop
  (`engram_v2.cpp:454-471`) asks layer by layer; jobs begin and end only in the
  polling thread, so no answer changes meanwhile.
  `begin_job` is `Begin`, then `Issue`, `Wait`, `Reap` (one completion),
  `ReapDone` until all its rows are issued, then `Conclude`; a poll ends with
  `PollReap` or `PollEnd`, which prefetches when nothing else is to do.
- **Rows.** `entry` is the set of rows being read (the keys are the code's
  `pending`), with the rows of staging that wait for it; a demand adopts an entry
  a prefetch began. `reads` is the ring and its slots together. A row has two
  halves, values and scales, or one when the scales are resident.
- **Cache.** One set per layer, of `CacheRows` rows, any victim: the code's index
  chooses among the eight rows of one set (`WAYS`, `engram_v2.cpp:44`).
- **Lookahead.** `Schedule` names the rows of a prompt's next chunks, `Queue` is
  its helper thread, `PrefetchClear` drops the queue. Which ids the hash gives is
  left open.
- `ClearError` is `EngramV2.clear_error`. The engine never calls it by itself;
  the fetcher is written for serving that goes on after a failed step ("a request
  we never served", `engram_v2.cpp:469`).
- Left out: creation, the status for too many rows (a lookup of more rows is
  refused before it is published), submits that take only some entries.

### P2pSlots

`P2pSlots.tla` models push and consumer kernels of all the peer-to-peer
collectives; `Shots` chooses between the one-push collectives (one-shot
all-reduce, all-gather, reduce-scatter) and the two-shot all-reduce. Each
collective has its own slots, flags and counter, so one instance is one of them.

- `n` is `ctrl[0]`, `flag` and `data` are the flag and slot buffers on each rank.
  A push is `BeginPush` (stores under way: the place is `Torn`) and `EndPush`
  (its flag). The peers come in any order, which includes the code's rotation.
- `StartRead` is the end of the wait, `Read` reads one source, `NextShot` and
  `Done` end the consumer kernel. `Behind` is the signed comparison of words of
  `Width` values. On a rank of `Hasty` a wait may reach its poll limit; it sets
  `timeout` and goes on with whatever the slot holds.
- A launch's CTAs are one writer or reader; their phase counters are not
  modelled. That all ranks run the same collectives is assumed: the start-up
  agreement is not modelled either.

`Exchange.tla` is the promise: ranks contribute to and finish collectives in
order, and a rank finishes number k with the contributions of all ranks to
number k - until some rank has told that it gave up (`told`, mapped to the
`timeout_flag`s). `Implements` maps a rank's contribution to its first completed
push.

### PrefillPipe

`PrefillPipe.tla` is `moet_prefill_pipe.py` on every rank of a group: the plan
(`Verdict`, `RowGroup`), the two threads of `PipeStep`, the
instructions a group's forward tail issues, and the three GPU streams.

- **Plan.** Which steps are cut, where, which requests each group touches, with
  its first prefilling row. `GroupsCover` compares the groups with the step.
- **Threads.** `pc` is where a thread is, `wake`, `finished` and `errors` are
  `PipeStep`'s. A hand-over saves the context and the pin, swaps the row buffers
  and wakes the other thread. A thread of a `faulty` rank may raise at any
  instruction, a wait of a `hasty` rank may time out.
- **Instructions.** `Tail_` lists the sequence the model patches give a group:
  boundary chains (one collective each), attention, MoE, and behind the layers that
  every group runs sequence parallel one of two ends. With a replay batch
  (`CutTail`) the keys and values of all rows (`WriteKv`), then the replay section
  on the kept rows, collapse included, under the replay batch's context. Without
  one (`WholeTail`) the remaining layers are sequence parallel as well, with two
  phases each, and the sharded result is gathered at the end. They are what the
  issue order depends on; what they compute is left out.
- **Replay batches.** `Trimmed` and `HasReplay` follow `_prepare_replay_batch`, once
  per group: a group has a replay batch if a prefilling request has more than
  `Window` rows in it and does not keep them all. So the two groups may differ, and
  then their numbers of phases do. A request that the later group does not trim
  reads its earlier rows' keys and values in every layer (`Untrimmed`).
- One order differs: `write_kv` sets the pin behind its reduce-scatter, the model
  where the phase begins. Nothing but the same thread's boundary reads it.
- **Streams.** `ahead[s]` is what the GPU has done before anything issued next on
  stream s: an event that is waited for adds what was on the recording stream.
  `early` collects the operations issued before something they read was ordered
  ahead, `foreign` those issued under another group's context, pin or buffers.
- **Ranks** decide alone; `calls` is each rank's order of collectives.

### BenchRun

`BenchRun.tla` is the life of a run and of a matrix: `preflight_gpus`, the check
of the result path, the reservation with its guard, `Popen`, the health loop,
the model check, the probes, the publication by link, and the way out:
`stop`, with its SIGINT, SIGTERM, SIGKILL and their time-outs. Every exit takes it
but two: a runner that is killed, and one that is interrupted while its server
loads (`run_recipe`'s `finally` begins behind the start).

- A step is one system call on something shared (files, the flock, a process,
  the port) or a part of the run that touches nothing shared.
- Between creating a reservation and writing the pid into it there are steps of
  others: another runner may read a file that is not `stamped` and take it for
  one that a dead process left.
- `Killable` runners may be killed or interrupted at any step. A server is a
  session of its own: it survives its runner unless the runner stops it.
- `Docker` runners have their server in a container. `docker stop` may exceed the
  time-out of its call: the exception leaves `stop` with the container alive
  (`StopTimeout`), or, if it was the stop for a wrong model, is swallowed by the
  health loop's `except Exception`, which goes on asking (`StopUnwanted`).
- Left out: a recycled pid; runners of different users (to signal another user's
  process raises PermissionError, which `common.py:346-349` takes for a dead one);
  what the probes measure, recipes and boxes (data), the linter and the reports.

## Runs

| Run | Instance | Shows |
|---|---|---|
| `StoreTail_decode` | 1 layer, 3 experts (one not in the store), 2 slots, N = 1, ring of 2, 2 experts per request, 1 promotion per step, 2 steps ahead; short reads, kernel and pread errors | slots and tables agree, calls read what they ask for, residents stay while used, a failed request loses nothing, every request is answered |
| `StoreTail_prefill` | 2 layers, 2 experts, 4 slots, two scratch sets, static placement, the same faults | prefill rounds and decode steps: pins are counted, calls and copies read right |
| `StoreTail_theft` | promotions and prefill rounds | violation of `CopiesReadRight` |
| `StoreTail_submit` | the submit call may fail | violation of `RingQuiet` |
| `CpuTier_steps` | 1 layer, 4 experts, 2 slots, one resident without a record, 2 CTAs, 3 steps, 1 restart, kernels that fail (status 4) | no pair gets a wrong or a silent zero row, the table is what the host planned, pins outlive copies, every request is answered or passed, steps end |
| `PollHook_buffers` | two fetchers one after the other, store buffers of one entry | one poller, requests begun once and in order, every clear returns |
| `PollHook_tso` | one fetcher, store buffers of two entries | violation of `NoCallOnFreed` |
| `Engram_rows` | 2 layers (2 lookups and 1), two rows of the range and one outside it, ring of 2, cache of 1 row, one lookahead chunk, short reads and a failed submit | a lookup has its own rows or an armed error, jobs count their rows, lookups are answered |
| `P2pSlots_two` | 3 ranks, 2 shots, 4 slots, words of 16 values, 9 collectives, one rank whose waits may give up in the last | slots stable across the wrap, or a time-out is told; `Exchange` implemented; all finish |
| `PrefillPipe_two` | 2 ranks, steps cut after row 3, a replay batch keeps 1 row, 1 sequence-parallel and 2 remaining layers, 21 cases of step, switches and failing rank | one thread at a time, own state, order on the streams and between ranks, tail gate, groups cover the step, no failure without a reason, steps end |
| `PrefillPipe_short` | the same with a replay batch in the second group only, and a request of both that it keeps whole | violation of `StreamOrder` |
| `BenchRun_matrix` | 2 runners with 2 recipes each in opposite order, both killable, one with a stubborn server in a container whose stop may time out | results kept, refusals have a reason, no server left, runners end |

**Bounds.** `MaxPairs`, `MaxPromotions`, `MaxAhead` bound a request, a step's
promotions and the steps in flight of `StoreTail`. Two experts per request and
one promotion are enough for the interleavings the code worries about: both
threads reading one record, an eviction between a resolve and its use, a request
with more cold experts than spare slots (two slots, one of them held by a
promotion's read), a read failing while another is in flight. With N = 1 every
insertion evicts. The miss log is a set, so nothing else grows; all state
spaces are finite and searched completely.

`CpuTier`: `MaxSteps` = 3, since a promotion planned after step n is mapped for
step n + 1 or n + 2, and a third plan may reuse its slot while it is queued; four
experts on two slots leave two to be missed. `MaxRestarts` bounds stops.
`Faults` = {4}: status 5 differs from it in nothing but the number. `Engram`:
`MaxRequests` gives the first layer a second lookup, after the first timed out or
was answered, while the other layer's is pending; a ring of 2 is smaller than a
request of two rows with two halves each, and a cache of one row evicts on every
insertion; `MaxPlans` = 1 queues one chunk. `MaxStep` of `PollHook` bounds the
engram requests: two, so that one can be pending at a hand-over while another
arrives; `BufferDepth = 1` already delays every store past any later load, the
violation needs no more. `MaxOps` bounds the collectives of `P2pSlots`: nobody
gets more than one consumer ahead of a peer, so every relative position occurs
within four, the eight flags of which lie within half a word; nine collectives
count eighteen flags and wrap words of sixteen values. `LateFrom` = 8 lets a wait
give up only in the ninth, when the words have wrapped: what then follows is the
least orderly part of the state space, and the same at any earlier number. A slot
is shared by one writer and one reader, and the third rank lets a rank be ahead of
one peer and behind another. The collectives of one push, and two slots, are covered by the theorems.
`PrefillPipe`: `Cases` are every kind of tail gate and replay on a mixed step, cuts
inside and at the end of a request and among decodes, replay batches in both
groups, in the first, in the second and in none, steps that are refused or not
cut, and faults on one of two ranks.
`BenchRun`: two runners in opposite order meet in every pair of places.

**Deadlock** is not checked: every system here stops at a bound, at its end or,
by design, after an error. What would be a deadlock is a liveness property
instead: `RequestAnswered`, `CatchesUp`, `StepsEnd`, `RequestBegun`, `ClearEnds`,
`LookupAnswered`, `AllFinish`, `StepEnds`, `RunnersEnd`.

**Fairness** is what the scheduling gives and no more. `StoreTail`: the
dispatcher and the engine are threads that run when they can, the kernel
completes accepted reads, the GPU runs queued copies and ends steps; the engine's
fairness is one condition for the whole thread, which may choose any of its
enabled operations. `CpuTier`: each stream runs its next command (a wait kernel
that is not answered expires), the dispatcher answers what it serves and polls
every layer; none for the host. `PollHook`: the dispatcher, the fetcher's thread
and a call the engine has begun run on, and buffered stores reach memory; the
engine need not begin a call. `Engram`: the polling thread, the kernel's
completions and the streams; nothing makes a lookup start, a wait time out or an
error be cleared, so `LookupAnswered` does not lean on the time-out. `P2pSlots`:
the launches of every rank's stream run (`Live` is all of them); nothing makes a
wait give up.
`PrefillPipe`: threads, plan and join run; nothing makes a thread raise or a wait
time out; `StepEnds` leaves out a rank that drains its stream (`TAIL=sync`) for
collectives of a peer that raised. `BenchRun`: a runner that is alive takes its
next step, and its health loop ends at its deadline however often it goes round
(strong fairness of `LoadTimeout`); nothing makes a server come up or anybody send
a signal.

### Findings

1. **A released prefill round can drop a promotion's pin** (`StoreTail_theft`).
   `prefill_release` looks its experts up again by name. An expert that was cold
   at the fetch was not pinned, but if a promotion made it resident in the
   after-step hook, the release in the next before-step hook drops the
   promotion's pin; the record can be evicted and its slot rewritten while the
   promotion's copy is still queued. The run `StoreTail_prefill` shows that
   with a static placement nothing of the kind happens, and the theorem
   `PinsAccounted` covers promotions without prefill rounds.
2. **A failed submit leaks reads into the next request** (`StoreTail_submit`).
   The drain waits for the reads in flight; those prepared and not submitted stay
   in the queue and go with the next request's, naming its slots.
3. **A clear of the poll hook can return while a call runs** (`PollHook_tso`).
   The clear stores `poll_fn` and then loads `polling`; the dispatcher stores
   `polling` and then loads `poll_fn`. A release store and a later acquire load
   may be reordered, on x86 through the store buffer, so each side can miss the
   other's store: `engram_v2_destroy` then frees the fetcher under
   `engram_v2_poll`. It is the only way: a call meets a destroyed fetcher only
   after a clear that returned past such a store (`NoCallAfterFree`), so a fence
   between store and load on each side would be enough.
4. **A later group may read keys and values before they are written**
   (`PrefillPipe_short`). Where only the later group has a replay batch, it has
   fewer phases than the earlier one: it replays the remaining layers in one
   section while the earlier group still goes through them phase by phase.
   `check_order` compares the numbers of phases and passes it, as
   `test_prefill_pipe_unit.py:165` wants. For a request that the later group trims
   nothing is lost, since a trimmed request's replay layers read no earlier rows.
   One that it does not trim - it keeps its rows for prompt logprobs, or has no
   more of them there than the window - reads its rows of the earlier group in
   every layer, and `PrefillPipe` finds the read ahead of the write at the second
   replay layer. Two groups with a replay batch, or two without, cannot
   (`StreamsInOrder`).

Seen while modelling, without a run of their own:

- Where only the earlier group has a replay batch the later one has more phases,
  and `check_order` (`moet_prefill_pipe.py:344`) fails the step although nothing is
  wrong with it: always, at the later group's first phase that the earlier one
  lacks (`MorePhases` in `RaisesForAReason`). The unit test
  `test_prefill_pipe_unit.py:171` expects the exception of groups that are made so;
  a plan whose second group prefills only short requests makes them so.
- A live runner may be robbed of its reservation: another that finds the file
  before the pid is in it takes it for a dead one's and removes it, also when the
  pid has been written meanwhile. No result is replaced by that (`NeverReplaced`),
  but the robbed runner's measurement is lost when it finds somebody else's file in
  `write_result`.

- A submit call that takes only some of the entries leaves `issue_some` with
  nothing in flight and no spare slot to wait for: the dispatcher can spin at
  `cpu_tier.cpp:329`.
- After a submit error in `begin_job` (`engram_v2.cpp:394`) the rows that were
  not issued never complete: the job stays active, its status is never
  acknowledged, and the earlier-job-first rule keeps the layers after it
  unserved. `LookupAnswered` excludes this state (`ringErr`), so no property here
  holds the code to recover from it.
- `serverctl.py:70` probes the port and releases it before the server binds it;
  two runners that pass the preflight while no server has taken its memory can
  end with one measuring the other's server (`measured` in `BenchRun`). Two
  models that fit a box at once are needed for it.

## Proofs

TLAPS proves, for every value of the constants that satisfies the named
assumptions:

**StoreTail.**

- `TypeCorrect`: `Spec => []TypeOK`, with no assumption on the faults. The
  index of a completion need not be checked in `Reap`: `Len(tgt) <= Len(cold)`
  is part of the invariant.
- `SlotsAreSound` (`SlotsSound`) and `RingOwned` (`RingInv`, hence `RingQuiet`),
  assuming `CallsAccepted` (no `submit` and no `partial` fault; short reads,
  failed preads and kernel errors are included). The run `StoreTail_submit` shows
  that the assumption is needed.

`SlotPartition`, the part of `SlotsSound` that says no slot is lost or owned
twice, is not inductive alone. A slot given back by `Reap` or `Drain`
is `slot_of_cold[index]`, so the index must be this request's: `RingInv` says
that every entry of the ring names a read the request issued, into the slot the
request will give back. That the ring is empty when the landing loop ends is a
count: reads issued = reads in the ring + reads landed (`ReadCount`), and at
most as many are issued as there are cold experts (`TypeOK`); only a failed
request drains. And an insertion keeps the two tables in agreement only if they
agreed. The conjunction `SlotInv` is inductive; `EvictMoves`, `TrimMoves` and
`InsertMoves` say what a trim and an insertion do to the tables and the spare
slots, `IssueSends` and `IssueMoves` what `issue_some` does to the ring, and the
lemmas `DispatcherSlots`, `EngineSlots`, `IoCompleteSlots` and `GpuSlots` have
one step per action.

- `RecordsStay` (`ResidentStays`), assuming `CallsAccepted`: a step that evicts a
  slot leaves it unpinned, and a slot that holds a record is written by nobody.
- `PinsAccounted` (`PinAccounting`), `RecordsReadRight` (`ReadsRight`) and
  `OverflowIsPinned` (`OnlyPinnedOverflow`), assuming besides that the tier
  promotes nothing or prefills without rounds (`Separate`). The run
  `StoreTail_theft` (finding 1) shows that `ReadsRight` needs it.

Pins are plain counts and a release finds its slot by the record's name, so that
a pin is still there when its owner reads says nothing by itself: the invariant
counts, for a slot, everybody who will drop a pin of it (`Wanted`: the request,
the two generations of promotions, the rounds that name its record). While
`pins[s] >= Wanted(s)`, no trim evicts a slot that anybody wants (`Kept`), so the
records the holders name stay where they are and each release drops the pin its
owner took (`PinsInv`, one step per action in `DispatcherWants` and
`EngineWants`). What keeps the count right is in the other parts of `WantInv`: the
slots a request pins hold records of its layer and, until it computes them, of
reads that have left the ring, so that no completion pins a slot twice
(`RequestInv`); a record is acquired once a step and stays resident until it is
released (`PromotionInv`); a round is out only between a prefill and the next
launch, with no request being served (`RoundInv`), because the hooks release the
rounds before the next launch. Then `BytesInv` (a slot with a record has its bytes,
and so has the target of a read that landed) gives `ReadsRight`, and
`OnlyPinnedOverflow` is inductive: every pin dropped is of the layer trimmed
(`Settled`).

**PollHook.** All three for any fetchers and requests and every depth of the store
buffers. `PolledByOne` (`OneCaller`) needs nothing of the handshake: what the hook
names, in memory or in a buffer on its way there, is a fetcher whose own thread has
stopped (`PollInv`), however long the stores stay where they are.
`NoCallAfterFree` says that `NoCallOnFreed` fails for one reason only: in a
behaviour in which no clear returns past a store of the handshake that is still in
a buffer (`Seen`: the engine's clear is in memory, no announcement of the dispatcher
is on its way), no call meets a destroyed fetcher. `HookInv` relates the two program
counters through the buffers: a dispatcher past its second load has announced
itself, in memory or in its buffer, and it works on what was installed, so a clear
that returns with nothing held back finds no call in progress (`ReturnSeen`).
`BegunInOrder` (`ServedInOrder`): a job begun lies
below the number its fetcher expects next, which only grows, and the fetcher the
dispatcher calls is one that was created, because every store in a buffer is.
That the newest of the buffered stores exists is an induction on their number
(`LastPosition`, from `Least`: a non-empty set of numbers has a least one).

**P2pSlots.** For any number of ranks and collectives, one or two shots, assuming
`CodeSlots` (two or four slots, the values of the code) and `NoWrap` (the numbers of
the run stay within half the range of a word; the run `P2pSlots_two` goes beyond
it): `CollectivesImplementExchange` (`Implements`) and `TimeoutsAreTold`
(`TimeoutsTold`), with waits that give up; `SlotsInStep` and `SlotsSafe`
(`SlotStable`, the part of `TimeoutsTold` that speaks of slots) where none does
(`NoTimeouts`). `SlotStable` is not inductive: that a reader's slot is intact
depends on how far its peers are. `SlotInv` counts pushes and consumers: a flag is
never ahead of the pushes (`Flags`), a consumer never ahead of the pushes it needs
(`Ordered`), so nobody is more than one consumer ahead of a peer (`OneApart`), and
then a push only ever hits a place that is neither the one a peer reads nor the one
it will read next (`PlacesDiffer`, `LastIntact`, `PrevIntact`). The refinement needs
`GotInv` besides, that what a consumer has read is of its own collective, and
`AllGiven`, that a consumer which has read everything follows every rank's
contribution. Both go through with waits that give up, because a rank's set of
time-outs only grows: as long as all are empty no wait has given up, and the run so
far is one for which `SlotInv` holds; from then on `Exchange` promises nothing but
to count.

**CpuTier.** `RecordsSuffice` (`NoMissingRecord`), with no assumption but the
one on the placement: an expert without a record is in a GPU slot at the start.
`NoMissingRecord` speaks of the dispatcher's ack; why it holds is on the other
side of the mailbox, so `RecordInv` follows the fact along: an empty table entry is an expert with a record (`TableInv`), the
copy stream never holds an unmap of one without (`CopyInv`, which `Evictable`
establishes when the plan is queued), and so no routed pair (`RoutedInv`), no
request, no request being served (`MailInv`) names one; so no ack has a status
but 0 and those of `Faults` (`AckStatuses`).

`TableIsSound` (`TableSound`): a mapped expert's slot holds its whole bytes, and
the table is the host's mirror once the copy stream is drained. The plan is made
on the mirror, which is ahead of the table by whatever the stream has queued, so
the invariant speaks of what a queued command will find: `EntryBefore(i, l, e, v)`
says that the last command ahead of the i-th that writes the entry puts v, or that
none does and the table has v. Two facts carry the rest. At the end of the
queue every entry is the mirror's (`EndInv`), and no queued promotion finds one of
its slots in anybody's entry (`FreeInv`). A new plan keeps both because its
unmaps stand ahead of all its promotions, its experts are not mapped and
its slots are distinct, and no two slots of the mirror hold the same expert
(`HeldInv`). A promotion at the head of the queue then rewrites only a slot that
no entry names, and maps it when its bytes are whole (`BytesInv`).

`PinsAreKept` (`PinsOutliveCopies`): the pins of a queued promotion lie in the
set that is dropped with the event its maps end with, and that event is still to
be recorded behind the promotion (`PinInv`). The host drops the older set only
when those events are signalled, and an event that is still queued is not
(`FreshInv`, which also says that no two records on a stream are of one event).

`NoRowIsSilent` (`NoSilentRow`), on top of the two. The hard part is that the
table the resident rows are read through is written by another stream:

- no victim is unmapped between a layer's publish and its MoE (`HeadClear`). An
  unmap on the copy stream has passed the wait for the step it was planned in,
  or stands behind it (`UnmapsWait`); a layer's operation on the main stream
  stands ahead of that step's end or behind a wait for the unmaps' event
  (`GateInv`). So the two are never both next;
- a map only fills an entry that is empty (`EntryEmpty`, from `FreeInv`), so a
  pair remapped to a slot keeps it;
- the operations of a layer follow each other without a gap (`Ordered`), so what
  publish left is what the MoE and the wait find (`Ready`): the request holds
  the pairs without a slot, each of them (`Compacted`), and the resident rows
  are right when the wait begins (`TableIsSound`);
- an ack with the layer's number and status 0 stands for the rows of its latest
  request, however late the dispatcher was or whatever it skipped (`AnswerInv`);
  one with another status arms the error word (`InjectFails`);
- while the error word is clear, a CTA that is through has copied its share
  (`Copied`); the last one completes the row.

`TypeCorrect` (`TypeOK`) says, beside the types, that a request's number is that of a
step: the host may have launched several steps that the main stream has yet to run,
so the invariant counts the publishes still queued. It counts them by numbering:
those of a layer have numbers of their own, in their order, after the layer's
counter and up to the steps launched (`Numbered`, `CountInv`).

**Engram.** `JobsAreCounted` (`JobsCounted`), for any layers, lookups, rows, ring
and cache, with late answers, failed reads, failed submits and prefetches, from
the types of the constants alone (the rows of the range are finite, the
ring has at least two entries). The count is not inductive. That a completion
counts down a job that still waits for it depends on the ring: `ReadInv` says
that an entry being read has exactly the reads of its missing halves, one queued
to be issued has none, and one without reads exists only after a failed submit.
That `begin_job`'s own guard is counted while it reaps depends on where the poll
is (`PollInv`). A new job adopts every entry of its layer that is being read for
it, because a layer without a job has none that anybody demands.

`RowsAreRight` (`RowsRight`) rests on that count. `Numbers` orders the four
numbers of a layer (published, being served, acked, expected): an ack that a
waiting kernel takes for its own with status 0 is of the job of that lookup, and
that job is over. So none of its rows waits for a read, and `Served`, which says
that each row of it is in place, or waits, or has failed it, leaves only rows in
place. `Landings` carries this over the CTAs: those that are through while the
error word is clear have copied their share. `EntryInv` and `CacheInv` are what
keeps half-read rows out of the cache. `TypeCorrect` (`TypeOK`) follows.

**PrefillPipe.** `OneThreadRuns` (`OneRunner`), for any ranks, rows, layers and
switches, whatever raises or times out. A thread that runs is not all: the turn
is a thread's that runs or waits with its event set (`HasTurn`), and giving it
away is safe only if the giver's own event is clear. It may be set by the other
thread on its way out, and then that thread has ended and the turn is not given
away (`WokenByTheDead`).

The next ones rest on `StepInv`: a rank is where a step without a fault may be
(`Steady`), or it fails for one of the reasons below. The instructions of either
tail are numbered (`Layout`, `Ins`: for any number of layers), and a thread's
position alone says which phase is open and how many it has closed, which context
and pin it must have, and which operations its group has issued. What a position
cannot say is where the other thread is. The turns cut a tail into runs, and the
threads take the runs alternately, group 0 one ahead, until the tail with fewer runs
is over (`Alternate`, `Partner`); so `Place` can number the collectives of a rank,
the same on every rank, and `Ordered` says what the streams have ahead of each
group.

- `StateIsOwn` (`OwnState`): a running thread has the context, rows and pin of its
  position, and a waiting one has saved them.
- `StreamsInOrder` (`StreamOrder`, but for the steps of finding 4, `Disordered`):
  what the instruction at a position reads is of an earlier position of its group,
  or of a run that group 0 has finished: when a group closes a phase, or reads in
  its replay section, the other is as far or further.
- `CollectivesAgree` (`SameCollectives`): a rank's collectives are the first ones
  by `Place`, at which no two differ (`OnePlace`), so those of two ranks are
  prefixes of each other.
- `TailsAreGated` (`TailGated`): from the gate on both groups' operations up to the
  last layer that both tails have are ahead of the stream the tail issues on.
- `FailsForAReason` (`RaisesForAReason`): the order check of `phase_end` and the
  other ranks make no step fail, unless the later group has a phase the earlier one
  lacks (`MorePhases`); and then, where the threads alternate, every rank fails.
  Without it the theorems above, which except ranks that fail, could hold because
  every rank fails.

`PlansCover` (`GroupsCover`) is about the plan: for requests of any lengths the two
groups partition the step's rows, each touches exactly the requests with rows in
it, and `from` parts its decodes' rows from the others. The code finds a row's
request by `searchsorted` on the running sums of the lengths, and that this is the
request whose rows it lies among (`RequestIs`) needs induction over them: that they
exist, increase and enclose each row (`StartsExist`, `StartsIncrease`, `RowOf`).
The induction theorems of the library take an operator, so it is done by the
least-number principle, from the well-foundedness of < (`LeastOf`).

**BenchRun.** `TypeCorrect` (`TypeOK`), `ServersStopped` (`NoServerLeft`) and
`ResultsKept` (`NeverReplaced`), for any runners, recipes, plans and signals.
`NoServerLeft` speaks of runners that ended by themselves, and excepts servers that
survive SIGKILL (`Stubborn`) and the runner that an exception of `docker stop` ended;
`ServerInv` says where a runner may have a live server at all, and that no other
way out passes by `stop` with one.
`RefusalsHaveReasons` (`RefusedForAReason`): a runner that is told a reservation is
taken reads the file a step later, when it may be gone. `ReasonInv` says why the
refusal is still right: a reservation is given back only once its result is
there, so a file that is gone under the reader leaves a result behind.

Every invariant and every action property that a passing run checks is a theorem
above, under the assumptions named there (`StreamOrder` but for the steps of finding
4).
Model-checked only is liveness, which is out of the prover's reach:
`RequestAnswered`, `CatchesUp`, `StepsEnd`, `ClearEnds`, `RequestBegun`,
`LookupAnswered`, `AllFinish`, `StepEnds`, `RunnersEnd`; and the numbers of
`P2pSlots` beyond half a word.

## Not modelled

- **Start-up agreement of the collectives** (`p2p_allreduce_sm120.py`,
  `p2p_reduce_scatter_sm120.py`): which rank enables what, and what happens when
  one cannot open a peer's buffer. One exchange at start-up through the process
  group, whose own behaviour is not in the repository.
- **Phase counters between the CTAs of a launch** (`p2p_allreduce_sm120.cu:87`):
  the models take a launch as one writer. They need the GPU's scheduling of CTAs,
  which the code does not state.
- **Miss, use and KPI rings as arrays**: the miss log is a set. The readers are
  diagnostics and the planner, which drains after the step.
- **Virtual ranks** (`publish_v`, `wait_inject_v` and what goes with them): a
  measuring mode that runs several ranks' shares on one card.
- **CPU expert kernels, GPU kernels and their generators, store building**:
  arithmetic on arrays and single passes over files, with bit-exact comparisons
  in the repository's tests.
- **Routing simulators**: offline analysis of traces.
- **Engine patches** (`src/patch`, `patch_vllm_*`): text edits to an engine whose
  source is not here. What they add at run time and what is in this repository
  (the hooks, the instruction sequence of a layer) is in `StoreTail`, `CpuTier`
  and `PrefillPipe`.
- **Benchmark probes, linter, sweep and reports, deployment, documents**: data
  and sequential scripts.
- **Hand-off prototype**: a measurement of the mailbox protocol that `CpuTier`
  models.

## Plan

Done: `StoreTail`, `CpuTier`, `PollHook`, `Engram`, `Exchange`, `P2pSlots`,
`PrefillPipe`, `BenchRun`. What would add most next, in this order:

1. The start-up agreement of the collectives, with ranks that disagree.
2. `StoreTail` and `CpuTier` in one instance: the stop of a dispatcher that waits
   for a spare slot only the stopping thread can release (`cpu_tier.cpp:745`).
3. The phase counters of the CTAs; the miss and use rings at the granularity of
   their stores.
