------------------------------ MODULE PollHook ------------------------------
(***************************************************************************)
(* The dispatcher's poll hook (cpu_tier.cpp) and its one user, the Engram  *)
(* v2 row fetcher (engram_v2.cpp, engram_v2.py): the fetcher starts with a *)
(* thread of its own, moves onto the CPU tier's dispatcher thread, and is  *)
(* taken off it again before it is freed.                                  *)
(*                                                                         *)
(*   dispatcher - loads the hook, announces the call (polling), loads the  *)
(*       hook again, and calls it with the argument of that moment;        *)
(*   engine     - attach_dispatcher, detach_dispatcher, close, tier.close; *)
(*   own        - the fetcher's thread, until the dispatcher takes over;   *)
(*   GPU        - publishes numbered requests in the fetcher's mailbox.    *)
(*                                                                         *)
(* poll_fn, poll_arg and polling are written with release stores and read  *)
(* with acquire loads: on x86 plain moves, which wait in the core's store  *)
(* buffer while later loads run.  BufferDepth is that buffer's length; 0   *)
(* makes every store visible at once.  The stores of running and stop are  *)
(* sequentially consistent: they leave after the buffer is empty.          *)
(***************************************************************************)
EXTENDS Integers, Sequences, FiniteSetsExt, Functions

CONSTANTS
  Fetchers,     \* engram_v2_create's results, one alive at a time
  BufferDepth,  \* stores a core may hold back
  MaxStep,      \* bound: requests published in a fetcher's mailbox
  NoFetcher     \* the null argument

ASSUME BufferDepthAssumption == BufferDepth \in Nat
ASSUME MaxStepAssumption     == MaxStep \in Nat
ASSUME NoFetcherAssumption   == NoFetcher \notin Fetchers

VARIABLES
  mem,       \* Tier.poll_fn (is it set), Tier.poll_arg, Tier.polling
  buf,       \* core -> its stores of these that other cores do not see yet
  dpc,       \* where the dispatcher is in its loop
  arg,       \* the argument it loaded
  seen,      \* the request number poll_once loaded, per caller
  tierUp,    \* the dispatcher was not told to stop (~Tier.stop)
  epc,       \* where the engine thread is
  op,        \* what it is doing: Python's attach_dispatcher or close
  cur,       \* the live fetcher
  attached,  \* EngramV2.attached
  fpc,       \* the fetcher's own thread
  running, stop,  \* Fetcher.running, Fetcher.stop
  freed,     \* the fetchers destroyed
  step,      \* EngramV2Req.step, written by the GPU
  expected,  \* Layer.expected
  served     \* the numbers of the jobs begun, in order (begin_job)

hookVars    == <<mem, buf>>
engineVars  == <<epc, op, cur, attached>>
fetcherVars == <<running, stop, freed>>
jobVars     == <<expected, served>>
vars == <<mem, buf, dpc, arg, seen, tierUp, engineVars, fpc, fetcherVars,
          step, jobVars>>

Cores   == {"dispatcher", "engine"}
Callers == {"dispatcher", "own"}

Init ==
  /\ mem = [fn |-> FALSE, arg |-> NoFetcher, polling |-> FALSE]
  /\ buf = [c \in Cores |-> <<>>]
  /\ dpc = "top" /\ arg = NoFetcher
  /\ seen = [c \in Callers |-> 0]
  /\ tierUp = TRUE
  /\ epc = "idle" /\ op = "none" /\ cur = NoFetcher /\ attached = FALSE
  /\ fpc = "none"
  /\ running = [f \in Fetchers |-> FALSE]
  /\ stop = [f \in Fetchers |-> FALSE]
  /\ freed = {}
  /\ step = [f \in Fetchers |-> 0]
  /\ expected = [f \in Fetchers |-> 0]
  /\ served = [f \in Fetchers |-> <<>>]

-----------------------------------------------------------------------------
(* Memory: a release store, an acquire load, the buffer reaching memory.   *)

Buffered(c, loc) == {i \in DOMAIN buf[c] : buf[c][i].loc = loc}

Load(c, loc) ==
  IF Buffered(c, loc) = {} THEN mem[loc] ELSE buf[c][Max(Buffered(c, loc))].val

Store(c, loc, v) ==
  IF BufferDepth = 0
  THEN mem' = [mem EXCEPT ![loc] = v] /\ UNCHANGED buf
  ELSE /\ Len(buf[c]) < BufferDepth
       /\ buf' = [buf EXCEPT ![c] = Append(@, [loc |-> loc, val |-> v])]
       /\ UNCHANGED mem

Flush(c) ==
  /\ buf[c] # <<>>
  /\ mem' = [mem EXCEPT ![Head(buf[c]).loc] = Head(buf[c]).val]
  /\ buf' = [buf EXCEPT ![c] = Tail(@)]
  /\ UNCHANGED <<dpc, arg, seen, tierUp, engineVars, fpc, fetcherVars, step, jobVars>>

-----------------------------------------------------------------------------
(* poll_once, on one mailbox: the request number is read, then the job of  *)
(* that number begins, or the number the mailbox skipped to is adopted.    *)

Look(caller, f) == seen' = [seen EXCEPT ![caller] = step[f]]

Serve(caller, f) ==
  LET s == seen[caller] IN
  /\ expected' = [expected EXCEPT ![f] = IF s = @ THEN s + 1
                                         ELSE IF s > @ THEN s ELSE @]
  /\ served' = [served EXCEPT ![f] = IF s = expected[f] THEN Append(@, s) ELSE @]

-----------------------------------------------------------------------------
(* The dispatcher's loop.                                                  *)

LoadHook ==
  /\ dpc = "top" /\ tierUp
  /\ dpc' = IF Load("dispatcher", "fn") THEN "announce" ELSE "top"
  /\ UNCHANGED <<hookVars, arg, seen, tierUp, engineVars, fpc, fetcherVars, step, jobVars>>

Announce ==
  /\ dpc = "announce"
  /\ Store("dispatcher", "polling", TRUE)
  /\ dpc' = "recheck"
  /\ UNCHANGED <<arg, seen, tierUp, engineVars, fpc, fetcherVars, step, jobVars>>

\* mutant: a hook that changed meanwhile leaves polling announced
RecheckLeaves ==
  /\ dpc = "recheck"
  /\ dpc' = IF Load("dispatcher", "fn") THEN "load" ELSE "top"
  /\ UNCHANGED <<hookVars, arg, seen, tierUp, engineVars, fpc, fetcherVars, step, jobVars>>

Recheck ==
  /\ dpc = "recheck"
  /\ dpc' = IF Load("dispatcher", "fn") THEN "load" ELSE "retract"
  /\ UNCHANGED <<hookVars, arg, seen, tierUp, engineVars, fpc, fetcherVars, step, jobVars>>

LoadArg ==
  /\ dpc = "load"
  /\ arg' = Load("dispatcher", "arg")
  /\ dpc' = "enter"
  /\ UNCHANGED <<hookVars, seen, tierUp, engineVars, fpc, fetcherVars, step, jobVars>>

\* engram_v2_poll: nothing for a null or a stopped fetcher
Enter ==
  /\ dpc = "enter"
  /\ IF arg # NoFetcher /\ running[arg]
     THEN dpc' = "poll" /\ Look("dispatcher", arg)
     ELSE dpc' = "retract" /\ UNCHANGED seen
  /\ UNCHANGED <<hookVars, arg, tierUp, engineVars, fpc, fetcherVars, step, jobVars>>

PollDone ==
  /\ dpc = "poll"
  /\ Serve("dispatcher", arg)
  /\ dpc' = "retract"
  /\ UNCHANGED <<hookVars, arg, seen, tierUp, engineVars, fpc, fetcherVars, step>>

Retract ==
  /\ dpc = "retract"
  /\ Store("dispatcher", "polling", FALSE)
  /\ dpc' = "top"
  /\ UNCHANGED <<arg, seen, tierUp, engineVars, fpc, fetcherVars, step, jobVars>>

DispatcherExit ==
  /\ dpc = "top" /\ ~tierUp
  /\ dpc' = "gone"
  /\ UNCHANGED <<hookVars, arg, seen, tierUp, engineVars, fpc, fetcherVars, step, jobVars>>

Dispatcher ==
  \/ LoadHook \/ Announce \/ Recheck \/ LoadArg \/ Enter \/ PollDone \/ Retract
  \/ DispatcherExit

-----------------------------------------------------------------------------
(* The fetcher's own thread (fetcher_main).                                *)

OwnLook ==
  /\ fpc = "loop" /\ ~stop[cur]
  /\ Look("own", cur)
  /\ fpc' = "poll"
  /\ UNCHANGED <<hookVars, dpc, arg, tierUp, engineVars, fetcherVars, step, jobVars>>

OwnServe ==
  /\ fpc = "poll"
  /\ Serve("own", cur)
  /\ fpc' = "loop"
  /\ UNCHANGED <<hookVars, dpc, arg, seen, tierUp, engineVars, fetcherVars, step>>

OwnExit ==
  /\ fpc = "loop" /\ stop[cur]
  /\ running' = [running EXCEPT ![cur] = FALSE]
  /\ fpc' = "gone"
  /\ UNCHANGED <<hookVars, dpc, arg, seen, tierUp, engineVars, stop, freed, step, jobVars>>

Own == OwnLook \/ OwnServe \/ OwnExit

-----------------------------------------------------------------------------
(* The engine thread.                                                      *)

\* EngramV2.start: the fetcher gets a thread of its own
Create ==
  /\ epc = "idle" /\ cur = NoFetcher
  /\ \E f \in {g \in Fetchers \ freed : step[g] = 0} :
       /\ cur' = f
       /\ expected' = [expected EXCEPT ![f] = 1]
       /\ stop' = [stop EXCEPT ![f] = FALSE]
       /\ running' = [running EXCEPT ![f] = TRUE]
  /\ fpc' = "loop"
  /\ UNCHANGED <<hookVars, dpc, arg, seen, tierUp, epc, op, attached, freed, step, served>>

\* attach_dispatcher(tier), once per fetcher; its first call is fetcher.stop
BeginAttach ==
  /\ epc = "idle" /\ cur # NoFetcher /\ ~attached /\ tierUp
  /\ epc' = "stop" /\ op' = "attach"
  /\ UNCHANGED <<hookVars, dpc, arg, seen, tierUp, cur, attached, fpc, fetcherVars,
                 step, jobVars>>

\* EngramV2.close: detach_dispatcher first, when attached; the tier's handle is
\* gone once the tier was closed, and set_poll_hook does nothing
BeginClose ==
  /\ epc = "idle" /\ cur # NoFetcher
  /\ epc' = IF attached /\ tierUp THEN "clear" ELSE "stop"
  /\ op' = "close" /\ attached' = FALSE
  /\ UNCHANGED <<hookVars, dpc, arg, seen, tierUp, cur, fpc, fetcherVars, step, jobVars>>

\* engram_v2_stop: tell a running fetcher, join its thread if it has one
Stop ==
  /\ epc = "stop" /\ buf["engine"] = <<>>
  /\ stop' = IF running[cur] THEN [stop EXCEPT ![cur] = TRUE] ELSE stop
  /\ epc' = "join"
  /\ UNCHANGED <<hookVars, dpc, arg, seen, tierUp, op, cur, attached, fpc, running, freed,
                 step, jobVars>>

\* mutant: taking the fetcher over does not wait for its thread
JoinNotWaited ==
  /\ epc = "join" /\ (op = "close" => fpc \in {"none", "gone"})
  /\ running' = [running EXCEPT ![cur] = FALSE]
  /\ epc' = IF op = "attach" THEN "polled" ELSE "destroy"
  /\ UNCHANGED <<hookVars, dpc, arg, seen, tierUp, op, cur, attached, fpc, stop, freed,
                 step, jobVars>>

Join ==
  /\ epc = "join" /\ fpc \in {"none", "gone"}
  /\ running' = [running EXCEPT ![cur] = FALSE]
  /\ fpc' = "none"
  /\ epc' = IF op = "attach" THEN "polled" ELSE "destroy"
  /\ UNCHANGED <<hookVars, dpc, arg, seen, tierUp, op, cur, attached, stop, freed, step, jobVars>>

\* mutant: the polled mode starts from request 1 again
StartPolledFresh ==
  /\ epc = "polled"
  /\ stop' = [stop EXCEPT ![cur] = FALSE]
  /\ running' = [running EXCEPT ![cur] = TRUE]
  /\ expected' = [expected EXCEPT ![cur] = 1]
  /\ epc' = "install"
  /\ UNCHANGED <<hookVars, dpc, arg, seen, tierUp, op, cur, attached, fpc, freed, step, served>>

\* mutant: the polled mode is not marked as serving
StartPolledIdle ==
  /\ epc = "polled"
  /\ stop' = [stop EXCEPT ![cur] = FALSE]
  /\ epc' = "install"
  /\ UNCHANGED <<hookVars, dpc, arg, seen, tierUp, op, cur, attached, fpc, running, freed,
                 step, jobVars>>

\* engram_v2_start_polled with first_seq = 0: the mailbox state persists
StartPolled ==
  /\ epc = "polled"
  /\ stop' = [stop EXCEPT ![cur] = FALSE]
  /\ running' = [running EXCEPT ![cur] = TRUE]
  /\ epc' = "install"
  /\ UNCHANGED <<hookVars, dpc, arg, seen, tierUp, op, cur, attached, fpc, freed, step, jobVars>>

\* cpu_tier_set_poll_hook: the function, then the argument
Install ==
  /\ epc = "install"
  /\ Store("engine", "fn", TRUE)
  /\ epc' = "installArg"
  /\ UNCHANGED <<dpc, arg, seen, tierUp, op, cur, attached, fpc, fetcherVars, step, jobVars>>

InstallArg ==
  /\ epc = "installArg"
  /\ Store("engine", "arg", cur)
  /\ epc' = "idle" /\ op' = "none" /\ attached' = TRUE
  /\ UNCHANGED <<dpc, arg, seen, tierUp, cur, fpc, fetcherVars, step, jobVars>>

\* cpu_tier_set_poll_hook(null, null): then a call in progress is waited for
Clear ==
  /\ epc = "clear"
  /\ Store("engine", "fn", FALSE)
  /\ epc' = "clearArg"
  /\ UNCHANGED <<dpc, arg, seen, tierUp, op, cur, attached, fpc, fetcherVars, step, jobVars>>

ClearArg ==
  /\ epc = "clearArg"
  /\ Store("engine", "arg", NoFetcher)
  /\ epc' = "spin"
  /\ UNCHANGED <<dpc, arg, seen, tierUp, op, cur, attached, fpc, fetcherVars, step, jobVars>>

ClearReturn ==
  /\ epc = "spin" /\ ~Load("engine", "polling")
  /\ epc' = "stop"
  /\ UNCHANGED <<hookVars, dpc, arg, seen, tierUp, op, cur, attached, fpc, fetcherVars,
                 step, jobVars>>

Destroy ==
  /\ epc = "destroy"
  /\ freed' = freed \union {cur}
  /\ epc' = "idle" /\ op' = "none" /\ cur' = NoFetcher
  /\ UNCHANGED <<hookVars, dpc, arg, seen, tierUp, attached, fpc, running, stop, step, jobVars>>

\* CpuTier.close: cpu_tier_stop joins the dispatcher
BeginTierClose ==
  /\ epc = "idle" /\ tierUp /\ buf["engine"] = <<>>
  /\ tierUp' = FALSE
  /\ epc' = "tierJoin"
  /\ UNCHANGED <<hookVars, dpc, arg, seen, op, cur, attached, fpc, fetcherVars, step, jobVars>>

TierJoin ==
  /\ epc = "tierJoin" /\ dpc = "gone"
  /\ epc' = "idle"
  /\ UNCHANGED <<hookVars, dpc, arg, seen, tierUp, op, cur, attached, fpc, fetcherVars,
                 step, jobVars>>

EngineCall == Create \/ BeginAttach \/ BeginClose \/ BeginTierClose

EngineReturn ==
  \/ Stop \/ Join \/ StartPolled \/ Install \/ InstallArg
  \/ Clear \/ ClearArg \/ ClearReturn \/ Destroy \/ TierJoin

-----------------------------------------------------------------------------
\* the GPU publishes the next request of the live fetcher's mailbox
Publish ==
  /\ cur # NoFetcher /\ step[cur] < MaxStep
  /\ step' = [step EXCEPT ![cur] = @ + 1]
  /\ UNCHANGED <<hookVars, dpc, arg, seen, tierUp, engineVars, fpc, fetcherVars, jobVars>>

Next ==
  \/ Dispatcher \/ Own \/ EngineCall \/ EngineReturn \/ Publish
  \/ \E c \in Cores : Flush(c)

Spec == Init /\ [][Next]_vars

\* the threads run, the buffers drain, a call of the engine goes on; when it
\* calls what, and when the GPU publishes, is open
Fairness ==
  /\ WF_vars(Dispatcher) /\ WF_vars(Own) /\ WF_vars(EngineReturn)
  /\ \A c \in Cores : WF_vars(Flush(c))

FairSpec == Spec /\ Fairness

-----------------------------------------------------------------------------

\* "a call in progress returns before the caller frees `arg`" (cpu_tier.cpp:872):
\* a fetcher the dispatcher's call touches has not been destroyed
NoCallOnFreed == dpc \in {"enter", "poll"} => arg \notin freed

\* engram_v2_start_polled: "one caller at a time" - the fetcher's own thread and
\* the dispatcher are never both inside poll_once of one fetcher
OneCaller == ~(dpc = "poll" /\ fpc = "poll" /\ arg = cur)

\* whoever polls, and whoever takes over when: a request is begun at most once,
\* and never after a later one
ServedInOrder ==
  \A f \in Fetchers : \A i, j \in DOMAIN served[f] :
    i < j => served[f][i] < served[f][j]

\* set_poll_hook(None) returns, and tier.close returns
ClearEnds == epc \in {"spin", "tierJoin"} ~> epc = "idle"

\* a request, also one pending while the fetcher changes threads, is begun (or
\* given up for a later one) unless its fetcher is closed, or the tier it polls
\* for it is
RequestBegun ==
  \A f \in Fetchers, n \in 1 .. MaxStep :
    (cur = f /\ step[f] >= n)
      ~> ((\E m \in Range(served[f]) : m >= n) \/ op = "close" \/ ~tierUp \/ f \in freed)

=============================================================================
