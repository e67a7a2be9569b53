--------------------------- MODULE PollHookProofs ---------------------------
(***************************************************************************)
(* What the poll hook's handshake gives when each core may hold back any   *)
(* number of its stores (any BufferDepth):                                 *)
(*   - requests are begun once and in order, whoever polls;                *)
(*   - the dispatcher and the fetcher's own thread never poll together;    *)
(*   - the dispatcher's call touches a destroyed fetcher only if a clear   *)
(*     returned while a store of the handshake was still held back.        *)
(* PollHook_tso.cfg shows that such a clear exists.                        *)
(***************************************************************************)
EXTENDS PollHook, SequenceTheorems, WellFoundedInduction, TLAPS

\* a non-empty set of naturals has a least element
LEMMA Least ==
  ASSUME NEW S, S \subseteq Nat, S # {}
  PROVE  \E x \in S : \A y \in S : x <= y
<1> DEFINE R == {ss \in Nat \X Nat : ss[1] < ss[2]}
<1>1. IsWellFoundedOn(R, Nat)
  BY NatLessThanWellFounded DEF OpToRel
<1>2. \A x \in Nat, y \in Nat : <<y, x>> \notin R => x <= y
  <2> TAKE x \in Nat, y \in Nat
  <2>1. y < x => <<y, x>> \in R
    OBVIOUS
  <2> HIDE DEF R
  <2> QED BY <2>1
<1> HIDE DEF R
<1>3. \E x \in S : \A y \in S : <<y, x>> \notin R
  BY <1>1, WFMin
<1> QED BY <1>2, <1>3

\* a non-empty set of positions has a last one
LEMMA LastPosition ==
  ASSUME NEW n \in Nat, NEW S, S \subseteq 1 .. n, S # {}
  PROVE  Max(S) \in S
<1> DEFINE T == {t \in Nat : n - t \in S}
<1>1. \A x \in S : n - x \in T
  OBVIOUS
<1>2. T # {} /\ T \subseteq Nat
  BY <1>1
<1> HIDE DEF T
<1>3. PICK t \in T : \A y \in T : t <= y
  BY <1>2, Least
<1>4. n - t \in S /\ t \in Nat
  BY <1>3 DEF T
<1>5. \A y \in S : n - t >= y
  BY <1>1, <1>3, <1>4
<1> QED BY <1>4, <1>5 DEF Max

Args == Fetchers \union {NoFetcher}

\* the stores of the hook, wherever they are
Stores == [loc : {"fn", "polling"}, val : BOOLEAN] \union [loc : {"arg"}, val : Args]

HookTypes ==
  /\ DOMAIN mem = {"fn", "arg", "polling"} /\ mem.arg \in Args
  /\ buf \in [Cores -> Seq(Stores)]

\* engram_v2_create gave out f
Created(f) == f = cur \/ f \in freed

\* who may poll f: the dispatcher's argument is a fetcher that was created
CallTypes ==
  /\ cur \in Args /\ freed \subseteq Fetchers /\ arg \in Args
  /\ running \in [Fetchers -> BOOLEAN]
  /\ \A f \in Fetchers : running[f] = TRUE => Created(f)
  /\ dpc = "poll" => arg \in Fetchers /\ Created(arg)

\* the requests begun lie below the number expected next
JobInv ==
  /\ step \in [Fetchers -> Nat] /\ seen \in [Callers -> Nat]
  /\ expected \in [Fetchers -> Nat] /\ served \in [Fetchers -> Seq(Nat)]
  /\ \A f \in Fetchers : \A i \in DOMAIN served[f] : served[f][i] < expected[f]
  /\ ServedInOrder
  /\ \A f \in Fetchers : ~Created(f) => served[f] = <<>>

\* a fetcher is alive during the engine's calls and while its thread runs
Alive ==
  /\ epc \notin {"idle", "tierJoin"} => cur # NoFetcher
  /\ fpc \in {"loop", "poll"} => cur # NoFetcher /\ epc # "destroy"

OrderInv == HookTypes /\ CallTypes /\ JobInv /\ Alive

\* A load finds a store of its location.
LEMMA LoadTypes ==
  ASSUME HookTypes, NEW c \in Cores
  PROVE  Load(c, "arg") \in Args
<1>1. CASE Buffered(c, "arg") = {}
  BY <1>1 DEF Load, HookTypes
<1>2. CASE Buffered(c, "arg") # {}
  <2> DEFINE i == Max(Buffered(c, "arg"))
  <2>1. buf[c] \in Seq(Stores)
    BY DEF HookTypes
  <2>2. Buffered(c, "arg") \subseteq 1 .. Len(buf[c]) /\ Len(buf[c]) \in Nat
    BY <2>1 DEF Buffered
  <2>3. i \in Buffered(c, "arg")
    BY <1>2, <2>2, LastPosition
  <2> HIDE DEF i
  <2>4. i \in DOMAIN buf[c] /\ buf[c][i].loc = "arg"
    BY <2>3 DEF Buffered
  <2>5. buf[c][i] \in Stores
    BY <2>1, <2>4
  <2>6. \A e \in Stores : e.loc = "arg" => e.val \in Args
    BY DEF Stores
  <2> QED BY <1>2, <2>4, <2>5, <2>6 DEF Load, i
<1> QED BY <1>1, <1>2

\* A store keeps the types of the hook, and so does its arrival in memory.
LEMMA StoreTypes ==
  ASSUME HookTypes, NEW c \in Cores, NEW loc, NEW v,
         [loc |-> loc, val |-> v] \in Stores, Store(c, loc, v)
  PROVE  HookTypes'
<1>1. loc \in {"fn", "arg", "polling"} /\ (loc = "arg" => v \in Args)
  BY DEF Stores
<1>2. CASE BufferDepth = 0
  <2>1. mem' = [mem EXCEPT ![loc] = v] /\ buf' = buf
    BY <1>2 DEF Store
  <2> QED BY <1>1, <2>1 DEF HookTypes, Args
<1>3. CASE BufferDepth # 0
  <2>1. mem' = mem /\ buf' = [buf EXCEPT ![c] = Append(@, [loc |-> loc, val |-> v])]
    BY <1>3 DEF Store
  <2>2. Append(buf[c], [loc |-> loc, val |-> v]) \in Seq(Stores)
    BY DEF HookTypes
  <2> QED BY <2>1, <2>2 DEF HookTypes, Args
<1> QED BY <1>2, <1>3

LEMMA FlushTypes ==
  ASSUME HookTypes, NEW c \in Cores, Flush(c)
  PROVE  HookTypes'
<1> DEFINE e == Head(buf[c])
<1>1. /\ mem' = [mem EXCEPT ![e.loc] = e.val]
      /\ buf' = [buf EXCEPT ![c] = Tail(@)]
      /\ buf[c] # <<>> /\ buf[c] \in Seq(Stores)
  BY DEF Flush, HookTypes
<1>2. e \in Stores /\ Tail(buf[c]) \in Seq(Stores)
  BY <1>1
<1> HIDE DEF e
<1>3. e.loc \in {"fn", "arg", "polling"} /\ (e.loc = "arg" => e.val \in Args)
  BY <1>2 DEF Stores
<1> QED BY <1>1, <1>2, <1>3 DEF HookTypes, Args

\* poll_once begins the expected request, and expects a later one then: whichever
\* thread runs it, and whatever number it had read.
LEMMA ServeInOrder ==
  ASSUME CallTypes, JobInv, NEW c \in Callers, NEW f \in Args, Serve(c, f),
         f \in Fetchers => Created(f), UNCHANGED <<step, seen, cur, freed>>
  PROVE  JobInv'
<1>1. CASE f \notin Fetchers
  <2>1. expected' = expected /\ served' = served
    BY <1>1 DEF Serve, JobInv
  <2> QED BY <2>1 DEF JobInv, ServedInOrder, Created
<1>2. CASE f \in Fetchers
  <2> DEFINE s == seen[c]
             x == expected[f]
             q == served[f]
  <2>1. s \in Nat /\ x \in Nat /\ q \in Seq(Nat) /\ Created(f)
    BY <1>2 DEF JobInv
  <2>2. /\ expected' = [expected EXCEPT ![f] = IF s = x THEN s + 1 ELSE IF s > x THEN s ELSE x]
        /\ served' = [served EXCEPT ![f] = IF s = x THEN Append(q, s) ELSE q]
    BY DEF Serve
  <2>3. /\ \A i \in DOMAIN q : q[i] < x
        /\ \A i, j \in DOMAIN q : i < j => q[i] < q[j]
    BY <1>2 DEF JobInv, ServedInOrder
  <2> HIDE DEF s, x, q
  <2>4. /\ expected' \in [Fetchers -> Nat] /\ served' \in [Fetchers -> Seq(Nat)]
        /\ expected'[f] = IF s = x THEN s + 1 ELSE IF s > x THEN s ELSE x
        /\ served'[f] = IF s = x THEN Append(q, s) ELSE q
        /\ \A g \in Fetchers \ {f} : expected'[g] = expected[g] /\ served'[g] = served[g]
    BY <1>2, <2>1, <2>2 DEF JobInv
  <2>5. /\ \A i \in DOMAIN served'[f] : served'[f][i] < expected'[f]
        /\ \A i, j \in DOMAIN served'[f] : i < j => served'[f][i] < served'[f][j]
    <3>1. CASE s = x
      <4>1. served'[f] = Append(q, x) /\ expected'[f] = x + 1
        BY <2>4, <3>1
      <4>2. /\ DOMAIN Append(q, x) = 1 .. Len(q) + 1 /\ DOMAIN q = 1 .. Len(q) /\ Len(q) \in Nat
            /\ \A i \in 1 .. Len(q) : Append(q, x)[i] = q[i] /\ q[i] \in Nat
            /\ Append(q, x)[Len(q) + 1] = x
        BY <2>1
      <4> QED BY <2>1, <2>3, <4>1, <4>2
    <3>2. CASE s # x
      <4>1. served'[f] = q /\ expected'[f] \in Nat /\ expected'[f] >= x
        BY <2>1, <2>4, <3>2
      <4>2. \A i \in DOMAIN q : q[i] \in Nat
        BY <2>1
      <4> QED BY <2>1, <2>3, <4>1, <4>2
    <3> QED BY <3>1, <3>2
  <2>6. ServedInOrder'
    BY <2>4, <2>5 DEF JobInv, ServedInOrder
  <2> QED BY <2>1, <2>4, <2>5, <2>6 DEF JobInv, Created
<1> QED BY <1>1, <1>2

\* The engine, the fetcher's own thread and the GPU keep the order; they touch the
\* hook by stores and its buffers only.
LEMMA EngineOrder ==
  ASSUME OrderInv, EngineCall \/ EngineReturn
  PROVE  OrderInv'
<1> USE DEF OrderInv
<1>0. Alive'
  <2>1. CASE EngineCall
    BY <2>1, NoFetcherAssumption
       DEF EngineCall, Create, BeginAttach, BeginClose, BeginTierClose, Alive
  <2>2. CASE EngineReturn
    BY <2>2 DEF EngineReturn, Stop, Join, StartPolled, Install, InstallArg, Clear, ClearArg,
                ClearReturn, Destroy, TierJoin, Alive
  <2> QED BY <2>1, <2>2
<1>1. CASE Create
  <2>1. PICK f \in Fetchers \ freed :
          /\ cur' = f /\ expected' = [expected EXCEPT ![f] = 1]
          /\ running' = [running EXCEPT ![f] = TRUE]
    BY <1>1 DEF Create
  <2>2. cur = NoFetcher /\ UNCHANGED <<mem, buf, dpc, arg, seen, freed, step, served>>
    BY <1>1 DEF Create, hookVars
  <2>3. HookTypes'
    BY <2>2 DEF HookTypes
  <2>4. \A g \in Fetchers : /\ Created(g)' <=> Created(g) \/ g = f
                            /\ expected'[g] = IF g = f THEN 1 ELSE expected[g]
                            /\ running'[g] = IF g = f THEN TRUE ELSE running[g]
    BY <2>1, <2>2, NoFetcherAssumption DEF Created, JobInv, CallTypes
  <2>5. served[f] = <<>>
    BY <2>1, <2>2, NoFetcherAssumption DEF Created, JobInv
  <2>6. CallTypes'
    BY <2>1, <2>2, <2>4 DEF CallTypes, Args
  <2>7. ServedInOrder'
    BY <2>2 DEF JobInv, ServedInOrder
  <2>8. \A g \in Fetchers : \A i \in DOMAIN served[g] : served[g][i] < expected'[g]
    <3>1. DOMAIN served[f] = {}
      BY <2>5
    <3> QED BY <2>4, <3>1 DEF JobInv
  <2>9. expected' \in [Fetchers -> Nat]
    BY <2>1 DEF JobInv
  <2> QED BY <1>0, <2>2, <2>3, <2>4, <2>6, <2>7, <2>8, <2>9 DEF JobInv
<1>2. CASE BeginAttach \/ BeginClose \/ BeginTierClose \/ Stop \/ ClearReturn \/ TierJoin
  <2>1. UNCHANGED <<mem, buf, dpc, arg, seen, cur, running, freed, step, expected, served>>
    BY <1>2 DEF BeginAttach, BeginClose, BeginTierClose, Stop, ClearReturn, TierJoin,
                hookVars, fetcherVars, jobVars
  <2> QED BY <1>0, <2>1 DEF HookTypes, CallTypes, JobInv, ServedInOrder, Created
<1>3. CASE Join \/ StartPolled
  <2>1. /\ UNCHANGED <<mem, buf, dpc, arg, seen, cur, freed, step, expected, served>>
        /\ \E b \in BOOLEAN : running' = [running EXCEPT ![cur] = b]
    BY <1>3 DEF Join, StartPolled, hookVars, jobVars
  <2>2. CallTypes'
    BY <2>1 DEF CallTypes, Created
  <2> QED BY <1>0, <2>1, <2>2 DEF HookTypes, JobInv, ServedInOrder, Created
<1>4. CASE Install \/ InstallArg \/ Clear \/ ClearArg
  <2>1. UNCHANGED <<dpc, arg, seen, cur, running, freed, step, expected, served>>
    BY <1>4 DEF Install, InstallArg, Clear, ClearArg, fetcherVars, jobVars
  <2>2. \E loc \in {"fn", "arg"}, v \in Args \union BOOLEAN :
          [loc |-> loc, val |-> v] \in Stores /\ Store("engine", loc, v)
    BY <1>4 DEF Install, InstallArg, Clear, ClearArg, Stores, Args, CallTypes
  <2>3. HookTypes'
    BY <2>2, StoreTypes DEF Cores
  <2> QED BY <1>0, <2>1, <2>3 DEF CallTypes, JobInv, ServedInOrder, Created
<1>5. CASE Destroy
  <2>1. /\ UNCHANGED <<mem, buf, dpc, arg, seen, running, step, expected, served>>
        /\ cur' = NoFetcher /\ freed' = freed \union {cur}
    BY <1>5 DEF Destroy, hookVars, jobVars
  <2>2. \A g \in Fetchers : Created(g)' <=> Created(g)
    BY <2>1, NoFetcherAssumption DEF Created
  <2>3. CallTypes'
    <3>1. cur # NoFetcher
      BY <1>5 DEF Destroy, Alive
    <3> QED BY <2>1, <2>2, <3>1 DEF CallTypes, Args
  <2> QED BY <1>0, <2>1, <2>2, <2>3 DEF HookTypes, JobInv, ServedInOrder
<1> QED BY <1>1, <1>2, <1>3, <1>4, <1>5 DEF EngineCall, EngineReturn

LEMMA DispatcherOrder ==
  ASSUME OrderInv, Dispatcher
  PROVE  OrderInv'
<1> USE DEF OrderInv
<1>0. Alive'
  BY DEF Dispatcher, LoadHook, Announce, Recheck, LoadArg, Enter, PollDone, Retract,
         DispatcherExit, engineVars, Alive
<1>1. CASE LoadHook \/ Recheck \/ DispatcherExit
  <2>1. /\ UNCHANGED <<mem, buf, arg, seen, cur, running, freed, step, expected, served>>
        /\ dpc' # "poll"
    BY <1>1 DEF LoadHook, Recheck, DispatcherExit, hookVars, engineVars, fetcherVars, jobVars
  <2> QED BY <1>0, <2>1 DEF HookTypes, CallTypes, JobInv, ServedInOrder, Created
<1>2. CASE Announce \/ Retract
  <2>1. /\ UNCHANGED <<arg, seen, cur, running, freed, step, expected, served>>
        /\ dpc' # "poll"
    BY <1>2 DEF Announce, Retract, engineVars, fetcherVars, jobVars
  <2>2. PICK v \in BOOLEAN : Store("dispatcher", "polling", v)
    BY <1>2 DEF Announce, Retract
  <2>3. [loc |-> "polling", val |-> v] \in Stores
    BY DEF Stores
  <2>4. HookTypes'
    BY <2>2, <2>3, StoreTypes DEF Cores
  <2> QED BY <1>0, <2>1, <2>4 DEF CallTypes, JobInv, ServedInOrder, Created
<1>3. CASE LoadArg
  <2>1. /\ UNCHANGED <<mem, buf, seen, cur, running, freed, step, expected, served>>
        /\ dpc' = "enter" /\ arg' = Load("dispatcher", "arg")
    BY <1>3 DEF LoadArg, hookVars, engineVars, fetcherVars, jobVars
  <2>2. arg' \in Args
    BY <2>1, LoadTypes DEF Cores
  <2> QED BY <1>0, <2>1, <2>2 DEF HookTypes, CallTypes, JobInv, ServedInOrder, Created
<1>4. CASE Enter
  <2>1. UNCHANGED <<mem, buf, arg, cur, running, freed, step, expected, served>>
    BY <1>4 DEF Enter, hookVars, engineVars, fetcherVars, jobVars
  <2>2. dpc' = "poll" => arg \in Fetchers /\ running[arg] = TRUE
    BY <1>4 DEF Enter, CallTypes, Args
  <2>3. seen' \in [Callers -> Nat]
    <3>1. CASE arg # NoFetcher /\ running[arg]
      BY <1>4, <3>1 DEF Enter, Look, JobInv, CallTypes, Args
    <3>2. CASE ~(arg # NoFetcher /\ running[arg])
      BY <1>4, <3>2 DEF Enter, JobInv
    <3> QED BY <3>1, <3>2
  <2> QED BY <1>0, <2>1, <2>2, <2>3 DEF HookTypes, CallTypes, JobInv, ServedInOrder, Created
<1>5. CASE PollDone
  <2>1. /\ UNCHANGED <<mem, buf, arg, seen, cur, running, freed, step>>
        /\ dpc = "poll" /\ dpc' = "retract" /\ Serve("dispatcher", arg)
    BY <1>5 DEF PollDone, hookVars, engineVars, fetcherVars
  <2>2. arg \in Args /\ Created(arg)
    BY <2>1 DEF CallTypes
  <2>3. JobInv'
    BY <2>1, <2>2, ServeInOrder DEF Callers
  <2> QED BY <1>0, <2>1, <2>3 DEF HookTypes, CallTypes, Created
<1> QED BY <1>1, <1>2, <1>3, <1>4, <1>5 DEF Dispatcher

LEMMA OwnOrder ==
  ASSUME OrderInv, Own
  PROVE  OrderInv'
<1> USE DEF OrderInv
<1>0. Alive'
  BY DEF Own, OwnLook, OwnServe, OwnExit, engineVars, Alive
<1>1. CASE OwnLook
  <2>1. /\ UNCHANGED <<mem, buf, dpc, arg, cur, running, freed, step, expected, served>>
        /\ seen' = [seen EXCEPT !["own"] = step[cur]]
    BY <1>1 DEF OwnLook, Look, hookVars, engineVars, fetcherVars, jobVars
  <2>2. cur \in Fetchers
    BY <1>1 DEF OwnLook, Alive, CallTypes, Args
  <2> QED BY <1>0, <2>1, <2>2 DEF HookTypes, CallTypes, JobInv, ServedInOrder, Created
<1>2. CASE OwnServe
  <2>1. /\ UNCHANGED <<mem, buf, dpc, arg, seen, cur, running, freed, step>>
        /\ Serve("own", cur)
    BY <1>2 DEF OwnServe, hookVars, engineVars, fetcherVars
  <2>2. JobInv'
    BY <2>1, ServeInOrder DEF Callers, CallTypes, Created
  <2> QED BY <1>0, <2>1, <2>2 DEF HookTypes, CallTypes, Created
<1>3. CASE OwnExit
  <2>1. /\ UNCHANGED <<mem, buf, dpc, arg, seen, cur, freed, step, expected, served>>
        /\ running' = [running EXCEPT ![cur] = FALSE]
    BY <1>3 DEF OwnExit, hookVars, engineVars, jobVars
  <2>2. CallTypes'
    BY <2>1 DEF CallTypes, Created
  <2> QED BY <1>0, <2>1, <2>2 DEF HookTypes, JobInv, ServedInOrder, Created
<1> QED BY <1>1, <1>2, <1>3 DEF Own

LEMMA OrderInit == Init => OrderInv
BY NoFetcherAssumption
   DEF Init, OrderInv, HookTypes, CallTypes, JobInv, ServedInOrder, Alive, Args, Created

LEMMA OrderStep ==
  ASSUME OrderInv, [Next]_vars
  PROVE  OrderInv'
<1>1. CASE Publish
  <2>1. /\ UNCHANGED <<mem, buf, dpc, arg, seen, epc, fpc, cur, running, freed, expected, served>>
        /\ step' = [step EXCEPT ![cur] = @ + 1]
    BY <1>1 DEF Publish, hookVars, engineVars, fetcherVars, jobVars
  <2>2. step' \in [Fetchers -> Nat]
    <3>1. cur \in Fetchers
      BY <1>1 DEF Publish, OrderInv, CallTypes, Args
    <3> QED BY <2>1, <3>1 DEF OrderInv, JobInv
  <2> QED BY <2>1, <2>2
          DEF OrderInv, HookTypes, CallTypes, JobInv, ServedInOrder, Created, Alive
<1>2. ASSUME NEW c \in Cores, Flush(c) PROVE OrderInv'
  <2>1. UNCHANGED <<dpc, arg, seen, epc, fpc, cur, running, freed, step, expected, served>>
    BY <1>2 DEF Flush, engineVars, fetcherVars, jobVars
  <2>2. HookTypes'
    BY <1>2, FlushTypes DEF OrderInv
  <2> QED BY <2>1, <2>2 DEF OrderInv, CallTypes, JobInv, ServedInOrder, Created, Alive
<1>3. CASE UNCHANGED vars
  BY <1>3 DEF vars, hookVars, engineVars, fetcherVars, jobVars, OrderInv, HookTypes,
              CallTypes, JobInv, ServedInOrder, Created, Alive
<1> QED BY <1>1, <1>2, <1>3, EngineOrder, DispatcherOrder, OwnOrder DEF Next

\* A request is begun at most once and never after a later one (begin_job,
\* engram_v2.cpp), whichever threads poll and however long their stores stay in the
\* cores' buffers: the number expected only grows, over every change of thread.
THEOREM BegunInOrder == Spec => []ServedInOrder
<1>1. OrderInv => ServedInOrder
  BY DEF OrderInv, JobInv
<1>2. OrderInv /\ [Next]_vars => OrderInv'
  BY OrderStep
<1> QED BY <1>1, <1>2, OrderInit, PTL DEF Spec


-----------------------------------------------------------------------------
(* Who may poll.                                                           *)

\* the engine is taking the live fetcher back from the dispatcher
Handing == epc \in {"clear", "clearArg", "spin"}

\* the engine's program: what it may assume at each point
Program ==
  /\ epc \in {"idle", "stop", "join", "polled", "install", "installArg",
              "clear", "clearArg", "spin", "destroy", "tierJoin"}
  /\ epc \notin {"idle", "tierJoin"} => attached = FALSE
  /\ epc \in {"polled", "install", "installArg"} \/ attached = TRUE \/ Handing
       => fpc = "none"
  /\ cur = NoFetcher => attached = FALSE
  /\ cur \notin freed
  /\ NoFetcher \notin freed
  /\ tierUp = FALSE => dpc = "gone" \/ epc = "tierJoin"

\* f is poll_arg in memory, or will be when a store arrives there
Names(f) ==
  \/ mem.arg = f
  \/ \E c \in Cores : \E i \in DOMAIN buf[c] : buf[c][i] = [loc |-> "arg", val |-> f]

\* f has no thread of its own any more
Handed(f) == f \in freed \/ (f = cur /\ fpc = "none")

TakenInv == \A f \in Fetchers : Names(f) \/ f = arg => Handed(f)

PollInv == OrderInv /\ Program /\ TakenInv

\* A store adds the value it writes.
LEMMA StoreNames ==
  ASSUME HookTypes, NEW c \in Cores, NEW loc, NEW v,
         [loc |-> loc, val |-> v] \in Stores, Store(c, loc, v), NEW f, Names(f)'
  PROVE  Names(f) \/ (loc = "arg" /\ v = f)
<1>1. CASE BufferDepth = 0
  BY <1>1 DEF Store, Names, HookTypes
<1>2. CASE BufferDepth # 0
  <2> DEFINE e == [loc |-> loc, val |-> v]
  <2>1. mem' = mem /\ buf' = [buf EXCEPT ![c] = Append(@, e)] /\ buf \in [Cores -> Seq(Stores)]
    BY <1>2 DEF Store, HookTypes
  <2>2. CASE mem'.arg = f
    BY <2>1, <2>2 DEF Names
  <2>3. ASSUME NEW d \in Cores, NEW i \in DOMAIN buf'[d], buf'[d][i] = [loc |-> "arg", val |-> f]
        PROVE  Names(f) \/ (loc = "arg" /\ v = f)
    <3>1. CASE d # c
      BY <2>1, <2>3, <3>1 DEF Names
    <3>2. CASE d = c
      <4>1. buf[c] \in Seq(Stores) /\ buf'[c] = Append(buf[c], e)
        BY <2>1
      <4>2. i \in 1 .. Len(buf[c]) \/ i = Len(buf[c]) + 1
        BY <2>3, <3>2, <4>1
      <4>3. CASE i \in 1 .. Len(buf[c])
        BY <2>3, <3>2, <4>1, <4>3 DEF Names
      <4>4. CASE i = Len(buf[c]) + 1
        <5>1. buf'[c][i] = e
          BY <4>1, <4>4
        <5>2. e.loc = "arg" /\ e.val = f
          BY <2>3, <3>2, <5>1
        <5> QED BY <5>2
      <4> QED BY <4>2, <4>3, <4>4
    <3> QED BY <3>1, <3>2
  <2> QED BY <2>2, <2>3 DEF Names
<1> QED BY <1>1, <1>2

\* A store that arrives in memory was on its way.
LEMMA FlushNames ==
  ASSUME HookTypes, NEW c \in Cores, Flush(c), NEW f, Names(f)'
  PROVE  Names(f)
<1> DEFINE e == Head(buf[c])
<1>1. /\ mem' = [mem EXCEPT ![e.loc] = e.val]
      /\ buf' = [buf EXCEPT ![c] = Tail(@)]
      /\ buf[c] # <<>> /\ buf[c] \in Seq(Stores) /\ buf \in [Cores -> Seq(Stores)]
  BY DEF Flush, HookTypes
<1>2. /\ e = buf[c][1] /\ 1 \in DOMAIN buf[c] /\ e \in Stores
      /\ \A i \in DOMAIN Tail(buf[c]) : i + 1 \in DOMAIN buf[c] /\ Tail(buf[c])[i] = buf[c][i + 1]
  BY <1>1
<1> HIDE DEF e
<1>3. CASE mem'.arg = f
  <2>1. CASE e.loc = "arg"
    <3>1. e.val = f
      BY <1>1, <1>3, <2>1 DEF HookTypes
    <3>2. e = [loc |-> "arg", val |-> f]
      BY <1>2, <2>1, <3>1 DEF Stores
    <3> QED BY <1>2, <3>2 DEF Names
  <2>2. CASE e.loc # "arg"
    BY <1>1, <1>3, <2>2 DEF Names, HookTypes
  <2> QED BY <2>1, <2>2
<1>4. ASSUME NEW d \in Cores, NEW i \in DOMAIN buf'[d], buf'[d][i] = [loc |-> "arg", val |-> f]
      PROVE  Names(f)
  <2>1. CASE d # c
    BY <1>1, <1>4, <2>1 DEF Names
  <2>2. CASE d = c
    <3>1. buf'[c] = Tail(buf[c])
      BY <1>1
    <3> QED BY <1>2, <1>4, <2>2, <3>1 DEF Names
  <2> QED BY <2>1, <2>2
<1> QED BY <1>3, <1>4 DEF Names

\* What a load of poll_arg finds is one of these.
LEMMA LoadNames ==
  ASSUME HookTypes, NEW c \in Cores
  PROVE  Names(Load(c, "arg"))
<1>1. CASE Buffered(c, "arg") = {}
  BY <1>1 DEF Load, Names
<1>2. CASE Buffered(c, "arg") # {}
  <2> DEFINE i == Max(Buffered(c, "arg"))
  <2>1. buf[c] \in Seq(Stores)
    BY DEF HookTypes
  <2>2. Buffered(c, "arg") \subseteq 1 .. Len(buf[c]) /\ Len(buf[c]) \in Nat
    BY <2>1 DEF Buffered
  <2>3. i \in Buffered(c, "arg")
    BY <1>2, <2>2, LastPosition
  <2> HIDE DEF i
  <2>4. i \in DOMAIN buf[c] /\ buf[c][i].loc = "arg" /\ buf[c][i] \in Stores
    BY <2>1, <2>3 DEF Buffered
  <2>5. \A e \in Stores : e.loc = "arg" => e = [loc |-> "arg", val |-> e.val]
    BY DEF Stores
  <2> QED BY <1>2, <2>4, <2>5 DEF Load, Names, i
<1> QED BY <1>1, <1>2

LEMMA ProgramStep ==
  ASSUME OrderInv, Program, [Next]_vars
  PROVE  Program'
<1> USE DEF Program, Handing
<1>1. CASE Dispatcher
  BY <1>1 DEF Dispatcher, LoadHook, Announce, Recheck, LoadArg, Enter, PollDone, Retract,
              DispatcherExit, engineVars, fetcherVars
<1>2. CASE Own
  BY <1>2 DEF Own, OwnLook, OwnServe, OwnExit, engineVars, fetcherVars
<1>3. CASE EngineCall
  BY <1>3, NoFetcherAssumption
     DEF EngineCall, Create, BeginAttach, BeginClose, BeginTierClose, fetcherVars
<1>4. CASE Stop \/ Join \/ StartPolled \/ Install \/ InstallArg
  BY <1>4 DEF Stop, Join, StartPolled, Install, InstallArg, OrderInv, Alive, fetcherVars
<1>5. CASE Clear \/ ClearArg \/ ClearReturn \/ Destroy \/ TierJoin
  BY <1>5, NoFetcherAssumption
     DEF Clear, ClearArg, ClearReturn, Destroy, TierJoin, OrderInv, Alive, fetcherVars
<1>6. CASE Publish \/ (\E c \in Cores : Flush(c)) \/ UNCHANGED vars
  BY <1>6 DEF Publish, Flush, vars, engineVars, fetcherVars
<1> QED BY <1>1, <1>2, <1>3, <1>4, <1>5, <1>6 DEF Next, EngineReturn

\* A fetcher the hook names has no thread of its own: it was joined before the hook
\* was set, and a new one is created only when the last was destroyed.
LEMMA TakenStep ==
  ASSUME PollInv, [Next]_vars
  PROVE  TakenInv'
<1> USE DEF PollInv, TakenInv
<1>0. HookTypes /\ CallTypes /\ Alive
  BY DEF OrderInv
<1>1. CASE LoadArg
  <2>1. /\ UNCHANGED <<mem, buf, cur, freed, fpc>> /\ arg' = Load("dispatcher", "arg")
    BY <1>1 DEF LoadArg, hookVars, engineVars, fetcherVars
  <2>2. Names(arg')
    BY <1>0, <2>1, LoadNames DEF Cores
  <2> QED BY <2>1, <2>2 DEF Names, Handed
<1>2. CASE Announce \/ Retract \/ Install \/ Clear \/ ClearArg
  <2>1. UNCHANGED <<arg, cur, freed, fpc>>
    BY <1>2 DEF Announce, Retract, Install, Clear, ClearArg, engineVars, fetcherVars
  <2>2. PICK c \in Cores, loc \in {"polling", "fn", "arg"}, v \in BOOLEAN \union {NoFetcher} :
          /\ Store(c, loc, v) /\ [loc |-> loc, val |-> v] \in Stores
          /\ loc = "arg" => v = NoFetcher
    BY <1>2 DEF Announce, Retract, Install, Clear, ClearArg, Stores, Args, Cores
  <2>3. \A f \in Fetchers : Names(f)' => Names(f)
    BY <1>0, <2>2, StoreNames, NoFetcherAssumption
  <2> QED BY <2>1, <2>3 DEF Handed
<1>3. CASE InstallArg
  <2>1. UNCHANGED <<arg, cur, freed, fpc>> /\ Store("engine", "arg", cur) /\ fpc = "none"
    BY <1>3 DEF InstallArg, Program, fetcherVars
  <2>2. [loc |-> "arg", val |-> cur] \in Stores
    BY <1>0 DEF Stores, CallTypes
  <2>3. \A f \in Fetchers : Names(f)' => Names(f) \/ f = cur
    BY <1>0, <2>1, <2>2, StoreNames DEF Cores
  <2> QED BY <2>1, <2>3 DEF Handed
<1>4. ASSUME NEW c \in Cores, Flush(c) PROVE TakenInv'
  <2>1. UNCHANGED <<arg, cur, freed, fpc>>
    BY <1>4 DEF Flush, engineVars, fetcherVars
  <2>2. \A f \in Fetchers : Names(f)' => Names(f)
    BY <1>0, <1>4, FlushNames
  <2> QED BY <2>1, <2>2 DEF Handed
<1>5. CASE Create
  <2>1. UNCHANGED <<mem, buf, arg, freed>> /\ cur = NoFetcher
    BY <1>5 DEF Create, hookVars
  <2> QED BY <2>1, NoFetcherAssumption DEF Names, Handed
<1>6. CASE Destroy
  <2>1. UNCHANGED <<mem, buf, arg, fpc>> /\ freed' = freed \union {cur}
    BY <1>6 DEF Destroy, hookVars
  <2> QED BY <2>1 DEF Names, Handed
<1>7. CASE Own
  <2>1. UNCHANGED <<mem, buf, arg, cur, freed>> /\ fpc # "none"
    BY <1>7 DEF Own, OwnLook, OwnServe, OwnExit, hookVars, engineVars, fetcherVars
  <2> QED BY <2>1 DEF Names, Handed
<1>8. CASE Join
  <2>1. UNCHANGED <<mem, buf, arg, cur, freed>> /\ fpc' = "none"
    BY <1>8 DEF Join, hookVars
  <2> QED BY <2>1 DEF Names, Handed
<1>9. CASE LoadHook \/ Recheck \/ Enter \/ PollDone \/ DispatcherExit \/ BeginAttach \/ BeginClose
           \/ BeginTierClose \/ Stop \/ StartPolled \/ ClearReturn \/ TierJoin \/ Publish
           \/ UNCHANGED vars
  <2>1. UNCHANGED <<mem, buf, arg, cur, freed, fpc>>
    BY <1>9 DEF LoadHook, Recheck, Enter, PollDone, DispatcherExit, BeginAttach, BeginClose,
                BeginTierClose, Stop, StartPolled, ClearReturn, TierJoin, Publish, vars,
                hookVars, engineVars, fetcherVars
  <2> QED BY <2>1 DEF Names, Handed
<1> QED
  BY <1>1, <1>2, <1>3, <1>4, <1>5, <1>6, <1>7, <1>8, <1>9
     DEF Next, Dispatcher, EngineCall, EngineReturn

LEMMA PollInit == Init => PollInv
<1>1. Init => Program
  BY NoFetcherAssumption DEF Init, Program, Handing
<1>2. Init => TakenInv
  BY NoFetcherAssumption DEF Init, TakenInv, Names, Handed
<1> QED BY <1>1, <1>2, OrderInit DEF PollInv

LEMMA PollStep == PollInv /\ [Next]_vars => PollInv'
BY OrderStep, ProgramStep, TakenStep DEF PollInv

\* "one caller at a time" (engram_v2.cpp:601), however long the stores of the hook
\* stay in the cores' buffers: what the hook names, in memory or on its way there,
\* has no thread of its own.
THEOREM PolledByOne == Spec => []OneCaller
<1>1. PollInv => OneCaller
  BY DEF PollInv, OrderInv, CallTypes, Alive, Program, TakenInv, Handed, OneCaller, Args
<1> QED BY <1>1, PollInit, PollStep, PTL DEF Spec

-----------------------------------------------------------------------------
(* The handshake.                                                          *)

\* no store of the handshake is held back: the engine's clear is in memory, and
\* no announcement of the dispatcher is on its way there
Seen ==
  /\ buf["engine"] = <<>>
  /\ \A i \in DOMAIN buf["dispatcher"] : buf["dispatcher"][i].val = FALSE

\* the dispatcher has announced a call
InCall == dpc \in {"recheck", "load", "enter", "poll", "retract"}

\* which words each core writes
Words(c) == IF c = "dispatcher" THEN {"polling"} ELSE {"fn", "arg"}
Sides ==
  /\ \A c \in Cores : \A i \in DOMAIN buf[c] : buf[c][i].loc \in Words(c)
  /\ BufferDepth = 0 => \A c \in Cores : buf[c] = <<>>

\* a core's newest store of a word, or the word itself when it holds none back
Newest(c, loc) == IF buf[c] = <<>> THEN [loc |-> loc, val |-> mem[loc]] ELSE buf[c][Len(buf[c])]

Announced == InCall => Newest("dispatcher", "polling").val = TRUE
Cleared == epc = "spin" => Newest("engine", "arg") = [loc |-> "arg", val |-> NoFetcher]

\* the argument the dispatcher would load is the live fetcher
Installed ==
  \A f \in Fetchers : dpc # "gone" /\ Names(f) => f = cur /\ (attached = TRUE \/ Handing)

\* and so is the one it has loaded, until the clear returns
Called ==
  dpc \in {"enter", "poll"} /\ arg # NoFetcher => arg = cur /\ (attached = TRUE \/ Handing)

HookInv == PollInv /\ Sides /\ Announced /\ Cleared /\ Installed /\ Called

\* What the lemmas about one store or one arrival keep of the other core's words.
Apart(c) ==
  \A d \in Cores \ {c} : buf'[d] = buf[d] /\ \A m \in Words(d) : mem'[m] = mem[m]

\* A store is its core's newest.
LEMMA StoreNewest ==
  ASSUME HookTypes, Sides, NEW c \in Cores, NEW loc \in Words(c), NEW v, Store(c, loc, v)
  PROVE  /\ Sides' /\ Apart(c)
         /\ Newest(c, loc)' = [loc |-> loc, val |-> v]
<1>1. loc \in DOMAIN mem /\ \A d \in Cores \ {c} : loc \notin Words(d)
  BY DEF Words, HookTypes, Cores
<1>2. CASE BufferDepth = 0
  <2>1. mem' = [mem EXCEPT ![loc] = v] /\ buf' = buf
    BY <1>2 DEF Store
  <2> QED BY <1>1, <1>2, <2>1 DEF Sides, Newest, Apart
<1>3. CASE BufferDepth # 0
  <2> DEFINE e == [loc |-> loc, val |-> v]
  <2>1. mem' = mem /\ buf' = [buf EXCEPT ![c] = Append(@, e)] /\ buf \in [Cores -> Seq(Stores)]
    BY <1>3 DEF Store, HookTypes
  <2>2. e.loc = loc
    OBVIOUS
  <2> HIDE DEF e
  <2>3. buf'[c] = Append(buf[c], e) /\ buf[c] \in Seq(Stores)
    BY <2>1
  <2>4. /\ Len(buf'[c]) = Len(buf[c]) + 1 /\ buf'[c] # <<>> /\ buf'[c][Len(buf'[c])] = e
        /\ \A i \in DOMAIN buf'[c] : (i \in DOMAIN buf[c] /\ buf'[c][i] = buf[c][i]) \/ buf'[c][i] = e
    BY <2>3
  <2>5. Sides'
    BY <1>3, <2>1, <2>2, <2>4 DEF Sides
  <2>6. Apart(c)
    BY <2>1 DEF Apart
  <2> QED BY <2>4, <2>5, <2>6 DEF Newest, e
<1> QED BY <1>2, <1>3

\* Without its head a sequence keeps its last element.
LEMMA TailLast ==
  ASSUME NEW S, NEW q \in Seq(S), q # <<>>
  PROVE  IF Len(q) = 1 THEN Tail(q) = <<>> ELSE Tail(q) # <<>> /\ Tail(q)[Len(Tail(q))] = q[Len(q)]
<1>1. Len(q) \in Nat /\ Len(q) # 0 /\ Tail(q) \in Seq(S)
  OBVIOUS
<1>2. Len(Tail(q)) = Len(q) - 1
  OBVIOUS
<1>3. \A i \in 1 .. Len(Tail(q)) : Tail(q)[i] = q[i + 1]
  OBVIOUS
<1>4. CASE Len(q) = 1
  <2>1. Len(Tail(q)) = 0
    BY <1>2, <1>4
  <2>2. Tail(q) = <<>>
    BY <1>1, <2>1, EmptySeq
  <2> QED BY <1>4, <2>2
<1>5. CASE Len(q) # 1
  <2>1. Len(Tail(q)) \in 1 .. Len(Tail(q)) /\ Len(Tail(q)) + 1 = Len(q) /\ Len(Tail(q)) # 0
    BY <1>1, <1>2, <1>5
  <2>2. Tail(q) # <<>>
    <3>1. Len(<<>>) = 0
      BY EmptySeq
    <3> QED BY <2>1, <3>1
  <2>3. Tail(q)[Len(Tail(q))] = q[Len(q)]
    BY <1>3, <2>1
  <2> QED BY <1>5, <2>2, <2>3
<1> QED BY <1>4, <1>5

\* The arrival of a core's oldest store leaves its newest one as it was.
LEMMA FlushNewest ==
  ASSUME HookTypes, Sides, NEW c \in Cores, Flush(c)
  PROVE  /\ Sides' /\ Apart(c)
         /\ \A loc \in Words(c) : Newest(c, loc).loc = loc => Newest(c, loc)' = Newest(c, loc)
<1> DEFINE e == Head(buf[c])
<1>1. /\ mem' = [mem EXCEPT ![e.loc] = e.val]
      /\ buf' = [buf EXCEPT ![c] = Tail(@)]
      /\ buf[c] # <<>> /\ buf[c] \in Seq(Stores) /\ buf \in [Cores -> Seq(Stores)]
  BY DEF Flush, HookTypes
<1>2. /\ e = buf[c][1] /\ 1 \in DOMAIN buf[c] /\ e \in Stores
      /\ \A i \in DOMAIN Tail(buf[c]) : i + 1 \in DOMAIN buf[c] /\ Tail(buf[c])[i] = buf[c][i + 1]
      /\ buf'[c] = Tail(buf[c])
  BY <1>1
<1>9. IF Len(buf[c]) = 1 THEN Tail(buf[c]) = <<>>
      ELSE Tail(buf[c]) # <<>> /\ Tail(buf[c])[Len(Tail(buf[c]))] = buf[c][Len(buf[c])]
  BY <1>1, TailLast
<1> HIDE DEF e
<1>3. e.loc \in Words(c) /\ e.loc \in DOMAIN mem /\ e = [loc |-> e.loc, val |-> e.val]
  BY <1>2 DEF Sides, HookTypes, Stores
<1>4. BufferDepth # 0
  BY <1>1 DEF Sides
<1>5. Sides'
  BY <1>1, <1>2, <1>4 DEF Sides
<1>6. Apart(c)
  BY <1>1, <1>3 DEF Apart, Words, Cores
<1>7. ASSUME NEW loc \in Words(c), Newest(c, loc).loc = loc
      PROVE  Newest(c, loc)' = Newest(c, loc)
  <2>1. CASE Len(buf[c]) = 1
    <3>1. Newest(c, loc) = e /\ buf'[c] = <<>>
      BY <1>1, <1>2, <1>9, <2>1 DEF Newest
    <3>2. e.loc = loc /\ mem'[loc] = e.val
      BY <1>1, <1>3, <1>7, <3>1
    <3> QED BY <1>3, <3>1, <3>2 DEF Newest
  <2>2. CASE Len(buf[c]) # 1
    BY <1>1, <1>2, <1>9, <2>2 DEF Newest
  <2> QED BY <2>1, <2>2
<1> QED BY <1>5, <1>6, <1>7

\* A clear that returns with nothing held back finds no call in progress, and no
\* fetcher named.
LEMMA ReturnSeen ==
  ASSUME HookInv, ClearReturn, Seen
  PROVE  ~InCall /\ \A f \in Fetchers : ~Names(f)
<1>1. HookTypes /\ "engine" \in Cores /\ "dispatcher" \in Cores
  BY DEF HookInv, PollInv, OrderInv, Cores
<1>2. Buffered("engine", "polling") = {}
  BY DEF Seen, Buffered
<1>3. mem.polling = FALSE
  BY <1>2 DEF ClearReturn, Load
<1>4. ~InCall
  <2>1. CASE buf["dispatcher"] = <<>>
    BY <1>3, <2>1 DEF HookInv, Announced, Newest
  <2>2. CASE buf["dispatcher"] # <<>>
    <3>1. Len(buf["dispatcher"]) \in DOMAIN buf["dispatcher"]
      <4>1. buf["dispatcher"] \in Seq(Stores)
        BY <1>1 DEF HookTypes
      <4> QED BY <2>2, <4>1
    <3> QED BY <2>2, <3>1 DEF HookInv, Announced, Newest, Seen
  <2> QED BY <2>1, <2>2
<1>5. mem.arg = NoFetcher
  BY DEF ClearReturn, HookInv, Cleared, Newest, Seen
<1>6. \A c \in Cores : \A i \in DOMAIN buf[c] : buf[c][i].loc # "arg"
  BY DEF Seen, Cores, HookInv, Sides, Words
<1> QED BY <1>4, <1>5, <1>6, NoFetcherAssumption DEF Names

LEMMA HookInit == Init => HookInv
<1> SUFFICES ASSUME Init PROVE HookInv
  OBVIOUS
<1>1. /\ buf = [c \in Cores |-> <<>>] /\ mem.arg = NoFetcher /\ arg = NoFetcher
      /\ dpc = "top" /\ epc = "idle"
  BY DEF Init
<1>2. \A f \in Fetchers : ~Names(f)
  BY <1>1, NoFetcherAssumption DEF Names
<1> QED
  BY <1>1, <1>2, PollInit
     DEF HookInv, Sides, Announced, Cleared, Installed, Called, InCall

\* Steps that neither store nor move a store.
LEMMA QuietStep ==
  ASSUME HookInv, PollInv', UNCHANGED hookVars,
         Dispatcher \/ Own \/ EngineCall \/ EngineReturn \/ Publish \/ UNCHANGED vars,
         ClearReturn => Seen,
         ~(Announce \/ Retract \/ Install \/ InstallArg \/ Clear \/ ClearArg)
  PROVE  HookInv'
<1> USE DEF HookInv
<1>0. /\ mem' = mem /\ buf' = buf
      /\ \A f : Names(f)' <=> Names(f)
      /\ \A c, loc : Newest(c, loc)' = Newest(c, loc)
  BY DEF hookVars, Names, Newest
<1>1. Sides'
  BY <1>0 DEF Sides
<1>2. CASE LoadArg
  <2>1. Names(arg')
    BY <1>2, LoadNames DEF LoadArg, PollInv, OrderInv, Cores
  <2>2. dpc = "load" /\ dpc' = "enter" /\ UNCHANGED <<epc, cur, attached>>
    BY <1>2 DEF LoadArg, engineVars
  <2>3. arg' \in Args
    BY DEF PollInv, OrderInv, CallTypes
  <2> QED BY <1>0, <1>1, <2>1, <2>2, <2>3
          DEF Announced, Cleared, Installed, Called, InCall, Handing, Args
<1>3. CASE LoadHook \/ Recheck \/ Enter \/ PollDone \/ DispatcherExit
  <2>1. UNCHANGED <<arg, epc, cur, attached>>
    BY <1>3 DEF LoadHook, Recheck, Enter, PollDone, DispatcherExit, engineVars
  <2>2. /\ InCall' => InCall
        /\ dpc' \in {"enter", "poll"} => dpc \in {"enter", "poll"}
        /\ dpc # "gone"
    BY <1>3 DEF LoadHook, Recheck, Enter, PollDone, DispatcherExit, InCall
  <2> QED BY <1>0, <1>1, <2>1, <2>2 DEF Announced, Cleared, Installed, Called, Handing
<1>4. CASE Own \/ Publish \/ UNCHANGED vars
  <2>1. UNCHANGED <<dpc, arg, epc, cur, attached>>
    BY <1>4 DEF Own, OwnLook, OwnServe, OwnExit, Publish, vars, engineVars
  <2> QED BY <1>0, <1>1, <2>1 DEF Announced, Cleared, Installed, Called, InCall, Handing
<1>5. CASE ClearReturn
  <2>1. UNCHANGED <<dpc, arg, cur, attached>> /\ epc' = "stop"
    BY <1>5 DEF ClearReturn
  <2>2. ~InCall /\ \A f \in Fetchers : ~Names(f)
    BY <1>5, ReturnSeen
  <2> QED BY <1>0, <1>1, <2>1, <2>2 DEF Announced, Cleared, Installed, Called, InCall
<1>6. CASE Create \/ BeginAttach \/ BeginTierClose \/ Stop \/ Join \/ StartPolled \/ Destroy
           \/ TierJoin
  <2>1. UNCHANGED <<dpc, arg, attached>> /\ epc' # "spin" /\ ~Handing /\ ~Handing'
    BY <1>6 DEF Create, BeginAttach, BeginTierClose, Stop, Join, StartPolled, Destroy, TierJoin,
                Handing
  <2>2. attached = TRUE => cur' = cur
    BY <1>6, NoFetcherAssumption
       DEF Create, BeginAttach, BeginTierClose, Stop, Join, StartPolled, Destroy, TierJoin,
           PollInv, Program
  <2> QED BY <1>0, <1>1, <2>1, <2>2 DEF Announced, Cleared, Installed, Called, InCall
<1>7. CASE BeginClose
  <2>1. UNCHANGED <<dpc, arg, cur>> /\ epc = "idle" /\ epc' # "spin"
        /\ (attached = TRUE => Handing' \/ dpc = "gone")
    BY <1>7 DEF BeginClose, PollInv, Program, Handing
  <2> QED BY <1>0, <1>1, <2>1 DEF Announced, Cleared, Installed, Called, InCall, Handing
<1> QED BY <1>2, <1>3, <1>4, <1>5, <1>6, <1>7 DEF Dispatcher, EngineCall, EngineReturn

\* The stores of the two sides.
LEMMA StoreStep ==
  ASSUME HookInv, PollInv',
         Announce \/ Retract \/ Install \/ InstallArg \/ Clear \/ ClearArg
  PROVE  HookInv'
<1> USE DEF HookInv
<1>0. HookTypes /\ "engine" \in Cores /\ "dispatcher" \in Cores
  BY DEF PollInv, OrderInv, Cores
<1>1. CASE Announce \/ Retract
  <2>1. PICK v \in BOOLEAN : /\ Store("dispatcher", "polling", v)
                             /\ InCall' => v = TRUE
    BY <1>1 DEF Announce, Retract, InCall
  <2>2. UNCHANGED <<arg, epc, cur, attached>> /\ dpc # "gone" /\ dpc' \notin {"enter", "poll"}
    BY <1>1 DEF Announce, Retract, engineVars
  <2>3. "polling" \in Words("dispatcher") /\ [loc |-> "polling", val |-> v] \in Stores
    BY DEF Words, Stores
  <2>4. /\ Sides' /\ Apart("dispatcher")
        /\ Newest("dispatcher", "polling")' = [loc |-> "polling", val |-> v]
    BY <1>0, <2>1, <2>3, StoreNewest
  <2>5. \A f \in Fetchers : Names(f)' => Names(f)
    BY <1>0, <2>1, <2>3, StoreNames
  <2>6. Newest("engine", "arg")' = Newest("engine", "arg")
    BY <1>0, <2>4 DEF Apart, Newest, Words
  <2> QED BY <2>1, <2>2, <2>4, <2>5, <2>6 DEF Announced, Cleared, Installed, Called, Handing
<1>2. CASE Install \/ InstallArg \/ Clear \/ ClearArg
  <2>1. PICK loc \in Words("engine"), v \in BOOLEAN \union Args :
          /\ Store("engine", loc, v) /\ [loc |-> loc, val |-> v] \in Stores
          /\ loc = "arg" => (v = cur /\ InstallArg) \/ (v = NoFetcher /\ ClearArg)
          /\ loc # "arg" => ~ClearArg /\ ~InstallArg
    BY <1>2 DEF Install, InstallArg, Clear, ClearArg, Words, Stores, Args, PollInv, OrderInv,
                CallTypes
  <2>2. UNCHANGED <<dpc, arg, cur>>
    BY <1>2 DEF Install, InstallArg, Clear, ClearArg, engineVars
  <2>3. /\ Sides' /\ Apart("engine") /\ Newest("engine", loc)' = [loc |-> loc, val |-> v]
    BY <1>0, <2>1, StoreNewest
  <2>4. \A f \in Fetchers : Names(f)' => Names(f) \/ (f = cur /\ InstallArg)
    BY <1>0, <2>1, StoreNames, NoFetcherAssumption
  <2>5. Newest("dispatcher", "polling")' = Newest("dispatcher", "polling")
    BY <1>0, <2>3 DEF Apart, Newest, Words
  <2>6. epc' = "spin" => loc = "arg" /\ v = NoFetcher
    BY <1>2, <2>1 DEF Install, InstallArg, Clear, ClearArg
  <2>7. Cleared'
    BY <2>3, <2>6 DEF Cleared
  <2>8. /\ attached = TRUE \/ Handing => attached' = TRUE \/ Handing'
        /\ InstallArg => attached' = TRUE
    BY <1>2 DEF Install, InstallArg, Clear, ClearArg, Handing, PollInv, Program
  <2> QED BY <2>2, <2>3, <2>4, <2>5, <2>7, <2>8 DEF Announced, Installed, Called, InCall
<1> QED BY <1>1, <1>2

LEMMA ArriveStep ==
  ASSUME HookInv, PollInv', NEW c \in Cores, Flush(c)
  PROVE  HookInv'
<1> USE DEF HookInv
<1>0. HookTypes /\ "engine" \in Cores /\ "dispatcher" \in Cores
  BY DEF PollInv, OrderInv, Cores
<1>1. UNCHANGED <<dpc, arg, epc, cur, attached>>
  BY DEF Flush, engineVars
<1>2. /\ Sides' /\ Apart(c)
      /\ \A loc \in Words(c) : Newest(c, loc).loc = loc => Newest(c, loc)' = Newest(c, loc)
  BY <1>0, FlushNewest
<1>3. \A f \in Fetchers : Names(f)' => Names(f)
  BY <1>0, FlushNames
<1>4. Newest("dispatcher", "polling").loc = "polling"
  <2>1. CASE buf["dispatcher"] = <<>>
    BY <2>1 DEF Newest
  <2>2. CASE buf["dispatcher"] # <<>>
    <3>1. buf["dispatcher"] \in Seq(Stores)
      BY <1>0 DEF HookTypes
    <3>2. Len(buf["dispatcher"]) \in DOMAIN buf["dispatcher"]
      BY <2>2, <3>1
    <3> QED BY <1>0, <2>2, <3>2 DEF Newest, Sides, Words
  <2> QED BY <2>1, <2>2
<1>5. Newest("dispatcher", "polling")' = Newest("dispatcher", "polling")
  <2>1. CASE c = "dispatcher"
    BY <1>2, <1>4, <2>1 DEF Words
  <2>2. CASE c # "dispatcher"
    BY <1>0, <1>2, <2>2 DEF Apart, Newest, Words
  <2> QED BY <2>1, <2>2
<1>6. Cleared'
  <2>1. CASE c = "engine"
    BY <1>1, <1>2, <2>1 DEF Words, Cleared
  <2>2. CASE c # "engine"
    <3>1. Newest("engine", "arg")' = Newest("engine", "arg")
      BY <1>0, <1>2, <2>2 DEF Apart, Newest, Words
    <3> QED BY <1>1, <3>1 DEF Cleared
  <2> QED BY <2>1, <2>2
<1> QED BY <1>1, <1>2, <1>3, <1>5, <1>6 DEF Announced, Installed, Called, InCall, Handing

\* A fetcher the dispatcher's call touches has not been destroyed (the promise at
\* cpu_tier.cpp:872), for stores held back in any number, as long as no clear
\* returns before the handshake's stores are seen: a call on a freed fetcher has
\* no other cause than a clear that returned past a store in a buffer.
THEOREM NoCallAfterFree ==
  Spec /\ [][ClearReturn => Seen]_vars => []NoCallOnFreed
<1>1. HookInv /\ [Next]_vars /\ [ClearReturn => Seen]_vars => HookInv'
  <2> SUFFICES ASSUME HookInv, [Next]_vars, [ClearReturn => Seen]_vars PROVE HookInv'
    OBVIOUS
  <2>1. PollInv'
    BY PollStep DEF HookInv
  <2>2. CASE \E c \in Cores : Flush(c)
    BY <2>1, <2>2, ArriveStep
  <2>3. CASE Announce \/ Retract \/ Install \/ InstallArg \/ Clear \/ ClearArg
    BY <2>1, <2>3, StoreStep
  <2>4. CASE ~(Announce \/ Retract \/ Install \/ InstallArg \/ Clear \/ ClearArg)
             /\ ~\E c \in Cores : Flush(c)
    <3>1. Dispatcher \/ Own \/ EngineCall \/ EngineReturn \/ Publish \/ UNCHANGED vars
      BY <2>4 DEF Next
    <3>2. UNCHANGED hookVars
      BY <2>4, <3>1
         DEF Dispatcher, LoadHook, Recheck, LoadArg, Enter, PollDone, DispatcherExit,
             Own, OwnLook, OwnServe, OwnExit, Publish, vars, hookVars,
             EngineCall, Create, BeginAttach, BeginClose, BeginTierClose,
             EngineReturn, Stop, Join, StartPolled, ClearReturn, Destroy, TierJoin
    <3>3. ClearReturn => Seen
      <4>1. ClearReturn => epc = "spin" /\ epc' = "stop"
        BY DEF ClearReturn
      <4> QED BY <4>1 DEF vars, engineVars
    <3> QED BY <2>1, <2>4, <3>1, <3>2, <3>3, QuietStep
  <2> QED BY <2>2, <2>3, <2>4
<1>2. HookInv => NoCallOnFreed
  BY DEF HookInv, PollInv, Program, Called, NoCallOnFreed
<1> QED BY <1>1, <1>2, HookInit, PTL DEF Spec

=============================================================================
