--------------------------- MODULE BenchRunProofs ---------------------------
(* What holds of BenchRun for any number of runners, recipes and plans,    *)
(* wherever a runner is killed or interrupted.                             *)
EXTENDS BenchRun, TLAPS

\* Where a runner may have a server of its own that still runs.
MayServe == {"load", "unwanted", "measure", "stop", "killed"}

TodoInv == \A p \in Procs : todo[p] # <<>>
ServerInv ==
  \A p \in Procs \ Stubborn :
    at[p] \notin MayServe /\ ~(at[p] = "raised" /\ p \in Docker) => server[p] \notin {"loading", "up"}
RunInv == TypeOK /\ TodoInv /\ ServerInv

LEMMA InitInv ==
  ASSUME Init
  PROVE  RunInv
<1>1. Plan \in [Procs -> Seq(Recipes)] /\ \A p \in Procs : Plan[p] # <<>>
  BY BenchAssumption
<1>2. result \in [Recipes -> [by : Procs \cup {NoProc}, status : {"", "ok", "partial", "failed"}]]
  BY DEF Init, NoResult
<1>3. at \in [Procs -> Places]
  BY DEF Init, Places
<1>4. TypeOK
  BY <1>1, <1>2, <1>3 DEF Init, TypeOK
<1>5. TodoInv /\ ServerInv
  BY <1>1 DEF Init, TodoInv, ServerInv
<1> QED BY <1>4, <1>5 DEF RunInv

\* A process goes from one place to another.
LEMMA Moves ==
  ASSUME TypeOK, NEW p \in Procs, NEW to \in Places, at' = [at EXCEPT ![p] = to]
  PROVE  /\ at' \in [Procs -> Places] /\ at'[p] = to
         /\ \A q \in Procs \ {p} : at'[q] = at[q]
BY DEF TypeOK

LEMMA CurrentRecipe ==
  ASSUME TypeOK, TodoInv, NEW p \in Procs
  PROVE  Rec(p) \in Recipes
<1>1. todo[p] \in Seq(Recipes) /\ todo[p] # <<>>
  BY DEF TypeOK, TodoInv
<1> QED BY <1>1 DEF Rec

-----------------------------------------------------------------------------
(* Before the launch.                                                      *)

LEMMA ReserveInv ==
  ASSUME RunInv, NEW p \in Procs,
         \/ Preflight(p) \/ CheckResult(p) \/ TakeGuard(p) \/ CreateLock(p)
         \/ ReadOwner(p) \/ StealLock(p) \/ Unguard(p) \/ Stamp(p)
  PROVE  RunInv'
<1> USE DEF RunInv, runVars, fileVars, serverVars, LeaveGuard, Go, MayServe
<1>1. Rec(p) \in Recipes
  BY CurrentRecipe
<1>2. UNCHANGED <<todo, outcome, measured, result, server, port>>
  BY DEF Preflight, CheckResult, TakeGuard, CreateLock, ReadOwner, StealLock, Unguard, Stamp
<1>3. \E to \in {"exists", "refused", "guard", "create", "unguard", "owner", "steal", "stamp", "port"} :
        at' = [at EXCEPT ![p] = to]
  BY DEF Preflight, CheckResult, TakeGuard, CreateLock, ReadOwner, StealLock, Unguard, Stamp
<1>4. at[p] \notin MayServe \cup {"raised"}
  BY DEF Preflight, CheckResult, TakeGuard, CreateLock, ReadOwner, StealLock, Unguard, Stamp
<1>5. /\ lock' \in [Recipes -> Procs \cup {NoProc}] /\ stamped' \subseteq Procs \X Recipes
      /\ guard' \in Procs \cup {NoProc}
  <2>1. lock' = lock \/ lock' = [lock EXCEPT ![Rec(p)] = p]
    BY DEF Preflight, CheckResult, TakeGuard, CreateLock, ReadOwner, StealLock, Unguard, Stamp
  <2>2. stamped' = stamped \/ stamped' = stamped \cup {<<p, Rec(p)>>}
    BY DEF Preflight, CheckResult, TakeGuard, CreateLock, ReadOwner, StealLock, Unguard, Stamp
  <2>3. guard' \in {guard, p, NoProc}
    BY DEF Preflight, CheckResult, TakeGuard, CreateLock, ReadOwner, StealLock, Unguard, Stamp
  <2>4. lock \in [Recipes -> Procs \cup {NoProc}] /\ stamped \subseteq Procs \X Recipes
        /\ guard \in Procs \cup {NoProc}
    BY DEF TypeOK
  <2>5. lock' \in [Recipes -> Procs \cup {NoProc}]
    BY <2>1, <2>4
  <2>6. <<p, Rec(p)>> \in Procs \X Recipes
    BY <1>1
  <2>7. stamped' \subseteq Procs \X Recipes
    BY <2>2, <2>4, <2>6
  <2> QED BY <2>3, <2>4, <2>5, <2>7
<1>8. /\ at' \in [Procs -> Places] /\ at'[p] \notin {"unwanted", "published?", "mine?", "link"}
      /\ \A q \in Procs \ {p} : at'[q] = at[q]
  <2>1. PICK to \in {"exists", "refused", "guard", "create", "unguard", "owner", "steal", "stamp", "port"} :
          at' = [at EXCEPT ![p] = to]
    BY <1>3
  <2>2. to \in Places /\ to \notin {"unwanted", "published?", "mine?", "link"}
    BY DEF Places, Ended
  <2> QED BY <2>1, <2>2, Moves
<1>6. TypeOK'
  BY <1>2, <1>5, <1>8 DEF TypeOK
<1>7. TodoInv' /\ ServerInv'
  BY <1>2, <1>4, <1>8 DEF TodoInv, ServerInv
<1> QED BY <1>6, <1>7

-----------------------------------------------------------------------------
(* The server.                                                             *)

LEMMA ServeInv ==
  ASSUME RunInv, NEW p \in Procs,
         \/ ProbePort(p) \/ Boot(p) \/ SeeExit(p) \/ SeeHealth(p) \/ LoadTimeout(p) \/ Measure(p)
  PROVE  RunInv'
<1> USE DEF RunInv, runVars, fileVars, serverVars, Go, MayServe, Conclude
<1>1. UNCHANGED <<todo, result, lock, stamped, guard, port>>
  BY DEF ProbePort, Boot, SeeExit, SeeHealth, LoadTimeout, Measure
<1>2. \E to \in {"boot", "published?", "load", "unwanted", "measure", "stop"} : at' = [at EXCEPT ![p] = to]
  BY DEF ProbePort, Boot, SeeExit, SeeHealth, LoadTimeout, Measure
<1>3. measured' \in [Procs -> Procs \cup {NoProc}]
  BY DEF TypeOK, NoPort, ProbePort, Boot, SeeExit, SeeHealth, LoadTimeout, Measure
<1>4. server' \in [Procs -> {"none", "loading", "up", "exited"}]
  BY DEF TypeOK, ProbePort, Boot, SeeExit, SeeHealth, LoadTimeout, Measure
<1>5. outcome' \in [Procs -> {"ok", "partial", "failed", "raise"}]
  BY DEF TypeOK, ProbePort, Boot, SeeExit, SeeHealth, LoadTimeout, Measure
<1>6. at'[p] \in {"unwanted", "published?", "mine?", "link"} => outcome'[p] # "raise"
  BY <1>2 DEF TypeOK, ProbePort, Boot, SeeExit, SeeHealth, LoadTimeout, Measure
<1>7. \A q \in Procs \ {p} : at'[q] = at[q] /\ outcome'[q] = outcome[q] /\ server'[q] = server[q]
  BY DEF TypeOK, ProbePort, Boot, SeeExit, SeeHealth, LoadTimeout, Measure
<1>11. at' \in [Procs -> Places]
  <2>1. {"boot", "published?", "load", "unwanted", "measure", "stop"} \subseteq Places
    BY DEF Places
  <2> QED BY <1>2, <2>1, Moves
<1>12. \A q \in Procs : at'[q] \in {"unwanted", "published?", "mine?", "link"} => outcome'[q] # "raise"
  BY <1>6, <1>7 DEF TypeOK
<1>8. TypeOK'
  BY <1>1, <1>3, <1>4, <1>5, <1>11, <1>12 DEF TypeOK
<1>9. p \notin Stubborn /\ at'[p] \notin MayServe => server'[p] \notin {"loading", "up"}
  BY <1>2 DEF TypeOK, ServerInv, ProbePort, Boot, SeeExit, SeeHealth, LoadTimeout, Measure
<1>10. TodoInv' /\ ServerInv'
  BY <1>1, <1>7, <1>9 DEF TodoInv, ServerInv
<1> QED BY <1>8, <1>10

\* A server comes up, exits, or is stopped.
LEMMA GoneInv ==
  ASSUME TypeOK, NEW p \in Procs, Gone(p)
  PROVE  /\ server' \in [Procs -> {"none", "loading", "up", "exited"}]
         /\ port' \in (Procs \X Recipes) \cup {NoPort}
         /\ server'[p] = "exited" /\ \A q \in Procs \ {p} : server'[q] = server[q]
BY DEF TypeOK, Gone

LEMMA ServerStepInv ==
  ASSUME RunInv, NEW p \in Procs, Listen(p) \/ Exit(p)
  PROVE  RunInv'
<1> USE DEF RunInv, runVars, fileVars
<1>1. UNCHANGED <<at, todo, outcome, measured, result, lock, stamped, guard>>
  BY DEF Listen, Exit
<1>2. Rec(p) \in Recipes
  BY CurrentRecipe
<1>3. /\ server' \in [Procs -> {"none", "loading", "up", "exited"}]
      /\ port' \in (Procs \X Recipes) \cup {NoPort}
      /\ server[p] \in {"loading", "up"} /\ \A q \in Procs \ {p} : server'[q] = server[q]
  <2>1. CASE Listen(p)
    <3>1. \/ port' = port
          \/ port' = <<p, Rec(p)>>
      BY <2>1 DEF Listen
    <3>2. /\ server[p] = "loading"
          /\ \/ server' = [server EXCEPT ![p] = "up"]
             \/ server' = [server EXCEPT ![p] = "exited"]
      BY <2>1 DEF Listen
    <3>3. <<p, Rec(p)>> \in Procs \X Recipes
      BY <1>2
    <3>4. port' \in (Procs \X Recipes) \cup {NoPort}
      BY <3>1, <3>3 DEF TypeOK
    <3>5. server' \in [Procs -> {"none", "loading", "up", "exited"}]
          /\ \A q \in Procs \ {p} : server'[q] = server[q]
      BY <3>2 DEF TypeOK
    <3>6. server[p] \in {"loading", "up"}
      BY <3>2
    <3> QED BY <3>4, <3>5, <3>6
  <2>2. CASE Exit(p)
    BY <2>2, GoneInv DEF Exit
  <2> QED BY <2>1, <2>2
<1>4. TypeOK'
  BY <1>1, <1>3 DEF TypeOK
<1>5. ServerInv'
  BY <1>1, <1>3 DEF ServerInv
<1>6. TodoInv'
  BY <1>1 DEF TodoInv
<1> QED BY <1>4, <1>5, <1>6

LEMMA StoppedInv ==
  ASSUME TypeOK, NEW p \in Procs, Stopped(p)
  PROVE  /\ server' \in [Procs -> {"none", "loading", "up", "exited"}]
         /\ port' \in (Procs \X Recipes) \cup {NoPort}
         /\ p \notin Stubborn => server'[p] = "exited"
         /\ \A q \in Procs \ {p} : server'[q] = server[q]
BY GoneInv DEF TypeOK, Stopped, serverVars

LEMMA StopInv ==
  ASSUME RunInv, NEW p \in Procs, Stop(p) \/ StopTimeout(p) \/ StopUnwanted(p)
  PROVE  RunInv'
<1> USE DEF RunInv, runVars, fileVars, serverVars, Go
<1>1. UNCHANGED <<todo, outcome, measured, result, lock, stamped, guard>>
  BY DEF Stop, StopTimeout, StopUnwanted
<1>2. \/ /\ Stopped(p) /\ at[p] = "stop"
         /\ at' = [at EXCEPT ![p] = IF outcome[p] = "raise" THEN "raised" ELSE "published?"]
      \/ /\ Stopped(p) /\ at[p] = "unwanted" /\ at' = [at EXCEPT ![p] = "published?"]
      \/ /\ p \in Docker /\ UNCHANGED <<server, port>>
         /\ \E to \in {"raised", "load"} : at' = [at EXCEPT ![p] = to]
  BY DEF Stop, StopTimeout, StopUnwanted
<1>3. /\ server' \in [Procs -> {"none", "loading", "up", "exited"}]
      /\ port' \in (Procs \X Recipes) \cup {NoPort}
      /\ \A q \in Procs \ {p} : server'[q] = server[q]
  BY <1>2, StoppedInv DEF TypeOK
<1>4. {"raised", "published?", "load"} \subseteq Places
  BY DEF Places, Ended
<1>5. /\ at' \in [Procs -> Places] /\ \A q \in Procs \ {p} : at'[q] = at[q]
      /\ at'[p] \in {"raised", "published?", "load"}
  BY <1>2, <1>4, Moves
<1>6. at'[p] = "published?" => outcome[p] # "raise"
  BY <1>2 DEF TypeOK
<1>7. at'[p] = "load" \/ (p \in Docker /\ at'[p] = "raised") \/ (p \notin Stubborn => server'[p] = "exited")
  BY <1>2, StoppedInv DEF TypeOK
<1>8. TypeOK'
  BY <1>1, <1>3, <1>5, <1>6 DEF TypeOK
<1>9. ServerInv'
  BY <1>3, <1>5, <1>7 DEF ServerInv, MayServe
<1>10. TodoInv'
  BY <1>1 DEF TodoInv
<1> QED BY <1>8, <1>9, <1>10

-----------------------------------------------------------------------------
(* The result.                                                             *)

LEMMA WriteInv ==
  ASSUME RunInv, NEW p \in Procs, CheckAgain(p) \/ CheckOwner(p) \/ Publish(p)
  PROVE  RunInv'
<1> USE DEF RunInv, runVars, fileVars, serverVars, Go
<1>1. UNCHANGED <<todo, outcome, measured, lock, stamped, guard, server, port>>
  BY DEF CheckAgain, CheckOwner, Publish
<1>2. at[p] \in {"published?", "mine?", "link"} /\ outcome[p] # "raise"
  BY DEF CheckAgain, CheckOwner, Publish, TypeOK
<1>3. \E to \in {"raised", "mine?", "link", "unlock"} : at' = [at EXCEPT ![p] = to]
  BY DEF CheckAgain, CheckOwner, Publish
<1>4. Rec(p) \in Recipes
  BY CurrentRecipe
<1>5. outcome[p] \in {"ok", "partial", "failed"}
  BY <1>2 DEF TypeOK
<1>6. result' \in [Recipes -> [by : Procs \cup {NoProc}, status : {"", "ok", "partial", "failed"}]]
  <2>1. \/ result' = result
        \/ result' = [result EXCEPT ![Rec(p)] = [by |-> p, status |-> outcome[p]]]
    BY DEF CheckAgain, CheckOwner, Publish
  <2>2. [by |-> p, status |-> outcome[p]]
          \in [by : Procs \cup {NoProc}, status : {"", "ok", "partial", "failed"}]
    BY <1>5
  <2> QED BY <1>4, <2>1, <2>2 DEF TypeOK
<1>9. {"raised", "mine?", "link", "unlock"} \subseteq Places
  BY DEF Places, Ended
<1>10. /\ at' \in [Procs -> Places] /\ \A q \in Procs \ {p} : at'[q] = at[q]
  BY <1>3, <1>9, Moves
<1>7. TypeOK'
  BY <1>1, <1>2, <1>6, <1>10 DEF TypeOK
<1>8. TodoInv' /\ ServerInv'
  BY <1>1, <1>2, <1>10 DEF TodoInv, ServerInv, MayServe
<1> QED BY <1>7, <1>8

LEMMA UnlockInv ==
  ASSUME RunInv, NEW p \in Procs, Unlock(p)
  PROVE  RunInv'
<1> USE DEF RunInv, runVars, fileVars, serverVars, Go
<1>1. UNCHANGED <<outcome, measured, result, guard, server, port>>
  BY DEF Unlock
<1>2. lock' \in [Recipes -> Procs \cup {NoProc}] /\ stamped' \subseteq Procs \X Recipes
  BY DEF Unlock, TypeOK
<1>3. todo[p] \in Seq(Recipes) /\ todo[p] # <<>>
  BY DEF TypeOK, TodoInv
<1>4. todo' \in [Procs -> Seq(Recipes)] /\ TodoInv'
  <2>1. CASE Len(todo[p]) = 1
    BY <2>1 DEF Unlock, TypeOK, TodoInv
  <2>2. CASE Len(todo[p]) # 1
    <3>1. Tail(todo[p]) \in Seq(Recipes) /\ Tail(todo[p]) # <<>>
      <4>1. Len(todo[p]) \in Nat /\ Len(todo[p]) # 0
        BY <1>3
      <4>2. Tail(todo[p]) \in Seq(Recipes) /\ Len(Tail(todo[p])) = Len(todo[p]) - 1
        BY <1>3
      <4>3. Len(Tail(todo[p])) # 0
        BY <2>2, <4>1, <4>2
      <4>4. Len(<<>>) = 0
        OBVIOUS
      <4> QED BY <4>2, <4>3, <4>4
    <3>2. todo' = [todo EXCEPT ![p] = Tail(todo[p])]
      BY <2>2 DEF Unlock
    <3> QED BY <3>1, <3>2 DEF TypeOK, TodoInv
  <2> QED BY <2>1, <2>2
<1>5. at[p] = "unlock" /\ \E to \in {"done", "preflight"} : at' = [at EXCEPT ![p] = to]
  BY DEF Unlock
<1>8. {"done", "preflight"} \subseteq Places
  BY DEF Places, Ended
<1>9. /\ at' \in [Procs -> Places] /\ \A q \in Procs \ {p} : at'[q] = at[q]
      /\ at'[p] \in {"done", "preflight"}
  BY <1>5, <1>8, Moves
<1>6. TypeOK'
  BY <1>1, <1>2, <1>4, <1>9 DEF TypeOK
<1>7. ServerInv'
  BY <1>1, <1>5, <1>9 DEF ServerInv, MayServe
<1> QED BY <1>4, <1>6, <1>7

-----------------------------------------------------------------------------
(* Signals, and the theorems.                                              *)

LEMMA SignalInv ==
  ASSUME RunInv, NEW p \in Procs, Kill(p) \/ Interrupt(p)
  PROVE  RunInv'
<1> USE DEF RunInv, runVars, fileVars, serverVars, Go, Conclude, Released
<1>1. UNCHANGED <<todo, measured, result, lock, stamped, server, port>>
  BY DEF Kill, Interrupt
<1>2. guard' \in Procs \cup {NoProc}
  BY DEF Kill, Interrupt, TypeOK
<1>3. \E to \in {"killed", "stop"} : at' = [at EXCEPT ![p] = to]
  BY DEF Kill, Interrupt
<1>4. outcome' \in [Procs -> {"ok", "partial", "failed", "raise"}]
      /\ \A q \in Procs \ {p} : outcome'[q] = outcome[q]
  BY DEF Kill, Interrupt, TypeOK
<1>7. {"killed", "stop"} \subseteq Places
  BY DEF Places, Ended
<1>8. /\ at' \in [Procs -> Places] /\ \A q \in Procs \ {p} : at'[q] = at[q]
      /\ at'[p] \in {"killed", "stop"}
  BY <1>3, <1>7, Moves
<1>5. TypeOK'
  BY <1>1, <1>2, <1>4, <1>8 DEF TypeOK
<1>6. TodoInv' /\ ServerInv'
  BY <1>1, <1>8 DEF TodoInv, ServerInv, MayServe
<1> QED BY <1>5, <1>6

LEMMA NextInv ==
  ASSUME RunInv, [Next]_vars
  PROVE  RunInv'
<1>1. CASE Next
  <2>1. PICK p \in Procs : Runner(p) \/ Listen(p) \/ Exit(p) \/ Kill(p) \/ Interrupt(p)
    BY <1>1 DEF Next
  <2>2. CASE Runner(p)
    BY <2>2, ReserveInv, ServeInv, StopInv, WriteInv, UnlockInv DEF Runner
  <2> QED BY <2>1, <2>2, ServerStepInv, SignalInv
<1>2. CASE UNCHANGED vars
  BY <1>2 DEF vars, RunInv, TypeOK, TodoInv, ServerInv
<1> QED BY <1>1, <1>2

LEMMA RunAlways == Spec => []RunInv
BY InitInv, NextInv, PTL DEF Spec

\* The variables keep their types, and no run that an exception ended comes to
\* write_result.
THEOREM TypeCorrect == Spec => []TypeOK
<1>1. RunInv => TypeOK
  BY DEF RunInv
<1> QED BY <1>1, RunAlways, PTL

\* On every path of run_recipe that does not end by a signal the server is
\* stopped, unless it outlives SIGKILL or docker stop does not return.
THEOREM ServersStopped == Spec => []NoServerLeft
<1>1. RunInv => NoServerLeft
  BY DEF RunInv, ServerInv, NoServerLeft, MayServe
<1> QED BY <1>1, RunAlways, PTL

\* os.link is the only step that gives a result its name and it fails on a taken
\* one, so no interleaving of runners replaces a result.
THEOREM ResultsKept == Spec => NeverReplaced
<1>1. ASSUME RunInv, [Next]_vars, NEW r \in Recipes, result[r] # NoResult
      PROVE  result'[r] = result[r]
  <2>1. CASE Next
    <3>1. PICK p \in Procs : Runner(p) \/ Listen(p) \/ Exit(p) \/ Kill(p) \/ Interrupt(p)
      BY <2>1 DEF Next
    <3>2. CASE Publish(p)
      <4>1. CASE Rec(p) = r
        BY <1>1, <3>2, <4>1 DEF Publish, Exists
      <4>2. CASE Rec(p) # r
        BY <1>1, <3>2, <4>2 DEF Publish, RunInv, TypeOK
      <4> QED BY <4>1, <4>2
    <3>3. CASE ~Publish(p)
      <4>1. result' = result
        BY <3>1, <3>3 DEF Runner, Preflight, CheckResult, TakeGuard, CreateLock, ReadOwner,
           StealLock, Unguard, Stamp, ProbePort, Boot, SeeExit, SeeHealth, LoadTimeout, Measure,
           Stop, StopTimeout, StopUnwanted, CheckAgain, CheckOwner, Unlock, Listen, Exit, Kill, Interrupt, fileVars
      <4> QED BY <4>1
    <3> QED BY <3>2, <3>3
  <2>2. CASE UNCHANGED vars
    BY <2>2 DEF vars
  <2> QED BY <1>1, <2>1, <2>2
<1>2. RunInv /\ [Next]_vars => [\A r \in Recipes : result[r] # NoResult => result'[r] = result[r]]_vars
  BY <1>1
<1> QED BY <1>2, RunAlways, PTL DEF Spec, NeverReplaced
-----------------------------------------------------------------------------
(* Why a runner is refused.                                                *)

\* A reservation is given back only once its result is there; so a file that is
\* gone under a runner that found it taken leaves a result behind.
ReasonInv ==
  \A p \in Procs :
    /\ at[p] = "unlock" => Exists(Rec(p))
    /\ at[p] \in {"owner", "steal"} => lock[Rec(p)] # NoProc \/ Exists(Rec(p))

\* What another process's step leaves of p's part of ReasonInv.
LEMMA KeepReason ==
  ASSUME RunInv, NEW p \in Procs, ReasonInv, at'[p] = at[p], todo'[p] = todo[p],
         Exists(Rec(p)) => result'[Rec(p)] = result[Rec(p)],
         lock[Rec(p)] # NoProc => lock'[Rec(p)] # NoProc \/ Exists(Rec(p))'
  PROVE  /\ at'[p] = "unlock" => Exists(Rec(p))'
         /\ at'[p] \in {"owner", "steal"} => lock'[Rec(p)'] # NoProc \/ Exists(Rec(p))'
<1>1. Rec(p)' = Rec(p)
  BY DEF Rec
<1>2. Exists(Rec(p)) => Exists(Rec(p))'
  BY <1>1 DEF Exists
<1> QED BY <1>1, <1>2 DEF ReasonInv

\* A runner's step changes its own place and list only.
LEMMA OwnStep ==
  ASSUME RunInv, NEW p \in Procs,
         Runner(p) \/ Listen(p) \/ Exit(p) \/ Kill(p) \/ Interrupt(p)
  PROVE  /\ \A q \in Procs \ {p} : at'[q] = at[q] /\ todo'[q] = todo[q]
         /\ \A r \in Recipes : Exists(r) => result'[r] = result[r]
         /\ \A r \in Recipes : lock[r] # NoProc => lock'[r] # NoProc \/ (Unlock(p) /\ r = Rec(p))
<1>1. \A q \in Procs \ {p} : at'[q] = at[q]
  BY DEF RunInv, TypeOK, Runner, Preflight, CheckResult, TakeGuard, CreateLock, ReadOwner,
     StealLock, Unguard, Stamp, ProbePort, Boot, SeeExit, SeeHealth, LoadTimeout, Measure,
     Stop, StopTimeout, StopUnwanted, CheckAgain, CheckOwner, Publish, Unlock, Listen, Exit, Kill, Interrupt, Go, LeaveGuard
<1>2. \A q \in Procs \ {p} : todo'[q] = todo[q]
  BY DEF RunInv, TypeOK, Runner, Preflight, CheckResult, TakeGuard, CreateLock, ReadOwner,
     StealLock, Unguard, Stamp, ProbePort, Boot, SeeExit, SeeHealth, LoadTimeout, Measure,
     Stop, StopTimeout, StopUnwanted, CheckAgain, CheckOwner, Publish, Unlock, Listen, Exit, Kill, Interrupt, runVars
<1>3. \A r \in Recipes : Exists(r) => result'[r] = result[r]
  <2>1. CASE Publish(p)
    BY <2>1 DEF Publish, Exists, RunInv, TypeOK
  <2>2. CASE ~Publish(p)
    BY <2>2 DEF Runner, Preflight, CheckResult, TakeGuard, CreateLock, ReadOwner,
       StealLock, Unguard, Stamp, ProbePort, Boot, SeeExit, SeeHealth, LoadTimeout, Measure,
       Stop, StopTimeout, StopUnwanted, CheckAgain, CheckOwner, Unlock, Listen, Exit, Kill, Interrupt, fileVars
  <2> QED BY <2>1, <2>2
<1>4. \A r \in Recipes : lock[r] # NoProc => lock'[r] # NoProc \/ (Unlock(p) /\ r = Rec(p))
  <2>1. CASE Unlock(p)
    BY <2>1 DEF Unlock, RunInv, TypeOK
  <2>2. CASE CreateLock(p) \/ StealLock(p)
    <3>1. lock' = lock \/ lock' = [lock EXCEPT ![Rec(p)] = p]
      BY <2>2 DEF CreateLock, StealLock
    <3>2. p # NoProc
      BY BenchAssumption
    <3> QED BY <3>1, <3>2 DEF RunInv, TypeOK
  <2>3. CASE ~Unlock(p) /\ ~CreateLock(p) /\ ~StealLock(p)
    BY <2>3 DEF Runner, Preflight, CheckResult, TakeGuard, ReadOwner,
       Unguard, Stamp, ProbePort, Boot, SeeExit, SeeHealth, LoadTimeout, Measure,
       Stop, StopTimeout, StopUnwanted, CheckAgain, CheckOwner, Publish, Listen, Exit, Kill, Interrupt, fileVars
  <2> QED BY <2>1, <2>2, <2>3
<1> QED BY <1>1, <1>2, <1>3, <1>4

\* The runner's own part: it comes to "owner" with the file there, to "steal" with
\* the file as it was, and to "unlock" with its result published.
LEMMA OwnReason ==
  ASSUME RunInv, ReasonInv, NEW p \in Procs,
         Runner(p) \/ Listen(p) \/ Exit(p) \/ Kill(p) \/ Interrupt(p)
  PROVE  /\ at'[p] = "unlock" => Exists(Rec(p))'
         /\ at'[p] \in {"owner", "steal"} => lock'[Rec(p)'] # NoProc \/ Exists(Rec(p))'
<1>1. Rec(p) \in Recipes
  BY CurrentRecipe DEF RunInv
<1>2. CASE CreateLock(p)
  <2>1. Rec(p)' = Rec(p)
    BY <1>2 DEF CreateLock, runVars, Rec
  <2>2. at'[p] \in {"unguard", "owner"} /\ (at'[p] = "owner" => lock[Rec(p)] # NoProc /\ lock' = lock)
    BY <1>2 DEF CreateLock, RunInv, TypeOK, Go
  <2> QED BY <2>1, <2>2
<1>3. CASE ReadOwner(p)
  <2>1. Rec(p)' = Rec(p) /\ lock' = lock /\ result' = result /\ at[p] = "owner"
    BY <1>3 DEF ReadOwner, runVars, fileVars, Rec
  <2>2. at'[p] \in {"refused", "steal"}
    BY <1>3 DEF ReadOwner, LeaveGuard, RunInv, TypeOK, Go
  <2>3. Exists(Rec(p))' = Exists(Rec(p))
    BY <2>1 DEF Exists
  <2> QED BY <2>1, <2>2, <2>3 DEF ReasonInv
<1>4. CASE Publish(p)
  <2>1. Rec(p)' = Rec(p)
    BY <1>4 DEF Publish, runVars, Rec
  <2>2. at'[p] \in {"raised", "unlock"}
        /\ (at'[p] = "unlock" => result'[Rec(p)] = [by |-> p, status |-> outcome[p]])
    BY <1>1, <1>4 DEF Publish, RunInv, TypeOK, Go
  <2>3. [by |-> p, status |-> outcome[p]] # NoResult
    <3>1. p # NoProc
      BY BenchAssumption
    <3> QED BY <3>1 DEF NoResult
  <2> QED BY <2>1, <2>2, <2>3 DEF Exists
<1>5. CASE Listen(p) \/ Exit(p)
  <2>1. UNCHANGED <<at, todo, result, lock>>
    BY <1>5 DEF Listen, Exit, runVars, fileVars
  <2> QED BY <2>1, KeepReason
<1>6. CASE ~CreateLock(p) /\ ~ReadOwner(p) /\ ~Publish(p) /\ ~Listen(p) /\ ~Exit(p)
  <2>1. at'[p] \notin {"unlock", "owner", "steal"}
    BY <1>6 DEF RunInv, TypeOK, Runner, Preflight, CheckResult, TakeGuard,
       StealLock, Unguard, Stamp, ProbePort, Boot, SeeExit, SeeHealth, LoadTimeout, Measure,
       Stop, StopTimeout, StopUnwanted, CheckAgain, CheckOwner, Unlock, Kill, Interrupt, Go, LeaveGuard
  <2> QED BY <2>1
<1> QED BY <1>2, <1>3, <1>4, <1>5, <1>6

LEMMA ReasonAlways == Spec => [](RunInv /\ ReasonInv)
<1>1. Init => ReasonInv
  BY DEF Init, ReasonInv
<1>2. ASSUME RunInv, ReasonInv, [Next]_vars
      PROVE  ReasonInv'
  <2>1. CASE Next
    <3>1. PICK p \in Procs : Runner(p) \/ Listen(p) \/ Exit(p) \/ Kill(p) \/ Interrupt(p)
      BY <2>1 DEF Next
    <3>2. ASSUME NEW q \in Procs \ {p}
          PROVE  /\ at'[q] = "unlock" => Exists(Rec(q))'
                 /\ at'[q] \in {"owner", "steal"} => lock'[Rec(q)'] # NoProc \/ Exists(Rec(q))'
      <4>1. Rec(q) \in Recipes
        BY <1>2, CurrentRecipe DEF RunInv
      <4>2. at'[q] = at[q] /\ todo'[q] = todo[q] /\ Rec(q)' = Rec(q)
        BY <1>2, <3>1, OwnStep DEF Rec
      <4>3. Exists(Rec(q)) => result'[Rec(q)] = result[Rec(q)]
        BY <1>2, <3>1, <4>1, OwnStep
      <4>4. lock[Rec(q)] # NoProc => lock'[Rec(q)] # NoProc \/ Exists(Rec(q))'
        <5>1. CASE Unlock(p) /\ Rec(q) = Rec(p)
          <6>1. Exists(Rec(q)) /\ result' = result
            BY <1>2, <5>1 DEF ReasonInv, Unlock
          <6> QED BY <4>2, <6>1 DEF Exists
        <5> QED BY <1>2, <3>1, <4>1, <5>1, OwnStep
      <4> QED BY <1>2, <4>2, <4>3, <4>4, KeepReason
    <3> QED BY <1>2, <3>1, <3>2, OwnReason DEF ReasonInv
  <2>2. CASE UNCHANGED vars
    BY <1>2, <2>2 DEF vars, ReasonInv, Rec, Exists
  <2> QED BY <1>2, <2>1, <2>2
<1> QED BY <1>1, <1>2, InitInv, NextInv, PTL DEF Spec

\* preflight, reserve_result: a runner gives up before its launch only because of a
\* server on the GPUs, a result that is there or a reservation of a live process.
THEOREM RefusalsHaveReasons == Spec => RefusedForAReason
<1> DEFINE Reason(p) ==
      \/ at[p] = "preflight" /\ \E q \in Procs : server[q] \in {"loading", "up"}
      \/ result[Rec(p)] # NoResult \/ Vouched(Rec(p))
<1>1. ASSUME RunInv, ReasonInv, [Next]_vars, NEW p \in Procs, Alive(p), at'[p] = "refused"
      PROVE  Reason(p)
  <2>1. at[p] # "refused"
    BY <1>1 DEF Alive, Ended
  <2>2. PICK q \in Procs : Runner(q) \/ Listen(q) \/ Exit(q) \/ Kill(q) \/ Interrupt(q)
    BY <1>1, <2>1 DEF Next, vars
  <2>3. q = p
    BY <1>1, <2>1, <2>2, OwnStep
  <2>4. Preflight(p) \/ CheckResult(p) \/ ReadOwner(p) \/ StealLock(p)
    BY <1>1, <2>1, <2>2, <2>3 DEF RunInv, TypeOK, Runner, TakeGuard, CreateLock,
       Unguard, Stamp, ProbePort, Boot, SeeExit, SeeHealth, LoadTimeout, Measure, Stop,
       StopTimeout, StopUnwanted, CheckAgain, CheckOwner, Publish, Unlock, Listen, Exit, Kill, Interrupt, Go, LeaveGuard
  <2>5. CASE Preflight(p)
    BY <1>1, <2>5 DEF Preflight, RunInv, TypeOK, Go
  <2>6. CASE CheckResult(p)
    BY <1>1, <2>6 DEF CheckResult, RunInv, TypeOK, Go, Exists
  <2>7. CASE ReadOwner(p)
    BY <1>1, <2>7 DEF ReadOwner, RunInv, TypeOK, Go, LeaveGuard
  <2>8. CASE StealLock(p)
    <3>1. at[p] = "steal" /\ lock[Rec(p)] = NoProc
      BY <1>1, <2>8 DEF StealLock, RunInv, TypeOK, Go, LeaveGuard
    <3> QED BY <1>1, <3>1 DEF ReasonInv, Exists
  <2> QED BY <2>4, <2>5, <2>6, <2>7, <2>8
<1>2. RunInv /\ ReasonInv /\ [Next]_vars
        => [\A p \in Procs : Alive(p) /\ at'[p] = "refused" => Reason(p)]_vars
  BY <1>1
<1> QED BY <1>2, ReasonAlways, PTL DEF Spec, RefusedForAReason
=============================================================================
