------------------------------ MODULE BenchRun ------------------------------
(***************************************************************************)
(* The benchmark runner (bench/runner): processes on one box that each run *)
(* a list of recipes - reserve the result's path, boot a server, wait for  *)
(* its health, measure it, stop it, publish the result.  They share the    *)
(* result files, the reservation files and their guard (common.py), the    *)
(* GPUs and the port (serverctl.py).  A step is one system call, or a part *)
(* of the run that touches nothing shared.                                 *)
(***************************************************************************)
EXTENDS Integers, Sequences, FiniteSets

CONSTANTS
  Procs,    \* runner processes (pids)
  Recipes,  \* recipes of the box; one result path each
  Served,   \* recipe -> served model name
  Plan,     \* process -> the recipes it runs (run: one, matrix: several)
  Killable, \* processes that may be killed or interrupted
  Stubborn, \* processes whose server may outlive stop: it survives SIGKILL for a while,
            \* or it is a container and only the client that shows its log is killed
  Docker,   \* processes whose server is a container (docker stop may time out)
  NoProc

ASSUME BenchAssumption ==
  /\ NoProc \notin Procs /\ Killable \subseteq Procs /\ Stubborn \subseteq Procs
  /\ Docker \subseteq Procs
  /\ Plan \in [Procs -> Seq(Recipes)] /\ \A p \in Procs : Plan[p] # <<>>
  /\ DOMAIN Served = Recipes

VARIABLES
  at,       \* where a process is
  todo,     \* the recipes it has left; the first one is current
  outcome,  \* what the run will do after the server is stopped: "ok", "partial",
            \* "failed" (a result is written) or "raise"
  measured, \* the process whose server the run measures
  result,   \* recipe -> [by, status] of the published result, or NoResult
  lock,     \* recipe -> the process that created the reservation file, or NoProc
  stamped,  \* <<p, r>>: p wrote its pid into the file it created
  guard,    \* who holds the flock on .guard
  server,   \* process -> its server: "none", "loading", "up", "exited"
  port      \* <<p, r>>: p's server of recipe r listens on the port; or NoPort

vars == <<at, todo, outcome, measured, result, lock, stamped, guard, server, port>>
runVars == <<todo, outcome, measured>>
fileVars == <<result, lock, stamped>>
serverVars == <<server, port>>

NoPort == <<>>
NoResult == [by |-> NoProc, status |-> ""]
Rec(p) == Head(todo[p])
Go(p, to) == at' = [at EXCEPT ![p] = to]

\* A process that has ended: normally, by an exception of its own, or by a signal.
Ended == {"done", "refused", "raised", "killed"}
Alive(p) == at[p] \notin Ended

Init ==
  /\ at = [p \in Procs |-> "preflight"] /\ todo = Plan
  /\ outcome = [p \in Procs |-> "ok"] /\ measured = [p \in Procs |-> NoProc]
  /\ result = [r \in Recipes |-> NoResult] /\ lock = [r \in Recipes |-> NoProc]
  /\ stamped = {} /\ guard = NoProc
  /\ server = [p \in Procs |-> "none"] /\ port = NoPort
-----------------------------------------------------------------------------
(* Before the launch: the GPUs and the reservation *)

\* os.path.exists(path), and what os.link fails on
ExistsNever(r) == FALSE
Exists(r) == result[r] # NoResult

\* preflight_gpus.  A server that loads may not have taken its memory yet; one
\* that is up has, and keeps it until the process is gone.
Preflight(p) ==
  /\ at[p] = "preflight"
  /\ \/ /\ \A q \in Procs : server[q] # "up"
        /\ Go(p, "exists")
     \/ /\ \E q \in Procs : server[q] \in {"loading", "up"}
        /\ Go(p, "refused")
  /\ UNCHANGED <<runVars, fileVars, guard, serverVars>>

CheckResult(p) ==
  /\ at[p] = "exists"
  /\ Go(p, IF Exists(Rec(p)) THEN "refused" ELSE "guard")
  /\ UNCHANGED <<runVars, fileVars, guard, serverVars>>

TakeGuard(p) ==
  /\ at[p] = "guard" /\ guard = NoProc
  /\ guard' = p /\ Go(p, "create")
  /\ UNCHANGED <<runVars, fileVars, serverVars>>

\* open(lock, O_CREAT | O_EXCL)
CreateLock(p) ==
  LET r == Rec(p) IN
  /\ at[p] = "create"
  /\ IF lock[r] = NoProc
     THEN lock' = [lock EXCEPT ![r] = p] /\ Go(p, "unguard")
     ELSE Go(p, "owner") /\ UNCHANGED lock
  /\ UNCHANGED <<runVars, result, stamped, guard, serverVars>>

\* The process a reservation file names; an empty file names nobody.
Owner(r) == IF <<lock[r], r>> \in stamped THEN lock[r] ELSE NoProc
Vouched(r) == Owner(r) # NoProc /\ Alive(Owner(r))

\* Every way out of the guarded section gives the guard back.
LeaveGuardHeld(p, to) == Go(p, to) /\ UNCHANGED guard
LeaveGuard(p, to) == Go(p, to) /\ guard' = NoProc

\* The file names a live process: refused.  It names nobody or a dead process, or
\* is gone by now: it is to be replaced.
ReadOwnerAnyPid(p) ==
  /\ at[p] = "owner"
  /\ IF Owner(Rec(p)) # NoProc THEN LeaveGuard(p, "refused") ELSE Go(p, "steal") /\ UNCHANGED guard
  /\ UNCHANGED <<runVars, fileVars, serverVars>>
ReadOwner(p) ==
  /\ at[p] = "owner"
  /\ IF Vouched(Rec(p)) THEN LeaveGuard(p, "refused") ELSE Go(p, "steal") /\ UNCHANGED guard
  /\ UNCHANGED <<runVars, fileVars, serverVars>>

\* unlink and create again; unlink raises when the owner has just removed the file.
StealLock(p) ==
  LET r == Rec(p) IN
  /\ at[p] = "steal"
  /\ IF lock[r] = NoProc
     THEN LeaveGuard(p, "refused") /\ UNCHANGED lock
     ELSE /\ lock' = [lock EXCEPT ![r] = p] /\ Go(p, "unguard") /\ UNCHANGED guard
  /\ UNCHANGED <<runVars, result, stamped, serverVars>>

Unguard(p) ==
  /\ at[p] = "unguard" /\ LeaveGuard(p, "stamp")
  /\ UNCHANGED <<runVars, fileVars, serverVars>>

\* The pid is written after the guard is released, into the file p created (which
\* may have been unlinked since).
Stamp(p) ==
  /\ at[p] = "stamp" /\ Go(p, "port")
  /\ stamped' = stamped \cup {<<p, Rec(p)>>}
  /\ UNCHANGED <<runVars, result, lock, guard, serverVars>>
-----------------------------------------------------------------------------
(* The server *)

\* After the server is stopped, or was not started: what to do with the run.
Conclude(p, what) == outcome' = [outcome EXCEPT ![p] = what]

\* Server.start binds the port and closes it again.
ProbePort(p) ==
  /\ at[p] = "port"
  /\ IF port = NoPort
     THEN Go(p, "boot") /\ UNCHANGED outcome
     ELSE Go(p, "published?") /\ Conclude(p, "failed")
  /\ UNCHANGED <<todo, measured, fileVars, guard, serverVars>>

Boot(p) ==
  /\ at[p] = "boot" /\ Go(p, "load")
  /\ server' = [server EXCEPT ![p] = "loading"]
  /\ UNCHANGED <<runVars, fileVars, guard, port>>

\* The server binds the port, or exits because it is taken.
Listen(p) ==
  /\ server[p] = "loading"
  /\ IF port = NoPort
     THEN port' = <<p, Rec(p)>> /\ server' = [server EXCEPT ![p] = "up"]
     ELSE server' = [server EXCEPT ![p] = "exited"] /\ UNCHANGED port
  /\ UNCHANGED <<at, runVars, fileVars, guard>>

Gone(p) ==
  /\ server' = [server EXCEPT ![p] = "exited"]
  /\ port' = IF port # NoPort /\ port[1] = p THEN NoPort ELSE port

\* The server exits on its own (out of memory), or is cleared away by hand when
\* nobody is left to stop it.
Exit(p) ==
  /\ server[p] \in {"loading", "up"} /\ Gone(p)
  /\ UNCHANGED <<at, runVars, fileVars, guard>>

\* The loop of Server.start: first the process, then whoever answers on the port.
SeeExit(p) ==
  /\ at[p] = "load" /\ server[p] = "exited"
  /\ Go(p, "published?") /\ Conclude(p, "failed")
  /\ UNCHANGED <<todo, measured, fileVars, guard, serverVars>>

SeeHealth(p) ==
  /\ at[p] = "load" /\ server[p] # "exited" /\ port # NoPort
  /\ IF Served[Rec(p)] = Served[port[2]]
     THEN /\ Go(p, "measure") /\ measured' = [measured EXCEPT ![p] = port[1]]
          /\ UNCHANGED outcome
     ELSE Go(p, "unwanted") /\ Conclude(p, "failed") /\ UNCHANGED measured
  /\ UNCHANGED <<todo, fileVars, guard, serverVars>>

LoadTimeoutNoStop(p) ==
  /\ at[p] = "load" /\ Go(p, "published?") /\ Conclude(p, "failed")
  /\ UNCHANGED <<todo, measured, fileVars, guard, serverVars>>
LoadTimeout(p) ==
  /\ at[p] = "load" /\ Go(p, "stop") /\ Conclude(p, "failed")
  /\ UNCHANGED <<todo, measured, fileVars, guard, serverVars>>

\* The warm-up and the probes.  A probe that fails is recorded; the warm-up and
\* the question for the model's name are not inside a probe's try.
Measure(p) ==
  /\ at[p] = "measure" /\ Go(p, "stop")
  /\ \E what \in IF server[measured[p]] = "up" THEN {"ok", "partial", "raise"}
                 ELSE {"partial", "raise"} : Conclude(p, what)
  /\ UNCHANGED <<todo, measured, fileVars, guard, serverVars>>

\* Server.stop runs to its end; a stubborn server outlives it.
Stopped(p) == Gone(p) \/ (p \in Stubborn /\ server[p] = "up" /\ UNCHANGED serverVars)

StopThenPublish(p) ==
  /\ at[p] = "stop" /\ Go(p, "published?") /\ Stopped(p)
  /\ UNCHANGED <<runVars, fileVars, guard>>
Stop(p) ==
  /\ at[p] = "stop"
  /\ Go(p, IF outcome[p] = "raise" THEN "raised" ELSE "published?")
  /\ Stopped(p)
  /\ UNCHANGED <<runVars, fileVars, guard>>

\* docker stop takes longer than the time-out of its call: TimeoutExpired leaves
\* Server.stop, and the container runs on until the daemon ends it, if it does.
StopTimeout(p) ==
  /\ p \in Docker /\ at[p] = "stop"
  /\ Go(p, "raised")
  /\ UNCHANGED <<runVars, fileVars, guard, serverVars>>

\* The stop for a wrong model stands in the health loop's try: its own ServerFailed
\* passes, a TimeoutExpired does not, and the loop goes on.
StopUnwanted(p) ==
  /\ at[p] = "unwanted"
  /\ \/ Go(p, "published?") /\ Stopped(p)
     \/ p \in Docker /\ Go(p, "load") /\ UNCHANGED serverVars
  /\ UNCHANGED <<runVars, fileVars, guard>>
-----------------------------------------------------------------------------
(* write_result *)

CheckAgain(p) ==
  /\ at[p] = "published?"
  /\ Go(p, IF Exists(Rec(p)) THEN "raised" ELSE "mine?")
  /\ UNCHANGED <<runVars, fileVars, guard, serverVars>>

CheckOwner(p) ==
  /\ at[p] = "mine?"
  /\ Go(p, IF Owner(Rec(p)) = p THEN "link" ELSE "raised")
  /\ UNCHANGED <<runVars, fileVars, guard, serverVars>>

\* The temporary file is complete; os.link gives it its name unless it is taken.
Publish(p) ==
  LET r == Rec(p) IN
  /\ at[p] = "link"
  /\ IF Exists(r)
     THEN Go(p, "raised") /\ UNCHANGED result
     ELSE /\ Go(p, "unlock")
          /\ result' = [result EXCEPT ![r] = [by |-> p, status |-> outcome[p]]]
  /\ UNCHANGED <<runVars, lock, stamped, guard, serverVars>>

\* The reservation file is removed; matrix goes on with the next recipe.
Unlock(p) ==
  /\ at[p] = "unlock"
  /\ lock' = [lock EXCEPT ![Rec(p)] = NoProc]
  /\ stamped' = stamped \ {<<p, Rec(p)>>}
  /\ IF Len(todo[p]) = 1
     THEN Go(p, "done") /\ UNCHANGED todo
     ELSE Go(p, "preflight") /\ todo' = [todo EXCEPT ![p] = Tail(@)]
  /\ UNCHANGED <<outcome, measured, result, guard, serverVars>>
-----------------------------------------------------------------------------
(* Signals *)

Released(p) == guard' = IF guard = p THEN NoProc ELSE guard

\* SIGKILL or a crash: the kernel drops the flock; the server is its own session.
Kill(p) ==
  /\ p \in Killable /\ Alive(p)
  /\ Go(p, "killed") /\ Released(p)
  /\ UNCHANGED <<runVars, fileVars, serverVars>>

\* KeyboardInterrupt: only the measurement stops its server on the way out.
Interrupt(p) ==
  /\ p \in Killable /\ Alive(p) /\ at[p] \notin {"stop", "unwanted"}
  /\ IF at[p] = "measure" THEN Go(p, "stop") /\ Conclude(p, "raise")
     ELSE Go(p, "killed") /\ UNCHANGED outcome
  /\ Released(p)
  /\ UNCHANGED <<todo, measured, fileVars, serverVars>>

Runner(p) ==
  \/ Preflight(p) \/ CheckResult(p) \/ TakeGuard(p) \/ CreateLock(p) \/ ReadOwner(p)
  \/ StealLock(p) \/ Unguard(p) \/ Stamp(p) \/ ProbePort(p) \/ Boot(p) \/ SeeExit(p)
  \/ SeeHealth(p) \/ LoadTimeout(p) \/ Measure(p) \/ Stop(p) \/ StopTimeout(p)
  \/ StopUnwanted(p) \/ CheckAgain(p) \/ CheckOwner(p) \/ Publish(p) \/ Unlock(p)

Next == \E p \in Procs : Runner(p) \/ Listen(p) \/ Exit(p) \/ Kill(p) \/ Interrupt(p)
Spec == Init /\ [][Next]_vars
\* Processes run, and the health loop, however often it goes round, ends at its
\* deadline; nothing makes a server come up or a signal arrive.
FairSpec == Spec /\ \A p \in Procs : WF_vars(Runner(p)) /\ SF_vars(LoadTimeout(p))
-----------------------------------------------------------------------------
Places == {"preflight", "exists", "guard", "create", "owner", "steal", "unguard", "stamp",
           "port", "boot", "load", "unwanted", "measure", "stop", "published?", "mine?", "link",
           "unlock"} \cup Ended
\* The variables keep their types, and a run that an exception ended is not
\* published.
TypeOK ==
  /\ at \in [Procs -> Places] /\ todo \in [Procs -> Seq(Recipes)]
  /\ outcome \in [Procs -> {"ok", "partial", "failed", "raise"}]
  /\ measured \in [Procs -> Procs \cup {NoProc}]
  /\ result \in [Recipes -> [by : Procs \cup {NoProc}, status : {"", "ok", "partial", "failed"}]]
  /\ lock \in [Recipes -> Procs \cup {NoProc}] /\ stamped \subseteq Procs \X Recipes
  /\ guard \in Procs \cup {NoProc} /\ port \in (Procs \X Recipes) \cup {NoPort}
  /\ server \in [Procs -> {"none", "loading", "up", "exited"}]
  /\ \A p \in Procs : at[p] \in {"unwanted", "published?", "mine?", "link"} => outcome[p] # "raise"

\* "refuses silent overwrite" (bench/README.md): a published result is never
\* replaced, whoever else reserved, died or was robbed of its reservation.
NeverReplaced == [][\A r \in Recipes : result[r] # NoResult => result'[r] = result[r]]_vars

\* A process gives up before its launch only for a reason: the result is there,
\* a live process holds the reservation, or a server is on the GPUs.  A reservation
\* that a dead process left never refuses anybody, nor one just given back.
RefusedForAReason ==
  [][\A p \in Procs : Alive(p) /\ at'[p] = "refused" =>
       \/ at[p] = "preflight" /\ \E q \in Procs : server[q] \in {"loading", "up"}
       \/ result[Rec(p)] # NoResult \/ Vouched(Rec(p))]_vars

\* A runner that ended by itself leaves no server behind, on any of its error
\* paths, unless the server outlived SIGKILL or it raised because docker stop did
\* not return.
NoServerLeft ==
  \A p \in Procs \ Stubborn :
    at[p] \in {"done", "refused"} \/ (at[p] = "raised" /\ p \notin Docker)
      => server[p] \notin {"loading", "up"}

\* Every runner ends: nobody waits for the guard or a server for ever.
RunnersEnd == \A p \in Procs : <>(~Alive(p))
=============================================================================
