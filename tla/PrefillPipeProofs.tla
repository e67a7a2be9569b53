-------------------------- MODULE PrefillPipeProofs --------------------------
(***************************************************************************)
(* The two threads of a rank never run together, and what they issue is    *)
(* right, for any ranks, rows, layers and switches, whatever raises and    *)
(* whoever times out.                                                      *)
(*                                                                         *)
(* OneRunner is not inductive. A thread may run once it was woken, so the  *)
(* turn is a thread's that runs or waits with its event set (HasTurn), and *)
(* giving it away is safe only if the giver's own event is clear: it is    *)
(* not when the other thread set it on its way out, and then that thread   *)
(* is finished and the turn is not given away (WokenByTheDead).            *)
(*                                                                         *)
(* The rest (StepInv) says where the threads of a rank that does not fail  *)
(* may be, for groups of equal tails and of different ones. The            *)
(* instructions of either tail are numbered (Ins), and the position of a   *)
(* thread alone says which phase is open, how many are closed, whether the *)
(* context is the replay's, which pin is set and what the group has        *)
(* issued. The turns cut a tail into runs (Run); the threads take them     *)
(* alternately, group 0 one run ahead, until the tail with fewer runs is   *)
(* over (Partner). So when a thread closes a phase the other has closed as *)
(* many, unless the other's tail has no such phase (MorePhases), and every *)
(* collective has one place in the sequence of its rank (Place), the same  *)
(* on every rank.                                                          *)
(***************************************************************************)
EXTENDS PrefillPipe, FiniteSetTheorems, WellFoundedInduction, TLAPS

PcOf == {"off", "waiting", "running", "unwinding", "ending", "leaving", "ended"}
TurnTypeOK ==
  /\ main \in [Ranks -> {"plan", "threads", "alone", "returned", "raised"}]
  /\ pc \in [Ranks -> [Groups -> PcOf]]
  /\ wake \in [Ranks -> [Groups -> BOOLEAN]] /\ finished \in [Ranks -> [Groups -> BOOLEAN]]
  /\ open \in [Ranks -> [Groups -> {"none", "comm", "replay"}]]

HasTurn(r, g) == pc[r][g] = "running" \/ (pc[r][g] = "waiting" /\ wake[r][g])
Mode == IF Pipelined THEN "threads" ELSE "alone"

\* Threads live while the runner is in their mode.
InMode(r) ==
  /\ main[r] \in {"threads", "alone"} => main[r] = Mode
  /\ \A g \in Groups : pc[r][g] \notin {"off", "ended"} => main[r] = Mode
\* One turn; an event set under a running thread was set by one that is done.
OneTurn(r) == \A g \in Groups : HasTurn(r, g) => ~HasTurn(r, Other(g))
WokenByTheDead(r) ==
  Pipelined => \A g \in Groups :
    /\ pc[r][g] \in {"leaving", "ended"} => finished[r][g]
    /\ pc[r][g] = "running" /\ wake[r][g] => pc[r][Other(g)] = "ended"
\* run_sequential: no phases, no turns, one group after the other.
OneAfterTheOther(r) ==
  ~Pipelined =>
    /\ \A g \in Groups : open[r][g] = "none" /\ pc[r][g] # "waiting"
    /\ pc[r][0] # "ended" => pc[r][1] = "off"

RankInv(r) == InMode(r) /\ OneTurn(r) /\ WokenByTheDead(r) /\ OneAfterTheOther(r)
TurnInv == TurnTypeOK /\ \A r \in Ranks : RankInv(r)

-----------------------------------------------------------------------------
(* Facts about the pieces *)

LEMMA TwoGroups ==
  /\ Groups = {0, 1} /\ Other(0) = 1 /\ Other(1) = 0
  /\ \A g \in Groups : Other(g) \in Groups /\ Other(Other(g)) = g /\ Other(g) # g
  /\ \A g, h \in Groups : h = g \/ h = Other(g)
<1>1. Groups = {0, 1}
  BY DEF Groups
<1> QED BY <1>1 DEF Other

LEMMA InitTurn == Init => TurnInv
<1> SUFFICES ASSUME Init PROVE TurnInv
  OBVIOUS
<1>1. TurnTypeOK
  BY TwoGroups DEF Init, None, TurnTypeOK, PcOf
<1>2. ASSUME NEW r \in Ranks PROVE RankInv(r)
  <2>1. main[r] = "plan" /\ \A g \in Groups : pc[r][g] = "off" /\ open[r][g] = "none"
    BY DEF Init, None
  <2>2. InMode(r)
    BY <2>1 DEF InMode
  <2>3. OneTurn(r)
    BY <2>1 DEF OneTurn, HasTurn
  <2>4. WokenByTheDead(r)
    BY <2>1 DEF WokenByTheDead
  <2>5. OneAfterTheOther(r)
    BY <2>1, TwoGroups DEF OneAfterTheOther
  <2> QED BY <2>2, <2>3, <2>4, <2>5 DEF RankInv
<1> QED BY <1>1, <1>2 DEF TurnInv

\* What a rank's invariant says is said of these values only.
Agree(q) ==
  /\ main'[q] = main[q] /\ pc'[q] = pc[q] /\ wake'[q] = wake[q]
  /\ finished'[q] = finished[q] /\ open'[q] = open[q]

LEMMA SameRank ==
  ASSUME NEW q, RankInv(q), case' = case, Agree(q)
  PROVE  RankInv(q)'
<1>1. (Pipelined <=> Pipelined') /\ Mode' = Mode
  BY DEF Pipelined, setup, Mode
<1>2. InMode(q)'
  BY <1>1 DEF RankInv, InMode, Agree
<1>3. OneTurn(q)'
  BY DEF RankInv, OneTurn, HasTurn, Agree
<1>4. WokenByTheDead(q)'
  BY <1>1 DEF RankInv, WokenByTheDead, Agree
<1>5. OneAfterTheOther(q)'
  BY <1>1 DEF RankInv, OneAfterTheOther, Agree
<1> QED BY <1>2, <1>3, <1>4, <1>5 DEF RankInv

\* A step of rank r leaves the others alone.
LEMMA StepOf ==
  ASSUME TurnInv, NEW r \in Ranks, case' = case, TurnTypeOK',
         \A q \in Ranks : q # r => Agree(q), RankInv(r)'
  PROVE  TurnInv'
<1>1. ASSUME NEW q \in Ranks PROVE RankInv(q)'
  BY SameRank DEF TurnInv
<1> QED BY <1>1 DEF TurnInv

turnVars == <<case, main, pc, wake, finished, open>>
LEMMA SameTurn == TurnInv /\ UNCHANGED turnVars => TurnInv'
<1> SUFFICES ASSUME TurnInv, UNCHANGED turnVars PROVE TurnInv'
  OBVIOUS
<1>1. TurnTypeOK'
  BY DEF TurnInv, TurnTypeOK, turnVars
<1>2. ASSUME NEW q \in Ranks PROVE RankInv(q)'
  BY SameRank DEF TurnInv, turnVars, Agree
<1> QED BY <1>1, <1>2 DEF TurnInv

\* Phases are opened and closed by this rank, in the threads' mode only.
OpenMoves(r) ==
  /\ open' \in [Ranks -> [Groups -> {"none", "comm", "replay"}]]
  /\ \A q \in Ranks : q # r => open'[q] = open[q]
  /\ ~Pipelined => open' = open

\* Opening and closing phases takes no turn.
LEMMA PhaseTurn ==
  ASSUME TurnInv, NEW r \in Ranks, OpenMoves(r),
         UNCHANGED <<case, main, pc, wake, finished>>
  PROVE  TurnInv'
<1>1. (Pipelined <=> Pipelined') /\ Mode' = Mode
  BY DEF Pipelined, setup, Mode
<1>2. TurnTypeOK'
  BY DEF TurnInv, TurnTypeOK, OpenMoves
<1>3. \A q \in Ranks : q # r => Agree(q)
  BY DEF OpenMoves, Agree
<1>4. RankInv(r)
  BY DEF TurnInv
<1>5. InMode(r)' /\ OneTurn(r)' /\ WokenByTheDead(r)'
  BY <1>1, <1>4 DEF RankInv, InMode, OneTurn, HasTurn, WokenByTheDead
<1>6. OneAfterTheOther(r)'
  BY <1>1, <1>4 DEF RankInv, OneAfterTheOther, OpenMoves
<1> QED BY <1>2, <1>3, <1>5, <1>6, StepOf DEF RankInv

\* A thread that stops, for good or to unwind, leaves the turn where it is.
LEMMA Retire ==
  ASSUME TurnInv, NEW r \in Ranks, NEW g \in Groups, NEW to \in {"unwinding", Over(r)},
         pc[r][g] \in {"running", "waiting", "unwinding"}, OpenMoves(r),
         pc' = [pc EXCEPT ![r][g] = to], UNCHANGED <<case, main, wake, finished>>
  PROVE  TurnInv'
<1>1. (Pipelined <=> Pipelined') /\ Mode' = Mode
  BY DEF Pipelined, setup, Mode
<1>2. RankInv(r) /\ TurnTypeOK
  BY DEF TurnInv
<1>3. main[r] = Mode
  BY <1>2 DEF RankInv, InMode
<1>4. to \in {"unwinding", "ending", "ended"} /\ (Pipelined => to # "ended")
  BY <1>3 DEF Over, Mode
<1>5. TurnTypeOK'
  BY <1>2, <1>4 DEF TurnTypeOK, PcOf, OpenMoves
<1>6. \A q \in Ranks : q # r => Agree(q)
  BY <1>2 DEF TurnTypeOK, OpenMoves, Agree
<1>7. pc'[r][g] = to /\ pc'[r][Other(g)] = pc[r][Other(g)]
  BY <1>2, TwoGroups DEF TurnTypeOK
<1>8. InMode(r)'
  BY <1>1, <1>2, <1>3, <1>4, <1>7, TwoGroups DEF RankInv, InMode
<1>9. OneTurn(r)'
  BY <1>2, <1>4, <1>7, TwoGroups DEF RankInv, OneTurn, HasTurn
<1>10. WokenByTheDead(r)'
  BY <1>1, <1>2, <1>4, <1>7, TwoGroups DEF RankInv, WokenByTheDead
<1>11. OneAfterTheOther(r)'
  <2>1. SUFFICES ASSUME ~Pipelined PROVE OneAfterTheOther(r)'
    BY <1>1 DEF OneAfterTheOther
  <2>2. \A h \in Groups : open'[r][h] = "none" /\ pc'[r][h] # "waiting"
    BY <1>2, <1>4, <1>7, <2>1, TwoGroups DEF RankInv, OneAfterTheOther, OpenMoves
  <2>3. pc'[r][0] # "ended" => pc'[r][1] = "off"
    BY <1>2, <1>4, <1>7, <2>1, TwoGroups DEF RankInv, OneAfterTheOther
  <2> QED BY <2>2, <2>3 DEF OneAfterTheOther
<1> QED BY <1>5, <1>6, <1>8, <1>9, <1>10, <1>11, StepOf DEF RankInv

\* Handing over: the thread goes on because the other one is finished, or the
\* turn moves, and its own event is clear then.
LEMMA HandOverTurn ==
  ASSUME TurnInv, NEW r \in Ranks, NEW g \in Groups, NEW event, NEW myPin, Pipelined,
         pc[r][g] = "running", OpenMoves(r), HandOver(r, g, event, myPin),
         UNCHANGED <<case, main, finished>>
  PROVE  TurnInv'
<1>1. (Pipelined <=> Pipelined') /\ Mode' = Mode
  BY DEF Pipelined, setup, Mode
<1>2. RankInv(r) /\ TurnTypeOK
  BY DEF TurnInv
<1>3. CASE finished[r][Other(g)]
  <2>1. UNCHANGED <<pc, wake>>
    BY <1>3 DEF HandOver, GoOn
  <2> QED BY <2>1, PhaseTurn
<1>4. CASE ~finished[r][Other(g)]
  <2>1. /\ wake' = [wake EXCEPT ![r][Other(g)] = TRUE]
        /\ pc' = [pc EXCEPT ![r][g] = "waiting"]
    BY <1>4 DEF HandOver, GiveTurn
  <2>2. TurnTypeOK'
    BY <1>2, <2>1, TwoGroups DEF TurnTypeOK, PcOf, OpenMoves
  <2>3. \A q \in Ranks : q # r => Agree(q)
    BY <1>2, <2>1 DEF TurnTypeOK, OpenMoves, Agree
  <2>4. /\ pc'[r][g] = "waiting" /\ pc'[r][Other(g)] = pc[r][Other(g)]
        /\ wake'[r][g] = wake[r][g]
    BY <1>2, <2>1, TwoGroups DEF TurnTypeOK
  <2>5. pc[r][Other(g)] \notin {"leaving", "ended"}
    BY <1>2, <1>4, TwoGroups DEF RankInv, WokenByTheDead
  <2>6. ~wake[r][g] /\ pc[r][Other(g)] # "running"
    BY <1>2, <2>5, TwoGroups DEF RankInv, WokenByTheDead, OneTurn, HasTurn
  <2>7. InMode(r)'
    BY <1>1, <1>2, <2>4, TwoGroups DEF RankInv, InMode
  <2>8. OneTurn(r)'
    BY <2>4, <2>6, TwoGroups DEF OneTurn, HasTurn
  <2>9. WokenByTheDead(r)'
    BY <1>1, <2>4, <2>5, <2>6, TwoGroups DEF WokenByTheDead
  <2>10. OneAfterTheOther(r)'
    BY <1>1 DEF OneAfterTheOther
  <2> QED BY <2>2, <2>3, <2>7, <2>8, <2>9, <2>10, StepOf DEF RankInv
<1> QED BY <1>3, <1>4
-----------------------------------------------------------------------------
(* The steps *)

LEMMA PlanTurn == ASSUME TurnInv, NEW r \in Ranks, Plan(r) PROVE TurnInv'
<1>1. (Pipelined <=> Pipelined') /\ Mode' = Mode
  BY DEF Plan, Pipelined, setup, Mode
<1>2. RankInv(r) /\ TurnTypeOK /\ main[r] = "plan" /\ finished' = finished /\ open' = open
  BY DEF TurnInv, Plan, threadVars
<1>3. CASE main' = [main EXCEPT ![r] = "returned"] /\ UNCHANGED <<pc, wake>>
  <2>1. TurnTypeOK' /\ \A q \in Ranks : q # r => Agree(q)
    BY <1>2, <1>3 DEF TurnTypeOK, Agree
  <2>2. main'[r] = "returned" /\ Mode # "plan"
    BY <1>2, <1>3 DEF TurnTypeOK, Mode
  <2>3. InMode(r)' /\ OneTurn(r)' /\ WokenByTheDead(r)' /\ OneAfterTheOther(r)'
    BY <1>1, <1>2, <1>3, <2>2 DEF RankInv, InMode, OneTurn, HasTurn, WokenByTheDead, OneAfterTheOther
  <2> QED BY <2>1, <2>3, StepOf DEF RankInv, Plan
<1>4. CASE main' = [main EXCEPT ![r] = "raised"] /\ UNCHANGED <<pc, wake>>
  <2>1. TurnTypeOK' /\ \A q \in Ranks : q # r => Agree(q)
    BY <1>2, <1>4 DEF TurnTypeOK, Agree
  <2>2. main'[r] = "raised" /\ Mode # "plan"
    BY <1>2, <1>4 DEF TurnTypeOK, Mode
  <2>3. InMode(r)' /\ OneTurn(r)' /\ WokenByTheDead(r)' /\ OneAfterTheOther(r)'
    BY <1>1, <1>2, <1>4, <2>2 DEF RankInv, InMode, OneTurn, HasTurn, WokenByTheDead, OneAfterTheOther
  <2> QED BY <2>1, <2>3, StepOf DEF RankInv, Plan
<1>5. CASE /\ main' = [main EXCEPT ![r] = Mode]
           /\ pc' = [pc EXCEPT ![r] = [g \in Groups |-> IF Pipelined THEN "waiting" ELSE "off"]]
           /\ wake' = [wake EXCEPT ![r] = FirstTurn]
  <2>1. FirstTurn \in [Groups -> BOOLEAN] /\ (~FirstTurn[1])
    BY TwoGroups DEF FirstTurn, Pipelined
  <2>2. TurnTypeOK' /\ \A q \in Ranks : q # r => Agree(q)
    BY <1>2, <1>5, <2>1 DEF TurnTypeOK, Agree, Mode, PcOf
  <2>3. /\ main'[r] = Mode /\ wake'[r] = FirstTurn
        /\ \A g \in Groups : pc'[r][g] = IF Pipelined THEN "waiting" ELSE "off"
    BY <1>2, <1>5 DEF TurnTypeOK
  <2>4. InMode(r)'
    BY <1>1, <2>3 DEF InMode
  <2>5. OneTurn(r)'
    BY <2>1, <2>3, TwoGroups DEF OneTurn, HasTurn
  <2>6. WokenByTheDead(r)'
    BY <1>1, <2>3 DEF WokenByTheDead
  <2>7. OneAfterTheOther(r)'
    BY <1>1, <1>2, <2>3, TwoGroups DEF RankInv, OneAfterTheOther
  <2> QED BY <2>2, <2>4, <2>5, <2>6, <2>7, StepOf DEF RankInv, Plan
<1> QED BY <1>3, <1>4, <1>5 DEF Plan, threadVars, Mode

LEMMA TakeTurnTurn ==
  ASSUME TurnInv, NEW r \in Ranks, NEW g \in Groups, TakeTurn(r, g) PROVE TurnInv'
<1>1. (Pipelined <=> Pipelined') /\ Mode' = Mode
  BY DEF TakeTurn, Pipelined, setup, Mode
<1>2. /\ RankInv(r) /\ TurnTypeOK /\ pc[r][g] = "waiting" /\ wake[r][g]
      /\ UNCHANGED <<case, main, finished, open>>
      /\ pc' = [pc EXCEPT ![r][g] = "running"] /\ wake' = [wake EXCEPT ![r][g] = FALSE]
  BY DEF TurnInv, TakeTurn
<1>3. TurnTypeOK' /\ \A q \in Ranks : q # r => Agree(q)
  BY <1>2 DEF TurnTypeOK, Agree, PcOf
<1>4. /\ pc'[r][g] = "running" /\ pc'[r][Other(g)] = pc[r][Other(g)]
      /\ ~wake'[r][g] /\ wake'[r][Other(g)] = wake[r][Other(g)]
  <2>1. pc[r] \in [Groups -> PcOf] /\ wake[r] \in [Groups -> BOOLEAN] /\ Other(g) \in Groups /\ Other(g) # g
    BY <1>2, TwoGroups DEF TurnTypeOK
  <2>2. pc'[r] = [pc[r] EXCEPT ![g] = "running"] /\ wake'[r] = [wake[r] EXCEPT ![g] = FALSE]
    BY <1>2 DEF TurnTypeOK
  <2> QED BY <2>1, <2>2
<1>5. ~HasTurn(r, Other(g))
  BY <1>2, TwoGroups DEF RankInv, OneTurn, HasTurn
<1>6. InMode(r)'
  BY <1>1, <1>2, <1>4, TwoGroups DEF RankInv, InMode
<1>7. OneTurn(r)'
  BY <1>4, <1>5, TwoGroups DEF OneTurn, HasTurn
<1>8. WokenByTheDead(r)'
  BY <1>1, <1>2, <1>4, <1>5, TwoGroups DEF RankInv, WokenByTheDead, HasTurn
<1>9. OneAfterTheOther(r)'
  BY <1>1, <1>2 DEF RankInv, OneAfterTheOther
<1> QED BY <1>2, <1>3, <1>6, <1>7, <1>8, <1>9, StepOf DEF RankInv

\* finished first, then the wake-up: the other thread finds finished set when it
\* would give its turn to a thread that is gone.
LEMMA LeaveTurn ==
  ASSUME TurnInv, NEW r \in Ranks, NEW g \in Groups, SetFinished(r, g) \/ WakeOther(r, g)
  PROVE  TurnInv'
<1>1. (Pipelined <=> Pipelined') /\ Mode' = Mode
  BY DEF SetFinished, WakeOther, Pipelined, setup, Mode
<1>2. RankInv(r) /\ TurnTypeOK /\ UNCHANGED <<case, main, open>>
  BY DEF TurnInv, SetFinished, WakeOther
<1>3. CASE SetFinished(r, g)
  <2>1. /\ pc[r][g] = "ending" /\ wake' = wake /\ pc' = [pc EXCEPT ![r][g] = "leaving"]
        /\ finished' = [finished EXCEPT ![r][g] = TRUE]
    BY <1>3 DEF SetFinished
  <2>2. TurnTypeOK' /\ \A q \in Ranks : q # r => Agree(q)
    BY <1>2, <2>1 DEF TurnTypeOK, Agree, PcOf
  <2>3. /\ pc'[r][g] = "leaving" /\ pc'[r][Other(g)] = pc[r][Other(g)]
        /\ finished'[r][g] /\ finished'[r][Other(g)] = finished[r][Other(g)]
    <3>1. /\ pc[r] \in [Groups -> PcOf] /\ finished[r] \in [Groups -> BOOLEAN]
          /\ Other(g) \in Groups /\ Other(g) # g
      BY <1>2, TwoGroups DEF TurnTypeOK
    <3>2. pc'[r] = [pc[r] EXCEPT ![g] = "leaving"] /\ finished'[r] = [finished[r] EXCEPT ![g] = TRUE]
      BY <1>2, <2>1 DEF TurnTypeOK
    <3> QED BY <3>1, <3>2
  <2>4. InMode(r)' /\ OneTurn(r)'
    BY <1>1, <1>2, <2>1, <2>3, TwoGroups DEF RankInv, InMode, OneTurn, HasTurn
  <2>5. WokenByTheDead(r)'
    BY <1>1, <1>2, <2>1, <2>3, TwoGroups DEF RankInv, WokenByTheDead
  <2>6. OneAfterTheOther(r)'
    BY <1>1, <1>2, <2>1, <2>3, TwoGroups DEF RankInv, OneAfterTheOther
  <2> QED BY <1>2, <2>2, <2>4, <2>5, <2>6, StepOf DEF RankInv
<1>4. CASE WakeOther(r, g)
  <2>1. /\ pc[r][g] = "leaving" /\ finished' = finished /\ pc' = [pc EXCEPT ![r][g] = "ended"]
        /\ wake' = [wake EXCEPT ![r][Other(g)] = TRUE]
    BY <1>4 DEF WakeOther
  <2>2. TurnTypeOK' /\ \A q \in Ranks : q # r => Agree(q)
    BY <1>2, <2>1, TwoGroups DEF TurnTypeOK, Agree, PcOf
  <2>3. /\ pc'[r][g] = "ended" /\ pc'[r][Other(g)] = pc[r][Other(g)]
        /\ wake'[r][g] = wake[r][g]
    BY <1>2, <2>1, TwoGroups DEF TurnTypeOK
  <2>4. InMode(r)' /\ OneTurn(r)'
    BY <1>1, <1>2, <2>1, <2>3, TwoGroups DEF RankInv, InMode, OneTurn, HasTurn
  <2>5. WokenByTheDead(r)'
    BY <1>1, <1>2, <2>1, <2>3, TwoGroups DEF RankInv, WokenByTheDead
  <2>6. OneAfterTheOther(r)'
    BY <1>1, <1>2, <2>1, <2>3, TwoGroups DEF RankInv, OneAfterTheOther
  <2> QED BY <1>2, <2>2, <2>4, <2>5, <2>6, StepOf DEF RankInv
<1> QED BY <1>3, <1>4

LEMMA AloneTurn ==
  ASSUME TurnInv, NEW r \in Ranks, NEW g \in Groups, RunAlone(r, g) PROVE TurnInv'
<1>1. (Pipelined <=> Pipelined') /\ Mode' = Mode
  BY DEF RunAlone, Pipelined, setup, Mode
<1>2. /\ RankInv(r) /\ TurnTypeOK /\ main[r] = "alone" /\ pc[r][g] = "off"
      /\ UNCHANGED <<case, main, wake, finished, open>>
      /\ pc' = [pc EXCEPT ![r][g] = "running"]
  BY DEF TurnInv, RunAlone
<1>3. ~Pipelined
  BY <1>2 DEF RankInv, InMode, Mode
<1>4. g = 1 => pc[r][0] = "ended"
  BY DEF RunAlone
<1>5. TurnTypeOK' /\ \A q \in Ranks : q # r => Agree(q)
  BY <1>2 DEF TurnTypeOK, Agree, PcOf
<1>6. pc'[r][g] = "running" /\ pc'[r][Other(g)] = pc[r][Other(g)]
  BY <1>2, TwoGroups DEF TurnTypeOK
<1>7. pc[r][Other(g)] \in {"off", "ended"}
  BY <1>2, <1>3, <1>4, TwoGroups DEF RankInv, OneAfterTheOther
<1>8. InMode(r)'
  BY <1>1, <1>2, <1>6, TwoGroups DEF RankInv, InMode
<1>9. OneTurn(r)'
  BY <1>6, <1>7, TwoGroups DEF OneTurn, HasTurn
<1>10. WokenByTheDead(r)'
  BY <1>1, <1>3 DEF WokenByTheDead
<1>11. OneAfterTheOther(r)'
  BY <1>1, <1>2, <1>3, <1>4, <1>6, TwoGroups DEF RankInv, OneAfterTheOther
<1> QED BY <1>2, <1>5, <1>8, <1>9, <1>10, <1>11, StepOf DEF RankInv

LEMMA JoinTurn == ASSUME TurnInv, NEW r \in Ranks, Join(r) PROVE TurnInv'
<1>1. (Pipelined <=> Pipelined') /\ Mode' = Mode
  BY DEF Join, Pipelined, setup, Mode
<1>2. RankInv(r) /\ TurnTypeOK /\ UNCHANGED <<case, pc, wake, finished, open>>
  BY DEF TurnInv, Join, threadVars
<1>3. PICK m \in {"returned", "raised"} : main' = [main EXCEPT ![r] = m]
  BY DEF Join
<1>4. \A g \in Groups : pc[r][g] \in {"off", "ended"}
  BY DEF Join, AllDone
<1>5. TurnTypeOK' /\ (\A q \in Ranks : q # r => Agree(q)) /\ main'[r] = m
  BY <1>2, <1>3 DEF TurnTypeOK, Agree
<1>6. InMode(r)'
  BY <1>2, <1>4, <1>5 DEF InMode
<1>7. OneTurn(r)' /\ WokenByTheDead(r)' /\ OneAfterTheOther(r)'
  BY <1>1, <1>2 DEF RankInv, OneTurn, HasTurn, WokenByTheDead, OneAfterTheOther
<1> QED BY <1>2, <1>5, <1>6, <1>7, StepOf DEF RankInv

\* Between two phases: opening, closing, the gate and the yield point.
LEMMA PhasesTurn ==
  ASSUME TurnInv, NEW r \in Ranks, NEW g \in Groups,
         \/ PhaseBegin(r, g) \/ PhaseEnd(r, g) \/ ReplayBegin(r, g)
         \/ YieldPoint(r, g) \/ ReplayEnd(r, g)
  PROVE  TurnInv'
<1>1. /\ RankInv(r) /\ TurnTypeOK /\ pc[r][g] = "running"
      /\ UNCHANGED <<case, main, finished>>
  BY DEF TurnInv, PhaseBegin, PhaseEnd, ReplayBegin, YieldPoint, ReplayEnd, Runs
<1>2. ASSUME NEW kind \in {"comm", "replay"}, NEW s, NEW upTo, OpenPhase(r, g, kind, s, upTo)
      PROVE  OpenMoves(r)
  <2>1. CASE Pipelined
    <3>1. open' = [open EXCEPT ![r][g] = kind]
      BY <1>2, <2>1 DEF OpenPhase
    <3> QED BY <1>1, <2>1, <3>1 DEF OpenMoves, TurnTypeOK
  <2>2. CASE ~Pipelined
    <3>1. open' = open
      BY <1>2, <2>2 DEF OpenPhase
    <3> QED BY <1>1, <3>1 DEF OpenMoves, TurnTypeOK
  <2> QED BY <2>1, <2>2
<1>3. open' = open => OpenMoves(r)
  BY <1>1 DEF OpenMoves, TurnTypeOK
<1>4. ASSUME NEW myPin, Pipelined, ClosePhase(r, g, myPin) PROVE TurnInv'
  <2>1. OpenMoves(r)
    BY <1>1, <1>4 DEF ClosePhase, OpenMoves, TurnTypeOK
  <2>2. CASE InOrder(r, g)
    <3>1. PICK event : HandOver(r, g, event, myPin)
      BY <1>4, <2>2 DEF ClosePhase
    <3> QED BY <1>1, <1>4, <2>1, <3>1, HandOverTurn
  <2>3. CASE ~InOrder(r, g)
    <3>1. pc' = [pc EXCEPT ![r][g] = "unwinding"] /\ wake' = wake
      BY <1>4, <2>3 DEF ClosePhase
    <3> QED BY <1>1, <2>1, <3>1, Retire
  <2> QED BY <2>2, <2>3
<1>5. CASE PhaseBegin(r, g)
  <2>1. OpenMoves(r) /\ UNCHANGED <<pc, wake>>
    BY <1>2, <1>5 DEF PhaseBegin
  <2> QED BY <1>1, <2>1, PhaseTurn
<1>6. CASE PhaseEnd(r, g)
  <2>1. CASE Pipelined
    BY <1>4, <1>6, <2>1 DEF PhaseEnd
  <2>2. CASE ~Pipelined
    <3>1. UNCHANGED <<pc, wake, open>>
      BY <1>6, <2>2 DEF PhaseEnd
    <3> QED BY <1>1, <1>3, <3>1, PhaseTurn
  <2> QED BY <2>1, <2>2
<1>7. CASE ReplayBegin(r, g)
  <2>1. OpenMoves(r) /\ UNCHANGED <<pc, wake>>
    BY <1>2, <1>3, <1>7 DEF ReplayBegin
  <2> QED BY <1>1, <2>1, PhaseTurn
<1>8. CASE YieldPoint(r, g)
  <2>1. open' = open
    BY <1>8 DEF YieldPoint
  <2>2. CASE Pipelined /\ setup.replay = "stream"
    <3>1. HandOver(r, g, {}, <<>>)
      BY <1>8, <2>2 DEF YieldPoint
    <3> QED BY <1>1, <1>3, <2>1, <2>2, <3>1, HandOverTurn
  <2>3. CASE ~(Pipelined /\ setup.replay = "stream")
    <3>1. UNCHANGED <<pc, wake>>
      BY <1>8, <2>3 DEF YieldPoint
    <3> QED BY <1>1, <1>3, <2>1, <3>1, PhaseTurn
  <2> QED BY <2>2, <2>3
<1>9. CASE ReplayEnd(r, g)
  <2>1. CASE open[r][g] = "replay"
    <3>1. Pipelined
      BY <1>1, <2>1 DEF RankInv, OneAfterTheOther
    <3>2. ClosePhase(r, g, pin[r])
      BY <1>9, <2>1 DEF ReplayEnd
    <3> QED BY <1>4, <3>1, <3>2
  <2>2. CASE open[r][g] # "replay"
    <3>1. UNCHANGED <<pc, wake, open>>
      BY <1>9, <2>2 DEF ReplayEnd
    <3> QED BY <1>1, <1>3, <3>1, PhaseTurn
  <2> QED BY <2>1, <2>2
<1> QED BY <1>5, <1>6, <1>7, <1>8, <1>9

\* Raising, timing out, unwinding and finishing.
LEMMA StopsTurn ==
  ASSUME TurnInv, NEW r \in Ranks, NEW g \in Groups,
         Raise(r, g) \/ TurnTimeout(r, g) \/ Unwind(r, g) \/ FinishTail(r, g)
  PROVE  TurnInv'
<1>1. UNCHANGED <<case, main, wake, finished, open>>
  BY DEF Raise, TurnTimeout, Unwind, FinishTail
<1>2. OpenMoves(r)
  BY <1>1 DEF TurnInv, TurnTypeOK, OpenMoves
<1>3. pc[r][g] \in {"running", "waiting", "unwinding"}
  BY DEF Raise, TurnTimeout, Unwind, FinishTail, Runs
<1>4. PICK to \in {"unwinding", Over(r)} : pc' = [pc EXCEPT ![r][g] = to]
  BY DEF Raise, TurnTimeout, Unwind, FinishTail
<1> QED BY <1>1, <1>2, <1>3, <1>4, Retire DEF Over

LEMMA NextTurn == TurnInv /\ [Next]_vars => TurnInv'
<1> SUFFICES ASSUME TurnInv, [Next]_vars PROVE TurnInv'
  OBVIOUS
<1>1. CASE UNCHANGED vars
  BY <1>1, SameTurn DEF vars, threadVars, turnVars
<1>2. ASSUME NEW r \in Ranks, NEW g \in Groups, Thread(r, g) PROVE TurnInv'
  <2>1. CASE TakeTurn(r, g)
    BY <2>1, TakeTurnTurn
  <2>2. CASE Compute(r, g) \/ Collective(r, g) \/ EnterReplay(r, g) \/ LeaveReplay(r, g)
    <3>1. UNCHANGED turnVars
      BY <2>2 DEF Compute, Collective, EnterReplay, LeaveReplay, turnVars
    <3> QED BY <3>1, SameTurn
  <2>3. CASE \/ PhaseBegin(r, g) \/ PhaseEnd(r, g) \/ ReplayBegin(r, g)
             \/ YieldPoint(r, g) \/ ReplayEnd(r, g)
    BY <2>3, PhasesTurn
  <2>4. CASE Unwind(r, g) \/ FinishTail(r, g)
    BY <2>4, StopsTurn
  <2>5. CASE SetFinished(r, g) \/ WakeOther(r, g)
    BY <2>5, LeaveTurn
  <2>6. CASE RunAlone(r, g)
    BY <2>6, AloneTurn
  <2> QED BY <1>2, <2>1, <2>2, <2>3, <2>4, <2>5, <2>6 DEF Thread
<1>3. ASSUME NEW r \in Ranks, NEW g \in Groups, Fault(r, g) PROVE TurnInv'
  BY <1>3, StopsTurn DEF Fault
<1>4. ASSUME NEW r \in Ranks, Rank(r) PROVE TurnInv'
  BY <1>2, <1>4, PlanTurn, JoinTurn DEF Rank
<1> QED BY <1>1, <1>3, <1>4 DEF Next

\* The two threads of a rank never issue together: not when one raises, not when
\* a wait for the turn times out while the other thread is just giving it away.
THEOREM OneThreadRuns == Spec => []OneRunner
<1>1. TurnInv => OneRunner
  BY TwoGroups DEF TurnInv, RankInv, OneTurn, HasTurn, OneRunner
<1>2. TurnInv /\ [Next]_vars => TurnInv'
  BY NextTurn
<1> QED BY <1>1, <1>2, InitTurn, PTL DEF Spec
-----------------------------------------------------------------------------
(* Where the two threads are *)

\* How the step runs: "alone" (run_sequential), or two threads with the replay in
\* order of the groups ("serial") or in turns ("stream").
Ways == {"alone", "serial", "stream"}
Way == IF ~Pipelined THEN "alone" ELSE IF setup.replay = "stream" THEN "stream" ELSE "serial"

\* The two tails, by whether the group has a replay batch.
Tails == {"cut", "whole"}
TailOf(c) == IF c = "cut" THEN CutTail ELSE WholeTail

\* Positions in a tail: behind the layers that both tails have, behind the
\* sequence-parallel layers, the last one of a boundary chain, and behind the whole.
K == 8 * SpLayers
Sp(c) == IF c = "cut" THEN K ELSE K + 8 * TailLayers
Edge(c) == IF c = "cut" THEN K + 3 ELSE Sp(c)
Behind(c) == IF c = "cut" THEN K + 12 + 2 * TailLayers ELSE Sp(c) + 3
CollapseAt(c) == IF c = "cut" THEN K + 8 + 2 * TailLayers ELSE Sp(c) + 1

\* The instruction at a position.
Boundary_(p) == CASE p % 4 = 1 -> "begin" [] p % 4 = 2 -> "coll" [] p % 4 = 3 -> "end" [] p % 4 = 0 -> "comp"
Named(p) == IF p % 4 # 0 THEN IF p % 8 < 4 THEN "in" ELSE "out" ELSE IF p % 8 = 4 THEN "attn" ELSE "moe"
SpIns(p) == I(Boundary_(p), Named(p), (p + 7) \div 8)
CutIns(p) ==
  IF p = K + 1 THEN I("begin", "in", SpLayers + 1)
  ELSE IF p = K + 2 THEN I("coll", "in", SpLayers + 1)
  ELSE IF p = K + 3 THEN I("end", "kv", SpLayers + 1)
  ELSE IF p = K + 4 THEN I("comp", "kv", SpLayers + 1)
  ELSE IF p = K + 5 THEN I("replay", "none", 0)
  ELSE IF p = K + 6 THEN I("coll", "gather", 0)
  ELSE IF p = K + 7 THEN I("enter", "none", 0)
  ELSE IF p <= K + 7 + 2 * TailLayers
       THEN I(IF p % 2 = 0 THEN "yield" ELSE "coll", "tail", (p - K - 6) \div 2)
  ELSE IF p = K + 8 + 2 * TailLayers THEN I("coll", "collapse", 0)
  ELSE IF p = K + 9 + 2 * TailLayers THEN I("leave", "none", 0)
  ELSE IF p = K + 10 + 2 * TailLayers THEN I("rend", "none", 0)
  ELSE I("comp", "norm", 0)
WholeIns(p) == IF p = Sp("whole") + 1 THEN I("coll", "collapse", 0) ELSE I("comp", "norm", 0)
Ins(c, p) == IF p <= Sp(c) THEN SpIns(p) ELSE IF c = "cut" THEN CutIns(p) ELSE WholeIns(p)

Instrs == {Ins(c, p) : c \in Tails, p \in Int}
Size ==
  /\ SpLayers \in Nat \ {0} /\ TailLayers \in Nat \ {0} /\ K = 8 * SpLayers /\ K \in Nat
  /\ K % 8 = 0 /\ K >= 8
LEMMA Sizes == Size
BY PipeAssumption DEF Size, K

\* The layers of either tail.
Lengths(c) ==
  /\ c = "cut" \/ c = "whole"
  /\ Sp(c) \in Nat /\ Sp(c) % 8 = 0 /\ Sp(c) >= 8 /\ Edge(c) \in Nat
  /\ c = "cut" => /\ Sp(c) = K /\ Edge(c) = K + 3 /\ Behind(c) = K + 12 + 2 * TailLayers
          /\ CollapseAt(c) = K + 8 + 2 * TailLayers
  /\ c = "whole" => /\ Sp(c) = K + 8 * TailLayers /\ Edge(c) = Sp(c) /\ Behind(c) = Sp(c) + 3
           /\ CollapseAt(c) = Sp(c) + 1
LEMMA Lengths_ == ASSUME NEW c \in Tails PROVE Lengths(c)
BY Sizes DEF Tails, Lengths, Size, Sp, Edge, Behind, CollapseAt

LEMMA Kinds ==
  ASSUME NEW p \in Int
  PROVE  /\ p = K + 1 => CutIns(p) = I("begin", "in", SpLayers + 1)
         /\ p = K + 2 => CutIns(p) = I("coll", "in", SpLayers + 1)
         /\ p = K + 3 => CutIns(p) = I("end", "kv", SpLayers + 1)
         /\ p = K + 4 => CutIns(p) = I("comp", "kv", SpLayers + 1)
         /\ p = K + 5 => CutIns(p) = I("replay", "none", 0)
         /\ p = K + 6 => CutIns(p) = I("coll", "gather", 0)
         /\ p = K + 7 => CutIns(p) = I("enter", "none", 0)
         /\ K + 7 < p /\ p <= K + 7 + 2 * TailLayers =>
              CutIns(p) = I(IF p % 2 = 0 THEN "yield" ELSE "coll", "tail", (p - K - 6) \div 2)
         /\ p = K + 8 + 2 * TailLayers => CutIns(p) = I("coll", "collapse", 0)
         /\ p = K + 9 + 2 * TailLayers => CutIns(p) = I("leave", "none", 0)
         /\ p = K + 10 + 2 * TailLayers => CutIns(p) = I("rend", "none", 0)
         /\ p = K + 11 + 2 * TailLayers => CutIns(p) = I("comp", "norm", 0)
<1> DEFINE n == 2 * TailLayers
<1>0. K \in Nat /\ n \in Nat
  BY Sizes DEF Size
<1> HIDE DEF n
<1>1. /\ p = K + 1 => CutIns(p) = I("begin", "in", SpLayers + 1)
      /\ p = K + 2 => CutIns(p) = I("coll", "in", SpLayers + 1)
      /\ p = K + 3 => CutIns(p) = I("end", "kv", SpLayers + 1)
      /\ p = K + 4 => CutIns(p) = I("comp", "kv", SpLayers + 1)
      /\ p = K + 5 => CutIns(p) = I("replay", "none", 0)
      /\ p = K + 6 => CutIns(p) = I("coll", "gather", 0)
      /\ p = K + 7 => CutIns(p) = I("enter", "none", 0)
  BY <1>0 DEF CutIns
<1>2. K + 7 < p /\ p <= K + 7 + 2 * TailLayers =>
        CutIns(p) = I(IF p % 2 = 0 THEN "yield" ELSE "coll", "tail", (p - K - 6) \div 2)
  <2> SUFFICES ASSUME K + 7 < p, p <= K + 7 + 2 * TailLayers
               PROVE  CutIns(p) = I(IF p % 2 = 0 THEN "yield" ELSE "coll", "tail", (p - K - 6) \div 2)
    OBVIOUS
  <2>1. p # K + 1 /\ p # K + 2 /\ p # K + 3 /\ p # K + 4 /\ p # K + 5 /\ p # K + 6 /\ p # K + 7
    BY <1>0
  <2> QED BY <2>1, Zenon DEF CutIns
<1>3. ASSUME p > K + 7 + n
      PROVE  CutIns(p) = IF p = K + 8 + n THEN I("coll", "collapse", 0)
                         ELSE IF p = K + 9 + n THEN I("leave", "none", 0)
                         ELSE IF p = K + 10 + n THEN I("rend", "none", 0) ELSE I("comp", "norm", 0)
  <2>1. /\ p # K + 1 /\ p # K + 2 /\ p # K + 3 /\ p # K + 4 /\ p # K + 5 /\ p # K + 6 /\ p # K + 7
        /\ ~(p <= K + 7 + n)
    BY <1>0, <1>3
  <2> QED BY <2>1, Zenon DEF CutIns, n
<1>4. /\ p = K + 8 + n => CutIns(p) = I("coll", "collapse", 0)
      /\ p = K + 9 + n => CutIns(p) = I("leave", "none", 0)
      /\ p = K + 10 + n => CutIns(p) = I("rend", "none", 0)
      /\ p = K + 11 + n => CutIns(p) = I("comp", "norm", 0)
  BY <1>0, <1>3
<1> QED BY <1>1, <1>2, <1>4 DEF n

\* The instructions of n sequence-parallel layers.
LEMMA SpPart ==
  ASSUME NEW n \in Nat
  PROVE  Layers(n, 8, SpLayer) = [p \in 1..(8 * n) |-> SpIns(p)]
<1>1. ASSUME NEW p \in 1..(8 * n)
      PROVE  SpLayer((p - 1) \div 8 + 1)[((p - 1) % 8) + 1] = SpIns(p)
  <2> DEFINE l == (p - 1) \div 8 + 1
             k == ((p - 1) % 8) + 1
  <2>1. l \in Int /\ k \in 1..8 /\ p = 8 * l - 8 + k /\ (p + 7) \div 8 = l
    OBVIOUS
  <2>2. k % 8 = p % 8 /\ k % 4 = p % 4
    BY <2>1
  <2> HIDE DEF l, k
  <2>3. SpIns(p) = I(Boundary_(p), Named(p), l)
    BY <2>1 DEF SpIns
  <2>4. SpLayer(l)[k] = I(Boundary_(p), Named(p), l)
    <3>1. CASE k = 1
      BY <2>1, <2>2, <3>1 DEF Boundary_, Named, SpLayer
    <3>2. CASE k = 2
      BY <2>1, <2>2, <3>2 DEF Boundary_, Named, SpLayer
    <3>3. CASE k = 3
      BY <2>1, <2>2, <3>3 DEF Boundary_, Named, SpLayer
    <3>4. CASE k = 4
      BY <2>1, <2>2, <3>4 DEF Boundary_, Named, SpLayer
    <3>5. CASE k = 5
      BY <2>1, <2>2, <3>5 DEF Boundary_, Named, SpLayer
    <3>6. CASE k = 6
      BY <2>1, <2>2, <3>6 DEF Boundary_, Named, SpLayer
    <3>7. CASE k = 7
      BY <2>1, <2>2, <3>7 DEF Boundary_, Named, SpLayer
    <3>8. CASE k = 8
      BY <2>1, <2>2, <3>8 DEF Boundary_, Named, SpLayer
    <3>9. k \in {1, 2, 3, 4, 5, 6, 7, 8}
      BY <2>1
    <3> QED BY <3>1, <3>2, <3>3, <3>4, <3>5, <3>6, <3>7, <3>8, <3>9
  <2> QED BY <2>3, <2>4 DEF l, k
<1> QED BY <1>1 DEF Layers

\* The instructions of the replay layers.
LEMMA ReplayPart == Layers(TailLayers, 2, ReplayLayer) = [i \in 1..(2 * TailLayers) |-> CutIns(K + 7 + i)]
<1>1. ASSUME NEW i \in 1..(2 * TailLayers)
      PROVE  ReplayLayer((i - 1) \div 2 + 1)[((i - 1) % 2) + 1] = CutIns(K + 7 + i)
  <2> DEFINE l == (i - 1) \div 2 + 1
             k == ((i - 1) % 2) + 1
             p == K + 7 + i
  <2>1. l \in 1..TailLayers /\ k \in 1..2 /\ i = 2 * l - 2 + k
    BY Sizes DEF Size
  <2>2. /\ (p - K - 6) \div 2 = l /\ (p % 2 = 0 <=> k = 1)
        /\ p > K + 7 /\ p <= K + 7 + 2 * TailLayers
    BY <2>1, Sizes DEF Size
  <2>3. CutIns(p) = I(IF k = 1 THEN "yield" ELSE "coll", "tail", l)
    <3>1. p \in Int
      BY Sizes DEF Size
    <3> HIDE DEF l, k, p
    <3> QED BY <2>2, <3>1, Kinds
  <2>4. ReplayLayer(l)[k] = I(IF k = 1 THEN "yield" ELSE "coll", "tail", l)
    <3> HIDE DEF l, k
    <3>1. CASE k = 1
      BY <3>1 DEF ReplayLayer
    <3>2. CASE k = 2
      BY <3>2 DEF ReplayLayer
    <3> QED BY <2>1, <3>1, <3>2
  <2> QED BY <2>3, <2>4
<1> QED BY <1>1 DEF Layers

Joined(s, t, x) ==
  /\ x \in Seq(Instrs)
  /\ \A m, n \in Nat : Len(s) = m /\ Len(t) = n =>
       /\ Len(x) = m + n
       /\ \A i \in 1..m : x[i] = s[i]
       /\ \A i \in 1..n : x[m + i] = t[i]
LEMMA Concat == ASSUME NEW s \in Seq(Instrs), NEW t \in Seq(Instrs) PROVE Joined(s, t, s \o t)
BY DEF Joined

\* A part of a tail: its instructions, behind position m of the tail.
Piece(c, m, s, n) == s \in Seq(Instrs) /\ n \in Nat /\ Len(s) = n /\ \A i \in 1..n : s[i] = Ins(c, m + i)
LEMMA Pieces ==
  ASSUME NEW c \in Tails, NEW m \in Nat, NEW s, NEW n, NEW t, NEW k,
         Piece(c, m, s, n), Piece(c, m + n, t, k)
  PROVE  Piece(c, m, s \o t, n + k)
<1> DEFINE x == s \o t
<1>1. Joined(s, t, x)
  BY Concat DEF Piece
<1> HIDE DEF x
<1>2. n \in Nat /\ k \in Nat /\ Len(s) = n /\ Len(t) = k
  BY DEF Piece
<1>3. x \in Seq(Instrs) /\ Len(x) = n + k /\ (\A i \in 1..n : x[i] = s[i]) /\ \A i \in 1..k : x[n + i] = t[i]
  BY <1>1, <1>2 DEF Joined
<1>4. ASSUME NEW i \in 1..(n + k) PROVE x[i] = Ins(c, m + i)
  <2>1. CASE i <= n
    BY <1>2, <1>3, <2>1 DEF Piece
  <2>2. CASE i > n
    <3> DEFINE j == i - n
    <3>1. j \in 1..k /\ i = n + j /\ m + i = m + n + j
      BY <1>2, <2>2
    <3> HIDE DEF j
    <3>2. x[n + j] = t[j] /\ t[j] = Ins(c, m + n + j)
      BY <1>3, <3>1 DEF Piece
    <3> QED BY <3>1, <3>2
  <2> QED BY <1>2, <2>1, <2>2
<1>5. Piece(c, m, x, n + k)
  BY <1>2, <1>3, <1>4 DEF Piece
<1> QED BY <1>5 DEF x

LEMMA Listed ==
  ASSUME NEW c \in Tails, NEW m \in Nat
  PROVE  /\ Piece(c, m, <<Ins(c, m + 1), Ins(c, m + 2)>>, 2)
         /\ Piece(c, m, <<Ins(c, m + 1), Ins(c, m + 2), Ins(c, m + 3)>>, 3)
         /\ Piece(c, m, <<Ins(c, m + 1), Ins(c, m + 2), Ins(c, m + 3), Ins(c, m + 4)>>, 4)
<1>1. \A p \in Int : Ins(c, p) \in Instrs
  BY DEF Instrs
<1>2. ASSUME NEW a \in Instrs, NEW b \in Instrs, NEW d \in Instrs, NEW e \in Instrs
      PROVE  /\ <<a, b>> \in Seq(Instrs) /\ Len(<<a, b>>) = 2
             /\ <<a, b>>[1] = a /\ <<a, b>>[2] = b
             /\ <<a, b, d>> \in Seq(Instrs) /\ Len(<<a, b, d>>) = 3
             /\ <<a, b, d>>[1] = a /\ <<a, b, d>>[2] = b /\ <<a, b, d>>[3] = d
             /\ <<a, b, d, e>> \in Seq(Instrs) /\ Len(<<a, b, d, e>>) = 4
             /\ <<a, b, d, e>>[1] = a /\ <<a, b, d, e>>[2] = b /\ <<a, b, d, e>>[3] = d /\ <<a, b, d, e>>[4] = e
  OBVIOUS
<1>3. /\ \A i \in 1..2 : i = 1 \/ i = 2
      /\ \A i \in 1..3 : i = 1 \/ i = 2 \/ i = 3
      /\ \A i \in 1..4 : i = 1 \/ i = 2 \/ i = 3 \/ i = 4
  OBVIOUS
<1>4. m + 1 \in Int /\ m + 2 \in Int /\ m + 3 \in Int /\ m + 4 \in Int /\ 2 \in Nat /\ 3 \in Nat /\ 4 \in Nat
  OBVIOUS
<1> DEFINE a == Ins(c, m + 1)
           b == Ins(c, m + 2)
           d == Ins(c, m + 3)
           e == Ins(c, m + 4)
<1>5. a \in Instrs /\ b \in Instrs /\ d \in Instrs /\ e \in Instrs
  BY <1>1, <1>4
<1>6. Piece(c, m, <<a, b>>, 2)
  <2> DEFINE s == <<a, b>>
  <2>1. s \in Seq(Instrs) /\ Len(s) = 2 /\ s[1] = a /\ s[2] = b
    BY <1>2, <1>5
  <2> HIDE DEF s
  <2>2. Piece(c, m, s, 2)
    BY <1>3, <2>1 DEF Piece
  <2> QED BY <2>2 DEF s
<1>7. Piece(c, m, <<a, b, d>>, 3)
  <2> DEFINE s == <<a, b, d>>
  <2>1. s \in Seq(Instrs) /\ Len(s) = 3 /\ s[1] = a /\ s[2] = b /\ s[3] = d
    BY <1>2, <1>5
  <2> HIDE DEF s
  <2>2. Piece(c, m, s, 3)
    BY <1>3, <2>1 DEF Piece
  <2> QED BY <2>2 DEF s
<1>8. Piece(c, m, <<a, b, d, e>>, 4)
  <2> DEFINE s == <<a, b, d, e>>
  <2>1. s \in Seq(Instrs) /\ Len(s) = 4 /\ s[1] = a /\ s[2] = b /\ s[3] = d /\ s[4] = e
    BY <1>2, <1>5
  <2> HIDE DEF s
  <2>2. Piece(c, m, s, 4)
    BY <1>3, <2>1 DEF Piece
  <2> QED BY <2>2 DEF s
<1> QED BY <1>6, <1>7, <1>8

LEMMA Layout ==
  ASSUME NEW c \in Tails
  PROVE  /\ Len(TailOf(c)) = Behind(c) - 1
         /\ \A p \in 1..Len(TailOf(c)) : TailOf(c)[p] = Ins(c, p)
<1>0. Lengths(c) /\ Size
  BY Lengths_, Sizes
<1> DEFINE n == 2 * TailLayers
           m == SpLayers + (IF c = "cut" THEN 0 ELSE TailLayers)
           sp == Layers(m, 8, SpLayer)
<1>1. m \in Nat /\ 8 * m = Sp(c) /\ n \in Nat
  BY <1>0 DEF Lengths, Size
<1>2. Piece(c, 0, sp, Sp(c))
  <2>1. sp = [p \in 1..Sp(c) |-> SpIns(p)]
    BY <1>1, SpPart
  <2>2. \A p \in 1..Sp(c) : SpIns(p) = Ins(c, p) /\ Ins(c, p) \in Instrs /\ 0 + p = p
    BY <1>0 DEF Ins, Instrs, Lengths
  <2> HIDE DEF sp
  <2>3. sp \in Seq(Instrs) /\ Len(sp) = Sp(c)
    BY <1>0, <2>1, <2>2 DEF Lengths
  <2> QED BY <1>0, <2>1, <2>2, <2>3 DEF Piece, Lengths
<1>3. CASE c = "cut"
  <2> DEFINE rp == Layers(TailLayers, 2, ReplayLayer)
             h == <<I("replay", "none", 0), I("coll", "gather", 0), I("enter", "none", 0)>>
             e == <<I("coll", "collapse", 0), I("leave", "none", 0), I("rend", "none", 0), I("comp", "norm", 0)>>
  <2>0. Sp(c) = K /\ K \in Nat /\ \A p \in Int : p > K => Ins(c, p) = CutIns(p)
    BY <1>0, <1>3 DEF Lengths, Size, Ins
  <2>1. Piece(c, K, WriteKv, 4)
    <3>1. WriteKv = <<Ins(c, K + 1), Ins(c, K + 2), Ins(c, K + 3), Ins(c, K + 4)>>
      <4>1. /\ Ins(c, K + 1) = I("begin", "in", SpLayers + 1) /\ Ins(c, K + 2) = I("coll", "in", SpLayers + 1)
            /\ Ins(c, K + 3) = I("end", "kv", SpLayers + 1) /\ Ins(c, K + 4) = I("comp", "kv", SpLayers + 1)
        BY <2>0, Kinds
      <4> QED BY <4>1 DEF WriteKv
    <3> QED BY <2>0, <3>1, Listed
  <2>2. Piece(c, K + 4, h, 3)
    <3>1. h = <<Ins(c, K + 4 + 1), Ins(c, K + 4 + 2), Ins(c, K + 4 + 3)>>
      <4>1. /\ Ins(c, K + 4 + 1) = I("replay", "none", 0) /\ Ins(c, K + 4 + 2) = I("coll", "gather", 0)
            /\ Ins(c, K + 4 + 3) = I("enter", "none", 0)
        BY <2>0, Kinds
      <4> QED BY <4>1
    <3>2. K + 4 \in Nat
      BY <2>0
    <3> HIDE DEF h
    <3>3. Piece(c, K + 4, h, 3)
      BY <3>1, <3>2, Listed
    <3> QED BY <3>3
  <2>3. Piece(c, K + 7, rp, n)
    <3>1. rp = [i \in 1..n |-> CutIns(K + 7 + i)]
      BY ReplayPart
    <3>2. \A i \in 1..n : CutIns(K + 7 + i) = Ins(c, K + 7 + i) /\ Ins(c, K + 7 + i) \in Instrs
      BY <1>1, <2>0 DEF Instrs
    <3> HIDE DEF rp, n
    <3>3. rp \in Seq(Instrs) /\ Len(rp) = n
      BY <1>1, <3>1, <3>2
    <3> QED BY <1>1, <3>1, <3>2, <3>3 DEF Piece
  <2> HIDE DEF n
  <2>4. Piece(c, K + 7 + n, e, 4)
    <3> DEFINE q == K + 7 + n
    <3>1. e = <<Ins(c, q + 1), Ins(c, q + 2), Ins(c, q + 3), Ins(c, q + 4)>>
      <4>1. /\ Ins(c, q + 1) = I("coll", "collapse", 0) /\ Ins(c, q + 2) = I("leave", "none", 0)
            /\ Ins(c, q + 3) = I("rend", "none", 0) /\ Ins(c, q + 4) = I("comp", "norm", 0)
        <5>1. /\ q + 1 = K + 8 + n /\ q + 2 = K + 9 + n /\ q + 3 = K + 10 + n /\ q + 4 = K + 11 + n
              /\ q + 1 > K /\ q + 2 > K /\ q + 3 > K /\ q + 4 > K
              /\ q + 1 \in Int /\ q + 2 \in Int /\ q + 3 \in Int /\ q + 4 \in Int
          BY <1>1, <2>0
        <5> HIDE DEF q
        <5> QED BY <2>0, <5>1, Kinds DEF n
      <4> QED BY <4>1
    <3>2. q \in Nat
      BY <1>1, <2>0
    <3> HIDE DEF q, e
    <3> QED BY <3>1, <3>2, Listed DEF q
  <2> HIDE DEF sp, rp, h, e
  <2>5. Piece(c, 0, sp \o WriteKv, K + 4)
    BY <1>2, <2>0, <2>1, Pieces
  <2>6. Piece(c, 0, (sp \o WriteKv) \o h, K + 7)
    <3>1. Piece(c, 0, (sp \o WriteKv) \o h, (K + 4) + 3)
      BY <2>0, <2>2, <2>5, Pieces
    <3> QED BY <2>0, <3>1
  <2>7. Piece(c, 0, ((sp \o WriteKv) \o h) \o rp, K + 7 + n)
    BY <2>0, <2>3, <2>6, Pieces
  <2>8. Piece(c, 0, (((sp \o WriteKv) \o h) \o rp) \o e, K + 7 + n + 4)
    BY <1>1, <2>0, <2>4, <2>7, Pieces
  <2>9. TailOf(c) = (((sp \o WriteKv) \o h) \o rp) \o e
    <3>1. m = SpLayers
      BY <1>0, <1>3 DEF Size
    <3>2. sp = Layers(SpLayers, 8, SpLayer)
      BY <3>1 DEF sp
    <3>3. TailOf(c) = CutTail
      BY <1>3 DEF TailOf
    <3> QED BY <3>2, <3>3, Zenon DEF CutTail, rp, h, e
  <2>10. Piece(c, 0, TailOf(c), K + 7 + n + 4)
    BY <2>8, <2>9
  <2>11. K + 7 + n + 4 = Behind(c) - 1
    BY <1>0, <1>3 DEF Lengths, n, Size
  <2> QED BY <1>1, <2>0, <2>10, <2>11 DEF Piece
<1>4. CASE c = "whole"
  <2> DEFINE e == <<I("coll", "collapse", 0), I("comp", "norm", 0)>>
  <2>1. Piece(c, Sp(c), e, 2)
    <3>1. Ins(c, Sp(c) + 1) = I("coll", "collapse", 0) /\ Ins(c, Sp(c) + 2) = I("comp", "norm", 0)
      <4>1. ~(Sp(c) + 1 <= Sp(c)) /\ ~(Sp(c) + 2 <= Sp(c)) /\ Sp(c) + 2 # Sp(c) + 1
        BY <1>0 DEF Lengths
      <4>2. Ins(c, Sp(c) + 1) = WholeIns(Sp(c) + 1) /\ Ins(c, Sp(c) + 2) = WholeIns(Sp(c) + 2)
        BY <1>4, <4>1, Zenon DEF Ins
      <4>3. /\ WholeIns(Sp(c) + 1) = I("coll", "collapse", 0)
            /\ WholeIns(Sp(c) + 2) = I("comp", "norm", 0)
        BY <1>4, <4>1, Zenon DEF WholeIns
      <4> QED BY <4>2, <4>3
    <3>2. e = <<Ins(c, Sp(c) + 1), Ins(c, Sp(c) + 2)>> /\ Sp(c) \in Nat
      BY <1>0, <3>1 DEF Lengths
    <3> HIDE DEF e
    <3> QED BY <3>2, Listed
  <2>2. TailOf(c) = sp \o e
    BY <1>4 DEF TailOf, WholeTail
  <2> HIDE DEF sp, e
  <2>3. Piece(c, 0, TailOf(c), Sp(c) + 2)
    BY <1>0, <1>2, <2>1, <2>2, Pieces DEF Lengths
  <2> QED BY <1>0, <1>4, <2>3 DEF Piece, Lengths
<1> QED BY <1>0, <1>3, <1>4 DEF Lengths

\* Where the instructions of a kind are.
BoundaryIs(p, i) ==
  /\ p % 4 = 1 => i.do = "begin" /\ (i.name = "in" <=> p % 8 = 1)
  /\ p % 4 = 2 => i = I("coll", IF p % 8 = 2 THEN "in" ELSE "out", (p + 7) \div 8)
  /\ p % 4 = 3 => i.do = "end" /\ i.name # "kv"
  /\ p % 8 = 4 => i = I("comp", "attn", (p + 7) \div 8)
  /\ p % 8 = 0 => i = I("comp", "moe", (p + 7) \div 8)
LEMMA Boundaries == ASSUME NEW p \in Int PROVE BoundaryIs(p, SpIns(p))
<1>1. SpIns(p) = I(Boundary_(p), Named(p), (p + 7) \div 8)
  BY DEF SpIns
<1>2. /\ p % 4 = 1 => Boundary_(p) = "begin" /\ (Named(p) = "in" <=> p % 8 = 1)
      /\ p % 4 = 2 => Boundary_(p) = "coll" /\ Named(p) = IF p % 8 = 2 THEN "in" ELSE "out"
      /\ p % 4 = 3 => Boundary_(p) = "end" /\ Named(p) # "kv"
      /\ p % 8 = 4 => Boundary_(p) = "comp" /\ Named(p) = "attn"
      /\ p % 8 = 0 => Boundary_(p) = "comp" /\ Named(p) = "moe"
  BY DEF Boundary_, Named
<1>3. \A d, n, l : I(d, n, l).do = d /\ I(d, n, l).name = n /\ I(d, n, l).layer = l
  BY DEF I
<1> DEFINE i == SpIns(p)
           l == (p + 7) \div 8
<1>4. i.do = Boundary_(p) /\ i.name = Named(p)
  BY <1>1, <1>3
<1> HIDE DEF i, l
<1>5. BoundaryIs(p, i)
  <2>1. i = I(Boundary_(p), Named(p), l)
    BY <1>1 DEF i, l
  <2> QED BY <1>2, <1>4, <2>1 DEF BoundaryIs, l
<1> QED BY <1>5 DEF i

ShapeIs(c, p, i) ==
  /\ i.do \in {"begin", "coll", "end", "comp", "replay", "enter", "yield", "leave", "rend"}
  /\ i.do = "begin" => p <= Edge(c) /\ p % 4 = 1 /\ (i.name = "in" <=> p % 8 = 1)
  /\ i.do = "end" => p <= Edge(c) /\ p % 4 = 3 /\ (i.name = "kv" <=> c = "cut" /\ p = K + 3)
  /\ i.do = "coll" =>
       \/ p <= Edge(c) /\ p % 4 = 2 /\ i = I("coll", IF p % 8 = 2 THEN "in" ELSE "out", (p + 7) \div 8)
       \/ c = "cut" /\ p = K + 6 /\ i = I("coll", "gather", 0)
       \/ /\ c = "cut" /\ K + 9 <= p /\ p <= K + 7 + 2 * TailLayers /\ p % 2 = 1
          /\ i = I("coll", "tail", (p - K - 6) \div 2)
       \/ p = CollapseAt(c) /\ i = I("coll", "collapse", 0)
  /\ i.do = "comp" =>
       \/ p <= Sp(c) /\ p % 8 = 4 /\ i = I("comp", "attn", (p + 7) \div 8)
       \/ p <= Sp(c) /\ p % 8 = 0 /\ i = I("comp", "moe", (p + 7) \div 8)
       \/ c = "cut" /\ p = K + 4 /\ i = I("comp", "kv", SpLayers + 1)
       \/ p = Behind(c) - 1 /\ i = I("comp", "norm", 0)
  /\ i.do = "replay" => c = "cut" /\ p = K + 5
  /\ i.do = "enter" => c = "cut" /\ p = K + 7
  /\ i.do = "yield" => c = "cut" /\ K + 8 <= p /\ p <= K + 6 + 2 * TailLayers /\ p % 2 = 0
  /\ i.do = "leave" => c = "cut" /\ p = K + 9 + 2 * TailLayers
  /\ i.do = "rend" => c = "cut" /\ p = K + 10 + 2 * TailLayers
LEMMA Fields == \A d, n, l : I(d, n, l).do = d /\ I(d, n, l).name = n /\ I(d, n, l).layer = l
BY DEF I

LEMMA Shape ==
  ASSUME NEW c \in Tails, NEW p \in 1..Len(TailOf(c))
  PROVE  p \in 1..(Behind(c) - 1) /\ p \in Int /\ ShapeIs(c, p, TailOf(c)[p])
<1> DEFINE i == TailOf(c)[p]
           n == 2 * TailLayers
<1>1. Lengths(c) /\ Size /\ i = Ins(c, p)
  BY Lengths_, Sizes, Layout
<1>2. p \in 1..(Behind(c) - 1) /\ p \in Int
  BY <1>1, Layout DEF Lengths, Size
<1>3. ASSUME p <= Sp(c) PROVE ShapeIs(c, p, i)
  <2>1. i = SpIns(p)
    BY <1>1, <1>3 DEF Ins
  <2>2. c = "cut" => p # K + 3
    BY <1>1, <1>3 DEF Lengths, Size
  <2>3. p <= Edge(c)
    BY <1>1, <1>3 DEF Lengths, Size
  <2>4. BoundaryIs(p, i) /\ p % 4 \in 0..3 /\ (p % 4 = 0 => p % 8 = 4 \/ p % 8 = 0)
    <3>1. p % 4 \in 0..3 /\ (p % 4 = 0 => p % 8 = 4 \/ p % 8 = 0)
      BY <1>2
    <3>2. BoundaryIs(p, SpIns(p))
      BY <1>2, Boundaries
    <3> HIDE DEF i
    <3> QED BY <2>1, <3>1, <3>2
  <2> HIDE DEF i
  <2>5. CASE p % 4 = 1
    BY <2>3, <2>4, <2>5 DEF ShapeIs, BoundaryIs
  <2>6. CASE p % 4 = 2
    <3>1. i = I("coll", IF p % 8 = 2 THEN "in" ELSE "out", (p + 7) \div 8)
      BY <2>4, <2>6 DEF BoundaryIs
    <3>2. i.do = "coll"
      BY <3>1, Fields
    <3> QED BY <2>3, <2>6, <3>1, <3>2 DEF ShapeIs
  <2>7. CASE p % 4 = 3
    BY <1>2, <2>2, <2>3, <2>4, <2>7 DEF ShapeIs, BoundaryIs
  <2>8. CASE p % 4 = 0
    <3>1. \/ p % 8 = 4 /\ i = I("comp", "attn", (p + 7) \div 8)
          \/ p % 8 = 0 /\ i = I("comp", "moe", (p + 7) \div 8)
      BY <2>4, <2>8 DEF BoundaryIs
    <3>2. i.do = "comp"
      BY <3>1, Fields
    <3> QED BY <1>3, <3>1, <3>2 DEF ShapeIs
  <2> QED BY <1>2, <2>4, <2>5, <2>6, <2>7, <2>8
<1>4. ASSUME p > Sp(c), c = "cut" PROVE ShapeIs(c, p, i)
  <2>1. /\ i = CutIns(p) /\ p > K /\ Edge(c) = K + 3 /\ Sp(c) = K /\ Behind(c) = K + 12 + n
        /\ CollapseAt(c) = K + 8 + n /\ K % 8 = 0 /\ K \in Nat /\ n \in Nat
    BY <1>1, <1>2, <1>4 DEF Ins, Lengths, Size
  <2>2. CASE p <= K + 7
    <3> HIDE DEF i, n
    <3>1. CASE p = K + 1
      <4>1. p % 4 = 1 /\ p % 8 = 1
        BY <2>1, <3>1
      <4>2. i.do = "begin" /\ i.name = "in"
        BY <1>2, <2>1, <3>1, Kinds, Fields
      <4> QED BY <1>2, <1>4, <2>1, <3>1, <4>1, <4>2 DEF ShapeIs
    <3>2. CASE p = K + 2
      <4>1. i = I("coll", "in", SpLayers + 1) /\ p % 4 = 2 /\ p % 8 = 2 /\ (p + 7) \div 8 = SpLayers + 1
        BY <1>1, <2>1, <3>2, Kinds DEF Size
      <4>2. i = I("coll", IF p % 8 = 2 THEN "in" ELSE "out", (p + 7) \div 8) /\ i.do = "coll"
        BY <4>1, Fields
      <4> QED BY <1>2, <1>4, <2>1, <3>2, <4>1, <4>2 DEF ShapeIs
    <3>3. CASE p = K + 3
      <4>1. p % 4 = 3
        BY <2>1, <3>3
      <4>2. i.do = "end" /\ i.name = "kv"
        BY <1>2, <2>1, <3>3, Kinds, Fields
      <4> QED BY <1>2, <1>4, <2>1, <3>3, <4>1, <4>2 DEF ShapeIs
    <3>4. CASE p = K + 4
      <4>1. i = I("comp", "kv", SpLayers + 1) /\ i.do = "comp"
        BY <1>2, <2>1, <3>4, Kinds, Fields
      <4> QED BY <1>2, <1>4, <2>1, <3>4, <4>1 DEF ShapeIs
    <3>5. CASE p = K + 5
      <4>1. i.do = "replay"
        BY <1>2, <2>1, <3>5, Kinds, Fields
      <4> QED BY <1>2, <1>4, <2>1, <3>5, <4>1 DEF ShapeIs
    <3>6. CASE p = K + 6
      <4>1. i = I("coll", "gather", 0) /\ i.do = "coll"
        BY <1>2, <2>1, <3>6, Kinds, Fields
      <4> QED BY <1>2, <1>4, <2>1, <3>6, <4>1 DEF ShapeIs
    <3>7. CASE p = K + 7
      <4>1. i.do = "enter"
        BY <1>2, <2>1, <3>7, Kinds, Fields
      <4> QED BY <1>2, <1>4, <2>1, <3>7, <4>1 DEF ShapeIs
    <3> QED BY <1>2, <2>1, <2>2, <3>1, <3>2, <3>3, <3>4, <3>5, <3>6, <3>7
  <2>3. CASE p > K + 7 /\ p <= K + 7 + n
    <3>1. i = I(IF p % 2 = 0 THEN "yield" ELSE "coll", "tail", (p - K - 6) \div 2)
      BY <1>2, <2>1, <2>3, Kinds
    <3> HIDE DEF i
    <3>2. CASE p % 2 = 0
      <4>1. i.do = "yield"
        BY <3>1, <3>2, Fields
      <4>2. K + 8 <= p /\ p <= K + 6 + 2 * TailLayers
        BY <1>1, <1>2, <2>1, <2>3, <3>2 DEF Size
      <4> QED BY <1>2, <1>4, <3>2, <4>1, <4>2 DEF ShapeIs
    <3>3. CASE p % 2 = 1
      <4>1. i = I("coll", "tail", (p - K - 6) \div 2) /\ i.do = "coll"
        BY <3>1, <3>3, Fields
      <4>2. K + 9 <= p /\ p <= K + 7 + 2 * TailLayers
        BY <1>1, <1>2, <2>1, <2>3, <3>3 DEF Size
      <4> QED BY <1>2, <1>4, <3>3, <4>1, <4>2 DEF ShapeIs
    <3> QED BY <1>2, <3>2, <3>3
  <2>4. CASE p > K + 7 + n
    <3>1. p = K + 8 + n \/ p = K + 9 + n \/ p = K + 10 + n \/ p = K + 11 + n
      <4> HIDE DEF n, i
      <4> QED BY <1>2, <2>1, <2>4
    <3>2. CASE p = K + 8 + n
      <4>1. i = I("coll", "collapse", 0) /\ i.do = "coll"
        BY SMTT(40), <1>2, <2>1, <3>2, Kinds, Fields
      <4> HIDE DEF i, n
      <4> QED BY <1>2, <1>4, <2>1, <3>2, <4>1 DEF ShapeIs
    <3>3. CASE p = K + 9 + n
      <4>1. i.do = "leave"
        BY SMTT(40), <1>2, <2>1, <3>3, Kinds, Fields
      <4> QED BY <1>2, <1>4, <3>3, <4>1 DEF ShapeIs
    <3>4. CASE p = K + 10 + n
      <4>1. i.do = "rend"
        BY SMTT(40), <1>2, <2>1, <3>4, Kinds, Fields
      <4> QED BY <1>2, <1>4, <3>4, <4>1 DEF ShapeIs
    <3>5. CASE p = K + 11 + n
      <4>1. i = I("comp", "norm", 0) /\ i.do = "comp"
        BY SMTT(40), <1>2, <2>1, <3>5, Kinds, Fields
      <4> HIDE DEF i, n
      <4>2. p = Behind(c) - 1
        BY <1>2, <2>1, <3>5
      <4> QED BY <1>2, <1>4, <4>1, <4>2 DEF ShapeIs
    <3> QED BY <3>1, <3>2, <3>3, <3>4, <3>5
  <2> QED BY <1>2, <2>1, <2>2, <2>3, <2>4
<1>5. ASSUME p > Sp(c), c = "whole" PROVE ShapeIs(c, p, i)
  <2>1. i = WholeIns(p) /\ Behind(c) = Sp(c) + 3 /\ CollapseAt(c) = Sp(c) + 1 /\ Sp(c) \in Nat
    BY <1>1, <1>2, <1>5 DEF Ins, Lengths
  <2>2. p = Sp(c) + 1 \/ p = Sp(c) + 2
    BY <1>2, <1>5, <2>1
  <2> HIDE DEF i
  <2>3. CASE p = Sp(c) + 1
    <3>1. i = I("coll", "collapse", 0)
      BY <1>5, <2>1, <2>3, Zenon DEF WholeIns
    <3>2. i.do = "coll"
      BY <3>1, Fields
    <3> QED BY <1>2, <2>1, <2>3, <3>1, <3>2 DEF ShapeIs
  <2>4. CASE p = Sp(c) + 2
    <3>1. p # Sp(c) + 1
      BY <2>1, <2>4
    <3>2. i = I("comp", "norm", 0)
      BY <1>5, <2>1, <3>1, Zenon DEF WholeIns
    <3>3. i.do = "comp" /\ p = Behind(c) - 1
      BY <2>1, <2>4, <3>2, Fields
    <3> QED BY <1>2, <3>2, <3>3 DEF ShapeIs
  <2> QED BY <2>2, <2>3, <2>4
<1>6. p > Sp(c) \/ p <= Sp(c)
  BY <1>1, <1>2 DEF Lengths
<1>7. ShapeIs(c, p, i)
  BY <1>1, <1>3, <1>4, <1>5, <1>6 DEF Lengths
<1> QED BY <1>2, <1>7

\* Where a layer's operations are.
SpPlaces(c, l) ==
  /\ 8 * l - 6 \in 1..Len(TailOf(c)) /\ TailOf(c)[8 * l - 6] = I("coll", "in", l)
  /\ 8 * l - 4 \in 1..Len(TailOf(c)) /\ TailOf(c)[8 * l - 4] = I("comp", "attn", l)
  /\ 8 * l - 2 \in 1..Len(TailOf(c)) /\ TailOf(c)[8 * l - 2] = I("coll", "out", l)
  /\ 8 * l \in 1..Len(TailOf(c)) /\ TailOf(c)[8 * l] = I("comp", "moe", l)
SpOf(c) == IF c = "cut" THEN SpLayers ELSE SpLayers + TailLayers
LEMMA Places ==
  ASSUME NEW c \in Tails
  PROVE  /\ \A l \in 1..SpOf(c) : SpPlaces(c, l)
         /\ K + 2 \in 1..Len(TailOf(c)) /\ TailOf(c)[K + 2] = I("coll", "in", SpLayers + 1)
         /\ c = "cut" => /\ K + 4 \in 1..Len(TailOf(c)) /\ TailOf(c)[K + 4] = I("comp", "kv", SpLayers + 1)
                 /\ K + 6 \in 1..Len(TailOf(c)) /\ TailOf(c)[K + 6] = I("coll", "gather", 0)
                 /\ \A l \in 1..TailLayers : /\ K + 7 + 2 * l \in 1..Len(TailOf(c))
                                             /\ TailOf(c)[K + 7 + 2 * l] = I("coll", "tail", l)
         /\ CollapseAt(c) \in 1..Len(TailOf(c)) /\ TailOf(c)[CollapseAt(c)] = I("coll", "collapse", 0)
<1>0. Lengths(c) /\ Size
  BY Lengths_, Sizes
<1>1. ASSUME NEW l \in 1..SpOf(c) PROVE SpPlaces(c, l)
  <2> DEFINE a == 8 * l - 6
             b == 8 * l - 4
             d == 8 * l - 2
             e == 8 * l
  <2>0. l \in Nat \ {0} /\ 8 * l <= Sp(c) /\ Sp(c) <= Len(TailOf(c)) /\ Sp(c) \in Nat /\ Len(TailOf(c)) \in Nat
    <3>1. l \in Nat \ {0} /\ 8 * l <= Sp(c)
      BY <1>0 DEF SpOf, Lengths, Size
    <3>2. Len(TailOf(c)) = Behind(c) - 1
      BY Layout
    <3>3. Sp(c) \in Nat /\ Sp(c) <= Behind(c) - 1 /\ Behind(c) - 1 \in Nat
      BY <1>0 DEF Lengths, Size
    <3> QED BY <3>1, <3>2, <3>3
  <2>1. /\ a \in 1..Len(TailOf(c)) /\ a % 4 = 2 /\ a % 8 = 2 /\ (a + 7) \div 8 = l /\ a <= Sp(c)
        /\ b \in 1..Len(TailOf(c)) /\ b % 8 = 4 /\ (b + 7) \div 8 = l /\ b <= Sp(c)
        /\ d \in 1..Len(TailOf(c)) /\ d % 4 = 2 /\ d % 8 = 6 /\ (d + 7) \div 8 = l /\ d <= Sp(c)
        /\ e \in 1..Len(TailOf(c)) /\ e % 8 = 0 /\ (e + 7) \div 8 = l /\ e <= Sp(c)
    BY <2>0
  <2> HIDE DEF a, b, d, e
  <2>2. \A p \in {a, b, d, e} : p \in Int /\ TailOf(c)[p] = SpIns(p)
    BY <2>1, Layout DEF Ins
  <2>3. /\ TailOf(c)[a] = I("coll", "in", l) /\ TailOf(c)[b] = I("comp", "attn", l)
        /\ TailOf(c)[d] = I("coll", "out", l) /\ TailOf(c)[e] = I("comp", "moe", l)
    <3>1. BoundaryIs(a, TailOf(c)[a]) /\ BoundaryIs(b, TailOf(c)[b])
      BY <2>2, Boundaries
    <3>2. BoundaryIs(d, TailOf(c)[d]) /\ BoundaryIs(e, TailOf(c)[e])
      BY <2>2, Boundaries
    <3>3. TailOf(c)[a] = I("coll", "in", l)
      BY <2>1, <3>1 DEF BoundaryIs
    <3>4. TailOf(c)[b] = I("comp", "attn", l)
      BY <2>1, <3>1 DEF BoundaryIs
    <3>5. TailOf(c)[d] = I("coll", "out", l)
      BY <2>1, <3>2 DEF BoundaryIs
    <3>6. TailOf(c)[e] = I("comp", "moe", l)
      BY <2>1, <3>2 DEF BoundaryIs
    <3> QED BY <3>3, <3>4, <3>5, <3>6
  <2> QED BY <2>1, <2>3 DEF SpPlaces, a, b, d, e
<1>2. K + 2 \in 1..Len(TailOf(c)) /\ TailOf(c)[K + 2] = I("coll", "in", SpLayers + 1)
  <2>1. CASE c = "cut"
    <3>1. K + 2 \in 1..Len(TailOf(c)) /\ K + 2 > Sp(c)
      BY <1>0, <2>1, Layout DEF Lengths, Size
    <3>2. TailOf(c)[K + 2] = CutIns(K + 2)
      <4>1. TailOf(c)[K + 2] = Ins(c, K + 2)
        BY <3>1, Layout
      <4>2. ~(K + 2 <= Sp(c))
        BY <1>0, <3>1 DEF Lengths, Size
      <4> QED BY <2>1, <4>1, <4>2 DEF Ins
    <3> QED BY <1>0, <3>1, <3>2, Kinds DEF Size
  <2>2. CASE c = "whole"
    <3> DEFINE l == SpLayers + 1
    <3>1. l \in 1..SpOf(c) /\ 8 * l - 6 = K + 2
      BY <1>0, <2>2 DEF SpOf, Size
    <3> HIDE DEF l
    <3>2. SpPlaces(c, l)
      BY <1>1, <3>1
    <3> QED BY <3>1, <3>2 DEF SpPlaces, l
  <2> QED BY <1>0, <2>1, <2>2 DEF Lengths
<1>3. ASSUME c = "cut"
      PROVE  /\ K + 4 \in 1..Len(TailOf(c)) /\ TailOf(c)[K + 4] = I("comp", "kv", SpLayers + 1)
             /\ K + 6 \in 1..Len(TailOf(c)) /\ TailOf(c)[K + 6] = I("coll", "gather", 0)
             /\ \A l \in 1..TailLayers : /\ K + 7 + 2 * l \in 1..Len(TailOf(c))
                                         /\ TailOf(c)[K + 7 + 2 * l] = I("coll", "tail", l)
  <2>1. Len(TailOf(c)) = K + 11 + 2 * TailLayers /\ Sp(c) = K
    BY <1>0, <1>3, Layout DEF Lengths, Size
  <2>2. \A p \in 1..Len(TailOf(c)) : p > K => TailOf(c)[p] = CutIns(p)
    BY <1>0, <1>3, <2>1, Layout DEF Ins, Size
  <2>3. K + 4 \in 1..Len(TailOf(c)) /\ TailOf(c)[K + 4] = I("comp", "kv", SpLayers + 1)
    <3>1. K + 4 \in 1..Len(TailOf(c)) /\ K + 4 > K /\ K + 4 \in Int
      BY <1>0, <2>1 DEF Size
    <3> QED BY <2>2, <3>1, Kinds
  <2>4. K + 6 \in 1..Len(TailOf(c)) /\ TailOf(c)[K + 6] = I("coll", "gather", 0)
    <3>1. K + 6 \in 1..Len(TailOf(c)) /\ K + 6 > K /\ K + 6 \in Int
      BY <1>0, <2>1 DEF Size
    <3> QED BY <2>2, <3>1, Kinds
  <2>5. ASSUME NEW l \in 1..TailLayers
        PROVE  K + 7 + 2 * l \in 1..Len(TailOf(c)) /\ TailOf(c)[K + 7 + 2 * l] = I("coll", "tail", l)
    <3> DEFINE p == K + 7 + 2 * l
    <3>1. /\ p \in 1..Len(TailOf(c)) /\ p % 2 = 1 /\ (p - K - 6) \div 2 = l /\ K + 7 < p
          /\ p <= K + 7 + 2 * TailLayers /\ p > K
      BY <1>0, <2>1 DEF Size
    <3> HIDE DEF p
    <3>2. TailOf(c)[p] = I(IF p % 2 = 0 THEN "yield" ELSE "coll", "tail", (p - K - 6) \div 2)
      BY <2>2, <3>1, Kinds
    <3> QED BY <3>1, <3>2 DEF p
  <2> QED BY <2>3, <2>4, <2>5
<1>4. CollapseAt(c) \in 1..Len(TailOf(c)) /\ TailOf(c)[CollapseAt(c)] = I("coll", "collapse", 0)
  <2>1. CollapseAt(c) \in 1..Len(TailOf(c)) /\ CollapseAt(c) > Sp(c)
    BY <1>0, Layout DEF Lengths, Size
  <2>2. CASE c = "cut"
    <3>1. CollapseAt(c) = K + 8 + 2 * TailLayers /\ TailOf(c)[CollapseAt(c)] = CutIns(CollapseAt(c))
      BY <1>0, <2>1, <2>2, Layout DEF Ins, Lengths
    <3> QED BY <2>1, <3>1, Kinds
  <2>3. CASE c = "whole"
    <3>1. CollapseAt(c) = Sp("whole") + 1 /\ TailOf(c)[CollapseAt(c)] = WholeIns(CollapseAt(c))
      BY <1>0, <2>1, <2>3, Layout DEF Ins, Lengths
    <3> QED BY <2>1, <3>1, Zenon DEF WholeIns
  <2> QED BY <1>0, <2>2, <2>3 DEF Lengths
<1> QED BY <1>1, <1>2, <1>3, <1>4

-----------------------------------------------------------------------------
(* Positions and turns *)

\* A tail is a sequence of runs, each but the last ended by giving the turn away.
\* The run a position is in, and the position a run begins at: behind the tail for
\* a run it does not have.
Run(c, w, p) ==
  IF w = "alone" THEN 0
  ELSE IF c = "whole" \/ p < K + 4 THEN p \div 4
  ELSE 2 * SpLayers + 1 + IF w # "stream" \/ p < K + 9 THEN 0
                          ELSE IF p >= K + 11 + 2 * TailLayers THEN TailLayers + 1
                          ELSE IF p >= K + 7 + 2 * TailLayers THEN TailLayers
                          ELSE (p - K - 7) \div 2
LastRun(c, w) ==
  IF w = "alone" THEN 0
  ELSE IF c = "whole" THEN 2 * SpLayers + 2 * TailLayers
  ELSE 2 * SpLayers + 1 + IF w = "stream" THEN TailLayers + 1 ELSE 0
Begins(c, w, h) ==
  IF h = 0 THEN 1
  ELSE IF h > LastRun(c, w) THEN Behind(c)
  ELSE IF c = "whole" \/ h <= 2 * SpLayers + 1 THEN 4 * h
  ELSE IF h = LastRun(c, w) THEN K + 11 + 2 * TailLayers
  ELSE K + 7 + 2 * (h - 2 * SpLayers - 1)
GivesTurn(c, w, p) ==
  \/ w # "alone" /\ p <= Edge(c) /\ p % 4 = 3
  \/ /\ w = "stream" /\ c = "cut"
     /\ \/ K + 8 <= p /\ p <= K + 6 + 2 * TailLayers /\ p % 2 = 0
        \/ p = K + 10 + 2 * TailLayers

\* What is open and how many phases are closed, from the position alone, whether
\* the pin matters, and whether the context is that of the replay batch.
OpenAt(c, w, p) ==
  IF w = "alone" THEN "none"
  ELSE IF p <= Edge(c) /\ p % 4 \in {2, 3} THEN "comm"
  ELSE IF w = "stream" /\ c = "cut" /\ p >= K + 6 /\ p <= K + 10 + 2 * TailLayers THEN "replay"
  ELSE "none"
ClosedAt(c, w, p) ==
  IF w = "alone" THEN 0
  ELSE IF c = "whole" \/ p < K + 4 THEN p \div 4
  ELSE 2 * SpLayers + 1 + IF w = "stream" /\ p >= K + 11 + 2 * TailLayers THEN 1 ELSE 0
PinnedAt(c, p) == p <= Edge(c) /\ p % 8 # 1
InReplayAt(c, p) == c = "cut" /\ p >= K + 8 /\ p <= K + 9 + 2 * TailLayers

\* Collectives before a position.
Colls(c, p) ==
  IF c = "whole"
  THEN IF p <= Sp(c) + 1 THEN (p + 1) \div 4 ELSE 2 * SpLayers + 2 * TailLayers + 1
  ELSE IF p < K + 8 THEN (p + 1) \div 4
  ELSE 2 * SpLayers + 2 + IF p >= K + 9 + 2 * TailLayers THEN TailLayers + 1 ELSE (p - K - 8) \div 2

\* The two layouts in numbers.
Numbers(c) ==
  /\ c \in {"cut", "whole"}
  /\ SpLayers \in Nat \ {0} /\ TailLayers \in Nat \ {0} /\ K = 8 * SpLayers
  /\ c = "cut" => /\ Sp(c) = K /\ Edge(c) = K + 3 /\ Behind(c) = K + 12 + 2 * TailLayers
                  /\ CollapseAt(c) = K + 8 + 2 * TailLayers
  /\ c = "whole" => /\ Sp(c) = K + 8 * TailLayers /\ Edge(c) = Sp(c) /\ Behind(c) = Sp(c) + 3
                    /\ CollapseAt(c) = Sp(c) + 1
LEMMA Numbers_ == ASSUME NEW c \in Tails PROVE Numbers(c) /\ Behind(c) \in Nat /\ 1 \in 1..Behind(c)
BY Lengths_, Sizes DEF Numbers, Lengths, Size

LEMMA RunsLeft ==
  ASSUME NEW c \in Tails, NEW w \in Ways, NEW p \in 1..Behind(c)
  PROVE  /\ Run(c, w, p) \in 0..LastRun(c, w) /\ Run(c, w, Behind(c)) = LastRun(c, w) /\ Run(c, w, 1) = 0
         /\ p >= Begins(c, w, Run(c, w, p))
         /\ p = Behind(c) \/ p < Begins(c, w, Run(c, w, p) + 1)
         /\ Run(c, w, p) < LastRun(c, w) => p < Begins(c, w, Run(c, w, p) + 1)
<1>1. Numbers(c)
  BY Numbers_
<1>2. CASE c = "cut"
  BY <1>1, <1>2 DEF Numbers, Ways, Run, LastRun, Begins
<1>3. CASE c = "whole"
  BY <1>1, <1>3 DEF Numbers, Ways, Run, LastRun, Begins
<1> QED BY <1>1, <1>2, <1>3 DEF Numbers

LEMMA RunBegins ==
  ASSUME NEW c \in Tails, NEW w \in Ways, NEW h \in Nat
  PROVE  /\ Begins(c, w, h) \in 1..Behind(c) /\ LastRun(c, w) \in Nat
         /\ h <= LastRun(c, w) => Run(c, w, Begins(c, w, h)) = h
         /\ h > LastRun(c, w) => Begins(c, w, h) = Behind(c)
<1>1. Numbers(c)
  BY Numbers_
<1>2. CASE c = "cut"
  BY <1>1, <1>2 DEF Numbers, Ways, Run, LastRun, Begins
<1>3. CASE c = "whole"
  BY <1>1, <1>3 DEF Numbers, Ways, Run, LastRun, Begins
<1> QED BY <1>1, <1>2, <1>3 DEF Numbers

LEMMA BeginsRise ==
  ASSUME NEW c \in Tails, NEW w \in Ways, NEW h \in Nat, NEW k \in Nat, h <= k
  PROVE  Begins(c, w, h) <= Begins(c, w, k)
<1>1. Numbers(c)
  BY Numbers_
<1>2. CASE c = "cut"
  BY <1>1, <1>2 DEF Numbers, Ways, LastRun, Begins
<1>3. CASE c = "whole"
  BY <1>1, <1>3 DEF Numbers, Ways, LastRun, Begins
<1> QED BY <1>1, <1>2, <1>3 DEF Numbers

LEMMA RunRises ==
  ASSUME NEW c \in Tails, NEW w \in Ways, NEW p \in 1..Behind(c), NEW q \in 1..Behind(c), p <= q
  PROVE  Run(c, w, p) <= Run(c, w, q)
<1>1. Numbers(c)
  BY Numbers_
<1>2. CASE c = "cut"
  BY <1>1, <1>2 DEF Numbers, Ways, Run
<1>3. CASE c = "whole"
  BY <1>1, <1>3 DEF Numbers, Ways, Run
<1> QED BY <1>1, <1>2, <1>3 DEF Numbers

LEMMA NextRun ==
  ASSUME NEW c \in Tails, NEW w \in Ways, NEW p \in 1..(Behind(c) - 1)
  PROVE  IF GivesTurn(c, w, p)
         THEN /\ Run(c, w, p) < LastRun(c, w) /\ Run(c, w, p + 1) = Run(c, w, p) + 1
              /\ Begins(c, w, Run(c, w, p) + 1) = p + 1
         ELSE Run(c, w, p + 1) = Run(c, w, p)
<1>1. Numbers(c)
  BY Numbers_
<1>2. CASE c = "cut"
  BY <1>1, <1>2 DEF Numbers, Ways, Run, LastRun, Begins, GivesTurn
<1>3. CASE c = "whole"
  BY <1>1, <1>3 DEF Numbers, Ways, Run, LastRun, Begins, GivesTurn
<1> QED BY <1>1, <1>2, <1>3 DEF Numbers

LEMMA CollsRise ==
  ASSUME NEW c \in Tails, NEW p \in 1..Behind(c), NEW q \in 1..Behind(c), p <= q
  PROVE  Colls(c, p) \in Nat /\ Colls(c, p) <= Colls(c, q) /\ Colls(c, 1) = 0
<1>1. Numbers(c)
  BY Numbers_
<1>2. CASE c = "cut"
  BY <1>1, <1>2 DEF Numbers, Colls
<1>3. CASE c = "whole"
  BY <1>1, <1>3 DEF Numbers, Colls
<1> QED BY <1>1, <1>2, <1>3 DEF Numbers

\* Of the instructions at p.
IsColl(c, p) ==
  \/ p <= Edge(c) /\ p % 4 = 2
  \/ c = "cut" /\ p = K + 6
  \/ c = "cut" /\ K + 9 <= p /\ p <= K + 7 + 2 * TailLayers /\ p % 2 = 1
  \/ p = CollapseAt(c)
LEMMA IsColl_ ==
  ASSUME NEW c \in Tails, NEW p \in 1..Len(TailOf(c))
  PROVE  TailOf(c)[p].do = "coll" <=> IsColl(c, p)
<1>1. Lengths(c) /\ Size /\ p \in 1..(Behind(c) - 1) /\ p \in Int /\ ShapeIs(c, p, TailOf(c)[p])
      /\ TailOf(c)[p] = Ins(c, p)
  BY Lengths_, Sizes, Shape, Layout
<1>2. TailOf(c)[p].do = "coll" => IsColl(c, p)
  BY <1>1 DEF ShapeIs, IsColl
<1>3. ASSUME p <= Edge(c) /\ p % 4 = 2 PROVE TailOf(c)[p].do = "coll"
  <2>1. CASE p <= Sp(c)
    <3>1. TailOf(c)[p] = SpIns(p) /\ p % 4 = 2
      BY <1>1, <1>3, <2>1 DEF Ins
    <3>2. SpIns(p) = I("coll", IF p % 8 = 2 THEN "in" ELSE "out", (p + 7) \div 8)
      BY <1>1, <3>1, Boundaries DEF BoundaryIs
    <3> QED BY <3>1, <3>2, Fields
  <2>2. CASE p > Sp(c)
    <3>1. p = K + 2
      BY <1>1, <1>3, <2>2 DEF Lengths, Size
    <3> QED BY <3>1, Places, Fields
  <2> QED BY <1>1, <2>1, <2>2 DEF Lengths
<1>4. ASSUME c = "cut" /\ p = K + 6 PROVE TailOf(c)[p].do = "coll"
  BY <1>4, Places, Fields
<1>5. ASSUME c = "cut" /\ K + 9 <= p /\ p <= K + 7 + 2 * TailLayers /\ p % 2 = 1
      PROVE  TailOf(c)[p].do = "coll"
  <2> DEFINE l == (p - K - 7) \div 2
  <2>1. l \in 1..TailLayers /\ p = K + 7 + 2 * l
    BY <1>1, <1>5 DEF Size
  <2> HIDE DEF l
  <2>2. TailOf(c)[p] = I("coll", "tail", l)
    BY <1>5, <2>1, Places
  <2> QED BY <2>2, Fields
<1>6. ASSUME p = CollapseAt(c) PROVE TailOf(c)[p].do = "coll"
  BY <1>6, Places, Fields
<1> QED BY <1>2, <1>3, <1>4, <1>5, <1>6 DEF IsColl

LEMMA NextColl ==
  ASSUME NEW c \in Tails, NEW p \in 1..Len(TailOf(c))
  PROVE  /\ p \in 1..Behind(c) /\ p + 1 \in 1..Behind(c) /\ Colls(c, p) \in Nat
         /\ Colls(c, p + 1) = IF TailOf(c)[p].do = "coll" THEN Colls(c, p) + 1 ELSE Colls(c, p)
<1>1. Numbers(c) /\ p \in 1..(Behind(c) - 1) /\ (TailOf(c)[p].do = "coll" <=> IsColl(c, p))
  BY Numbers_, Shape, IsColl_
<1>2. p \in 1..Behind(c) /\ p + 1 \in 1..Behind(c)
  BY <1>1 DEF Numbers
<1>3. CASE c = "cut"
  <2>1. Colls(c, p + 1) = IF IsColl(c, p) THEN Colls(c, p) + 1 ELSE Colls(c, p)
    <3>1. CASE p < K + 7
      BY <1>1, <1>3, <3>1 DEF Numbers, Colls, IsColl
    <3>2. CASE p = K + 7
      BY <1>1, <1>3, <3>2 DEF Numbers, Colls, IsColl
    <3>3. CASE p > K + 7 /\ p < K + 8 + 2 * TailLayers
      <4>1. CASE p % 2 = 1
        BY <1>1, <1>3, <3>3, <4>1 DEF Numbers, Colls, IsColl
      <4>2. CASE p % 2 = 0
        BY <1>1, <1>3, <3>3, <4>2 DEF Numbers, Colls, IsColl
      <4> QED BY <1>1, <4>1, <4>2
    <3>4. CASE p >= K + 8 + 2 * TailLayers
      BY <1>1, <1>3, <3>4 DEF Numbers, Colls, IsColl
    <3> QED BY <1>1, <3>1, <3>2, <3>3, <3>4 DEF Numbers
  <2> QED BY <1>1, <1>2, <2>1, CollsRise
<1>4. CASE c = "whole"
  <2>1. Colls(c, p + 1) = IF IsColl(c, p) THEN Colls(c, p) + 1 ELSE Colls(c, p)
    BY <1>1, <1>4 DEF Numbers, Colls, IsColl
  <2> QED BY <1>1, <1>2, <2>1, CollsRise
<1> QED BY <1>1, <1>3, <1>4 DEF Numbers

\* What an instruction at p opens, closes, needs and leaves.
SameAfter(c, w, p) ==
  OpenAt(c, w, p + 1) = OpenAt(c, w, p) /\ ClosedAt(c, w, p + 1) = ClosedAt(c, w, p)
StaysAfter(c, p) == InReplayAt(c, p + 1) <=> InReplayAt(c, p)
PinAfter(c, p) == PinnedAt(c, p + 1) => PinnedAt(c, p)
BeginIs(c, w, p, i) ==
  /\ ~GivesTurn(c, w, p) /\ OpenAt(c, w, p) = "none" /\ ClosedAt(c, w, p + 1) = ClosedAt(c, w, p)
  /\ OpenAt(c, w, p + 1) = (IF w = "alone" THEN "none" ELSE "comm") /\ StaysAfter(c, p)
  /\ i.name # "in" => PinnedAt(c, p)
EndIs(c, w, p, i) ==
  /\ (GivesTurn(c, w, p) <=> w # "alone") /\ OpenAt(c, w, p) = (IF w = "alone" THEN "none" ELSE "comm")
  /\ OpenAt(c, w, p + 1) = "none" /\ StaysAfter(c, p) /\ PinnedAt(c, p)
  /\ ClosedAt(c, w, p + 1) = ClosedAt(c, w, p) + (IF w = "alone" THEN 0 ELSE 1)
  /\ i.name = "kv" => ~PinnedAt(c, p + 1)
CollIs(c, w, p, i) ==
  /\ ~GivesTurn(c, w, p) /\ SameAfter(c, w, p) /\ StaysAfter(c, p) /\ PinAfter(c, p)
  /\ i.name \in {"in", "out"} => PinnedAt(c, p)
  /\ (i.name = "tail" \/ (i.name = "collapse" /\ c = "cut")) <=> InReplayAt(c, p)
  /\ i.name \notin {"attn", "kv"}
  /\ i.name = "gather" => OpenAt(c, w, p) = (IF w = "stream" THEN "replay" ELSE "none") /\ p = K + 6
  /\ i.name = "tail" => OpenAt(c, w, p) = (IF w = "stream" THEN "replay" ELSE "none")
CompIs(c, w, p, i) ==
  /\ ~GivesTurn(c, w, p) /\ SameAfter(c, w, p) /\ StaysAfter(c, p) /\ ~InReplayAt(c, p)
  /\ i.name # "moe" => PinAfter(c, p)
  /\ i.name = "moe" => ~PinnedAt(c, p + 1)
  /\ i.name \notin {"in", "out", "tail", "gather", "collapse"} /\ OpenAt(c, w, p) = "none"
ReplayIs(c, w, p) ==
  /\ ~GivesTurn(c, w, p) /\ OpenAt(c, w, p) = "none" /\ ClosedAt(c, w, p + 1) = ClosedAt(c, w, p)
  /\ OpenAt(c, w, p + 1) = (IF w = "stream" THEN "replay" ELSE "none") /\ StaysAfter(c, p)
  /\ ~PinnedAt(c, p + 1) /\ c = "cut" /\ p = K + 5
ContextIs(c, w, p) == ~GivesTurn(c, w, p) /\ SameAfter(c, w, p) /\ ~PinnedAt(c, p + 1)
YieldIs(c, w, p) ==
  SameAfter(c, w, p) /\ StaysAfter(c, p) /\ ~PinnedAt(c, p + 1) /\ (GivesTurn(c, w, p) <=> w = "stream")
RendIs(c, w, p) ==
  /\ StaysAfter(c, p) /\ ~PinnedAt(c, p + 1) /\ (GivesTurn(c, w, p) <=> w = "stream")
  /\ OpenAt(c, w, p) = (IF w = "stream" THEN "replay" ELSE "none") /\ OpenAt(c, w, p + 1) = "none"
  /\ ClosedAt(c, w, p + 1) = ClosedAt(c, w, p) + (IF w = "stream" THEN 1 ELSE 0)
StepIs(c, w, p, i) ==
  /\ i.do = "begin" => BeginIs(c, w, p, i)
  /\ i.do = "end" => EndIs(c, w, p, i)
  /\ i.do = "coll" => CollIs(c, w, p, i)
  /\ i.do = "comp" => CompIs(c, w, p, i)
  /\ i.do = "replay" => ReplayIs(c, w, p)
  /\ i.do = "enter" => ContextIs(c, w, p) /\ InReplayAt(c, p + 1)
  /\ i.do = "leave" => ContextIs(c, w, p) /\ ~InReplayAt(c, p + 1)
  /\ i.do = "yield" => YieldIs(c, w, p)
  /\ i.do = "rend" => RendIs(c, w, p)

LEMMA Steps ==
  ASSUME NEW c \in Tails, NEW w \in Ways, NEW p \in 1..Len(TailOf(c))
  PROVE  StepIs(c, w, p, TailOf(c)[p])
<1> DEFINE i == TailOf(c)[p]
<1>0. Numbers(c) /\ p \in 1..(Behind(c) - 1) /\ p \in Int /\ ShapeIs(c, p, i) /\ w \in Ways
  BY Numbers_, Shape
<1> HIDE DEF i
<1>1. ASSUME i.do = "begin" PROVE BeginIs(c, w, p, i)
  <2>1. p <= Edge(c) /\ p % 4 = 1 /\ (i.name = "in" <=> p % 8 = 1)
    BY <1>0, <1>1 DEF ShapeIs
  <2> QED BY <1>0, <1>1, <2>1 DEF Numbers, BeginIs, SameAfter, StaysAfter, PinAfter, GivesTurn, OpenAt,
       ClosedAt, InReplayAt, PinnedAt
<1>2. ASSUME i.do = "end" PROVE EndIs(c, w, p, i)
  <2>1. p <= Edge(c) /\ p % 4 = 3 /\ (i.name = "kv" => c = "cut" /\ p = K + 3)
    BY <1>0, <1>2 DEF ShapeIs
  <2> QED BY <1>0, <1>2, <2>1 DEF Numbers, EndIs, SameAfter, StaysAfter, PinAfter, GivesTurn, OpenAt,
       ClosedAt, InReplayAt, PinnedAt
<1>3. ASSUME i.do = "coll" PROVE CollIs(c, w, p, i)
  <2>4. \/ p <= Edge(c) /\ p % 4 = 2 /\ i.name \in {"in", "out"}
        \/ c = "cut" /\ p = K + 6 /\ i.name = "gather"
        \/ c = "cut" /\ K + 9 <= p /\ p <= K + 7 + 2 * TailLayers /\ p % 2 = 1 /\ i.name = "tail"
        \/ p = CollapseAt(c) /\ i.name = "collapse"
    <3>1. \/ p <= Edge(c) /\ p % 4 = 2 /\ i = I("coll", IF p % 8 = 2 THEN "in" ELSE "out", (p + 7) \div 8)
          \/ c = "cut" /\ p = K + 6 /\ i = I("coll", "gather", 0)
          \/ /\ c = "cut" /\ K + 9 <= p /\ p <= K + 7 + 2 * TailLayers /\ p % 2 = 1
             /\ i = I("coll", "tail", (p - K - 6) \div 2)
          \/ p = CollapseAt(c) /\ i = I("coll", "collapse", 0)
      BY <1>0, <1>3 DEF ShapeIs
    <3> QED BY <3>1, Fields
  <2>1. CASE p <= Edge(c) /\ p % 4 = 2 /\ i.name \in {"in", "out"}
    BY <1>0, <1>3, <2>1 DEF Numbers, CollIs, SameAfter, StaysAfter, PinAfter, GivesTurn, OpenAt,
       ClosedAt, InReplayAt, PinnedAt
  <2>2. CASE c = "cut" /\ p = K + 6 /\ i.name = "gather"
    BY <1>0, <1>3, <2>2 DEF Numbers, CollIs, SameAfter, StaysAfter, PinAfter, GivesTurn, OpenAt,
       ClosedAt, InReplayAt, PinnedAt
  <2>3. CASE c = "cut" /\ K + 9 <= p /\ p <= K + 7 + 2 * TailLayers /\ p % 2 = 1 /\ i.name = "tail"
    BY <1>0, <1>3, <2>3 DEF Numbers, CollIs, SameAfter, StaysAfter, PinAfter, GivesTurn, OpenAt,
       ClosedAt, InReplayAt, PinnedAt
  <2>5. CASE p = CollapseAt(c) /\ i.name = "collapse"
    BY <1>0, <1>3, <2>5 DEF Numbers, CollIs, SameAfter, StaysAfter, PinAfter, GivesTurn, OpenAt,
       ClosedAt, InReplayAt, PinnedAt
  <2> QED BY <2>1, <2>2, <2>3, <2>4, <2>5
<1>4. ASSUME i.do = "comp" PROVE CompIs(c, w, p, i)
  <2>5. \/ p <= Sp(c) /\ p % 8 = 4 /\ i.name = "attn"
        \/ p <= Sp(c) /\ p % 8 = 0 /\ i.name = "moe"
        \/ c = "cut" /\ p = K + 4 /\ i.name = "kv"
        \/ p = Behind(c) - 1 /\ i.name = "norm"
    <3>1. \/ p <= Sp(c) /\ p % 8 = 4 /\ i = I("comp", "attn", (p + 7) \div 8)
          \/ p <= Sp(c) /\ p % 8 = 0 /\ i = I("comp", "moe", (p + 7) \div 8)
          \/ c = "cut" /\ p = K + 4 /\ i = I("comp", "kv", SpLayers + 1)
          \/ p = Behind(c) - 1 /\ i = I("comp", "norm", 0)
      BY <1>0, <1>4 DEF ShapeIs
    <3> QED BY <3>1, Fields
  <2>1. CASE p <= Sp(c) /\ p % 8 = 4 /\ i.name = "attn"
    <3>1. p % 4 = 0 /\ (p + 1) % 8 = 5 /\ (p + 1) % 4 = 1 /\ (p + 1) \div 4 = p \div 4
      BY <1>0, <2>1
    <3> QED BY <1>0, <1>4, <2>1, <3>1 DEF Numbers, CompIs, SameAfter, StaysAfter, PinAfter, GivesTurn, OpenAt,
       ClosedAt, InReplayAt, PinnedAt
  <2>2. CASE p <= Sp(c) /\ p % 8 = 0 /\ i.name = "moe"
    <3>1. p % 4 = 0 /\ (p + 1) % 8 = 1 /\ (p + 1) % 4 = 1 /\ (p + 1) \div 4 = p \div 4
      BY <1>0, <2>2
    <3> QED BY <1>0, <1>4, <2>2, <3>1 DEF Numbers, CompIs, SameAfter, StaysAfter, PinAfter, GivesTurn, OpenAt,
       ClosedAt, InReplayAt, PinnedAt
  <2>3. CASE c = "cut" /\ p = K + 4 /\ i.name = "kv"
    BY <1>0, <1>4, <2>3 DEF Numbers, CompIs, SameAfter, StaysAfter, PinAfter, GivesTurn, OpenAt,
       ClosedAt, InReplayAt, PinnedAt
  <2>4. CASE p = Behind(c) - 1 /\ i.name = "norm"
    BY SMTT(40), <1>0, <1>4, <2>4 DEF Numbers, CompIs, SameAfter, StaysAfter, PinAfter, GivesTurn, OpenAt,
       ClosedAt, InReplayAt, PinnedAt
  <2> QED BY <2>1, <2>2, <2>3, <2>4, <2>5
<1>5. /\ i.do = "replay" => ReplayIs(c, w, p)
      /\ i.do = "enter" => ContextIs(c, w, p) /\ InReplayAt(c, p + 1)
  <2>1. ASSUME c = "cut", p = K + 5 PROVE ReplayIs(c, w, p)
    BY <1>0, <2>1 DEF Numbers, ReplayIs, SameAfter, StaysAfter, PinAfter, GivesTurn, OpenAt,
       ClosedAt, InReplayAt, PinnedAt
  <2>2. ASSUME c = "cut", p = K + 7 PROVE ContextIs(c, w, p) /\ InReplayAt(c, p + 1)
    BY <1>0, <2>2 DEF Numbers, ContextIs, SameAfter, StaysAfter, PinAfter, GivesTurn, OpenAt,
       ClosedAt, InReplayAt, PinnedAt
  <2> QED BY <1>0, <2>1, <2>2 DEF ShapeIs
<1>6. /\ i.do = "leave" => ContextIs(c, w, p) /\ ~InReplayAt(c, p + 1)
      /\ i.do = "rend" => RendIs(c, w, p)
  <2>1. ASSUME c = "cut", p = K + 9 + 2 * TailLayers PROVE ContextIs(c, w, p) /\ ~InReplayAt(c, p + 1)
    BY <1>0, <2>1 DEF Numbers, ContextIs, SameAfter, StaysAfter, PinAfter, GivesTurn, OpenAt,
       ClosedAt, InReplayAt, PinnedAt
  <2>2. ASSUME c = "cut", p = K + 10 + 2 * TailLayers PROVE RendIs(c, w, p)
    BY <1>0, <2>2 DEF Numbers, RendIs, SameAfter, StaysAfter, PinAfter, GivesTurn, OpenAt,
       ClosedAt, InReplayAt, PinnedAt
  <2> QED BY <1>0, <2>1, <2>2 DEF ShapeIs
<1>7. i.do = "yield" => YieldIs(c, w, p)
  <2>1. ASSUME c = "cut", K + 8 <= p, p <= K + 6 + 2 * TailLayers, p % 2 = 0 PROVE YieldIs(c, w, p)
    BY <1>0, <2>1 DEF Numbers, YieldIs, SameAfter, StaysAfter, PinAfter, GivesTurn, OpenAt,
       ClosedAt, InReplayAt, PinnedAt
  <2> QED BY <1>0, <2>1 DEF ShapeIs
<1>8. StepIs(c, w, p, i)
  BY <1>1, <1>2, <1>3, <1>4, <1>5, <1>6, <1>7, Zenon DEF StepIs
<1> QED BY <1>8 DEF i

-----------------------------------------------------------------------------
(* What a group has issued *)

\* The tail of a group.
Kind(g) == IF HasReplay(g) THEN "cut" ELSE "whole"
LEMMA KindOf ==
  ASSUME NEW g
  PROVE  /\ Kind(g) \in Tails /\ Tail_(g) = TailOf(Kind(g)) /\ (HasReplay(g) <=> Kind(g) = "cut")
         /\ Kind(g) = "cut" \/ Kind(g) = "whole"
BY DEF Kind, Tails, Tail_, TailOf

\* Up to a position of a tail the operations of a group are in a set: all of them, and
\* those of some names.
Issued(c, g, p, A) ==
  \A j \in 1..(p - 1) : TailOf(c)[j].do \in {"comp", "coll"} => Op(g, TailOf(c)[j]) \in A
NamesIssued(c, g, names, p, A) ==
  \A j \in 1..(p - 1) :
    TailOf(c)[j].do \in {"comp", "coll"} /\ TailOf(c)[j].name \in names => Op(g, TailOf(c)[j]) \in A
KvNames == {"attn", "kv"}

LEMMA IssuedGrows ==
  ASSUME NEW c, NEW g, NEW names, NEW p, NEW A, NEW B, A \subseteq B
  PROVE  /\ Issued(c, g, p, A) => Issued(c, g, p, B)
         /\ NamesIssued(c, g, names, p, A) => NamesIssued(c, g, names, p, B)
BY DEF Issued, NamesIssued

LEMMA IssuedNext ==
  ASSUME NEW c, NEW g, NEW names, NEW p \in 1..Len(TailOf(c)), NEW A, NEW B, A \subseteq B
  PROVE  /\ TailOf(c)[p].do \notin {"comp", "coll"} \/ Op(g, TailOf(c)[p]) \in B =>
              (Issued(c, g, p, A) => Issued(c, g, p + 1, B))
         /\ \/ TailOf(c)[p].do \notin {"comp", "coll"} \/ TailOf(c)[p].name \notin names
            \/ Op(g, TailOf(c)[p]) \in B
            => (NamesIssued(c, g, names, p, A) => NamesIssued(c, g, names, p + 1, B))
<1> DEFINE T == TailOf(c)
<1>1. p \in Int /\ \A j \in 1..((p + 1) - 1) : j = p \/ j \in 1..(p - 1)
  OBVIOUS
<1> HIDE DEF T
<1>2. ASSUME T[p].do \notin {"comp", "coll"} \/ Op(g, T[p]) \in B, Issued(c, g, p, A)
      PROVE  Issued(c, g, p + 1, B)
  <2>1. ASSUME NEW j \in 1..((p + 1) - 1), T[j].do \in {"comp", "coll"} PROVE Op(g, T[j]) \in B
    <3>1. CASE j = p
      BY <1>2, <2>1, <3>1
    <3>2. CASE j \in 1..(p - 1)
      BY <1>2, <2>1, <3>2 DEF Issued, T
    <3> QED BY <1>1, <3>1, <3>2
  <2> QED BY <2>1 DEF Issued, T
<1>3. ASSUME T[p].do \notin {"comp", "coll"} \/ T[p].name \notin names \/ Op(g, T[p]) \in B,
             NamesIssued(c, g, names, p, A)
      PROVE  NamesIssued(c, g, names, p + 1, B)
  <2>1. ASSUME NEW j \in 1..((p + 1) - 1), T[j].do \in {"comp", "coll"}, T[j].name \in names
        PROVE  Op(g, T[j]) \in B
    <3>1. CASE j = p
      BY <1>3, <2>1, <3>1
    <3>2. CASE j \in 1..(p - 1)
      BY <1>3, <2>1, <3>2 DEF NamesIssued, T
    <3> QED BY <1>1, <3>1, <3>2
  <2> QED BY <2>1 DEF NamesIssued, T
<1> QED BY <1>2, <1>3 DEF T

\* What an operation at a place says of the set that holds what was issued.
LEMMA AtPlace ==
  ASSUME NEW c, NEW g, NEW names, NEW p \in Int, NEW A, NEW j \in 1..Len(TailOf(c)), j < p,
         NEW d \in {"comp", "coll"}, NEW name, NEW l, TailOf(c)[j] = I(d, name, l)
  PROVE  /\ Issued(c, g, p, A) => <<g, name, l>> \in A
         /\ NamesIssued(c, g, names, p, A) /\ name \in names => <<g, name, l>> \in A
<1> DEFINE T == TailOf(c)
<1>1. j \in 1..(p - 1) /\ T[j] = I(d, name, l)
  OBVIOUS
<1> HIDE DEF T
<1>2. T[j].do = d /\ T[j].name = name /\ Op(g, T[j]) = <<g, name, l>>
  BY <1>1, Fields DEF Op
<1>3. Issued(c, g, p, A) => <<g, name, l>> \in A
  BY <1>1, <1>2 DEF Issued, T
<1>4. NamesIssued(c, g, names, p, A) /\ name \in names => <<g, name, l>> \in A
  BY <1>1, <1>2 DEF NamesIssued, T
<1> QED BY <1>3, <1>4

\* Where the keys and values of a group's rows are written.
WrittenAt(c, l) == IF c = "whole" \/ l <= SpLayers + 1 THEN 8 * l - 4 ELSE K + 7 + 2 * (l - SpLayers)
\* The names under which the compute stream, or the replay's, writes them.
WrittenBy(c, l) == IF c = "cut" /\ l > SpLayers + 1 THEN {"tail"} ELSE KvNames

LEMMA KvThere ==
  ASSUME NEW g, NEW p \in Int, NEW A, NEW l \in 1..(SpLayers + TailLayers), WrittenAt(Kind(g), l) < p,
         \/ Issued(Kind(g), g, p, A)
         \/ NamesIssued(Kind(g), g, WrittenBy(Kind(g), l), p, A)
  PROVE  KvOp(g, l) \in A
<1> DEFINE c == Kind(g)
           j == WrittenAt(c, l)
           names == WrittenBy(c, l)
<1>a. j < p /\ (Issued(c, g, p, A) \/ NamesIssued(c, g, names, p, A))
  OBVIOUS
<1>b. ASSUME NEW d \in {"comp", "coll"}, NEW name \in names, NEW m, j \in 1..Len(TailOf(c)),
             TailOf(c)[j] = I(d, name, m), KvOp(g, l) = <<g, name, m>>
      PROVE  KvOp(g, l) \in A
  <2> HIDE DEF j, names
  <2>1. /\ Issued(c, g, p, A) => <<g, name, m>> \in A
        /\ NamesIssued(c, g, names, p, A) /\ name \in names => <<g, name, m>> \in A
    BY <1>a, <1>b, AtPlace
  <2> QED BY <1>a, <1>b, <2>1
<1>0. /\ c \in Tails /\ Tail_(g) = TailOf(c) /\ (HasReplay(g) <=> c = "cut") /\ (c = "cut" \/ c = "whole")
      /\ SpLayers \in Nat \ {0} /\ TailLayers \in Nat \ {0} /\ K = 8 * SpLayers /\ l \in Int
  BY KindOf, Sizes DEF Size
<1> HIDE DEF c
<1>1. CASE c = "whole" \/ l <= SpLayers
  <2>1. l \in 1..SpOf(c) /\ j = 8 * l - 4
    BY <1>0, <1>1 DEF SpOf, WrittenAt
  <2>2. j \in 1..Len(TailOf(c)) /\ TailOf(c)[j] = I("comp", "attn", l)
    BY <1>0, <2>1, Places DEF SpPlaces
  <2>3. KvOp(g, l) = <<g, "attn", l>> /\ "attn" \in WrittenBy(c, l)
    BY <1>0, <1>1 DEF KvOp, WrittenBy, KvNames
  <2> HIDE DEF j
  <2> QED BY <1>b, <2>2, <2>3
<1>2. CASE c = "cut" /\ l = SpLayers + 1
  <2>1. j = K + 4
    BY <1>0, <1>2 DEF WrittenAt
  <2>2. j \in 1..Len(TailOf(c)) /\ TailOf(c)[j] = I("comp", "kv", l)
    BY <1>0, <1>2, <2>1, Places
  <2>3. KvOp(g, l) = <<g, "kv", l>> /\ "kv" \in WrittenBy(c, l)
    BY <1>0, <1>2 DEF KvOp, WrittenBy, KvNames
  <2> HIDE DEF j
  <2> QED BY <1>b, <2>2, <2>3
<1>3. CASE c = "cut" /\ l > SpLayers + 1
  <2> DEFINE m == l - SpLayers
  <2>1. m \in 1..TailLayers /\ j = K + 7 + 2 * m
    BY <1>0, <1>3 DEF WrittenAt
  <2> HIDE DEF j
  <2>2. KvOp(g, l) = <<g, "tail", m>> /\ "tail" \in WrittenBy(c, l)
    BY <1>0, <1>3 DEF KvOp, WrittenBy
  <2> HIDE DEF m
  <2>3. j \in 1..Len(TailOf(c)) /\ TailOf(c)[j] = I("coll", "tail", m)
    BY <1>0, <1>3, <2>1, Places
  <2> QED BY <1>b, <2>2, <2>3
<1> QED BY <1>0, <1>1, <1>2, <1>3

LEMMA SpIssued ==
  ASSUME NEW g, NEW p \in Int, NEW A, Issued(Kind(g), g, p, A), p > K + 2
  PROVE  SpOps(g) \subseteq A
<1>0. /\ SpLayers \in Nat \ {0} /\ TailLayers \in Nat \ {0} /\ K = 8 * SpLayers /\ Kind(g) \in Tails
      /\ Tail_(g) = TailOf(Kind(g))
  BY KindOf, Sizes DEF Size
<1>1. ASSUME NEW l \in 1..SpLayers PROVE <<g, "attn", l>> \in A
  <2>1. l \in 1..(SpLayers + TailLayers) /\ WrittenAt(Kind(g), l) < p
    BY <1>0 DEF WrittenAt
  <2>2. KvOp(g, l) = <<g, "attn", l>>
    BY DEF KvOp
  <2> QED BY <2>1, <2>2, KvThere
<1>2. <<g, "in", SpLayers + 1>> \in A
  <2> DEFINE j == K + 2
  <2>1. j \in 1..Len(TailOf(Kind(g))) /\ TailOf(Kind(g))[j] = I("coll", "in", SpLayers + 1) /\ j < p
    BY <1>0, Places
  <2> HIDE DEF j
  <2> QED BY <2>1, AtPlace
<1> QED BY <1>1, <1>2 DEF SpOps

-----------------------------------------------------------------------------
(* What an operation reads is there *)

\* The keys and values that a group's operation reads of the earlier rows.
ReadsLayer(i, l) ==
  \/ i.name = "attn" /\ l = i.layer
  \/ i.name \in {"kv", "gather"} /\ l = SpLayers + 1
  \/ i.name = "tail" /\ i.layer # 1 /\ Untrimmed /\ l = SpLayers + i.layer

LEMMA EarlierThere ==
  ASSUME NEW g \in Groups, NEW i, NEW A, NEW l, g = 1 => KvOp(0, l) \in A
  PROVE  Earlier(g, l) \subseteq A
<1>1. \A h \in 0..(g - 1) : h = 0 /\ g = 1
  BY TwoGroups
<1> QED BY <1>1 DEF Earlier

LEMMA OwnThere ==
  ASSUME NEW g, NEW p \in Int, NEW A, Issued(Kind(g), g, p, A)
  PROVE  /\ \A l \in 1..SpOf(Kind(g)) :
              /\ 8 * l - 6 < p => Own(g, "in", l) \subseteq A
              /\ 8 * l - 4 < p => Own(g, "attn", l) \subseteq A
              /\ 8 * l - 2 < p => Own(g, "out", l) \subseteq A
              /\ 8 * l < p => Own(g, "moe", l) \subseteq A
         /\ K + 2 < p => Own(g, "in", SpLayers + 1) \subseteq A
         /\ Kind(g) = "cut" =>
              /\ K + 4 < p => Own(g, "kv", SpLayers + 1) \subseteq A
              /\ K + 6 < p => Own(g, "gather", 0) \subseteq A
              /\ \A l \in 1..TailLayers : K + 7 + 2 * l < p => Own(g, "tail", l) \subseteq A
         /\ CollapseAt(Kind(g)) < p => Own(g, "collapse", 0) \subseteq A
<1> DEFINE c == Kind(g)
<1>0. c \in Tails /\ Tail_(g) = TailOf(c)
  BY KindOf
<1>1. ASSUME NEW j \in 1..Len(TailOf(c)), NEW d \in {"comp", "coll"}, NEW name, NEW l,
             TailOf(c)[j] = I(d, name, l), j < p
      PROVE  Own(g, name, l) \subseteq A
  <2>2. <<g, name, l>> \in A
    BY <1>1, AtPlace
  <2> QED BY <2>2 DEF Own
<1> HIDE DEF c
<1>2. ASSUME NEW l \in 1..SpOf(c)
      PROVE  /\ 8 * l - 6 < p => Own(g, "in", l) \subseteq A
             /\ 8 * l - 4 < p => Own(g, "attn", l) \subseteq A
             /\ 8 * l - 2 < p => Own(g, "out", l) \subseteq A
             /\ 8 * l < p => Own(g, "moe", l) \subseteq A
  <2> DEFINE a == 8 * l - 6
             b == 8 * l - 4
             d == 8 * l - 2
             e == 8 * l
  <2>1. /\ a \in 1..Len(TailOf(c)) /\ TailOf(c)[a] = I("coll", "in", l)
        /\ b \in 1..Len(TailOf(c)) /\ TailOf(c)[b] = I("comp", "attn", l)
        /\ d \in 1..Len(TailOf(c)) /\ TailOf(c)[d] = I("coll", "out", l)
        /\ e \in 1..Len(TailOf(c)) /\ TailOf(c)[e] = I("comp", "moe", l)
    BY <1>0, Places DEF SpPlaces
  <2> HIDE DEF a, b, d, e
  <2>2. a < p => Own(g, "in", l) \subseteq A
    BY <1>1, <2>1
  <2>3. b < p => Own(g, "attn", l) \subseteq A
    BY <1>1, <2>1
  <2>4. d < p => Own(g, "out", l) \subseteq A
    BY <1>1, <2>1
  <2>5. e < p => Own(g, "moe", l) \subseteq A
    BY <1>1, <2>1
  <2> QED BY <2>2, <2>3, <2>4, <2>5 DEF a, b, d, e
<1>3. K + 2 < p => Own(g, "in", SpLayers + 1) \subseteq A
  BY <1>0, <1>1, Places, Zenon
<1>4. ASSUME c = "cut", K + 4 < p PROVE Own(g, "kv", SpLayers + 1) \subseteq A
  BY <1>0, <1>1, <1>4, Places, Zenon
<1>5. ASSUME c = "cut", K + 6 < p PROVE Own(g, "gather", 0) \subseteq A
  BY <1>0, <1>1, <1>5, Places, Zenon
<1>6. ASSUME c = "cut", NEW l \in 1..TailLayers, K + 7 + 2 * l < p PROVE Own(g, "tail", l) \subseteq A
  BY <1>0, <1>1, <1>6, Places, Zenon
<1>7. CollapseAt(c) < p => Own(g, "collapse", 0) \subseteq A
  BY <1>0, <1>1, Places, Zenon
<1> QED BY <1>2, <1>3, <1>4, <1>5, <1>6, <1>7 DEF c

\* The layer of a position.
LEMMA LayerOf ==
  ASSUME NEW p \in Int, NEW m \in Nat, NEW n \in Nat
  PROVE  /\ 1 <= p /\ p <= 8 * m /\ p % 8 = 0 => (p + 7) \div 8 \in 1..m /\ 8 * ((p + 7) \div 8) = p
         /\ 1 <= p /\ p <= 8 * m /\ p % 8 = 4 => (p + 7) \div 8 \in 1..m /\ 8 * ((p + 7) \div 8) - 4 = p
         /\ p % 8 = 2 => 8 * ((p + 7) \div 8) - 6 = p
         /\ p % 8 = 6 => 8 * ((p + 7) \div 8) - 2 = p
         /\ 8 * m + 9 <= p /\ p <= 8 * m + 7 + 2 * n /\ p % 2 = 1 =>
              (p - 8 * m - 6) \div 2 \in 1..n /\ p = 8 * m + 7 + 2 * ((p - 8 * m - 6) \div 2)
OBVIOUS

LEMMA ReadsThere ==
  ASSUME NEW g \in Groups, NEW p \in 1..Len(TailOf(Kind(g))), NEW A, Issued(Kind(g), g, p, A),
         TailOf(Kind(g))[p].do \in {"comp", "coll"},
         g = 1 => \A l \in Int : ReadsLayer(TailOf(Kind(g))[p], l) => KvOp(0, l) \in A
  PROVE  Reads(g, TailOf(Kind(g))[p]) \subseteq A
<1> DEFINE c == Kind(g)
           i == TailOf(c)[p]
<1>0. /\ SpLayers \in Nat \ {0} /\ TailLayers \in Nat \ {0} /\ K = 8 * SpLayers /\ p \in Int
      /\ c \in Tails /\ (c = "cut" <=> HasReplay(g)) /\ (c = "cut" \/ c = "whole")
      /\ ShapeIs(c, p, i) /\ p \in 1..(Behind(c) - 1)
      /\ Sp(c) = 8 * SpOf(c) /\ SpOf(c) \in Nat \ {0} /\ SpOf(c) >= SpLayers
      /\ c = "cut" => SpOf(c) = SpLayers /\ Edge(c) = K + 3 /\ CollapseAt(c) = K + 8 + 2 * TailLayers
                      /\ Behind(c) = K + 12 + 2 * TailLayers
      /\ c = "whole" => SpOf(c) = SpLayers + TailLayers /\ Edge(c) = Sp(c) /\ CollapseAt(c) = Sp(c) + 1
                      /\ Behind(c) = Sp(c) + 3
  BY KindOf, Sizes, Shape, Lengths_ DEF Size, SpOf, Lengths
<1>1. Issued(Kind(g), g, p, A) /\ (g = 1 => \A l \in Int : ReadsLayer(i, l) => KvOp(0, l) \in A)
  OBVIOUS
<1>2. /\ \A l \in 1..SpOf(c) :
           /\ 8 * l - 6 < p => Own(g, "in", l) \subseteq A
           /\ 8 * l - 4 < p => Own(g, "attn", l) \subseteq A
           /\ 8 * l - 2 < p => Own(g, "out", l) \subseteq A
           /\ 8 * l < p => Own(g, "moe", l) \subseteq A
      /\ K + 2 < p => Own(g, "in", SpLayers + 1) \subseteq A
      /\ c = "cut" =>
           /\ K + 4 < p => Own(g, "kv", SpLayers + 1) \subseteq A
           /\ K + 6 < p => Own(g, "gather", 0) \subseteq A
           /\ \A l \in 1..TailLayers : K + 7 + 2 * l < p => Own(g, "tail", l) \subseteq A
      /\ CollapseAt(c) < p => Own(g, "collapse", 0) \subseteq A
  BY <1>0, OwnThere
<1> SUFFICES ASSUME i.do \in {"comp", "coll"} PROVE Reads(g, i) \subseteq A
  OBVIOUS
<1> HIDE DEF c, i
<1>a. p \in Int /\ p >= 1 /\ SpOf(c) \in Nat \ {0} /\ Sp(c) = 8 * SpOf(c)
  BY <1>0
<1>b. Edge(c) \in Int /\ Edge(c) <= Sp(c) + 3
  BY <1>0
<1>3. ASSUME NEW l \in Int, ReadsLayer(i, l) PROVE Earlier(g, l) \subseteq A
  BY <1>1, <1>3, EarlierThere
<1>4. CASE p <= Edge(c) /\ p % 4 = 2 /\ i = I("coll", IF p % 8 = 2 THEN "in" ELSE "out", (p + 7) \div 8)
  <2> DEFINE l == (p + 7) \div 8
  <2>1. CASE p % 8 = 2
    <3>1. i = I("coll", "in", l) /\ l \in Int /\ 8 * l - 6 = p
      BY <1>0, <1>4, <2>1, LayerOf
    <3> HIDE DEF l
    <3>a. i.name = "in" /\ i.layer = l
      BY <3>1, Fields
    <3>2. Reads(g, i) = IF l = 1 THEN {} ELSE Own(g, "moe", l - 1)
      BY <3>a DEF Reads
    <3>3. CASE l # 1
      <4>1. l - 1 \in 1..SpOf(c) /\ 8 * (l - 1) < p
        <5> DEFINE n == SpOf(c)
        <5>1. n \in Nat /\ p <= 8 * n + 3 /\ p >= 1 /\ p = 8 * l - 6 /\ l \in Int
          BY <1>a, <1>b, <1>4, <3>1
        <5> HIDE DEF n
        <5>2. l - 1 \in 1..n /\ 8 * (l - 1) < p
          BY <3>3, <5>1
        <5> QED BY <5>2 DEF n
      <4>2. Own(g, "moe", l - 1) \subseteq A
        BY <1>2, <4>1
      <4> QED BY <3>2, <3>3, <4>2
    <3> QED BY <3>2, <3>3
  <2>2. CASE p % 8 # 2
    <3>1. i = I("coll", "out", l) /\ l \in Int /\ 8 * l - 2 = p
      <4>1. p % 8 = 6
        BY <1>0, <1>4, <2>2
      <4> QED BY <1>0, <1>4, <4>1, LayerOf
    <3> HIDE DEF l
    <3>a. i.name = "out" /\ i.layer = l
      BY <3>1, Fields
    <3>2. Reads(g, i) = Own(g, "attn", l)
      BY <3>a DEF Reads
    <3>3. l \in 1..SpOf(c) /\ 8 * l - 4 < p
      <4> DEFINE n == SpOf(c)
      <4>1. n \in Nat /\ p <= 8 * n + 3 /\ p >= 1 /\ p = 8 * l - 2 /\ l \in Int
        BY <1>a, <1>b, <1>4, <3>1
      <4> HIDE DEF n
      <4>2. l \in 1..n /\ 8 * l - 4 < p
        BY <4>1
      <4> QED BY <4>2 DEF n
    <3> QED BY <1>2, <3>2, <3>3
  <2> QED BY <2>1, <2>2
<1>5. CASE c = "cut" /\ p = K + 6 /\ i = I("coll", "gather", 0)
  <2>1. Reads(g, i) = Own(g, "kv", SpLayers + 1) \cup Earlier(g, SpLayers + 1)
    BY <1>5, Fields DEF Reads
  <2>2. K + 4 < p
    BY <1>0, <1>5
  <2>3. Own(g, "kv", SpLayers + 1) \subseteq A
    BY <1>2, <1>5, <2>2
  <2>4. Earlier(g, SpLayers + 1) \subseteq A
    <3>1. ReadsLayer(i, SpLayers + 1) /\ SpLayers + 1 \in Int
      <4>1. i.name = "gather"
        BY <1>5, Fields
      <4>2. SpLayers + 1 \in Int
        BY <1>0
      <4> QED BY <4>1, <4>2 DEF ReadsLayer
    <3> QED BY <1>3, <3>1
  <2> QED BY <2>1, <2>3, <2>4
<1>6. CASE /\ c = "cut" /\ K + 9 <= p /\ p <= K + 7 + 2 * TailLayers /\ p % 2 = 1
           /\ i = I("coll", "tail", (p - K - 6) \div 2)
  <2> DEFINE l == (p - K - 6) \div 2
  <2>0. p = K + 7 + 2 * l /\ l \in 1..TailLayers /\ l \in Int /\ i = I("coll", "tail", l)
    <3>1. SpLayers \in Nat /\ TailLayers \in Nat /\ K = 8 * SpLayers
      BY <1>0
    <3>2. l \in 1..TailLayers /\ p = 8 * SpLayers + 7 + 2 * l
      BY <1>a, <1>6, <3>1, LayerOf
    <3> QED BY <1>6, <3>1, <3>2
  <2> HIDE DEF l
  <2>1. i.name = "tail" /\ i.layer = l
    BY <2>0, Fields
  <2>2. CASE l = 1
    <3>1. Reads(g, i) = Own(g, "gather", 0)
      BY <2>1, <2>2 DEF Reads
    <3>2. K + 6 < p
      BY <1>0, <2>0, <2>2
    <3>3. Own(g, "gather", 0) \subseteq A
      BY <1>2, <1>6, <3>2
    <3> QED BY <3>1, <3>3
  <2>3. CASE l # 1
    <3>1. Reads(g, i) = Own(g, "tail", l - 1) \cup IF Untrimmed THEN Earlier(g, SpLayers + l) ELSE {}
      BY <2>1, <2>3 DEF Reads
    <3>2. l - 1 \in 1..TailLayers /\ K + 7 + 2 * (l - 1) < p
      BY <1>0, <2>0, <2>3
    <3>3. Own(g, "tail", l - 1) \subseteq A
      BY <1>2, <1>6, <3>2
    <3>4. ASSUME Untrimmed PROVE Earlier(g, SpLayers + l) \subseteq A
      <4>1. ReadsLayer(i, SpLayers + l) /\ SpLayers + l \in Int
        <5>1. SpLayers + l \in Int
          BY <1>0, <2>0
        <5> QED BY <2>1, <2>3, <3>4, <5>1 DEF ReadsLayer
      <4> QED BY <1>3, <4>1
    <3> QED BY <3>1, <3>3, <3>4
  <2> QED BY <2>2, <2>3
<1>7. CASE p <= Sp(c) /\ p % 8 = 4 /\ i = I("comp", "attn", (p + 7) \div 8)
  <2> DEFINE l == (p + 7) \div 8
  <2>0. l \in 1..SpOf(c) /\ 8 * l - 4 = p /\ i = I("comp", "attn", l) /\ l \in Int
    <3>1. p <= 8 * SpOf(c) /\ SpOf(c) \in Nat /\ 0 \in Nat
      BY <1>a, <1>7
    <3>2. l \in 1..SpOf(c) /\ 8 * l - 4 = p
      BY <1>a, <1>7, <3>1, LayerOf
    <3> QED BY <1>7, <3>2
  <2> HIDE DEF l
  <2>1. Reads(g, i) = Own(g, "in", l) \cup Earlier(g, l) /\ ReadsLayer(i, l)
    BY <2>0, Fields DEF Reads, ReadsLayer
  <2>2. 8 * l - 6 < p
    BY <1>0, <2>0
  <2>3. Own(g, "in", l) \subseteq A
    BY <1>2, <2>0, <2>2
  <2>4. Earlier(g, l) \subseteq A
    BY <1>3, <2>0, <2>1
  <2> QED BY <2>1, <2>3, <2>4
<1>8. CASE p <= Sp(c) /\ p % 8 = 0 /\ i = I("comp", "moe", (p + 7) \div 8)
  <2> DEFINE l == (p + 7) \div 8
  <2>0. l \in 1..SpOf(c) /\ 8 * l = p /\ i = I("comp", "moe", l) /\ l \in Int
    <3>1. p <= 8 * SpOf(c) /\ SpOf(c) \in Nat /\ 0 \in Nat
      BY <1>a, <1>8
    <3>2. l \in 1..SpOf(c) /\ 8 * l = p
      BY <1>a, <1>8, <3>1, LayerOf
    <3> QED BY <1>8, <3>2
  <2> HIDE DEF l
  <2>1. Reads(g, i) = Own(g, "out", l)
    BY <2>0, Fields DEF Reads
  <2>2. 8 * l - 2 < p
    BY <1>0, <2>0
  <2>3. Own(g, "out", l) \subseteq A
    BY <1>2, <2>0, <2>2
  <2> QED BY <2>1, <2>3
<1>9. CASE c = "cut" /\ p = K + 4 /\ i = I("comp", "kv", SpLayers + 1)
  <2>1. Reads(g, i) = Own(g, "in", SpLayers + 1) \cup Earlier(g, SpLayers + 1)
    BY <1>9, Fields DEF Reads
  <2>2. K + 2 < p
    BY <1>0, <1>9
  <2>3. Earlier(g, SpLayers + 1) \subseteq A
    <3>1. ReadsLayer(i, SpLayers + 1) /\ SpLayers + 1 \in Int
      <4>1. i.name = "kv"
        BY <1>9, Fields
      <4>2. SpLayers + 1 \in Int
        BY <1>0
      <4> QED BY <4>1, <4>2 DEF ReadsLayer
    <3> QED BY <1>3, <3>1
  <2>4. Own(g, "in", SpLayers + 1) \subseteq A
    BY <1>2, <2>2
  <2> QED BY <2>1, <2>3, <2>4
<1>10. CASE p = CollapseAt(c) /\ i = I("coll", "collapse", 0)
  <2>1. i.name = "collapse"
    BY <1>10, Fields
  <2>2. CASE c = "cut"
    <3>1. Reads(g, i) = Own(g, "tail", TailLayers)
      BY <1>0, <2>1, <2>2 DEF Reads
    <3>2. TailLayers \in 1..TailLayers /\ K + 7 + 2 * TailLayers < p
      BY <1>0, <1>10, <2>2
    <3>3. Own(g, "tail", TailLayers) \subseteq A
      BY <1>2, <2>2, <3>2
    <3> QED BY <3>1, <3>3
  <2>3. CASE c = "whole"
    <3>1. Reads(g, i) = Own(g, "moe", SpLayers + TailLayers)
      BY <1>0, <2>1, <2>3 DEF Reads
    <3> DEFINE l == SpLayers + TailLayers
    <3>2. l \in 1..SpOf(c) /\ 8 * l < p
      BY <1>0, <1>10, <2>3
    <3> HIDE DEF l
    <3>3. Own(g, "moe", l) \subseteq A
      BY <1>2, <3>2
    <3> QED BY <3>1, <3>3 DEF l
  <2> QED BY <1>0, <2>2, <2>3
<1>11. CASE p = Behind(c) - 1 /\ i = I("comp", "norm", 0)
  <2>1. Reads(g, i) = Own(g, "collapse", 0)
    BY <1>11, Fields DEF Reads
  <2>2. CollapseAt(c) < p
    BY <1>0, <1>11
  <2>3. Own(g, "collapse", 0) \subseteq A
    BY <1>2, <2>2
  <2> QED BY <2>1, <2>3
<1>12. CASE i.do = "coll"
  BY <1>0, <1>4, <1>5, <1>6, <1>10, <1>12 DEF ShapeIs
<1>13. CASE i.do = "comp"
  BY <1>0, <1>7, <1>8, <1>9, <1>11, <1>13 DEF ShapeIs
<1> QED BY <1>12, <1>13

-----------------------------------------------------------------------------
(* The runs of one group against those of the other *)

\* Group 0 goes first: with its run h ends the wait for run h of group 1, with that
\* one the wait for run h + 1 of group 0.
Mate(g, h) == IF g = 0 THEN h ELSE h + 1
\* Where the other group is while g is at p.
Opposite(co, w, g, cg, p) == Begins(co, w, Mate(g, Run(cg, w, p)))

LEMMA Mates ==
  ASSUME NEW g \in Groups, NEW h \in Nat
  PROVE  /\ Mate(g, h) \in Nat /\ Mate(Other(g), Mate(g, h)) = h + 1 /\ Mate(g, h + 1) = Mate(g, h) + 1
         /\ Mate(0, h) = h /\ Mate(1, h) = h + 1
BY TwoGroups DEF Mate

\* What group 1 reads of group 0 is written before the run it reads in ends.
LEMMA WrittenBefore ==
  ASSUME NEW c0 \in Tails, NEW c1 \in Tails, NEW w \in Ways, NEW p \in 1..Len(TailOf(c1)), NEW l,
         TailOf(c1)[p].do \in {"comp", "coll"}, ReadsLayer(TailOf(c1)[p], l),
         w = "alone" \/ c0 = "cut" \/ c1 = "whole" \/ TailOf(c1)[p].name # "tail",
         w # "alone" /\ c0 = "cut" /\ c1 = "whole" => p <= K + 7
  PROVE  /\ l \in 1..(SpLayers + TailLayers) /\ WrittenAt(c0, l) < Begins(c0, w, Run(c1, w, p) + 1)
         /\ l > SpLayers + 1 /\ c0 = "cut" => w = "alone" \/ TailOf(c1)[p].name = "tail"
         /\ l > SpLayers + 1 /\ c0 = "whole" /\ TailOf(c1)[p].name = "tail" => w = "alone"
<1> DEFINE i == TailOf(c1)[p]
<1>0. /\ Numbers(c0) /\ Numbers(c1) /\ ShapeIs(c1, p, i) /\ p \in Int /\ p >= 1 /\ w \in Ways
      /\ p \in 1..Behind(c1) /\ i.do \in {"comp", "coll"} /\ ReadsLayer(i, l)
      /\ w = "alone" \/ c0 = "cut" \/ c1 = "whole" \/ i.name # "tail"
      /\ p < Begins(c1, w, Run(c1, w, p) + 1)
  <2>1. p \in 1..(Behind(c1) - 1) /\ Numbers(c1) /\ p \in Int
    BY Numbers_, Shape
  <2>2. p \in 1..Behind(c1) /\ p # Behind(c1)
    BY <2>1 DEF Numbers
  <2>3. p < Begins(c1, w, Run(c1, w, p) + 1)
    BY <2>2, RunsLeft
  <2> QED BY <2>1, <2>2, <2>3, Numbers_, Shape
<1>1. \/ i.name = "attn" /\ l = i.layer /\ p <= Sp(c1) /\ p % 8 = 4 /\ i.layer = (p + 7) \div 8
      \/ i.name \in {"kv", "gather"} /\ l = SpLayers + 1 /\ c1 = "cut" /\ (p = K + 4 \/ p = K + 6)
      \/ /\ i.name = "tail" /\ l = SpLayers + i.layer /\ i.layer # 1 /\ c1 = "cut"
         /\ K + 9 <= p /\ p <= K + 7 + 2 * TailLayers /\ p % 2 = 1 /\ i.layer = (p - K - 6) \div 2
  <2> HIDE DEF i
  <2>1. CASE i.do = "coll"
    <3>1. \/ i.name \in {"in", "out"}
          \/ c1 = "cut" /\ p = K + 6 /\ i.name = "gather"
          \/ /\ c1 = "cut" /\ K + 9 <= p /\ p <= K + 7 + 2 * TailLayers /\ p % 2 = 1
             /\ i.name = "tail" /\ i.layer = (p - K - 6) \div 2
          \/ i.name = "collapse"
      <4>1. \/ p <= Edge(c1) /\ p % 4 = 2 /\ i = I("coll", IF p % 8 = 2 THEN "in" ELSE "out", (p + 7) \div 8)
            \/ c1 = "cut" /\ p = K + 6 /\ i = I("coll", "gather", 0)
            \/ /\ c1 = "cut" /\ K + 9 <= p /\ p <= K + 7 + 2 * TailLayers /\ p % 2 = 1
               /\ i = I("coll", "tail", (p - K - 6) \div 2)
            \/ p = CollapseAt(c1) /\ i = I("coll", "collapse", 0)
        BY <1>0, <2>1 DEF ShapeIs
      <4> QED BY <4>1, Fields
    <3> QED BY <1>0, <3>1 DEF ReadsLayer
  <2>2. CASE i.do = "comp"
    <3>1. \/ p <= Sp(c1) /\ p % 8 = 4 /\ i.name = "attn" /\ i.layer = (p + 7) \div 8
          \/ i.name = "moe"
          \/ c1 = "cut" /\ p = K + 4 /\ i.name = "kv"
          \/ i.name = "norm"
      <4>1. \/ p <= Sp(c1) /\ p % 8 = 4 /\ i = I("comp", "attn", (p + 7) \div 8)
            \/ p <= Sp(c1) /\ p % 8 = 0 /\ i = I("comp", "moe", (p + 7) \div 8)
            \/ c1 = "cut" /\ p = K + 4 /\ i = I("comp", "kv", SpLayers + 1)
            \/ p = Behind(c1) - 1 /\ i = I("comp", "norm", 0)
        BY <1>0, <2>2 DEF ShapeIs
      <4> QED BY <4>1, Fields
    <3> QED BY <1>0, <3>1 DEF ReadsLayer
  <2> QED BY <1>0, <2>1, <2>2
<1> DEFINE j == i.layer
           name == i.name
<1>a. w # "alone" /\ c0 = "cut" /\ c1 = "whole" => p <= K + 7
  OBVIOUS
<1>b. w = "alone" \/ c0 = "cut" \/ c1 = "whole" \/ name # "tail"
  OBVIOUS
<1> SUFFICES /\ l \in 1..(SpLayers + TailLayers) /\ WrittenAt(c0, l) < Begins(c0, w, Run(c1, w, p) + 1)
             /\ l > SpLayers + 1 /\ c0 = "cut" => w = "alone" \/ name = "tail"
             /\ l > SpLayers + 1 /\ c0 = "whole" /\ name = "tail" => w = "alone"
  OBVIOUS
<1>2. CASE name = "attn" /\ l = j /\ p <= Sp(c1) /\ p % 8 = 4 /\ j = (p + 7) \div 8
  <2> HIDE DEF i, j, name
  <2>1. p = 8 * l - 4 /\ l \in Int /\ l >= 1
    BY <1>0, <1>2
  <2>2. l \in 1..(SpLayers + TailLayers) /\ (l > SpLayers + 1 /\ c0 = "cut" => w = "alone")
    BY <1>0, <1>a, <1>2, <2>1 DEF Numbers
  <2>3. WrittenAt(c0, l) < Begins(c0, w, Run(c1, w, p) + 1)
    <3>1. CASE w = "alone"
      <4>1. Begins(c0, w, Run(c1, w, p) + 1) = Behind(c0)
        BY <1>0, <3>1 DEF Begins, LastRun, Run
      <4> QED BY <1>0, <2>1, <2>2, <4>1 DEF Numbers, WrittenAt
    <3>2. CASE w # "alone"
      <4>1. Run(c1, w, p) = 2 * l - 1 \/ (c1 = "cut" /\ p >= K + 4)
        <5>1. p \div 4 = 2 * l - 1 /\ K \in Int
          BY <1>0, <2>1 DEF Numbers
        <5>2. Run(c1, w, p) = p \div 4 \/ (c1 = "cut" /\ ~(p < K + 4))
          BY <1>0, <3>2 DEF Numbers, Run
        <5> QED BY <2>1, <5>1, <5>2
      <4>2. c1 = "cut" => p < K + 4
        BY <1>0, <1>2 DEF Numbers
      <4>3. WrittenAt(c0, l) = p
        BY <1>0, <2>1, <2>2, <3>2 DEF Numbers, WrittenAt
      <4>4. p < Begins(c0, w, 2 * l)
        <5>1. CASE c0 = "whole"
          BY <1>0, <2>1, <2>2, <3>2, <5>1 DEF Numbers, Begins, LastRun
        <5>2. CASE c0 = "cut"
          BY <1>0, <2>1, <2>2, <3>2, <5>2 DEF Numbers, Begins, LastRun, Ways
        <5> QED BY <1>0, <5>1, <5>2 DEF Numbers
      <4>5. (2 * l - 1) + 1 = 2 * l
        BY <2>1
      <4>6. Run(c1, w, p) = 2 * l - 1
        BY <1>0, <4>1, <4>2 DEF Numbers
      <4> QED BY <4>3, <4>4, <4>5, <4>6
    <3> QED BY <3>1, <3>2
  <2>4. name # "tail"
    BY <1>2
  <2> QED BY <2>2, <2>3, <2>4
<1>3. CASE name \in {"kv", "gather"} /\ l = SpLayers + 1 /\ c1 = "cut" /\ (p = K + 4 \/ p = K + 6)
  <2> HIDE DEF i, j, name
  <2>1. l \in 1..(SpLayers + TailLayers) /\ ~(l > SpLayers + 1) /\ WrittenAt(c0, l) = K + 4
    BY <1>0, <1>3 DEF Numbers, WrittenAt
  <2>2. K + 4 < Begins(c0, w, Run(c1, w, p) + 1)
    <3>1. Run(c1, w, p) = IF w = "alone" THEN 0 ELSE 2 * SpLayers + 1
      BY <1>0, <1>3 DEF Numbers, Run
    <3>2. CASE c0 = "whole"
      BY <1>0, <3>1, <3>2 DEF Numbers, Begins, LastRun
    <3>3. CASE c0 = "cut"
      BY <1>0, <3>1, <3>3 DEF Numbers, Begins, LastRun, Ways
    <3> QED BY <1>0, <3>2, <3>3 DEF Numbers
  <2> QED BY <2>1, <2>2
<1>4. CASE /\ name = "tail" /\ l = SpLayers + j /\ j # 1 /\ c1 = "cut"
           /\ K + 9 <= p /\ p <= K + 7 + 2 * TailLayers /\ p % 2 = 1 /\ j = (p - K - 6) \div 2
  <2>0. p < Begins(c1, w, Run(c1, w, p) + 1) /\ (w = "alone" \/ c0 = "cut")
    BY <1>0, <1>b, <1>4 DEF Numbers
  <2> HIDE DEF i, j, name
  <2>1. p = K + 7 + 2 * j /\ j \in 2..TailLayers
    BY <1>0, <1>4 DEF Numbers
  <2>2. l \in 1..(SpLayers + TailLayers) /\ l > SpLayers + 1
    BY <1>0, <1>4, <2>1 DEF Numbers
  <2>3. CASE c0 = "cut"
    <3>1. WrittenAt(c0, l) = p
      BY <1>0, <1>4, <2>1, <2>2, <2>3 DEF Numbers, WrittenAt
    <3> QED BY <1>4, <2>0, <2>2, <2>3, <3>1
  <2>4. CASE c0 = "whole"
    <3>1. w = "alone" /\ Begins(c0, w, Run(c1, w, p) + 1) = Behind(c0)
      BY <1>0, <2>0, <2>4 DEF Begins, LastRun, Run
    <3>2. WrittenAt(c0, l) = 8 * l - 4
      BY <2>4 DEF WrittenAt
    <3>3. 8 * l - 4 < Behind(c0)
      <4>1. l = SpLayers + j
        BY <1>4
      <4>2. Behind(c0) = 8 * SpLayers + 8 * TailLayers + 3 /\ SpLayers \in Nat /\ TailLayers \in Nat
        BY <1>0, <2>4 DEF Numbers
      <4> QED BY <2>1, <4>1, <4>2
    <3> QED BY <1>4, <2>2, <2>4, <3>1, <3>2, <3>3
  <2> QED BY <1>0, <2>3, <2>4 DEF Numbers
<1> QED BY <1>1, <1>2, <1>3, <1>4

\* Group 0 has closed as many phases where group 1 ends one, unless it has none left.
LEMMA ClosedBefore ==
  ASSUME NEW c0 \in Tails, NEW c1 \in Tails, NEW w \in Ways, w # "alone", NEW p \in 1..Len(TailOf(c1)),
         TailOf(c1)[p].do \in {"end", "rend"}, GivesTurn(c1, w, p),
         c0 = "cut" /\ c1 = "whole" => p <= K + 7
  PROVE  /\ ~(c0 = "cut" /\ c1 = "whole" /\ p = K + 7) =>
              ClosedAt(c0, w, Opposite(c0, w, 1, c1, p)) >= ClosedAt(c1, w, p) + 1
         /\ c0 = "cut" /\ c1 = "whole" /\ p = K + 7 =>
              ~(ClosedAt(c0, w, Opposite(c0, w, 1, c1, p)) >= ClosedAt(c1, w, p) + 1)
<1> DEFINE i == TailOf(c1)[p]
<1>0. Numbers(c0) /\ Numbers(c1) /\ ShapeIs(c1, p, i) /\ p \in Int /\ p >= 1 /\ w \in Ways
  BY Numbers_, Shape
<1>1. \/ p <= Edge(c1) /\ p % 4 = 3
      \/ c1 = "cut" /\ p = K + 10 + 2 * TailLayers /\ w = "stream"
  <2>1. i.do = "end" => p <= Edge(c1) /\ p % 4 = 3
    BY <1>0 DEF ShapeIs
  <2>2. i.do = "rend" => c1 = "cut" /\ p = K + 10 + 2 * TailLayers
    BY <1>0 DEF ShapeIs
  <2> HIDE DEF i
  <2>3. i.do = "end" \/ i.do = "rend"
    BY DEF i
  <2> QED BY <1>0, <2>1, <2>2, <2>3 DEF GivesTurn, Numbers
<1>2. Opposite(c0, w, 1, c1, p) = Begins(c0, w, Run(c1, w, p) + 1)
  BY DEF Opposite, Mate
<1>3. CASE p <= Edge(c1) /\ p % 4 = 3
  <2>1. Run(c1, w, p) = p \div 4 /\ ClosedAt(c1, w, p) = p \div 4
    BY <1>0, <1>3 DEF Numbers, Run, ClosedAt
  <2> DEFINE h == p \div 4
  <2>2. p = 4 * h + 3 /\ h \in Nat
    BY <1>0, <1>3
  <2> HIDE DEF h
  <2>3. CASE c0 = "whole"
    <3>1. h + 1 <= LastRun(c0, w) /\ LastRun(c0, w) \in Int
      BY <1>0, <1>3, <2>2, <2>3 DEF Numbers, LastRun
    <3>2. Begins(c0, w, h + 1) = 4 * (h + 1)
      BY <2>2, <2>3, <3>1 DEF Begins
    <3>3. ClosedAt(c0, w, 4 * (h + 1)) = h + 1
      BY <2>2, <2>3 DEF ClosedAt
    <3> QED BY <1>2, <2>1, <2>2, <2>3, <3>2, <3>3 DEF h
  <2>4. CASE c0 = "cut" /\ h <= 2 * SpLayers
    <3>1. Begins(c0, w, h + 1) = 4 * (h + 1) /\ 4 * (h + 1) <= K + 4
      BY <1>0, <2>2, <2>4 DEF Numbers, Begins, LastRun, Ways
    <3>2. ClosedAt(c0, w, 4 * (h + 1)) = h + 1
      BY <1>0, <2>2, <2>4, <3>1 DEF Numbers, ClosedAt
    <3>3. p # K + 7
      BY <1>0, <2>2, <2>4 DEF Numbers
    <3> QED BY <1>2, <2>1, <2>2, <3>1, <3>2, <3>3 DEF h
  <2>5. CASE c0 = "cut" /\ h > 2 * SpLayers
    <3>1. c1 = "whole" /\ p = K + 7 /\ h = 2 * SpLayers + 1
      <4>1. SpLayers \in Nat /\ K = 8 * SpLayers /\ (c1 = "cut" => Edge(c1) = K + 3) /\ c1 \in {"cut", "whole"}
        BY <1>0 DEF Numbers
      <4>2. p >= 8 * SpLayers + 7
        BY <2>2, <2>5, <4>1
      <4>3. c1 = "whole"
        BY <1>3, <2>2, <4>1, <4>2
      <4>4. p <= K + 7
        BY <1>0, <2>5, <4>3 DEF Numbers
      <4> QED BY <2>2, <4>1, <4>2, <4>3, <4>4
    <3>2. ClosedAt(c0, w, Begins(c0, w, h + 1)) = 2 * SpLayers + 1
      BY <1>0, <2>5, <3>1 DEF Numbers, ClosedAt, Begins, LastRun, Ways
    <3> QED BY <1>0, <1>2, <2>1, <2>2, <2>5, <3>1, <3>2 DEF h, Numbers
  <2> QED BY <1>0, <2>2, <2>3, <2>4, <2>5 DEF Numbers
<1>4. CASE c1 = "cut" /\ p = K + 10 + 2 * TailLayers /\ w = "stream"
  <2>1. Run(c1, w, p) = 2 * SpLayers + 1 + TailLayers /\ ClosedAt(c1, w, p) = 2 * SpLayers + 1
    BY <1>0, <1>4 DEF Numbers, Run, ClosedAt
  <2>2. ClosedAt(c0, w, Begins(c0, w, 2 * SpLayers + 2 + TailLayers)) >= 2 * SpLayers + 2
    <3>1. CASE c0 = "cut"
      BY <1>0, <1>4, <3>1 DEF Numbers, ClosedAt, Begins, LastRun
    <3>2. CASE c0 = "whole"
      BY <1>0, <1>4, <3>2 DEF Numbers, ClosedAt, Begins, LastRun
    <3> QED BY <1>0, <3>1, <3>2 DEF Numbers
  <2>3. (2 * SpLayers + 1 + TailLayers) + 1 = 2 * SpLayers + 2 + TailLayers
    BY <1>0 DEF Numbers
  <2> QED BY <1>0, <1>2, <1>4, <2>1, <2>2, <2>3 DEF Numbers
<1> QED BY <1>1, <1>3, <1>4

\* Where the groups are at the gate.
LEMMA AtGate ==
  ASSUME NEW c0 \in Tails, NEW c1 \in Tails, NEW w \in Ways
  PROVE  /\ w # "alone" => Opposite(c1, w, 0, "cut", K + 5) = K + 4
         /\ Opposite(c0, w, 1, "cut", K + 5) > K + 4
<1>0. Numbers(c0) /\ Numbers(c1) /\ Numbers("cut") /\ w \in Ways
  BY Numbers_ DEF Tails
<1>1. Run("cut", w, K + 5) = IF w = "alone" THEN 0 ELSE 2 * SpLayers + 1
  BY <1>0 DEF Numbers, Run
<1>2. w # "alone" => Begins(c1, w, 2 * SpLayers + 1) = K + 4
  <2>1. CASE c1 = "whole"
    BY <1>0, <2>1 DEF Numbers, Begins, LastRun
  <2>2. CASE c1 = "cut"
    BY <1>0, <2>2 DEF Numbers, Begins, LastRun
  <2> QED BY <1>0, <2>1, <2>2 DEF Numbers
<1>3. Begins(c0, w, Run("cut", w, K + 5) + 1) > K + 4
  <2>1. CASE c0 = "whole"
    BY <1>0, <1>1, <2>1 DEF Numbers, Begins, LastRun
  <2>2. CASE c0 = "cut"
    BY <1>0, <1>1, <2>2 DEF Numbers, Begins, LastRun, Ways
  <2> QED BY <1>0, <2>1, <2>2 DEF Numbers
<1> QED BY <1>1, <1>2, <1>3 DEF Opposite, Mate

-----------------------------------------------------------------------------
(* The order of the collectives *)

\* The place of a collective in the sequence of its rank.
Spot(w, g, cg, co, p) == Colls(cg, p) + Colls(co, Opposite(co, w, g, cg, p)) + 1
Place(g, p) == Spot(Way, g, Kind(g), Kind(Other(g)), p)

LEMMA OppositeIn ==
  ASSUME NEW cg \in Tails, NEW co \in Tails, NEW w \in Ways, NEW g \in Groups, NEW p \in 1..Behind(cg)
  PROVE  /\ Run(cg, w, p) \in Nat /\ Mate(g, Run(cg, w, p)) \in Nat
         /\ Opposite(co, w, g, cg, p) \in 1..Behind(co) /\ Colls(co, Opposite(co, w, g, cg, p)) \in Nat
<1>1. Run(cg, w, p) \in Nat
  <2>1. Run(cg, w, p) \in 0..LastRun(cg, w)
    BY RunsLeft
  <2> QED BY <2>1, RunBegins
<1>2. Mate(g, Run(cg, w, p)) \in Nat
  BY <1>1, Mates
<1>3. Opposite(co, w, g, cg, p) \in 1..Behind(co)
  BY <1>2, RunBegins DEF Opposite
<1>4. \A q \in 1..Behind(co) : Colls(co, q) \in Nat
  <2>1. ASSUME NEW q \in 1..Behind(co) PROVE Colls(co, q) \in Nat
    <3>1. q <= q
      BY Numbers_
    <3> QED BY <3>1, CollsRise
  <2> QED BY <2>1
<1> QED BY <1>1, <1>2, <1>3, <1>4

\* A collective counts for everything behind it.
LEMMA Counted ==
  ASSUME NEW c \in Tails, NEW p \in 1..Len(TailOf(c)), TailOf(c)[p].do = "coll",
         NEW q \in 1..Behind(c), p < q
  PROVE  Colls(c, p) \in Nat /\ Colls(c, q) \in Nat /\ Colls(c, p) + 1 <= Colls(c, q)
<1>1. p \in 1..Behind(c) /\ p + 1 \in 1..Behind(c) /\ Colls(c, p) \in Nat /\ Colls(c, p + 1) = Colls(c, p) + 1
  BY NextColl
<1>2. p + 1 <= q
  BY <1>1
<1>3. Colls(c, p + 1) <= Colls(c, q)
  BY <1>1, <1>2, CollsRise
<1>4. Colls(c, q) \in Nat
  <2>1. q <= q
    BY <1>1
  <2> QED BY <2>1, CollsRise
<1> QED BY <1>1, <1>3, <1>4

LEMMA SpotsRise ==
  ASSUME NEW cg \in Tails, NEW co \in Tails, NEW w \in Ways, NEW g \in Groups,
         NEW p \in 1..Len(TailOf(cg)), NEW q \in 1..Len(TailOf(cg)), TailOf(cg)[p].do = "coll", p < q
  PROVE  Spot(w, g, cg, co, p) < Spot(w, g, cg, co, q)
<1> DEFINE a == Colls(cg, p)
           b == Colls(cg, q)
           x == Opposite(co, w, g, cg, p)
           y == Opposite(co, w, g, cg, q)
<1>1. p \in 1..Behind(cg) /\ q \in 1..Behind(cg)
  BY NextColl
<1>2. a \in Nat /\ b \in Nat /\ a + 1 <= b
  BY <1>1, Counted
<1>3. /\ x \in 1..Behind(co) /\ y \in 1..Behind(co) /\ Colls(co, x) \in Nat /\ Colls(co, y) \in Nat
      /\ Run(cg, w, p) \in Nat /\ Run(cg, w, q) \in Nat
      /\ Mate(g, Run(cg, w, p)) \in Nat /\ Mate(g, Run(cg, w, q)) \in Nat
  BY <1>1, OppositeIn
<1>4. x <= y
  <2>1. Run(cg, w, p) <= Run(cg, w, q)
    <3>1. p <= q
      BY <1>1
    <3> QED BY <1>1, <3>1, RunRises
  <2>2. Mate(g, Run(cg, w, p)) <= Mate(g, Run(cg, w, q))
    BY <1>3, <2>1 DEF Mate
  <2> QED BY <1>3, <2>2, BeginsRise DEF Opposite
<1>5. Colls(co, x) <= Colls(co, y)
  BY <1>3, <1>4, CollsRise
<1> DEFINE d == Colls(co, x)
           e == Colls(co, y)
<1>6. a + d + 1 < b + e + 1
  <2>1. a \in Nat /\ b \in Nat /\ a + 1 <= b /\ d \in Nat /\ e \in Nat /\ d <= e
    BY <1>2, <1>3, <1>5
  <2> HIDE DEF a, b, d, e
  <2> QED BY <2>1
<1> QED BY <1>6 DEF Spot

LEMMA SpotsDiffer ==
  ASSUME NEW c0 \in Tails, NEW c1 \in Tails, NEW w \in Ways,
         NEW p \in 1..Len(TailOf(c0)), NEW q \in 1..Len(TailOf(c1)),
         TailOf(c0)[p].do = "coll", TailOf(c1)[q].do = "coll"
  PROVE  Spot(w, 0, c0, c1, p) # Spot(w, 1, c1, c0, q)
<1> DEFINE h == Run(c0, w, p)
           k == Run(c1, w, q)
           x == Begins(c1, w, h)
           y == Begins(c0, w, k + 1)
<1>1. /\ p \in 1..Behind(c0) /\ q \in 1..Behind(c1) /\ p # Behind(c0) /\ q # Behind(c1)
      /\ Behind(c0) \in Nat /\ Behind(c1) \in Nat
  <2>1. p \in 1..Behind(c0) /\ q \in 1..Behind(c1) /\ p + 1 \in 1..Behind(c0) /\ q + 1 \in 1..Behind(c1)
    BY NextColl
  <2>2. Behind(c0) \in Nat /\ Behind(c1) \in Nat
    BY Numbers_
  <2> QED BY <2>1, <2>2
<1>2. h \in Nat /\ k \in Nat /\ Opposite(c1, w, 0, c0, p) = x /\ Opposite(c0, w, 1, c1, q) = y
  <2>1. h \in Nat /\ k \in Nat
    BY <1>1, OppositeIn, TwoGroups
  <2> QED BY <2>1 DEF Opposite, Mate
<1>3. /\ p >= Begins(c0, w, h) /\ p < Begins(c0, w, h + 1)
      /\ q >= Begins(c1, w, k) /\ q < Begins(c1, w, k + 1)
  BY <1>1, RunsLeft
<1>4. \A j \in Nat : Begins(c0, w, j) \in 1..Behind(c0) /\ Begins(c1, w, j) \in 1..Behind(c1)
  BY RunBegins
<1>5. x \in 1..Behind(c1) /\ y \in 1..Behind(c0)
  <2>1. h \in Nat /\ k + 1 \in Nat
    BY <1>2
  <2> QED BY <1>4, <2>1
<1>6. /\ Colls(c0, p) \in Nat /\ Colls(c1, q) \in Nat /\ Colls(c1, x) \in Nat /\ Colls(c0, y) \in Nat
  <2>1. p <= p /\ q <= q /\ x <= x /\ y <= y
    BY <1>1, <1>5
  <2> QED BY <1>1, <1>5, <2>1, CollsRise
<1>7. CASE h <= k
  <2>1. Begins(c0, w, h + 1) <= y
    <3>1. h + 1 \in Nat /\ k + 1 \in Nat /\ h + 1 <= k + 1
      BY <1>2, <1>7
    <3> QED BY <3>1, BeginsRise
  <2>2. x <= Begins(c1, w, k)
    BY <1>2, <1>7, BeginsRise
  <2>3. p < y /\ x <= q
    <3>1. h + 1 \in Nat /\ Begins(c0, w, h + 1) \in Int /\ Begins(c1, w, k) \in Int
      BY <1>2, <1>4
    <3> QED BY <1>1, <1>3, <1>5, <2>1, <2>2, <3>1
  <2>4. Colls(c0, p) + 1 <= Colls(c0, y)
    BY <1>5, <2>3, Counted
  <2>5. Colls(c1, x) <= Colls(c1, q)
    BY <1>1, <1>5, <2>3, CollsRise
  <2> QED BY <1>2, <1>6, <2>4, <2>5 DEF Spot
<1>8. CASE h > k
  <2>1. y <= Begins(c0, w, h)
    <3>1. k + 1 \in Nat /\ k + 1 <= h
      BY <1>2, <1>8
    <3> QED BY <1>2, <3>1, BeginsRise
  <2>2. Begins(c1, w, k + 1) <= x
    <3>1. k + 1 \in Nat /\ k + 1 <= h
      BY <1>2, <1>8
    <3> QED BY <1>2, <3>1, BeginsRise
  <2>3. q < x /\ y <= p
    <3>1. k + 1 \in Nat /\ Begins(c1, w, k + 1) \in Int /\ Begins(c0, w, h) \in Int
      BY <1>2, <1>4
    <3> QED BY <1>1, <1>3, <1>5, <2>1, <2>2, <3>1
  <2>4. Colls(c1, q) + 1 <= Colls(c1, x)
    BY <1>5, <2>3, Counted
  <2>5. Colls(c0, y) <= Colls(c0, p)
    BY <1>1, <1>5, <2>3, CollsRise
  <2> QED BY <1>2, <1>6, <2>4, <2>5 DEF Spot
<1> QED BY <1>2, <1>7, <1>8

\* Two groups never have the same place.
IsCall(c, p) == p \in 1..Len(TailOf(c)) /\ TailOf(c)[p].do = "coll"
LEMMA OnePlace ==
  ASSUME NEW g \in Groups, NEW h \in Groups, NEW p, NEW q, IsCall(Kind(g), p), IsCall(Kind(h), q),
         Place(g, p) = Place(h, q), Way \in Ways
  PROVE  g = h /\ p = q
<1>1. /\ Kind(g) \in Tails /\ Kind(h) \in Tails /\ Kind(Other(g)) \in Tails
      /\ p \in 1..Len(TailOf(Kind(g))) /\ q \in 1..Len(TailOf(Kind(h)))
      /\ TailOf(Kind(g))[p].do = "coll" /\ TailOf(Kind(h))[q].do = "coll"
  BY KindOf DEF IsCall
<1>2. p \in Int /\ q \in Int
  BY <1>1, Shape
<1>3. CASE g = h
  <2> DEFINE cg == Kind(g)
             co == Kind(Other(g))
             a == Spot(Way, g, cg, co, p)
             b == Spot(Way, g, cg, co, q)
  <2>1. a = b /\ p \in 1..Len(TailOf(cg)) /\ q \in 1..Len(TailOf(cg)) /\ cg \in Tails /\ co \in Tails
    BY <1>1, <1>3 DEF Place
  <2>2. TailOf(cg)[p].do = "coll" /\ TailOf(cg)[q].do = "coll"
    BY <1>1, <1>3
  <2> HIDE DEF cg, co
  <2>3. (p < q => a < b) /\ (q < p => b < a)
    BY <2>1, <2>2, SpotsRise
  <2>4. a \in Int
    <3>1. p \in 1..Behind(cg) /\ Colls(cg, p) \in Nat
      BY <2>1, NextColl
    <3>2. Colls(co, Opposite(co, Way, g, cg, p)) \in Nat
      BY <2>1, <3>1, OppositeIn
    <3> QED BY <3>1, <3>2 DEF Spot
  <2> HIDE DEF a, b
  <2> QED BY <1>2, <1>3, <2>1, <2>3, <2>4
<1>4. CASE g = 0 /\ h = 1
  <2>1. Spot(Way, 0, Kind(0), Kind(1), p) = Spot(Way, 1, Kind(1), Kind(0), q)
    BY <1>4, TwoGroups DEF Place
  <2> QED BY <1>1, <1>4, <2>1, SpotsDiffer
<1>5. CASE g = 1 /\ h = 0
  <2>1. Spot(Way, 0, Kind(0), Kind(1), q) = Spot(Way, 1, Kind(1), Kind(0), p)
    BY <1>5, TwoGroups DEF Place
  <2> QED BY <1>1, <1>5, <2>1, SpotsDiffer
<1> QED BY <1>3, <1>4, <1>5, TwoGroups

-----------------------------------------------------------------------------
(* What a rank's threads have between two steps *)

\* The group that has the turn, or is about to pass it on at its end.
Turn(r, g) == HasTurn(r, g) \/ pc[r][g] \in {"ending", "leaving"}
Waits(r, g) == pc[r][g] = "waiting" /\ ~wake[r][g]
\* Where the other group is: before its matching run, or done when it has no such run.
NoMate(r, g) == Mate(g, Run(Kind(g), Way, pos[r][g])) > LastRun(Kind(Other(g)), Way)
Partner(r, g) ==
  /\ pos[r][Other(g)] = Opposite(Kind(Other(g)), Way, g, Kind(g), pos[r][g])
  /\ IF NoMate(r, g) THEN pc[r][Other(g)] = "ended" ELSE Waits(r, Other(g))
Alternate(r) ==
  main[r] = "threads" => \/ \E g \in Groups : Turn(r, g) /\ Partner(r, g)
                         \/ \A g \in Groups : pc[r][g] = "ended"
\* run_sequential: group 1 after group 0.
InTurn(r) ==
  main[r] = "alone" => /\ (pos[r][0] = Behind(Kind(0)) \/ pc[r][1] = "off")
                       /\ \A g \in Groups : pc[r][g] \in {"off", "running", "ended"}
\* check_order stops group 1 at the first phase that group 0 does not have.
Stopped(r) ==
  /\ main[r] = "plan" => groups[r] = <<>> /\ \A g \in Groups : pc[r][g] = "off"
  /\ MorePhases => /\ pos[r][1] <= K + 7
                   /\ main[r] = "returned" => groups[r] = <<>>
Place1(r, g) ==
  /\ pos[r][g] \in 1..Behind(Kind(g)) /\ pc[r][g] # "unwinding"
  /\ pc[r][g] = "off" => pos[r][g] = 1 /\ pending[r][g] = {}
  /\ pc[r][g] \in {"ending", "leaving", "ended"} => pos[r][g] = Behind(Kind(g))
  /\ finished[r][g] => pc[r][g] \in {"leaving", "ended"}
Placed(r) ==
  /\ Alternate(r) /\ InTurn(r) /\ Stopped(r) /\ errors[r] = {}
  /\ \A g \in Groups : Place1(r, g)

\* A thread finds its own state when it runs, and has saved it when it waits.
CtxAt(c, g, p) == IF InReplayAt(c, p) THEN ReplayCtx(g) ELSE Ctx(g)
Owns(r, g) ==
  /\ open[r][g] = OpenAt(Kind(g), Way, pos[r][g]) /\ phases[r][g] = ClosedAt(Kind(g), Way, pos[r][g])
  /\ pc[r][g] = "running" =>
       /\ row[r] = g /\ ctx[r] = CtxAt(Kind(g), g, pos[r][g]) /\ pending[r][g] = {}
       /\ PinnedAt(Kind(g), pos[r][g]) => pin[r] = <<g>>
  /\ pc[r][g] = "waiting" =>
       /\ kept[r][g].ctx = CtxAt(Kind(g), g, pos[r][g])
       /\ PinnedAt(Kind(g), pos[r][g]) => kept[r][g].pin = <<g>>
  /\ open[r][g] # "none" => pending[r][g] = {}

\* What the GPU has ordered ahead for a group.
Gate == Pipelined /\ setup.tail # "serial"
TailStream == IF Way = "stream" THEN "R" ELSE "C"
Written(r, g) ==
  /\ NamesIssued(Kind(g), g, KvNames, pos[r][g], ahead[r]["C"])
  /\ NamesIssued(Kind(g), g, {"tail"}, pos[r][g], ahead[r][TailStream])
Gathers(r, g) ==
  /\ pos[r][g] > K + 4 => SpOps(g) \subseteq ahead[r]["C"]
  /\ Pipelined /\ pos[r][g] >= K + 4 => SpOps(g) \subseteq lastEvent[r][g]
  /\ g = 1 /\ open[r][g] = "replay" => KvOp(0, SpLayers + 1) \in ahead[r]["R"]
  /\ Gate /\ HasReplay(g) /\ pos[r][g] >= K + 6 => \A h \in Groups :
       /\ SpOps(h) \subseteq ahead[r]["C"]
       /\ open[r][g] = "replay" => SpOps(h) \subseteq ahead[r]["R"]
Ordered(r, g) ==
  /\ pc[r][g] \in {"running", "waiting"} =>
       Issued(Kind(g), g, pos[r][g], ahead[r][Stream(r, g)] \cup pending[r][g])
  /\ Written(r, g) /\ Gathers(r, g)

\* The collectives of the rank, each at its place.
IsNth(x, i) == \E g \in Groups, p \in Nat : IsCall(Kind(g), p) /\ Place(g, p) = i /\ x = Op(g, TailOf(Kind(g))[p])
Called(r) ==
  /\ Len(calls[r]) = Colls(Kind(0), pos[r][0]) + Colls(Kind(1), pos[r][1])
  /\ \A i \in 1..Len(calls[r]) : IsNth(calls[r][i], i)

\* Group 1 replays rows that read what the remaining layers of group 0 write.
Disordered == Pipelined /\ ~HasReplay(0) /\ HasReplay(1) /\ Untrimmed
Clean(r) == foreign[r] = {} /\ (Disordered \/ early[r] = {})

Steady(r) ==
  /\ Placed(r) /\ Called(r) /\ Clean(r)
  /\ \A g \in Groups : Owns(r, g) /\ Ordered(r, g)

\* Tables over the ranks and their groups.
Row(v) == DOMAIN v = Ranks
Table(v) == Row(v) /\ \A r \in Ranks : DOMAIN v[r] = Groups
AllOps == {Op(g, TailOf(c)[i]) : g \in Groups, c \in Tails, i \in Nat}
StepTypeOK ==
  /\ pos \in [Ranks -> [Groups -> Nat \ {0}]] /\ phases \in [Ranks -> [Groups -> Nat]]
  /\ Table(pending) /\ Table(lastEvent) /\ Table(kept)
  /\ Row(errors) /\ Row(ctx) /\ Row(pin) /\ Row(row) /\ Row(early) /\ Row(foreign) /\ Row(groups)
  /\ Row(ahead) /\ \A r \in Ranks : DOMAIN ahead[r] = Streams
  /\ calls \in [Ranks -> Seq(AllOps)]

\* Until a rank fails its threads are where they should be; it fails by a fault, or
\* because group 1 has more phases than group 0.
StepOk(r) ==
  \/ Steady(r)
  \/ /\ Failing(r) /\ main[r] \notin {"plan", "returned"}
     /\ r \in case.faulty \cup case.hasty \/ MorePhases
StepInv == TurnInv /\ StepTypeOK /\ \A r \in Ranks : StepOk(r)

LEMMA Ways_ ==
  /\ Way \in Ways /\ (Way = "alone" <=> ~Pipelined) /\ (Way = "stream" <=> Pipelined /\ setup.replay = "stream")
  /\ MorePhases => Kind(0) = "cut" /\ Kind(1) = "whole" /\ Way # "alone"
BY DEF Way, Ways, Pipelined, setup, MorePhases, Kind

LEMMA SameCase ==
  ASSUME case' = case
  PROVE  /\ Way' = Way /\ (Pipelined' <=> Pipelined) /\ setup' = setup /\ (Gate' <=> Gate)
         /\ (MorePhases' <=> MorePhases) /\ (Disordered' <=> Disordered) /\ (Untrimmed' <=> Untrimmed)
         /\ TailStream' = TailStream
         /\ \A g : Kind(g)' = Kind(g) /\ Tail_(g)' = Tail_(g) /\ (HasReplay(g)' <=> HasReplay(g))
         /\ \A g, l : KvOp(g, l)' = KvOp(g, l)
         /\ \A g, p : Place(g, p)' = Place(g, p)
<1>1. batch' = batch /\ setup' = setup
  BY DEF batch, setup
<1>2. \A g : HasReplay(g)' <=> HasReplay(g)
  BY <1>1 DEF HasReplay
<1>3. \A g : Kind(g)' = Kind(g) /\ Tail_(g)' = Tail_(g)
  BY <1>2 DEF Kind, Tail_
<1>4. Untrimmed' <=> Untrimmed
  BY <1>1 DEF Untrimmed
<1>5. (Pipelined' <=> Pipelined) /\ Way' = Way /\ (Gate' <=> Gate) /\ TailStream' = TailStream
  BY <1>1 DEF Pipelined, Way, Gate, TailStream
<1>6. (MorePhases' <=> MorePhases) /\ (Disordered' <=> Disordered)
  BY <1>2, <1>4, <1>5 DEF MorePhases, Disordered
<1>7. \A g, l : KvOp(g, l)' = KvOp(g, l)
  BY <1>2 DEF KvOp
<1>8. \A g, p : Place(g, p)' = Place(g, p)
  BY <1>3, <1>5 DEF Place
<1> QED BY <1>1, <1>2, <1>3, <1>4, <1>5, <1>6, <1>7, <1>8

LEMMA SteadyNotFailing == ASSUME NEW r \in Ranks, Steady(r) PROVE ~Failing(r)
BY DEF Steady, Placed, Place1, Failing
-----------------------------------------------------------------------------
(* Ranks and groups that do not move *)

SameAt(q) ==
  /\ Agree(q) /\ groups'[q] = groups[q] /\ pos'[q] = pos[q] /\ errors'[q] = errors[q] /\ phases'[q] = phases[q]
  /\ pending'[q] = pending[q] /\ lastEvent'[q] = lastEvent[q] /\ kept'[q] = kept[q]
  /\ ctx'[q] = ctx[q] /\ pin'[q] = pin[q] /\ row'[q] = row[q] /\ ahead'[q] = ahead[q]
  /\ calls'[q] = calls[q] /\ early'[q] = early[q] /\ foreign'[q] = foreign[q]

LEMMA SameStep == ASSUME NEW q \in Ranks, StepOk(q), case' = case, SameAt(q) PROVE StepOk(q)'
<1>1. /\ Way' = Way /\ (Pipelined' <=> Pipelined) /\ (Gate' <=> Gate) /\ (MorePhases' <=> MorePhases)
      /\ (Disordered' <=> Disordered) /\ TailStream' = TailStream
      /\ \A g : Kind(g)' = Kind(g) /\ (HasReplay(g)' <=> HasReplay(g))
      /\ \A g, l : KvOp(g, l)' = KvOp(g, l)
      /\ \A g, p : Place(g, p)' = Place(g, p)
  BY SameCase
<1>2. /\ (Failing(q) => Failing(q)') /\ main'[q] = main[q] /\ case.faulty' = case.faulty /\ case.hasty' = case.hasty
  BY DEF Failing, SameAt, Agree
<1>3. ASSUME Steady(q) PROVE Steady(q)'
  <2>1. Placed(q)'
    <3>1. Placed(q)
      BY <1>3 DEF Steady
    <3>2. Alternate(q)'
      <4>1. ASSUME NEW g \in Groups, Turn(q, g), Partner(q, g) PROVE Turn(q, g)' /\ Partner(q, g)'
        BY <1>1, <4>1 DEF Turn, HasTurn, Partner, NoMate, Waits, SameAt, Agree
      <4>2. main'[q] = main[q] /\ pc'[q] = pc[q]
        BY DEF SameAt, Agree
      <4> QED BY <3>1, <4>1, <4>2 DEF Placed, Alternate
    <3>3. InTurn(q)'
      BY <1>1, <3>1 DEF Placed, InTurn, SameAt, Agree
    <3>4. Stopped(q)'
      BY <1>1, <3>1 DEF Placed, Stopped, SameAt, Agree
    <3>5. \A g \in Groups : Place1(q, g)'
      BY <1>1, <3>1 DEF Placed, Place1, SameAt, Agree
    <3> QED BY <3>1, <3>2, <3>3, <3>4, <3>5 DEF Placed, SameAt
  <2>2. Called(q)'
    BY <1>1, <1>3 DEF Steady, Called, IsNth, SameAt
  <2>3. ASSUME NEW g \in Groups PROVE Owns(q, g)'
    BY <1>1, <1>3 DEF Steady, Owns, SameAt, Agree
  <2>4. ASSUME NEW g \in Groups PROVE Ordered(q, g)'
    <3>1. Ordered(q, g) /\ Stream(q, g)' = Stream(q, g)
      BY <1>3 DEF Steady, Stream, SameAt, Agree
    <3>2. Written(q, g)'
      BY <1>1, <3>1 DEF Ordered, Written, SameAt
    <3>3. Gathers(q, g)'
      BY <1>1, <3>1 DEF Ordered, Gathers, SameAt, Agree
    <3> QED BY <1>1, <3>1, <3>2, <3>3 DEF Ordered, SameAt, Agree
  <2>5. Clean(q)'
    BY <1>1, <1>3 DEF Steady, Clean, SameAt
  <2> QED BY <2>1, <2>2, <2>3, <2>4, <2>5 DEF Steady
<1> QED BY <1>1, <1>2, <1>3 DEF StepOk

Still(r, h) ==
  /\ pc'[r][h] = pc[r][h] /\ pos'[r][h] = pos[r][h] /\ open'[r][h] = open[r][h]
  /\ phases'[r][h] = phases[r][h] /\ pending'[r][h] = pending[r][h]
  /\ lastEvent'[r][h] = lastEvent[r][h] /\ kept'[r][h] = kept[r][h]
Grows(r) == \A s \in Streams : ahead[r][s] \subseteq ahead'[r][s]

LEMMA StreamOf ==
  ASSUME NEW r \in Ranks, NEW g \in Groups, open[r][g] \in {"none", "comm", "replay"}
  PROVE  Stream(r, g) = (IF open[r][g] = "none" THEN "C" ELSE IF open[r][g] = "comm" THEN "N" ELSE "R")
BY DEF Stream

LEMMA WrittenGrows ==
  ASSUME NEW r \in Ranks, NEW h \in Groups, case' = case, Grows(r), Written(r, h), pos'[r][h] = pos[r][h]
  PROVE  Written(r, h)'
<1>1. TailStream' = TailStream /\ Kind(h)' = Kind(h) /\ TailStream \in Streams /\ "C" \in Streams
  BY SameCase DEF TailStream, Streams
<1>2. ahead[r]["C"] \subseteq ahead'[r]["C"] /\ ahead[r][TailStream] \subseteq ahead'[r][TailStream]
  BY <1>1 DEF Grows
<1>3. /\ NamesIssued(Kind(h), h, KvNames, pos[r][h], ahead'[r]["C"])
      /\ NamesIssued(Kind(h), h, {"tail"}, pos[r][h], ahead'[r][TailStream])
  BY <1>2, IssuedGrows DEF Written
<1> QED BY <1>1, <1>3 DEF Written

\* A group whose thread does nothing keeps its state while the GPU goes on.
LEMMA Bystander ==
  ASSUME NEW r \in Ranks, NEW h \in Groups, case' = case, Owns(r, h), Ordered(r, h),
         Still(r, h), pc[r][h] # "running", Grows(r), TurnTypeOK
  PROVE  Owns(r, h)' /\ Ordered(r, h)'
<1>1. /\ Way' = Way /\ (Pipelined' <=> Pipelined) /\ (Gate' <=> Gate)
      /\ Kind(h)' = Kind(h) /\ (HasReplay(h)' <=> HasReplay(h)) /\ \A g, l : KvOp(g, l)' = KvOp(g, l)
  BY SameCase
<1>2. Owns(r, h)'
  BY <1>1 DEF Owns, Still
<1>3. open[r][h] \in {"none", "comm", "replay"} /\ Stream(r, h)' = Stream(r, h) /\ Stream(r, h) \in Streams
  BY StreamOf DEF TurnTypeOK, Still, Stream, Streams
<1>4. /\ ahead[r]["C"] \subseteq ahead'[r]["C"] /\ ahead[r]["R"] \subseteq ahead'[r]["R"]
      /\ ahead[r][Stream(r, h)] \cup pending[r][h] \subseteq ahead'[r][Stream(r, h)] \cup pending'[r][h]
  BY <1>3 DEF Grows, Still, Streams
<1>5. /\ pc'[r][h] \in {"running", "waiting"} =>
           Issued(Kind(h), h, pos'[r][h], ahead'[r][Stream(r, h)] \cup pending'[r][h])
  BY <1>4, IssuedGrows DEF Ordered, Still
<1>6. Written(r, h)'
  BY WrittenGrows DEF Ordered, Still
<1>7. Gathers(r, h)'
  BY <1>1, <1>4 DEF Ordered, Gathers, Still
<1>8. Ordered(r, h)'
  BY <1>1, <1>3, <1>5, <1>6, <1>7 DEF Ordered
<1> QED BY <1>2, <1>8

-----------------------------------------------------------------------------
(* Where the other group is while one issues *)

LEMMA Here ==
  ASSUME TurnInv, NEW r \in Ranks, NEW g \in Groups, Steady(r), pc[r][g] = "running"
  PROVE  /\ main[r] = (IF Way = "alone" THEN "alone" ELSE "threads") /\ pc[r][Other(g)] # "running"
         /\ row[r] = g /\ ctx[r] = CtxAt(Kind(g), g, pos[r][g]) /\ pending[r][g] = {}
         /\ PinnedAt(Kind(g), pos[r][g]) => pin[r] = <<g>>
         /\ pos[r][g] \in 1..Behind(Kind(g))
         /\ open[r][g] = OpenAt(Kind(g), Way, pos[r][g]) /\ phases[r][g] = ClosedAt(Kind(g), Way, pos[r][g])
         /\ Issued(Kind(g), g, pos[r][g], ahead[r][Stream(r, g)])
<1>1. RankInv(r) /\ Owns(r, g) /\ Ordered(r, g) /\ Placed(r)
  BY DEF TurnInv, Steady
<1>2. main[r] = (IF Way = "alone" THEN "alone" ELSE "threads")
  BY <1>1, Ways_ DEF RankInv, InMode, Mode
<1>3. pc[r][Other(g)] # "running"
  BY <1>1 DEF RankInv, OneTurn, HasTurn
<1>4. pending[r][g] = {} /\ Issued(Kind(g), g, pos[r][g], ahead[r][Stream(r, g)] \cup pending[r][g])
  BY <1>1 DEF Owns, Ordered
<1>5. Issued(Kind(g), g, pos[r][g], ahead[r][Stream(r, g)])
  BY <1>4, IssuedGrows
<1> QED BY <1>1, <1>2, <1>3, <1>4, <1>5 DEF Owns, Placed, Place1

\* The other group waits before its matching run, or is done, or has not begun.
LEMMA OtherIs ==
  ASSUME TurnInv, NEW r \in Ranks, NEW g \in Groups, Steady(r), pc[r][g] = "running"
  PROVE  /\ pos[r][Other(g)] = Opposite(Kind(Other(g)), Way, g, Kind(g), pos[r][g])
         /\ Way # "alone" =>
              IF NoMate(r, g) THEN pc[r][Other(g)] = "ended" /\ finished[r][Other(g)]
              ELSE /\ pc[r][Other(g)] = "waiting" /\ ~wake[r][Other(g)]
                   /\ ~wake[r][g] /\ ~finished[r][Other(g)]
         /\ Way = "alone" => pc[r][Other(g)] = IF g = 0 THEN "off" ELSE "ended"
<1> DEFINE o == Other(g)
<1>0. /\ Placed(r) /\ RankInv(r) /\ o \in Groups /\ Other(o) = g /\ g # o
      /\ pos[r][g] \in 1..Behind(Kind(g)) /\ Place1(r, o) /\ Place1(r, g)
  BY TwoGroups DEF Steady, TurnInv, Placed, Place1
<1>1. main[r] = (IF Way = "alone" THEN "alone" ELSE "threads")
  BY Here
<1>2. CASE Way # "alone"
  <2>1. ~Turn(r, o)
    <3>1. ~HasTurn(r, o)
      BY <1>0 DEF RankInv, OneTurn, HasTurn
    <3>2. ASSUME pc[r][o] \in {"ending", "leaving"} PROVE FALSE
      <4>1. \/ \E h \in Groups : Turn(r, h) /\ Partner(r, h)
            \/ \A h \in Groups : pc[r][h] = "ended"
        BY <1>0, <1>1, <1>2 DEF Placed, Alternate
      <4>2. PICK h \in Groups : Turn(r, h) /\ Partner(r, h)
        BY <4>1
      <4>3. pc[r][Other(h)] \in {"waiting", "ended"}
        BY <4>2 DEF Partner, Waits
      <4>4. Other(h) = g \/ Other(h) = o
        BY <4>2, TwoGroups
      <4> QED BY <3>2, <4>3, <4>4
    <3> QED BY <3>1, <3>2 DEF Turn
  <2>2. Partner(r, g)
    <3>1. \/ \E h \in Groups : Turn(r, h) /\ Partner(r, h)
          \/ \A h \in Groups : pc[r][h] = "ended"
      BY <1>0, <1>1, <1>2 DEF Placed, Alternate
    <3>2. PICK h \in Groups : Turn(r, h) /\ Partner(r, h)
      BY <3>1
    <3>3. h = g \/ h = o
      BY TwoGroups
    <3> QED BY <2>1, <3>2, <3>3
  <2>3. pc[r][o] = "ended" => finished[r][o]
    BY <1>0, <1>2, Ways_ DEF RankInv, WokenByTheDead
  <2>4. pc[r][o] = "waiting" => ~wake[r][g] /\ ~finished[r][o]
    BY <1>0, <1>2, Ways_ DEF RankInv, WokenByTheDead, Place1
  <2> QED BY <1>2, <2>2, <2>3, <2>4 DEF Partner, Waits
<1>3. CASE Way = "alone"
  <2>1. pc[r][o] = IF g = 0 THEN "off" ELSE "ended"
    <3>1. pc[r][0] # "ended" => pc[r][1] = "off"
      BY <1>0, <1>3, Ways_ DEF RankInv, OneAfterTheOther
    <3>2. (g = 0 /\ o = 1) \/ (g = 1 /\ o = 0)
      BY TwoGroups
    <3> QED BY <3>1, <3>2
  <2>2. pos[r][o] = IF g = 0 THEN 1 ELSE Behind(Kind(o))
    BY <1>0, <2>1 DEF Place1
  <2>3. Opposite(Kind(o), Way, g, Kind(g), pos[r][g]) = IF g = 0 THEN 1 ELSE Behind(Kind(o))
    BY <1>3, TwoGroups DEF Opposite, Mate, Run, Begins, LastRun
  <2> QED BY <1>3, <2>1, <2>2, <2>3
<1> QED BY <1>2, <1>3

\* The match of a position, one further, and of the match itself.
LEMMA MateOn ==
  ASSUME NEW cg \in Tails, NEW co \in Tails, NEW w \in Ways, NEW g \in Groups, NEW p \in 1..(Behind(cg) - 1)
  PROVE  /\ LastRun(co, w) \in Nat /\ Mate(g, Run(cg, w, p)) \in Nat /\ Mate(g, Run(cg, w, p + 1)) \in Nat
         /\ ~GivesTurn(cg, w, p) => Run(cg, w, p + 1) = Run(cg, w, p)
         /\ GivesTurn(cg, w, p) =>
              /\ Mate(g, Run(cg, w, p)) > LastRun(co, w) =>
                   /\ Mate(g, Run(cg, w, p + 1)) > LastRun(co, w)
                   /\ Opposite(co, w, g, cg, p + 1) = Opposite(co, w, g, cg, p)
              /\ ~(Mate(g, Run(cg, w, p)) > LastRun(co, w)) =>
                   LET q == Opposite(co, w, g, cg, p) IN
                   /\ p + 1 = Opposite(cg, w, Other(g), co, q)
                   /\ ~(Mate(Other(g), Run(co, w, q)) > LastRun(cg, w))
<1> DEFINE h == Run(cg, w, p)
           m == Mate(g, h)
           q == Opposite(co, w, g, cg, p)
<1>1. /\ Behind(cg) \in Nat /\ p \in 1..Behind(cg) /\ p + 1 \in 1..Behind(cg)
  BY Numbers_
<1>2. h \in Nat /\ m \in Nat /\ Mate(g, Run(cg, w, p + 1)) \in Nat /\ Run(cg, w, p + 1) \in Nat
  BY <1>1, OppositeIn
<1>3. LastRun(co, w) \in Nat /\ LastRun(cg, w) \in Nat
  <2>1. 0 \in Nat
    OBVIOUS
  <2> QED BY <2>1, RunBegins
<1>4. ~GivesTurn(cg, w, p) => Run(cg, w, p + 1) = h
  BY NextRun
<1>5. ASSUME GivesTurn(cg, w, p), m > LastRun(co, w)
      PROVE  /\ Mate(g, Run(cg, w, p + 1)) > LastRun(co, w)
             /\ Opposite(co, w, g, cg, p + 1) = Opposite(co, w, g, cg, p)
  <2>1. Run(cg, w, p + 1) = h + 1
    BY <1>5, NextRun
  <2>2. Mate(g, h + 1) = m + 1
    BY <1>2, Mates
  <2>3. m + 1 > LastRun(co, w) /\ m + 1 \in Nat
    <3> HIDE DEF h, m
    <3> QED BY <1>2, <1>3, <1>5
  <2>4. Begins(co, w, m) = Behind(co) /\ Begins(co, w, m + 1) = Behind(co)
    BY <1>2, <1>5, <2>3, RunBegins
  <2> QED BY <2>1, <2>2, <2>3, <2>4 DEF Opposite
<1>6. ASSUME GivesTurn(cg, w, p), ~(m > LastRun(co, w))
      PROVE  p + 1 = Opposite(cg, w, Other(g), co, q) /\ ~(Mate(Other(g), Run(co, w, q)) > LastRun(cg, w))
  <2>1. q = Begins(co, w, m) /\ Run(co, w, q) = m
    <3>1. m <= LastRun(co, w)
      BY <1>2, <1>3, <1>6
    <3> QED BY <1>2, <3>1, RunBegins DEF Opposite
  <2>2. Mate(Other(g), m) = h + 1
    BY <1>2, Mates
  <2>3. h < LastRun(cg, w) /\ Begins(cg, w, h + 1) = p + 1
    BY <1>6, NextRun
  <2>4. ~(h + 1 > LastRun(cg, w))
    <3> HIDE DEF h, m
    <3> QED BY <1>2, <1>3, <2>3
  <2> HIDE DEF q, h, m
  <2> QED BY <2>1, <2>2, <2>3, <2>4 DEF Opposite
<1> QED BY <1>2, <1>3, <1>4, <1>5, <1>6
-----------------------------------------------------------------------------
(* A thread goes on, or gives the turn away *)

Moves(r, g) == pos' = [pos EXCEPT ![r][g] = @ + 1]

LEMMA Moved ==
  ASSUME NEW r \in Ranks, NEW g \in Groups, StepTypeOK, Moves(r, g)
  PROVE  pos'[r][g] = pos[r][g] + 1 /\ pos'[r][Other(g)] = pos[r][Other(g)]
BY TwoGroups DEF StepTypeOK, Moves

\* Group 1 goes on where it is not to be stopped.
NotStopped(r, g) == MorePhases /\ g = 1 => pos[r][g] # K + 7

LEMMA Goes ==
  ASSUME TurnInv, StepTypeOK, NEW r \in Ranks, NEW g \in Groups, Steady(r), case' = case, Moves(r, g),
         pc[r][g] = "running", pos[r][g] \in 1..(Behind(Kind(g)) - 1), NotStopped(r, g),
         UNCHANGED <<main, groups, finished, errors>>, \A h \in Groups : pending'[r][h] = pending[r][h] \/ h = g
  PROVE  /\ Stopped(r)' /\ (main[r] = "alone" /\ pc' = pc => InTurn(r)')
         /\ \A h \in Groups : pc'[r][h] = pc[r][h] \/ (h = g /\ pc'[r][h] = "waiting") => Place1(r, h)'
<1> DEFINE o == Other(g)
<1>0. /\ Placed(r) /\ Stopped(r) /\ InTurn(r) /\ o \in Groups /\ g # o /\ (\A h \in Groups : h = g \/ h = o)
      /\ \A h \in Groups : Place1(r, h)
  BY TwoGroups DEF Steady, Placed
<1>1. pos'[r][g] = pos[r][g] + 1 /\ pos'[r][o] = pos[r][o] /\ pos[r][g] \in Int
  BY Moved
<1>2. (MorePhases' <=> MorePhases) /\ \A h : Kind(h)' = Kind(h)
  BY SameCase
<1>3. main[r] # "plan" /\ main[r] # "returned"
  BY Here
<1>4. Stopped(r)'
  <2>1. ASSUME MorePhases PROVE pos'[r][1] <= K + 7
    <3>1. pos[r][1] <= K + 7
      BY <1>0, <2>1 DEF Stopped
    <3>2. CASE g = 1
      BY <1>1, <2>1, <3>1, <3>2, Sizes DEF NotStopped, Size
    <3>3. CASE g = 0
      BY <1>1, <3>1, <3>3, TwoGroups
    <3> QED BY <3>2, <3>3, TwoGroups
  <2> QED BY <1>2, <1>3, <2>1 DEF Stopped
<1>5. ASSUME main[r] = "alone", pc' = pc PROVE InTurn(r)'
  <2>1. CASE g = 0
    <3>1. pc[r][1] = "off"
      BY <1>5, <2>1, Here, OtherIs, TwoGroups
    <3> QED BY <1>0, <1>5, <3>1 DEF InTurn
  <2>2. CASE g = 1
    <3>1. pos'[r][0] = pos[r][0] /\ pc[r][1] # "off"
      BY <1>1, <2>2, TwoGroups
    <3> QED BY <1>0, <1>2, <1>5, <3>1 DEF InTurn
  <2> QED BY <2>1, <2>2, TwoGroups
<1>6. ASSUME NEW h \in Groups, pc'[r][h] = pc[r][h] \/ (h = g /\ pc'[r][h] = "waiting") PROVE Place1(r, h)'
  <2>1. CASE h = g
    <3>1. pc'[r][h] \in {"running", "waiting"} /\ ~finished[r][h]
      BY <1>0, <1>6, <2>1 DEF Place1
    <3>2. pos'[r][h] \in 1..Behind(Kind(g))
      <4>1. Behind(Kind(g)) \in Nat
        BY KindOf, Numbers_
      <4> QED BY <1>1, <2>1, <4>1
    <3> QED BY <1>2, <2>1, <3>1, <3>2 DEF Place1
  <2>2. CASE h = o
    BY <1>0, <1>1, <1>2, <1>6, <2>2 DEF Place1
  <2> QED BY <1>0, <2>1, <2>2
<1> QED BY <1>4, <1>5, <1>6

LEMMA MoveOn ==
  ASSUME TurnInv, StepTypeOK, NEW r \in Ranks, NEW g \in Groups, Steady(r), case' = case, Moves(r, g),
         pc[r][g] = "running", pos[r][g] \in 1..(Behind(Kind(g)) - 1),
         ~GivesTurn(Kind(g), Way, pos[r][g]) \/ NoMate(r, g), NotStopped(r, g),
         UNCHANGED <<main, groups, pc, wake, finished, errors, pending>>
  PROVE  Placed(r)'
<1> DEFINE o == Other(g)
           p == pos[r][g]
<1>0. /\ Placed(r) /\ o \in Groups /\ Kind(g) \in Tails /\ Kind(o) \in Tails /\ Way \in Ways
      /\ Way' = Way /\ \A h : Kind(h)' = Kind(h)
  BY TwoGroups, Ways_, SameCase, KindOf DEF Steady
<1>1. pos'[r][g] = p + 1 /\ pos'[r][o] = pos[r][o]
  BY Moved
<1>2. main[r] = (IF Way = "alone" THEN "alone" ELSE "threads")
  BY Here
<1>3. /\ (GivesTurn(Kind(g), Way, p) => Way # "alone")
      /\ pos[r][o] = Opposite(Kind(o), Way, g, Kind(g), p)
      /\ Way # "alone" => IF NoMate(r, g) THEN pc[r][o] = "ended" ELSE Waits(r, o)
  BY OtherIs, Ways_ DEF GivesTurn, Waits
<1>4. Alternate(r)'
  <2>1. ASSUME Way # "alone" PROVE Partner(r, g)'
    <3>1. CASE ~GivesTurn(Kind(g), Way, p)
      <4>1. Run(Kind(g), Way, p + 1) = Run(Kind(g), Way, p)
        BY <1>0, <3>1, MateOn
      <4>2. NoMate(r, g)' <=> NoMate(r, g)
        BY <1>0, <1>1, <4>1 DEF NoMate
      <4>3. pos'[r][o] = Opposite(Kind(o), Way, g, Kind(g), p + 1)
        BY <1>1, <1>3, <4>1 DEF Opposite
      <4> QED BY <1>0, <1>1, <1>3, <2>1, <4>2, <4>3 DEF Partner, Waits
    <3>2. CASE GivesTurn(Kind(g), Way, p)
      <4>1. NoMate(r, g)
        BY <3>2
      <4>2. NoMate(r, g)'
        BY <1>0, <1>1, <3>2, <4>1, MateOn DEF NoMate
      <4>3. pos'[r][o] = Opposite(Kind(o), Way, g, Kind(g), p + 1)
        BY <1>0, <1>1, <1>3, <3>2, <4>1, MateOn DEF NoMate
      <4> QED BY <1>0, <1>1, <1>3, <2>1, <4>1, <4>2, <4>3 DEF Partner
    <3> QED BY <3>1, <3>2
  <2>2. Turn(r, g)'
    BY DEF Turn, HasTurn
  <2> QED BY <1>2, <2>1, <2>2 DEF Alternate
<1>5. Stopped(r)' /\ (main[r] = "alone" => InTurn(r)') /\ \A h \in Groups : Place1(r, h)'
  BY Goes
<1>6. InTurn(r)'
  BY <1>5 DEF InTurn
<1> QED BY <1>0, <1>4, <1>5, <1>6 DEF Placed

LEMMA GiveOn ==
  ASSUME TurnInv, StepTypeOK, NEW r \in Ranks, NEW g \in Groups, Steady(r), case' = case, Moves(r, g),
         pc[r][g] = "running", pos[r][g] \in 1..(Behind(Kind(g)) - 1),
         Way # "alone", GivesTurn(Kind(g), Way, pos[r][g]), ~NoMate(r, g), NotStopped(r, g),
         pc' = [pc EXCEPT ![r][g] = "waiting"], wake' = [wake EXCEPT ![r][Other(g)] = TRUE],
         UNCHANGED <<main, groups, finished, errors>>, pending'[r][Other(g)] = pending[r][Other(g)]
  PROVE  Placed(r)'
<1> DEFINE o == Other(g)
           p == pos[r][g]
<1>0. /\ Placed(r) /\ o \in Groups /\ g # o /\ Other(o) = g /\ Kind(g) \in Tails /\ Kind(o) \in Tails /\ Way \in Ways
      /\ Way' = Way /\ (\A h : Kind(h)' = Kind(h)) /\ \A h \in Groups : h = g \/ h = o
  BY TwoGroups, Ways_, SameCase, KindOf DEF Steady
<1>1. pos'[r][g] = p + 1 /\ pos'[r][o] = pos[r][o]
  BY Moved
<1>2. main[r] = "threads"
  BY Here
<1>3. /\ pos[r][o] = Opposite(Kind(o), Way, g, Kind(g), p)
      /\ pc[r][o] = "waiting" /\ ~wake[r][o] /\ ~wake[r][g] /\ ~finished[r][o]
  BY OtherIs
<1>4. /\ pc'[r][g] = "waiting" /\ pc'[r][o] = pc[r][o]
      /\ wake'[r][o] = TRUE /\ wake'[r][g] = wake[r][g]
  <2>1. pc \in [Ranks -> [Groups -> PcOf]] /\ wake \in [Ranks -> [Groups -> BOOLEAN]]
    BY DEF TurnInv, TurnTypeOK
  <2>2. pc'[r][g] = "waiting" /\ pc'[r][o] = pc[r][o]
    BY <1>0, <2>1
  <2>3. wake'[r][o] = TRUE /\ wake'[r][g] = wake[r][g]
    BY <1>0, <2>1
  <2> QED BY <2>2, <2>3
<1>5. Alternate(r)'
  <2>1. HasTurn(r, o)' /\ Waits(r, g)'
    BY <1>3, <1>4 DEF HasTurn, Waits
  <2>2. /\ p + 1 = Opposite(Kind(g), Way, o, Kind(o), pos[r][o])
        /\ ~(Mate(o, Run(Kind(o), Way, pos[r][o])) > LastRun(Kind(g), Way))
    BY <1>0, <1>3, MateOn DEF NoMate
  <2>3. ~NoMate(r, o)'
    BY <1>0, <1>1, <2>2 DEF NoMate
  <2>4. Partner(r, o)'
    BY <1>0, <1>1, <2>1, <2>2, <2>3 DEF Partner
  <2> QED BY <1>0, <2>1, <2>4 DEF Alternate, Turn
<1>6. InTurn(r)'
  BY <1>2 DEF InTurn
<1>7. Stopped(r)' /\ \A h \in Groups : Place1(r, h)'
  <2>1. \A h \in Groups : pc'[r][h] = pc[r][h] \/ (h = g /\ pc'[r][h] = "waiting")
    BY <1>0, <1>4
  <2>2. \A h \in Groups : pending'[r][h] = pending[r][h] \/ h = g
    BY <1>0
  <2> QED BY <2>1, <2>2, Goes
<1> QED BY <1>0, <1>5, <1>6, <1>7 DEF Placed

-----------------------------------------------------------------------------
(* What a rank has called, and what a thread leaves on the GPU *)

LEMMA CollsNat == ASSUME NEW c \in Tails, NEW p \in 1..Behind(c) PROVE Colls(c, p) \in Nat
<1>1. p <= p
  BY Numbers_
<1> QED BY <1>1, CollsRise

\* Called speaks of the calls and of the two positions.
LEMMA CallsAre ==
  ASSUME NEW r \in Ranks, NEW g \in Groups, case' = case
  PROVE  /\ Called(r) <=>
              /\ Len(calls[r]) = Colls(Kind(0), pos[r][0]) + Colls(Kind(1), pos[r][1])
              /\ \A i \in 1..Len(calls[r]) : IsNth(calls[r][i], i)
         /\ Called(r)' <=>
              /\ Len(calls'[r]) = Colls(Kind(0), pos'[r][0]) + Colls(Kind(1), pos'[r][1])
              /\ \A i \in 1..Len(calls'[r]) : IsNth(calls'[r][i], i)
<1>1. /\ \A h : Kind(h)' = Kind(h)
      /\ \A h, p : Place(h, p)' = Place(h, p)
  BY SameCase
<1> QED BY <1>1 DEF Called, IsNth

LEMMA SameCalls ==
  ASSUME NEW r \in Ranks, case' = case, Called(r), calls'[r] = calls[r],
         \A h \in Groups : Colls(Kind(h), pos'[r][h]) = Colls(Kind(h), pos[r][h])
  PROVE  Called(r)'
<1>1. 0 \in Groups /\ 1 \in Groups
  BY TwoGroups
<1> QED BY <1>1, CallsAre

LEMMA CalledNoMore ==
  ASSUME StepTypeOK, NEW r \in Ranks, NEW g \in Groups, Steady(r), case' = case, Moves(r, g),
         pos[r][g] \in 1..Len(TailOf(Kind(g))), TailOf(Kind(g))[pos[r][g]].do # "coll", calls'[r] = calls[r]
  PROVE  Called(r)'
<1>1. pos'[r][g] = pos[r][g] + 1 /\ pos'[r][Other(g)] = pos[r][Other(g)]
  BY Moved
<1>2. Colls(Kind(g), pos[r][g] + 1) = Colls(Kind(g), pos[r][g])
  BY KindOf, NextColl
<1>3. \A h \in Groups : Colls(Kind(h), pos'[r][h]) = Colls(Kind(h), pos[r][h])
  BY <1>1, <1>2, TwoGroups
<1> QED BY <1>3, SameCalls DEF Steady

\* The next collective has the next place.
LEMMA NextIsNth ==
  ASSUME TurnInv, NEW r \in Ranks, NEW g \in Groups, Steady(r), pc[r][g] = "running",
         pos[r][g] \in 1..Len(TailOf(Kind(g))), TailOf(Kind(g))[pos[r][g]].do = "coll"
  PROVE  IsNth(Op(g, TailOf(Kind(g))[pos[r][g]]), Colls(Kind(0), pos[r][0]) + Colls(Kind(1), pos[r][1]) + 1)
<1> DEFINE o == Other(g)
           a == Colls(Kind(g), pos[r][g])
           b == Colls(Kind(o), pos[r][o])
<1>0. Kind(g) \in Tails /\ Kind(o) \in Tails /\ Way \in Ways /\ o \in Groups /\ Placed(r)
  BY KindOf, Ways_, TwoGroups DEF Steady
<1>1. a \in Nat /\ b \in Nat
  <2>1. \A h \in Groups : Colls(Kind(h), pos[r][h]) \in Nat
    BY <1>0, KindOf, CollsNat DEF Placed, Place1
  <2> QED BY <1>0, <2>1
<1>2. Place(g, pos[r][g]) = a + b + 1
  BY OtherIs DEF Place, Spot
<1>3. Colls(Kind(0), pos[r][0]) + Colls(Kind(1), pos[r][1]) = a + b
  <2>1. CASE g = 0
    BY <2>1, TwoGroups
  <2>2. CASE g = 1
    <3>1. Colls(Kind(1), pos[r][1]) = a /\ Colls(Kind(0), pos[r][0]) = b
      BY <2>2, TwoGroups
    <3> HIDE DEF a, b
    <3> QED BY <1>1, <3>1
  <2> QED BY <2>1, <2>2, TwoGroups
<1>4. IsCall(Kind(g), pos[r][g]) /\ pos[r][g] \in Nat
  BY DEF IsCall
<1> QED BY <1>2, <1>3, <1>4 DEF IsNth

LEMMA CalledMore ==
  ASSUME TurnInv, StepTypeOK, NEW r \in Ranks, NEW g \in Groups, Steady(r), case' = case, Moves(r, g),
         pc[r][g] = "running", pos[r][g] \in 1..Len(TailOf(Kind(g))), TailOf(Kind(g))[pos[r][g]].do = "coll",
         calls' = [calls EXCEPT ![r] = Append(@, Op(g, TailOf(Kind(g))[pos[r][g]]))]
  PROVE  Called(r)'
<1> DEFINE n == Len(calls[r])
           op == Op(g, TailOf(Kind(g))[pos[r][g]])
           x == Colls(Kind(0), pos[r][0])
           y == Colls(Kind(1), pos[r][1])
<1>1. pos'[r][g] = pos[r][g] + 1 /\ pos'[r][Other(g)] = pos[r][Other(g)]
  BY Moved
<1>2. Called(r) /\ calls[r] \in Seq(AllOps) /\ calls'[r] = Append(calls[r], op)
  <2>1. calls \in [Ranks -> Seq(AllOps)] /\ Called(r)
    BY DEF StepTypeOK, Steady
  <2> HIDE DEF op
  <2>2. calls[r] \in Seq(AllOps) /\ calls'[r] = Append(calls[r], op)
    BY <2>1 DEF op
  <2> QED BY <2>1, <2>2
<1>3. /\ n = x + y /\ n \in Nat /\ Len(calls'[r]) = n + 1
      /\ calls'[r][n + 1] = op /\ \A i \in 1..n : calls'[r][i] = calls[r][i]
  <2> HIDE DEF op
  <2> QED BY <1>2 DEF Called
<1>4. IsNth(op, n + 1)
  BY <1>3, NextIsNth
<1>5. x \in Nat /\ y \in Nat
  <2>1. \A h \in Groups : Colls(Kind(h), pos[r][h]) \in Nat
    BY KindOf, CollsNat DEF Steady, Placed, Place1
  <2> QED BY <2>1, TwoGroups
<1>6. Colls(Kind(g), pos'[r][g]) = Colls(Kind(g), pos[r][g]) + 1
  BY <1>1, KindOf, NextColl
<1>7. n + 1 = Colls(Kind(0), pos'[r][0]) + Colls(Kind(1), pos'[r][1])
  <2>1. CASE g = 0
    <3>1. Colls(Kind(0), pos'[r][0]) = x + 1 /\ Colls(Kind(1), pos'[r][1]) = y
      BY <1>1, <1>6, <2>1, TwoGroups
    <3> HIDE DEF n, x, y
    <3> QED BY <1>3, <1>5, <3>1
  <2>2. CASE g = 1
    <3>1. Colls(Kind(1), pos'[r][1]) = y + 1 /\ Colls(Kind(0), pos'[r][0]) = x
      BY <1>1, <1>6, <2>2, TwoGroups
    <3> HIDE DEF n, x, y
    <3> QED BY <1>3, <1>5, <3>1
  <2> QED BY <2>1, <2>2, TwoGroups
<1>8. \A i \in 1..(n + 1) : IsNth(calls'[r][i], i)
  <2>1. \A i \in 1..n : IsNth(calls'[r][i], i)
    BY <1>2, <1>3 DEF Called
  <2>2. \A i \in 1..(n + 1) : i \in 1..n \/ i = n + 1
    BY <1>3
  <2> HIDE DEF n, op
  <2> QED BY <1>3, <1>4, <2>1, <2>2
<1> QED BY <1>3, <1>7, <1>8, CallsAre

LEMMA LastEnd ==
  ASSUME NEW c \in Tails, NEW p \in 1..Len(TailOf(c))
  PROVE  /\ p \in Int /\ K \in Nat
         /\ p = K + 3 => TailOf(c)[p].do = "end"
         /\ p = K + 4 => TailOf(c)[p].do = "comp"
         /\ p = K + 5 => (c = "cut" <=> TailOf(c)[p].do = "replay")
         /\ p = K + 7 /\ c = "whole" => TailOf(c)[p].do = "end"
<1>1. TailOf(c)[p] = Ins(c, p) /\ Lengths(c) /\ Size /\ p \in Int /\ c \in {"cut", "whole"}
  BY Layout, Lengths_, Sizes DEF Tails
<1>2. CASE c = "cut"
  <2>1. Sp(c) = K /\ K \in Nat
    BY <1>1, <1>2 DEF Lengths, Size
  <2>2. p > K => TailOf(c)[p] = CutIns(p)
    BY <1>1, <1>2, <2>1 DEF Ins
  <2> QED BY <1>1, <1>2, <2>1, <2>2, Kinds, Fields
<1>3. CASE c = "whole"
  <2>1. Sp(c) >= K + 8 /\ Sp(c) \in Nat /\ K % 8 = 0 /\ K \in Nat
    BY <1>1, <1>3 DEF Lengths, Size
  <2>2. p <= K + 7 => TailOf(c)[p] = SpIns(p)
    BY <1>1, <2>1 DEF Ins
  <2>3. p <= K + 7 => TailOf(c)[p].do = Boundary_(p)
    BY <2>2, Fields DEF SpIns
  <2>4. (p = K + 3 => p % 4 = 3) /\ (p = K + 4 => p % 4 = 0) /\ (p = K + 5 => p % 4 = 1) /\ (p = K + 7 => p % 4 = 3)
    BY <1>1, <2>1
  <2> QED BY SMTT(40), <1>1, <1>3, <2>1, <2>3, <2>4 DEF Boundary_
<1> QED BY <1>1, <1>2, <1>3

\* What a running thread leaves on the GPU, one instruction further.
LEMMA OrderedOn ==
  ASSUME NEW r \in Ranks, NEW g \in Groups, case' = case, Ordered(r, g), Grows(r),
         NEW p \in 1..Len(TailOf(Kind(g))), pos[r][g] = p, pos'[r][g] = p + 1,
         NEW i, TailOf(Kind(g))[p] = i, i.do # "replay",
         open'[r][g] = "replay" => open[r][g] = "replay",
         Issued(Kind(g), g, p + 1, ahead'[r][Stream(r, g)'] \cup pending'[r][g]),
         i.do \in {"comp", "coll"} /\ i.name \in KvNames => Op(g, i) \in ahead'[r]["C"],
         i.do \in {"comp", "coll"} /\ i.name = "tail" => Op(g, i) \in ahead'[r][TailStream],
         i.do = "comp" => Issued(Kind(g), g, p + 1, ahead'[r]["C"]),
         Pipelined /\ p + 1 >= K + 4 => SpOps(g) \subseteq lastEvent'[r][g]
  PROVE  Ordered(r, g)'
<1> DEFINE c == Kind(g)
<1>1. /\ Way' = Way /\ (Pipelined' <=> Pipelined) /\ (Gate' <=> Gate) /\ TailStream' = TailStream
      /\ Kind(g)' = Kind(g) /\ (HasReplay(g)' <=> HasReplay(g)) /\ \A h, l : KvOp(h, l)' = KvOp(h, l)
  BY SameCase
<1>2. /\ ahead[r]["C"] \subseteq ahead'[r]["C"] /\ ahead[r]["R"] \subseteq ahead'[r]["R"]
      /\ ahead[r][TailStream] \subseteq ahead'[r][TailStream]
  <2>1. "C" \in Streams /\ "R" \in Streams /\ TailStream \in Streams
    BY DEF Streams, TailStream
  <2> QED BY <2>1 DEF Grows
<1>3. /\ p \in Int /\ K \in Nat /\ c \in Tails
      /\ p = K + 4 => i.do = "comp"
      /\ c = "cut" => p # K + 5
  BY KindOf, LastEnd
<1>4. Written(r, g)'
  <2>1. NamesIssued(c, g, KvNames, p + 1, ahead'[r]["C"])
    <3>1. NamesIssued(c, g, KvNames, p, ahead[r]["C"])
      BY DEF Ordered, Written
    <3>2. i.do \notin {"comp", "coll"} \/ i.name \notin KvNames \/ Op(g, i) \in ahead'[r]["C"]
      OBVIOUS
    <3> QED BY <1>2, <3>1, <3>2, IssuedNext
  <2>2. NamesIssued(c, g, {"tail"}, p + 1, ahead'[r][TailStream])
    <3>1. NamesIssued(c, g, {"tail"}, p, ahead[r][TailStream])
      BY DEF Ordered, Written
    <3>2. i.do \notin {"comp", "coll"} \/ i.name \notin {"tail"} \/ Op(g, i) \in ahead'[r][TailStream]
      OBVIOUS
    <3> QED BY <1>2, <3>1, <3>2, IssuedNext
  <2> QED BY <1>1, <2>1, <2>2 DEF Written
<1>5. p + 1 > K + 4 => SpOps(g) \subseteq ahead'[r]["C"]
  <2>1. CASE p > K + 4
    BY <1>2, <2>1 DEF Ordered, Gathers
  <2>2. CASE p = K + 4
    <3>1. Issued(c, g, p + 1, ahead'[r]["C"]) /\ p + 1 > K + 2 /\ p + 1 \in Int
      BY <1>3, <2>2
    <3> QED BY <3>1, SpIssued
  <2>3. p + 1 > K + 4 => p > K + 4 \/ p = K + 4
    BY <1>3
  <2> QED BY <2>1, <2>2, <2>3
<1>6. g = 1 /\ open'[r][g] = "replay" => KvOp(0, SpLayers + 1) \in ahead'[r]["R"]
  BY <1>2 DEF Ordered, Gathers
<1>7. Gate /\ HasReplay(g) /\ p + 1 >= K + 6 => \A h \in Groups :
        /\ SpOps(h) \subseteq ahead'[r]["C"]
        /\ open'[r][g] = "replay" => SpOps(h) \subseteq ahead'[r]["R"]
  <2>1. HasReplay(g) /\ p + 1 >= K + 6 => p >= K + 6
    <3>1. HasReplay(g) => p # K + 5
      BY <1>3, KindOf
    <3> QED BY <1>3, <3>1
  <2>2. Gate /\ HasReplay(g) /\ p >= K + 6 => \A h \in Groups :
          /\ SpOps(h) \subseteq ahead[r]["C"]
          /\ open[r][g] = "replay" => SpOps(h) \subseteq ahead[r]["R"]
    BY DEF Ordered, Gathers
  <2> QED BY <1>2, <2>1, <2>2
<1>8. Gathers(r, g)'
  BY <1>1, <1>5, <1>6, <1>7 DEF Gathers
<1> QED BY <1>1, <1>4, <1>8 DEF Ordered

\* A step of one group, with everything that can change.
LEMMA Keeps ==
  ASSUME TurnInv, NEW r \in Ranks, NEW g \in Groups, Steady(r), case' = case,
         Placed(r)', Called(r)', Clean(r)', Owns(r, g)', Ordered(r, g)',
         Still(r, Other(g)), pc[r][Other(g)] # "running", Grows(r)
  PROVE  Steady(r)'
<1>1. Other(g) \in Groups /\ \A h \in Groups : h = g \/ h = Other(g)
  BY TwoGroups
<1>2. Owns(r, Other(g))' /\ Ordered(r, Other(g))'
  BY <1>1, Bystander DEF Steady, TurnInv
<1>3. \A h \in Groups : Owns(r, h)' /\ Ordered(r, h)'
  BY <1>1, <1>2
<1> QED BY <1>3 DEF Steady

-----------------------------------------------------------------------------
(* What a step of a rank leaves as it is *)

\* The tables keep their shape, and those of the other ranks do not change.
Local(r) == StepTypeOK' /\ case' = case /\ \A q \in Ranks : q # r => SameAt(q)

LEMMA LocalPlan == ASSUME TurnInv, StepTypeOK, NEW r \in Ranks, Plan(r) PROVE Local(r)
<1>1. ASSUME NEW q \in Ranks, q # r PROVE SameAt(q)
  BY <1>1 DEF TurnInv, TurnTypeOK, StepTypeOK, Row, Table, Plan, threadVars, globalVars, gpuVars, SameAt, Agree
<1>2. StepTypeOK'
  BY DEF StepTypeOK, Row, Table, Plan, threadVars, globalVars, gpuVars
<1>3. case' = case
  BY DEF Plan
<1> QED BY <1>1, <1>2, <1>3 DEF Local

LEMMA LocalTurns ==
  ASSUME TurnInv, StepTypeOK, NEW r \in Ranks, NEW g \in Groups,
         \/ TakeTurn(r, g) \/ Unwind(r, g) \/ FinishTail(r, g) \/ SetFinished(r, g) \/ WakeOther(r, g)
         \/ RunAlone(r, g) \/ Raise(r, g) \/ TurnTimeout(r, g) \/ Join(r)
  PROVE  Local(r)
<1>1. ASSUME NEW q \in Ranks, q # r PROVE SameAt(q)
  BY <1>1 DEF TurnInv, TurnTypeOK, StepTypeOK, Row, Table, TakeTurn, Resume, Unwind, FinishTail, SetFinished, WakeOther, RunAlone,
              Raise, TurnTimeout, Join, threadVars, globalVars, gpuVars, SameAt, Agree
<1>2. StepTypeOK'
  BY DEF StepTypeOK, Row, Table, TakeTurn, Resume, Unwind, FinishTail, SetFinished, WakeOther, RunAlone,
         Raise, TurnTimeout, Join, threadVars, globalVars, gpuVars
<1>3. case' = case
  BY DEF TakeTurn, Unwind, FinishTail, SetFinished, WakeOther, RunAlone, Raise, TurnTimeout, Join
<1> QED BY <1>1, <1>2, <1>3 DEF Local

LEMMA TableEntry ==
  ASSUME NEW v, Table(v), NEW r, NEW g, NEW x
  PROVE  Table([v EXCEPT ![r][g] = x])
BY DEF Table, Row

LEMMA HandOverTables ==
  ASSUME StepTypeOK, NEW r, NEW g, NEW event, NEW myPin, HandOver(r, g, event, myPin)
  PROVE  /\ Table(kept)' /\ Table(pending)' /\ Row(pin)' /\ Row(ctx)' /\ Row(row)'
         /\ Row(ahead)' /\ \A q \in Ranks : DOMAIN ahead'[q] = Streams
<1>1. Table(kept)' /\ Table(pending)'
  <2>1. \/ kept' = kept /\ pending' = pending
        \/ /\ kept' = [kept EXCEPT ![r][g] = [ctx |-> ctx[r], pin |-> myPin]]
           /\ pending' = [pending EXCEPT ![r][g] = event]
    BY DEF HandOver, GoOn, GiveTurn
  <2>2. Table(kept) /\ Table(pending)
    BY DEF StepTypeOK
  <2>3. \A x : Table([kept EXCEPT ![r][g] = x]) /\ Table([pending EXCEPT ![r][g] = x])
    BY <2>2, TableEntry
  <2>4. Table(kept') /\ Table(pending')
    BY <2>1, <2>2, <2>3
  <2> QED BY <2>4 DEF Table, Row
<1>2. Row(pin)' /\ Row(ctx)' /\ Row(row)' /\ Row(ahead)' /\ \A q \in Ranks : DOMAIN ahead'[q] = Streams
  BY DEF StepTypeOK, Row, HandOver, GoOn, GiveTurn
<1> QED BY <1>1, <1>2

LEMMA ClosedTables ==
  ASSUME StepTypeOK, NEW r \in Ranks, NEW g \in Groups, NEW myPin, ClosePhase(r, g, myPin)
  PROVE  /\ Table(kept)' /\ Table(pending)' /\ Table(lastEvent)' /\ phases' \in [Ranks -> [Groups -> Nat]]
         /\ Row(pin)' /\ Row(ctx)' /\ Row(row)' /\ Row(ahead)' /\ \A q \in Ranks : DOMAIN ahead'[q] = Streams
<1> DEFINE event == ahead[r][Stream(r, g)]
<1>1. Table(lastEvent)'
  <2>1. \E x : lastEvent' = [lastEvent EXCEPT ![r][g] = x]
    BY DEF ClosePhase
  <2>2. Table(lastEvent)
    BY DEF StepTypeOK
  <2>3. \A x : Table([lastEvent EXCEPT ![r][g] = x])
    BY <2>2, TableEntry
  <2>4. Table(lastEvent')
    BY <2>1, <2>3
  <2> QED BY <2>4 DEF Table, Row
<1>2. phases' \in [Ranks -> [Groups -> Nat]]
  <2>1. phases[r][g] + 1 \in Nat
    BY DEF StepTypeOK
  <2> QED BY <2>1 DEF StepTypeOK, ClosePhase
<1>3. HandOver(r, g, event, myPin) \/ UNCHANGED <<ahead, wake, kept, pending, globalVars>>
  BY DEF ClosePhase
<1>4. CASE HandOver(r, g, event, myPin)
  BY <1>1, <1>2, <1>4, HandOverTables
<1>5. CASE UNCHANGED <<ahead, wake, kept, pending, globalVars>>
  BY <1>1, <1>2, <1>5 DEF StepTypeOK, Table, Row, globalVars
<1> QED BY <1>3, <1>4, <1>5

LEMMA LocalMoves ==
  ASSUME TurnInv, StepTypeOK, NEW r \in Ranks, NEW g \in Groups,
         \/ Compute(r, g) \/ Collective(r, g) \/ PhaseBegin(r, g) \/ PhaseEnd(r, g) \/ ReplayBegin(r, g)
         \/ EnterReplay(r, g) \/ LeaveReplay(r, g) \/ YieldPoint(r, g) \/ ReplayEnd(r, g)
  PROVE  Local(r)
<1>0. ASSUME Advance(r, g) PROVE pos' \in [Ranks -> [Groups -> Nat \ {0}]]
  <2>1. pos[r][g] + 1 \in Nat \ {0}
    BY DEF StepTypeOK
  <2> QED BY <1>0, <2>1 DEF StepTypeOK, Advance
<1>1. CASE Compute(r, g) \/ EnterReplay(r, g) \/ LeaveReplay(r, g)
  <2>1. ASSUME NEW q \in Ranks, q # r PROVE SameAt(q)
    BY <1>1, <2>1 DEF TurnInv, TurnTypeOK, StepTypeOK, Row, Table, Compute, Issue, EnterReplay, LeaveReplay,
                      Advance, threadVars, globalVars, gpuVars, SameAt, Agree
  <2>2. ASSUME Compute(r, g) PROVE StepTypeOK'
    BY <1>0, <2>2 DEF StepTypeOK, Row, Table, Compute, Issue
  <2>3. ASSUME EnterReplay(r, g) \/ LeaveReplay(r, g) PROVE StepTypeOK'
    BY <1>0, <2>3 DEF StepTypeOK, Row, Table, EnterReplay, LeaveReplay, gpuVars
  <2>4. StepTypeOK'
    BY <1>1, <2>2, <2>3
  <2> QED BY <1>1, <2>1, <2>4 DEF Local, Compute, EnterReplay, LeaveReplay
<1>2. CASE Collective(r, g)
  <2>1. ASSUME NEW q \in Ranks, q # r PROVE SameAt(q)
    BY <1>2, <2>1 DEF TurnInv, TurnTypeOK, StepTypeOK, Row, Table, Collective, Issue, Advance, globalVars, SameAt, Agree
  <2>2. Op(g, At(r, g)) \in AllOps
    <3>1. pos[r][g] \in Nat /\ At(r, g) = TailOf(Kind(g))[pos[r][g]] /\ Kind(g) \in Tails
      BY KindOf DEF StepTypeOK, At
    <3> QED BY <3>1 DEF AllOps
  <2>3. calls' \in [Ranks -> Seq(AllOps)]
    BY <1>2, <2>2 DEF StepTypeOK, Collective
  <2>4. StepTypeOK'
    BY <1>2, <2>3 DEF StepTypeOK, Row, Table, Collective, Issue, Advance, globalVars
  <2> QED BY <1>2, <2>1, <2>4 DEF Local, Collective
<1>3. CASE PhaseBegin(r, g) \/ ReplayBegin(r, g)
  <2>1. ASSUME NEW q \in Ranks, q # r PROVE SameAt(q)
    BY <1>3, <2>1 DEF TurnInv, TurnTypeOK, StepTypeOK, Row, Table, PhaseBegin, ReplayBegin, OpenPhase, Advance,
                      globalVars, SameAt, Agree
  <2>2. StepTypeOK'
    <3>1. pos' \in [Ranks -> [Groups -> Nat \ {0}]]
      BY <1>0, <1>3 DEF PhaseBegin, ReplayBegin
    <3>2. Row(ahead)' /\ \A q \in Ranks : DOMAIN ahead'[q] = Streams
      BY <1>3 DEF StepTypeOK, Row, PhaseBegin, ReplayBegin, OpenPhase
    <3> QED BY <1>3, <3>1, <3>2 DEF StepTypeOK, Row, Table, PhaseBegin, ReplayBegin, globalVars
  <2> QED BY <1>3, <2>1, <2>2 DEF Local, PhaseBegin, ReplayBegin
<1>4. CASE PhaseEnd(r, g) \/ YieldPoint(r, g) \/ ReplayEnd(r, g)
  <2>1. pos' \in [Ranks -> [Groups -> Nat \ {0}]]
    BY <1>0, <1>4 DEF PhaseEnd, YieldPoint, ReplayEnd
  <2>2. CASE PhaseEnd(r, g)
    <3>1. ASSUME NEW q \in Ranks, q # r PROVE SameAt(q)
      BY <2>2, <3>1 DEF TurnInv, TurnTypeOK, StepTypeOK, Row, Table, PhaseEnd, ClosePhase, HandOver, GoOn, GiveTurn,
                        Advance, globalVars, SameAt, Agree
    <3>2. /\ Table(kept)' /\ Table(pending)' /\ Table(lastEvent)' /\ phases' \in [Ranks -> [Groups -> Nat]]
          /\ Row(pin)' /\ Row(ctx)' /\ Row(row)' /\ Row(ahead)' /\ \A q \in Ranks : DOMAIN ahead'[q] = Streams
      BY <2>2, ClosedTables DEF StepTypeOK, Table, Row, PhaseEnd, globalVars
    <3>3. StepTypeOK'
      BY <2>1, <2>2, <3>2 DEF StepTypeOK, Row, PhaseEnd
    <3> QED BY <2>2, <3>1, <3>3 DEF Local, PhaseEnd
  <2>3. CASE YieldPoint(r, g)
    <3>1. ASSUME NEW q \in Ranks, q # r PROVE SameAt(q)
      BY <2>3, <3>1 DEF TurnInv, TurnTypeOK, StepTypeOK, Row, Table, YieldPoint, HandOver, GoOn, GiveTurn,
                        Advance, SameAt, Agree
    <3>2. /\ Table(kept)' /\ Table(pending)' /\ Table(lastEvent)' /\ phases' \in [Ranks -> [Groups -> Nat]]
          /\ Row(pin)' /\ Row(ctx)' /\ Row(row)' /\ Row(ahead)' /\ \A q \in Ranks : DOMAIN ahead'[q] = Streams
      BY <2>3, HandOverTables DEF StepTypeOK, Table, Row, YieldPoint
    <3>3. StepTypeOK'
      BY <2>1, <2>3, <3>2 DEF StepTypeOK, Row, YieldPoint
    <3> QED BY <2>3, <3>1, <3>3 DEF Local, YieldPoint
  <2>4. CASE ReplayEnd(r, g)
    <3>1. ASSUME NEW q \in Ranks, q # r PROVE SameAt(q)
      BY <2>4, <3>1 DEF TurnInv, TurnTypeOK, StepTypeOK, Row, Table, ReplayEnd, ClosePhase, HandOver, GoOn, GiveTurn,
                        Advance, globalVars, SameAt, Agree
    <3>2. /\ Table(kept)' /\ Table(pending)' /\ Table(lastEvent)' /\ phases' \in [Ranks -> [Groups -> Nat]]
          /\ Row(pin)' /\ Row(ctx)' /\ Row(row)' /\ Row(ahead)' /\ \A q \in Ranks : DOMAIN ahead'[q] = Streams
      BY <2>4, ClosedTables DEF StepTypeOK, Table, Row, ReplayEnd, globalVars
    <3>3. StepTypeOK'
      BY <2>1, <2>4, <3>2 DEF StepTypeOK, Row, ReplayEnd
    <3> QED BY <2>4, <3>1, <3>3 DEF Local, ReplayEnd
  <2> QED BY <1>4, <2>2, <2>3, <2>4
<1> QED BY <1>1, <1>2, <1>3, <1>4

-----------------------------------------------------------------------------
(* An operation is issued where it belongs *)

\* The stream of an operation of the remaining layers.
LEMMA TailLayerOf ==
  ASSUME NEW c \in Tails, NEW p \in 1..Len(TailOf(c)), TailOf(c)[p].do \in {"comp", "coll"}, TailOf(c)[p].name = "tail"
  PROVE  TailOf(c)[p].do = "coll" /\ TailOf(c)[p].layer \in 1..TailLayers
<1> DEFINE i == TailOf(c)[p]
<1>0. ShapeIs(c, p, i) /\ p \in Int /\ Size
  BY Shape, Sizes
<1>1. i.do # "comp"
  <2>1. i.do = "comp" => i.name \in {"attn", "moe", "kv", "norm"}
    <3> SUFFICES ASSUME i.do = "comp" PROVE i.name \in {"attn", "moe", "kv", "norm"}
      OBVIOUS
    <3>1. \/ i = I("comp", "attn", (p + 7) \div 8) \/ i = I("comp", "moe", (p + 7) \div 8)
          \/ i = I("comp", "kv", SpLayers + 1) \/ i = I("comp", "norm", 0)
      BY <1>0 DEF ShapeIs
    <3> HIDE DEF i
    <3> QED BY <3>1, Fields
  <2> QED BY <2>1
<1>2. K + 9 <= p /\ p <= K + 7 + 2 * TailLayers /\ p % 2 = 1 /\ i = I("coll", "tail", (p - K - 6) \div 2)
  <2>1. \/ i = I("coll", IF p % 8 = 2 THEN "in" ELSE "out", (p + 7) \div 8)
        \/ i = I("coll", "gather", 0)
        \/ K + 9 <= p /\ p <= K + 7 + 2 * TailLayers /\ p % 2 = 1 /\ i = I("coll", "tail", (p - K - 6) \div 2)
        \/ i = I("coll", "collapse", 0)
    BY <1>0, <1>1 DEF ShapeIs
  <2> HIDE DEF i
  <2>2. i.name = "tail"
    BY DEF i
  <2> QED BY <2>1, <2>2, Fields
<1>3. (p - K - 6) \div 2 \in 1..TailLayers
  BY <1>0, <1>2, LayerOf DEF Size
<1> QED BY <1>1, <1>2, <1>3, Fields

\* Where group 0 is when group 1 issues: past what group 1 reads.
LEMMA ZeroIsPast ==
  ASSUME TurnInv, NEW r \in Ranks, Steady(r), pc[r][1] = "running", ~Disordered,
         pos[r][1] \in 1..Len(TailOf(Kind(1))), TailOf(Kind(1))[pos[r][1]].do \in {"comp", "coll"},
         NEW l, ReadsLayer(TailOf(Kind(1))[pos[r][1]], l)
  PROVE  /\ l \in 1..(SpLayers + TailLayers)
         /\ KvOp(0, l) \in ahead[r][IF Kind(0) = "cut" /\ l > SpLayers + 1 THEN TailStream ELSE "C"]
         /\ l > SpLayers + 1 => Way = "alone" \/ (Kind(0) = "cut" /\ TailOf(Kind(1))[pos[r][1]].name = "tail")
                                \/ (Kind(0) = "whole" /\ TailOf(Kind(1))[pos[r][1]].name # "tail")
<1> DEFINE i == TailOf(Kind(1))[pos[r][1]]
           p == pos[r][1]
           z == pos[r][0]
<1>0. /\ Way \in Ways /\ Kind(0) \in Tails /\ Kind(1) \in Tails /\ 0 \in Groups /\ 1 \in Groups
      /\ Other(1) = 0 /\ Placed(r) /\ Ordered(r, 0)
  BY KindOf, Ways_, TwoGroups DEF Steady
<1>1. Way = "alone" \/ Kind(0) = "cut" \/ Kind(1) = "whole" \/ i.name # "tail"
  <2>1. i.name = "tail" => Untrimmed
    BY DEF ReadsLayer
  <2>2. ASSUME Way # "alone", Kind(0) # "cut", Kind(1) # "whole" PROVE i.name # "tail"
    BY <2>1, <2>2, Ways_, KindOf DEF Disordered
  <2> QED BY <2>2
<1>2. Way # "alone" /\ Kind(0) = "cut" /\ Kind(1) = "whole" => p <= K + 7
  BY <1>0, Ways_, KindOf DEF MorePhases, Placed, Stopped
<1>3. /\ l \in 1..(SpLayers + TailLayers) /\ WrittenAt(Kind(0), l) < Begins(Kind(0), Way, Run(Kind(1), Way, p) + 1)
      /\ l > SpLayers + 1 /\ Kind(0) = "cut" => Way = "alone" \/ i.name = "tail"
      /\ l > SpLayers + 1 /\ Kind(0) = "whole" /\ i.name = "tail" => Way = "alone"
  BY <1>0, <1>1, <1>2, WrittenBefore
<1>4. z = Begins(Kind(0), Way, Run(Kind(1), Way, p) + 1)
  BY <1>0, OtherIs, TwoGroups DEF Opposite, Mate
<1>5. z \in Int
  <2>1. z \in 1..Behind(Kind(0)) /\ Behind(Kind(0)) \in Nat
    BY <1>0, Numbers_ DEF Placed, Place1
  <2> QED BY <2>1
<1>6. KvOp(0, l) \in ahead[r][IF Kind(0) = "cut" /\ l > SpLayers + 1 THEN TailStream ELSE "C"]
  <2> DEFINE A == ahead[r][IF Kind(0) = "cut" /\ l > SpLayers + 1 THEN TailStream ELSE "C"]
  <2>1. NamesIssued(Kind(0), 0, WrittenBy(Kind(0), l), z, A)
    BY <1>0 DEF Ordered, Written, WrittenBy
  <2>2. WrittenAt(Kind(0), l) < z
    BY <1>3, <1>4
  <2> HIDE DEF A, z
  <2>3. KvOp(0, l) \in A
    BY <1>3, <1>5, <2>1, <2>2, KvThere
  <2> QED BY <2>3 DEF A
<1> QED BY <1>0, <1>3, <1>6, KindOf

LEMMA IssuedHere ==
  ASSUME TurnInv, StepTypeOK, NEW r \in Ranks, NEW g \in Groups, Steady(r), case' = case, Issue(r, g),
         pc[r][g] = "running", pos[r][g] \in 1..Len(TailOf(Kind(g))),
         TailOf(Kind(g))[pos[r][g]].do \in {"comp", "coll"}
  PROVE  /\ Grows(r) /\ Op(g, TailOf(Kind(g))[pos[r][g]]) \in ahead'[r][Stream(r, g)] /\ Clean(r)'
<1> DEFINE p == pos[r][g]
           i == TailOf(Kind(g))[p]
           s == Stream(r, g)
<1>0. /\ Clean(r) /\ Way \in Ways /\ Ordered(r, g) /\ Kind(g) \in Tails /\ At(r, g) = i
      /\ (g = 0 \/ g = 1) /\ i.do \in {"comp", "coll"} /\ (HasReplay(g) <=> Kind(g) = "cut")
  BY Ways_, TwoGroups, KindOf DEF Steady, At
<1>1. /\ row[r] = g /\ ctx[r] = CtxAt(Kind(g), g, p) /\ open[r][g] = OpenAt(Kind(g), Way, p)
      /\ PinnedAt(Kind(g), p) => pin[r] = <<g>>
      /\ Issued(Kind(g), g, p, ahead[r][s])
  BY Here
<1>2. open[r][g] \in {"none", "comm", "replay"}
  BY DEF TurnInv, TurnTypeOK
<1>3. /\ s = (IF open[r][g] = "none" THEN "C" ELSE IF open[r][g] = "comm" THEN "N" ELSE "R")
      /\ s \in Streams
  BY <1>2, StreamOf DEF Streams
<1>4. Grows(r) /\ Op(g, i) \in ahead'[r][s]
  BY <1>0, <1>3 DEF Issue, Grows, StepTypeOK, Row
<1>5. /\ i.do = "comp" => CompIs(Kind(g), Way, p, i)
      /\ i.do = "coll" => CollIs(Kind(g), Way, p, i)
  <2>1. StepIs(Kind(g), Way, p, i)
    BY <1>0, Steps
  <2> QED BY <2>1 DEF StepIs
<1>6. /\ i.name \in {"attn", "kv"} => s = "C"
      /\ i.name = "gather" => s = (IF Way = "stream" THEN "R" ELSE "C") /\ (Way = "stream" => open[r][g] = "replay")
      /\ i.name = "tail" => s = TailStream
  <2>1. i.name \in {"attn", "kv"} => open[r][g] = "none"
    BY <1>0, <1>1, <1>5 DEF CompIs, CollIs
  <2>2. i.name \in {"gather", "tail"} => open[r][g] = (IF Way = "stream" THEN "replay" ELSE "none")
    BY <1>0, <1>1, <1>5 DEF CompIs, CollIs
  <2> QED BY <1>3, <2>1, <2>2 DEF TailStream
<1>7. ASSUME g = 1, ~Disordered, NEW l \in Int, ReadsLayer(i, l) PROVE KvOp(0, l) \in ahead[r][s]
  <2>1. /\ l \in 1..(SpLayers + TailLayers)
        /\ KvOp(0, l) \in ahead[r][IF Kind(0) = "cut" /\ l > SpLayers + 1 THEN TailStream ELSE "C"]
        /\ l > SpLayers + 1 => Way = "alone" \/ (Kind(0) = "cut" /\ i.name = "tail")
                               \/ (Kind(0) = "whole" /\ i.name # "tail")
    BY <1>0, <1>7, ZeroIsPast
  <2>2. SpLayers \in Nat
    BY Sizes DEF Size
  <2>3. CASE i.name \in {"attn", "kv"}
    <3>1. Kind(0) = "cut" /\ l > SpLayers + 1 => TailStream = "C"
      BY <2>1, <2>3, KindOf DEF TailStream
    <3> QED BY <1>6, <2>1, <2>3, <3>1
  <2>4. CASE i.name = "gather"
    <3>1. l = SpLayers + 1 /\ ~(l > SpLayers + 1)
      BY <1>7, <2>2, <2>4 DEF ReadsLayer
    <3>2. CASE Way = "stream"
      <4>1. KvOp(0, SpLayers + 1) \in ahead[r]["R"]
        BY <1>0, <1>6, <1>7, <2>4, <3>2 DEF Ordered, Gathers
      <4> QED BY <1>6, <2>4, <3>1, <3>2, <4>1
    <3>3. CASE Way # "stream"
      BY <1>6, <2>1, <2>4, <3>1, <3>3
    <3> QED BY <3>2, <3>3
  <2>5. CASE i.name = "tail"
    <3>1. i.layer \in 1..TailLayers /\ i.layer # 1 /\ l = SpLayers + i.layer
      BY <1>0, <1>7, <2>5, TailLayerOf DEF ReadsLayer
    <3>2. l > SpLayers + 1
      BY <2>2, <3>1
    <3>3. Kind(0) # "cut" => TailStream = "C"
      BY <2>1, <2>5, <3>2 DEF TailStream
    <3> QED BY <1>6, <2>1, <2>5, <3>2, <3>3
  <2> QED BY <1>7, <2>3, <2>4, <2>5 DEF ReadsLayer
<1>8. ~Disordered => Reads(g, i) \subseteq ahead[r][s]
  BY <1>0, <1>1, <1>7, ReadsThere
<1>9. Disordered' \/ early'[r] = {}
  <2>1. Disordered' <=> Disordered
    BY SameCase
  <2> QED BY <1>0, <1>8, <2>1 DEF Clean, Issue, StepTypeOK, Row
<1>10. AtHome(r, g)
  <2>1. ctx[r] = IF i.name = "tail" \/ (i.name = "collapse" /\ HasReplay(g)) THEN ReplayCtx(g) ELSE Ctx(g)
    BY <1>0, <1>1, <1>5 DEF CtxAt, CompIs, CollIs
  <2>2. i.name \in {"in", "out"} => pin[r] = <<g>>
    BY <1>0, <1>1, <1>5 DEF CompIs, CollIs
  <2> QED BY <1>0, <1>1, <2>1, <2>2 DEF AtHome
<1>11. foreign'[r] = {}
  BY <1>0, <1>10 DEF Clean, Issue, StepTypeOK, Row
<1> QED BY <1>4, <1>9, <1>11 DEF Clean

-----------------------------------------------------------------------------
(* Instructions that keep the turn *)

LEMMA AtWork ==
  ASSUME StepTypeOK, NEW r \in Ranks, NEW g \in Groups, NEW do, Runs(r, g, do), Advance(r, g)
  PROVE  /\ pos[r][g] \in 1..Len(TailOf(Kind(g))) /\ pos[r][g] \in 1..(Behind(Kind(g)) - 1)
         /\ pos[r][g] \in Int /\ K \in Nat /\ At(r, g) = TailOf(Kind(g))[pos[r][g]] /\ At(r, g).do = do
         /\ pc[r][g] = "running" /\ Moves(r, g) /\ Kind(g) \in Tails /\ Way \in Ways
         /\ pos'[r][g] = pos[r][g] + 1 /\ pos'[r][Other(g)] = pos[r][Other(g)]
         /\ StepIs(Kind(g), Way, pos[r][g], At(r, g)) /\ (do # "end" => NotStopped(r, g))
<1> DEFINE c == Kind(g)
<1>1. pc[r][g] = "running" /\ At(r, g).do = do /\ At(r, g) = TailOf(c)[pos[r][g]] /\ Moves(r, g)
  BY KindOf DEF Runs, At, Advance, Moves
<1>2. pos[r][g] \in Nat \ {0} /\ pos[r][g] <= Len(TailOf(c)) /\ c \in Tails /\ Way \in Ways
  BY KindOf, Ways_ DEF Runs, StepTypeOK
<1>3. pos[r][g] \in 1..Len(TailOf(c))
  <2>1. Len(TailOf(c)) = Behind(c) - 1 /\ Behind(c) \in Nat
    BY <1>2, Layout, Numbers_
  <2> HIDE DEF c
  <2> QED BY <1>2, <2>1
<1>4. pos[r][g] \in 1..(Behind(c) - 1) /\ StepIs(c, Way, pos[r][g], At(r, g))
  BY <1>1, <1>2, <1>3, Shape, Steps
<1>5. do # "end" => NotStopped(r, g)
  BY <1>1, <1>2, <1>3, LastEnd, Ways_ DEF NotStopped
<1>6. pos[r][g] \in Int /\ K \in Nat
  BY <1>2, <1>3, LastEnd
<1> QED BY <1>1, <1>2, <1>3, <1>4, <1>5, <1>6, Moved

\* What does not end a phase leaves the last event as it is.
LEMMA SameEvent ==
  ASSUME NEW r \in Ranks, NEW g \in Groups, Steady(r), NEW p \in 1..Len(TailOf(Kind(g))), pos[r][g] = p,
         TailOf(Kind(g))[p].do # "end", lastEvent'[r][g] = lastEvent[r][g]
  PROVE  Pipelined /\ p + 1 >= K + 4 => SpOps(g) \subseteq lastEvent'[r][g]
<1>1. p # K + 3 /\ p \in Int /\ K \in Nat
  BY KindOf, LastEnd
<1>2. p + 1 >= K + 4 => p >= K + 4
  BY <1>1
<1> QED BY <1>2 DEF Steady, Ordered, Gathers

LEMMA ComputeSteady ==
  ASSUME TurnInv, StepTypeOK, NEW r \in Ranks, NEW g \in Groups, Steady(r), Compute(r, g)
  PROVE  Steady(r)'
<1> DEFINE p == pos[r][g]
           c == Kind(g)
           i == TailOf(c)[p]
<1>0. /\ Runs(r, g, "comp") /\ Advance(r, g) /\ Issue(r, g) /\ case' = case /\ calls' = calls
      /\ UNCHANGED <<main, groups, pc, wake, finished, errors, pending>>
      /\ UNCHANGED <<phases, open, pending, lastEvent, kept, ctx, row>>
  BY DEF Compute
<1>1. /\ p \in 1..Len(TailOf(c)) /\ p \in 1..(Behind(c) - 1) /\ i.do = "comp" /\ pc[r][g] = "running"
      /\ Moves(r, g) /\ At(r, g) = i /\ pos'[r][g] = p + 1 /\ pos'[r][Other(g)] = pos[r][Other(g)]
      /\ NotStopped(r, g) /\ c \in Tails
  BY <1>0, AtWork
<1>2. /\ row[r] = g /\ ctx[r] = CtxAt(c, g, p) /\ pending[r][g] = {}
      /\ PinnedAt(c, p) => pin[r] = <<g>>
      /\ open[r][g] = OpenAt(c, Way, p) /\ phases[r][g] = ClosedAt(c, Way, p)
      /\ Issued(c, g, p, ahead[r][Stream(r, g)]) /\ pc[r][Other(g)] # "running"
  BY <1>1, Here
<1>3. /\ ~GivesTurn(c, Way, p) /\ OpenAt(c, Way, p + 1) = OpenAt(c, Way, p) /\ OpenAt(c, Way, p) = "none"
      /\ ClosedAt(c, Way, p + 1) = ClosedAt(c, Way, p) /\ (InReplayAt(c, p + 1) <=> InReplayAt(c, p))
      /\ i.name # "moe" => (PinnedAt(c, p + 1) => PinnedAt(c, p))
      /\ i.name = "moe" => ~PinnedAt(c, p + 1)
      /\ i.name # "tail"
  <2>1. StepIs(c, Way, p, At(r, g))
    BY <1>0, AtWork
  <2>2. CompIs(c, Way, p, i)
    BY <1>1, <2>1 DEF StepIs
  <2> QED BY <2>2 DEF CompIs, SameAfter, StaysAfter, PinAfter
<1>4. Grows(r) /\ Op(g, i) \in ahead'[r][Stream(r, g)] /\ Clean(r)'
  BY <1>0, <1>1, IssuedHere
<1>5. Placed(r)' /\ Called(r)'
  BY <1>0, <1>1, <1>3, MoveOn, CalledNoMore
<1>6. Still(r, Other(g))
  BY <1>0, <1>1 DEF Still
<1>7. /\ Way' = Way /\ Kind(g)' = c /\ Stream(r, g) = "C" /\ Stream(r, g)' = "C"
      /\ ahead[r]["C"] \subseteq ahead'[r]["C"]
  BY <1>0, <1>2, <1>3, <1>4, SameCase DEF Stream, Grows, Streams
<1>8. Owns(r, g)'
  <2>1. PinnedAt(c, p + 1) => pin'[r] = <<g>>
    <3>1. PinnedAt(c, p + 1) => i.name # "moe" /\ PinnedAt(c, p)
      BY <1>3
    <3>2. i.name # "moe" => pin' = pin
      BY <1>1 DEF Compute
    <3> QED BY <1>2, <3>1, <3>2
  <2> HIDE DEF c
  <2> QED BY <1>0, <1>1, <1>2, <1>3, <1>7, <2>1 DEF Owns, CtxAt
<1>9. Ordered(r, g)'
  <2>1. Issued(c, g, p + 1, ahead'[r]["C"])
    BY <1>1, <1>2, <1>4, <1>7, IssuedNext
  <2>2. Issued(c, g, p + 1, ahead'[r][Stream(r, g)'] \cup pending'[r][g])
    BY <1>7, <2>1, IssuedGrows
  <2>3. Ordered(r, g)
    BY DEF Steady
  <2>4. Pipelined /\ p + 1 >= K + 4 => SpOps(g) \subseteq lastEvent'[r][g]
    BY <1>0, <1>1, SameEvent
  <2> QED BY <1>0, <1>1, <1>3, <1>4, <1>7, <2>1, <2>2, <2>3, <2>4, OrderedOn
<1> QED BY <1>0, <1>1, <1>2, <1>4, <1>5, <1>6, <1>8, <1>9, Keeps

LEMMA CollectiveSteady ==
  ASSUME TurnInv, StepTypeOK, NEW r \in Ranks, NEW g \in Groups, Steady(r), Collective(r, g)
  PROVE  Steady(r)'
<1> DEFINE p == pos[r][g]
           c == Kind(g)
           i == TailOf(c)[p]
<1>0. /\ Runs(r, g, "coll") /\ Advance(r, g) /\ Issue(r, g) /\ case' = case
      /\ UNCHANGED <<main, groups, pc, wake, finished, errors, pending>>
      /\ UNCHANGED <<phases, open, pending, lastEvent, kept, ctx, pin, row>>
  BY DEF Collective, globalVars
<1>1. /\ p \in 1..Len(TailOf(c)) /\ p \in 1..(Behind(c) - 1) /\ i.do = "coll" /\ pc[r][g] = "running"
      /\ Moves(r, g) /\ At(r, g) = i /\ pos'[r][g] = p + 1 /\ pos'[r][Other(g)] = pos[r][Other(g)]
      /\ NotStopped(r, g) /\ c \in Tails
  BY <1>0, AtWork
<1>2. /\ row[r] = g /\ ctx[r] = CtxAt(c, g, p) /\ pending[r][g] = {}
      /\ PinnedAt(c, p) => pin[r] = <<g>>
      /\ open[r][g] = OpenAt(c, Way, p) /\ phases[r][g] = ClosedAt(c, Way, p)
      /\ Issued(c, g, p, ahead[r][Stream(r, g)]) /\ pc[r][Other(g)] # "running"
  BY <1>1, Here
<1>3. /\ ~GivesTurn(c, Way, p) /\ OpenAt(c, Way, p + 1) = OpenAt(c, Way, p)
      /\ ClosedAt(c, Way, p + 1) = ClosedAt(c, Way, p) /\ (InReplayAt(c, p + 1) <=> InReplayAt(c, p))
      /\ (PinnedAt(c, p + 1) => PinnedAt(c, p)) /\ i.name \notin KvNames
      /\ i.name = "tail" => OpenAt(c, Way, p) = (IF Way = "stream" THEN "replay" ELSE "none")
  <2>1. StepIs(c, Way, p, At(r, g))
    BY <1>0, AtWork
  <2>2. CollIs(c, Way, p, i)
    BY <1>1, <2>1 DEF StepIs
  <2> QED BY <2>2 DEF CollIs, SameAfter, StaysAfter, PinAfter, KvNames
<1>4. Grows(r) /\ Op(g, i) \in ahead'[r][Stream(r, g)] /\ Clean(r)'
  BY <1>0, <1>1, IssuedHere
<1>5. Placed(r)'
  BY <1>0, <1>1, <1>3, MoveOn
<1>10. Called(r)'
  <2>1. calls' = [calls EXCEPT ![r] = Append(@, Op(g, i))]
    BY <1>1 DEF Collective
  <2> QED BY <1>0, <1>1, <2>1, CalledMore
<1>6. Still(r, Other(g))
  BY <1>0, <1>1 DEF Still
<1>7. /\ Way' = Way /\ Kind(g)' = c /\ Stream(r, g)' = Stream(r, g)
      /\ ahead[r][Stream(r, g)] \subseteq ahead'[r][Stream(r, g)]
      /\ i.name = "tail" => Stream(r, g) = TailStream
  <2>1. Stream(r, g) \in Streams
    <3>1. open[r][g] \in {"none", "comm", "replay"}
      BY DEF TurnInv, TurnTypeOK
    <3> QED BY <3>1, StreamOf DEF Streams
  <2>2. i.name = "tail" => Stream(r, g) = TailStream
    BY <1>2, <1>3 DEF Stream, TailStream
  <2> QED BY <1>0, <1>4, <2>1, <2>2, SameCase DEF Stream, Grows
<1>8. Owns(r, g)'
  <2> HIDE DEF c
  <2> QED BY <1>0, <1>1, <1>2, <1>3, <1>7 DEF Owns, CtxAt
<1>9. Ordered(r, g)'
  <2>1. Issued(c, g, p + 1, ahead'[r][Stream(r, g)])
    BY <1>1, <1>2, <1>4, <1>7, IssuedNext
  <2>2. Issued(c, g, p + 1, ahead'[r][Stream(r, g)'] \cup pending'[r][g])
    BY <1>7, <2>1, IssuedGrows
  <2>3. Ordered(r, g)
    BY DEF Steady
  <2>4. Pipelined /\ p + 1 >= K + 4 => SpOps(g) \subseteq lastEvent'[r][g]
    BY <1>0, <1>1, SameEvent
  <2> QED BY <1>0, <1>1, <1>3, <1>4, <1>7, <2>2, <2>3, <2>4, OrderedOn
<1> QED BY <1>0, <1>1, <1>2, <1>4, <1>5, <1>6, <1>8, <1>9, <1>10, Keeps

\* Opening a phase makes its stream wait for the compute stream.
LEMMA OpenGrows ==
  ASSUME StepTypeOK, NEW r \in Ranks, NEW g \in Groups, NEW kind, NEW s \in {"N", "R"}, NEW upTo,
         OpenPhase(r, g, kind, s, upTo), ahead[r]["C"] \subseteq upTo, upTo \subseteq ahead[r]["C"] \/ Pipelined
  PROVE  Grows(r) /\ upTo \subseteq ahead'[r]["C"] /\ (Pipelined => upTo \subseteq ahead'[r][s])
<1>1. r \in DOMAIN ahead /\ DOMAIN ahead[r] = {"C", "N", "R"} /\ Streams = {"C", "N", "R"}
  BY DEF StepTypeOK, Row, Streams
<1>2. CASE Pipelined
  <2>1. ahead' = [ahead EXCEPT ![r][s] = @ \cup upTo, ![r]["C"] = upTo]
    BY <1>2 DEF OpenPhase
  <2>2. /\ ahead'[r]["C"] = upTo /\ ahead'[r][s] = ahead[r][s] \cup upTo
        /\ \A x \in Streams \ {"C", s} : ahead'[r][x] = ahead[r][x]
    BY <1>1, <2>1
  <2> QED BY <1>1, <2>2 DEF Grows
<1>3. CASE ~Pipelined
  BY <1>3 DEF OpenPhase, Grows
<1> QED BY <1>2, <1>3

LEMMA PhaseBeginSteady ==
  ASSUME TurnInv, StepTypeOK, NEW r \in Ranks, NEW g \in Groups, Steady(r), PhaseBegin(r, g)
  PROVE  Steady(r)'
<1> DEFINE p == pos[r][g]
           c == Kind(g)
           i == TailOf(c)[p]
           A == ahead[r]["C"]
<1>0. /\ Runs(r, g, "begin") /\ Advance(r, g) /\ case' = case /\ calls' = calls
      /\ OpenPhase(r, g, "comm", "N", A)
      /\ UNCHANGED <<main, groups, pc, wake, finished, errors, pending>>
      /\ UNCHANGED <<phases, lastEvent, kept, ctx, row, early, foreign>>
  BY DEF PhaseBegin
<1>1. /\ p \in 1..Len(TailOf(c)) /\ p \in 1..(Behind(c) - 1) /\ i.do = "begin" /\ pc[r][g] = "running"
      /\ Moves(r, g) /\ At(r, g) = i /\ pos'[r][g] = p + 1 /\ pos'[r][Other(g)] = pos[r][Other(g)]
      /\ NotStopped(r, g) /\ c \in Tails
  BY <1>0, AtWork
<1>2. /\ row[r] = g /\ ctx[r] = CtxAt(c, g, p) /\ pending[r][g] = {}
      /\ PinnedAt(c, p) => pin[r] = <<g>>
      /\ open[r][g] = OpenAt(c, Way, p) /\ phases[r][g] = ClosedAt(c, Way, p)
      /\ Issued(c, g, p, ahead[r][Stream(r, g)]) /\ pc[r][Other(g)] # "running"
  BY <1>1, Here
<1>3. /\ ~GivesTurn(c, Way, p) /\ OpenAt(c, Way, p + 1) = (IF Way = "alone" THEN "none" ELSE "comm")
      /\ OpenAt(c, Way, p) = "none"
      /\ ClosedAt(c, Way, p + 1) = ClosedAt(c, Way, p) /\ (InReplayAt(c, p + 1) <=> InReplayAt(c, p))
      /\ i.name # "in" => PinnedAt(c, p)
  <2>1. StepIs(c, Way, p, At(r, g))
    BY <1>0, AtWork
  <2>2. BeginIs(c, Way, p, i)
    BY <1>1, <2>1 DEF StepIs
  <2> QED BY <2>2 DEF BeginIs, StaysAfter
<1>4. Pipelined <=> Way # "alone"
  BY Ways_
<1>5. /\ open'[r][g] = OpenAt(c, Way, p + 1) /\ open'[r][Other(g)] = open[r][Other(g)]
  <2>1. open \in [Ranks -> [Groups -> {"none", "comm", "replay"}]]
    BY DEF TurnInv, TurnTypeOK
  <2>2. CASE Pipelined
    <3>1. open' = [open EXCEPT ![r][g] = "comm"]
      BY <1>0, <2>2 DEF OpenPhase
    <3> QED BY <1>3, <1>4, <2>1, <2>2, <3>1, TwoGroups
  <2>3. CASE ~Pipelined
    BY <1>0, <1>2, <1>3, <1>4, <2>3 DEF OpenPhase
  <2> QED BY <2>2, <2>3
<1>6. Grows(r) /\ A \subseteq ahead'[r]["C"] /\ (Pipelined => A \subseteq ahead'[r]["N"])
  BY <1>0, OpenGrows
<1>7. Placed(r)' /\ Called(r)'
  BY <1>0, <1>1, <1>3, MoveOn, CalledNoMore
<1>8. Still(r, Other(g))
  BY <1>0, <1>1, <1>5 DEF Still
<1>9. /\ Way' = Way /\ Kind(g)' = c /\ Stream(r, g) = "C" /\ Stream(r, g)' = (IF Pipelined THEN "N" ELSE "C")
  BY <1>0, <1>2, <1>3, <1>4, <1>5, SameCase DEF Stream
<1>10. Owns(r, g)'
  <2>1. PinnedAt(c, p + 1) => pin'[r] = <<g>>
    <3>1. CASE i.name = "in"
      BY <1>1, <3>1 DEF PhaseBegin, StepTypeOK, Row
    <3>2. CASE i.name # "in"
      BY <1>1, <1>2, <1>3, <3>2 DEF PhaseBegin
    <3> QED BY <3>1, <3>2
  <2> HIDE DEF c
  <2> QED BY <1>0, <1>1, <1>2, <1>3, <1>5, <1>9, <2>1 DEF Owns, CtxAt
<1>11. Ordered(r, g)'
  <2>1. Issued(c, g, p + 1, A)
    BY <1>1, <1>2, <1>9, IssuedNext
  <2>2. Issued(c, g, p + 1, ahead'[r][Stream(r, g)'] \cup pending'[r][g])
    <3>1. A \subseteq ahead'[r][Stream(r, g)'] \cup pending'[r][g]
      BY <1>6, <1>9
    <3> QED BY <2>1, <3>1, IssuedGrows
  <2>3. Ordered(r, g)
    BY DEF Steady
  <2>4. Pipelined /\ p + 1 >= K + 4 => SpOps(g) \subseteq lastEvent'[r][g]
    BY <1>0, <1>1, SameEvent
  <2> QED BY <1>0, <1>1, <1>3, <1>5, <1>6, <2>2, <2>3, <2>4, OrderedOn
<1>12. Clean(r)'
  BY <1>0, SameCase DEF Steady, Clean
<1> QED BY <1>0, <1>1, <1>2, <1>6, <1>7, <1>8, <1>10, <1>11, <1>12, Keeps

\* Behind the gate the layers of both groups that read the whole step are complete.
LEMMA GateHolds ==
  ASSUME TurnInv, NEW r \in Ranks, NEW g \in Groups, Steady(r), pc[r][g] = "running",
         Kind(g) = "cut", pos[r][g] = K + 5
  PROVE  /\ ahead[r]["C"] \subseteq AfterGate(r, g) /\ (~Pipelined => AfterGate(r, g) = ahead[r]["C"])
         /\ Gate => \A h \in Groups : SpOps(h) \subseteq AfterGate(r, g)
<1>0. /\ Groups = {0, 1} /\ Other(0) = 1 /\ Other(1) = 0 /\ K \in Nat
      /\ Way \in Ways /\ (Pipelined <=> Way # "alone") /\ Kind(0) \in Tails /\ Kind(1) \in Tails
  BY TwoGroups, Sizes, Ways_, KindOf DEF Size
<1>1. ahead[r]["C"] \subseteq AfterGate(r, g) /\ (~Pipelined => AfterGate(r, g) = ahead[r]["C"])
  BY DEF AfterGate, Gated
<1>2. SpOps(g) \subseteq ahead[r]["C"]
  BY <1>0 DEF Steady, Ordered, Gathers
<1>3. pos[r][Other(g)] = Opposite(Kind(Other(g)), Way, g, "cut", K + 5)
  BY OtherIs
<1>4. ASSUME Gate PROVE \A h \in Groups : SpOps(h) \subseteq AfterGate(r, g)
  <2>1. CASE g = 0
    <3>1. pos[r][1] = K + 4
      BY <1>0, <1>3, <1>4, <2>1, AtGate DEF Gate
    <3>2. SpOps(1) \subseteq lastEvent[r][1]
      BY <1>0, <1>4, <3>1 DEF Steady, Ordered, Gathers, Gate
    <3>3. 1 \in Later(0)
      BY <1>0 DEF Later
    <3>4. lastEvent[r][1] \subseteq AfterGate(r, g)
      BY <1>4, <2>1, <3>3 DEF AfterGate, Gated, Gate
    <3> QED BY <1>0, <1>1, <1>2, <2>1, <3>2, <3>4
  <2>2. CASE g = 1
    <3>1. pos[r][0] > K + 4
      BY <1>0, <1>3, <2>2, AtGate
    <3>2. SpOps(0) \subseteq ahead[r]["C"]
      BY <1>0, <3>1 DEF Steady, Ordered, Gathers
    <3> QED BY <1>0, <1>1, <1>2, <2>2, <3>2
  <2> QED BY <1>0, <2>1, <2>2
<1> QED BY <1>1, <1>4

\* The replay of group 1 reads keys and values that group 0 has written.
LEMMA ReplayReads ==
  ASSUME TurnInv, NEW r \in Ranks, Steady(r), pc[r][1] = "running", Kind(1) = "cut", pos[r][1] = K + 5
  PROVE  KvOp(0, SpLayers + 1) \in ahead[r]["C"]
<1> DEFINE z == pos[r][0]
           l == SpLayers + 1
<1>0. /\ Other(1) = 0 /\ 0 \in Groups /\ 1 \in Groups /\ Way \in Ways /\ Kind(0) \in Tails
      /\ Ordered(r, 0) /\ Placed(r) /\ SpLayers \in Nat /\ TailLayers \in Nat \ {0} /\ K = 8 * SpLayers
  BY TwoGroups, Ways_, KindOf, Sizes DEF Steady, Size
<1>1. z = Opposite(Kind(0), Way, 1, "cut", K + 5)
  BY <1>0, OtherIs
<1>2. z > K + 4 /\ z \in Int
  <2>1. Opposite(Kind(0), Way, 1, "cut", K + 5) > K + 4
    BY <1>0, AtGate
  <2>2. z \in 1..Behind(Kind(0)) /\ Behind(Kind(0)) \in Nat
    BY <1>0, Numbers_ DEF Placed, Place1
  <2> QED BY <1>1, <2>1, <2>2
<1>3. l \in 1..(SpLayers + TailLayers) /\ ~(l > SpLayers + 1) /\ l <= SpLayers + 1
  BY <1>0
<1>4. WrittenAt(Kind(0), l) < z
  <2>1. WrittenAt(Kind(0), l) = 8 * l - 4
    BY <1>3 DEF WrittenAt
  <2>2. 8 * l - 4 = K + 4
    BY <1>0
  <2> HIDE DEF z, l
  <2> QED BY <1>2, <2>1, <2>2
<1>5. NamesIssued(Kind(0), 0, WrittenBy(Kind(0), l), z, ahead[r]["C"])
  BY <1>0, <1>3 DEF Ordered, Written, WrittenBy
<1> HIDE DEF z, l
<1>6. KvOp(0, l) \in ahead[r]["C"]
  BY <1>2, <1>3, <1>4, <1>5, KvThere
<1> QED BY <1>6 DEF l

LEMMA ReplayBeginSteady ==
  ASSUME TurnInv, StepTypeOK, NEW r \in Ranks, NEW g \in Groups, Steady(r), ReplayBegin(r, g)
  PROVE  Steady(r)'
<1> DEFINE p == pos[r][g]
           c == Kind(g)
           i == TailOf(c)[p]
           A == ahead[r]["C"]
           G == AfterGate(r, g)
<1>0. /\ Runs(r, g, "replay") /\ Advance(r, g) /\ case' = case /\ calls' = calls
      /\ UNCHANGED <<main, groups, pc, wake, finished, errors, pending>>
      /\ UNCHANGED <<phases, lastEvent, kept, ctx, pin, row, early, foreign>>
  BY DEF ReplayBegin, globalVars
<1>1. /\ p \in 1..Len(TailOf(c)) /\ p \in 1..(Behind(c) - 1) /\ i.do = "replay" /\ pc[r][g] = "running"
      /\ Moves(r, g) /\ At(r, g) = i /\ pos'[r][g] = p + 1 /\ pos'[r][Other(g)] = pos[r][Other(g)]
      /\ NotStopped(r, g) /\ c \in Tails
  BY <1>0, AtWork
<1>2. /\ row[r] = g /\ ctx[r] = CtxAt(c, g, p) /\ pending[r][g] = {}
      /\ open[r][g] = OpenAt(c, Way, p) /\ phases[r][g] = ClosedAt(c, Way, p)
      /\ Issued(c, g, p, ahead[r][Stream(r, g)]) /\ pc[r][Other(g)] # "running"
  BY <1>1, Here
<1>3. /\ ~GivesTurn(c, Way, p) /\ OpenAt(c, Way, p + 1) = (IF Way = "stream" THEN "replay" ELSE "none")
      /\ OpenAt(c, Way, p) = "none" /\ ClosedAt(c, Way, p + 1) = ClosedAt(c, Way, p)
      /\ (InReplayAt(c, p + 1) <=> InReplayAt(c, p)) /\ ~PinnedAt(c, p + 1) /\ c = "cut" /\ p = K + 5 /\ K \in Nat
  <2>1. StepIs(c, Way, p, At(r, g)) /\ K \in Nat
    BY <1>0, AtWork
  <2>2. ReplayIs(c, Way, p)
    BY <1>1, <2>1 DEF StepIs
  <2> QED BY <2>1, <2>2 DEF ReplayIs, StaysAfter
<1>4. /\ (Way = "alone" <=> ~Pipelined) /\ (Way = "stream" <=> Pipelined /\ setup.replay = "stream")
      /\ Way' = Way /\ (Pipelined' <=> Pipelined) /\ (Gate' <=> Gate) /\ Kind(g)' = c /\ TailStream' = TailStream
      /\ \A h, l : KvOp(h, l)' = KvOp(h, l)
  BY <1>0, Ways_, SameCase
<1>5. A \subseteq G /\ (~Pipelined => G = A) /\ (Gate => \A h \in Groups : SpOps(h) \subseteq G)
  BY <1>1, <1>3, GateHolds
<1>6. /\ Grows(r) /\ G \subseteq ahead'[r]["C"] /\ (Way = "stream" => G \subseteq ahead'[r]["R"])
      /\ open'[r][g] = OpenAt(c, Way, p + 1) /\ open'[r][Other(g)] = open[r][Other(g)]
  <2>1. open \in [Ranks -> [Groups -> {"none", "comm", "replay"}]]
    BY DEF TurnInv, TurnTypeOK
  <2>2. CASE setup.replay = "stream"
    <3>1. OpenPhase(r, g, "replay", "R", G)
      BY <2>2 DEF ReplayBegin
    <3>2. Grows(r) /\ G \subseteq ahead'[r]["C"] /\ (Way = "stream" => G \subseteq ahead'[r]["R"])
      BY <1>4, <1>5, <3>1, OpenGrows
    <3>3. CASE Pipelined
      <4>1. open' = [open EXCEPT ![r][g] = "replay"]
        BY <3>1, <3>3 DEF OpenPhase
      <4> QED BY <1>3, <1>4, <2>1, <2>2, <3>2, <3>3, <4>1, TwoGroups
    <3>4. CASE ~Pipelined
      BY <1>2, <1>3, <1>4, <3>1, <3>2, <3>4 DEF OpenPhase
    <3> QED BY <3>3, <3>4
  <2>3. CASE setup.replay # "stream"
    <3>1. ahead' = [ahead EXCEPT ![r]["C"] = G] /\ open' = open
      BY <2>3 DEF ReplayBegin
    <3>2. r \in DOMAIN ahead /\ DOMAIN ahead[r] = Streams /\ "C" \in Streams
      BY DEF StepTypeOK, Row, Streams
    <3>3. ahead'[r]["C"] = G /\ \A x \in Streams \ {"C"} : ahead'[r][x] = ahead[r][x]
      BY <3>1, <3>2
    <3>4. Grows(r)
      BY <1>5, <3>3 DEF Grows
    <3> QED BY <1>2, <1>3, <1>4, <2>3, <3>1, <3>3, <3>4
  <2> QED BY <2>2, <2>3
<1>7. Placed(r)' /\ Called(r)'
  BY <1>0, <1>1, <1>3, MoveOn, CalledNoMore
<1>8. Still(r, Other(g))
  BY <1>0, <1>1, <1>6 DEF Still
<1>9. Stream(r, g) = "C" /\ Stream(r, g)' = (IF Way = "stream" THEN "R" ELSE "C")
  BY <1>2, <1>3, <1>6 DEF Stream
<1>10. Owns(r, g)'
  <2> HIDE DEF c, G
  <2> QED BY <1>0, <1>1, <1>2, <1>3, <1>4, <1>6 DEF Owns, CtxAt
<1>11. Ordered(r, g)'
  <2>0. Ordered(r, g) /\ p > K + 4
    BY <1>3 DEF Steady
  <2>1. Issued(c, g, p + 1, G)
    BY <1>1, <1>2, <1>5, <1>9, IssuedNext
  <2>2. Issued(c, g, p + 1, ahead'[r][Stream(r, g)'] \cup pending'[r][g])
    <3>1. G \subseteq ahead'[r][Stream(r, g)'] \cup pending'[r][g]
      BY <1>6, <1>9
    <3> QED BY <2>1, <3>1, IssuedGrows
  <2>3. Written(r, g)'
    <3>1. TailStream \in Streams /\ "C" \in Streams
      BY DEF TailStream, Streams
    <3>2. ahead[r]["C"] \subseteq ahead'[r]["C"] /\ ahead[r][TailStream] \subseteq ahead'[r][TailStream]
      BY <1>6, <3>1 DEF Grows
    <3>3. NamesIssued(c, g, KvNames, p + 1, ahead'[r]["C"]) /\ NamesIssued(c, g, {"tail"}, p + 1, ahead'[r][TailStream])
      BY <1>1, <2>0, <3>2, IssuedNext DEF Ordered, Written
    <3> QED BY <1>1, <1>4, <3>3 DEF Written
  <2>4. SpOps(g) \subseteq ahead'[r]["C"] /\ (Pipelined => SpOps(g) \subseteq lastEvent'[r][g])
    BY <1>0, <1>3, <1>5, <1>6, <2>0 DEF Ordered, Gathers
  <2>5. g = 1 /\ open'[r][g] = "replay" => KvOp(0, SpLayers + 1) \in ahead'[r]["R"]
    <3>1. CASE g = 1 /\ open'[r][g] = "replay"
      <4>1. KvOp(0, SpLayers + 1) \in A
        BY <1>1, <1>3, <3>1, ReplayReads
      <4> QED BY <1>3, <1>5, <1>6, <3>1, <4>1
    <3> QED BY <3>1
  <2>6. Gate => \A h \in Groups :
          /\ SpOps(h) \subseteq ahead'[r]["C"]
          /\ open'[r][g] = "replay" => SpOps(h) \subseteq ahead'[r]["R"]
    BY <1>3, <1>5, <1>6
  <2>7. Gathers(r, g)'
    BY <1>1, <1>4, <2>4, <2>5, <2>6 DEF Gathers
  <2> QED BY <1>1, <1>4, <2>2, <2>3, <2>7 DEF Ordered
<1>12. Clean(r)'
  BY <1>0, SameCase DEF Steady, Clean
<1> QED BY <1>0, <1>1, <1>2, <1>6, <1>7, <1>8, <1>10, <1>11, <1>12, Keeps

LEMMA ContextSteady ==
  ASSUME TurnInv, StepTypeOK, NEW r \in Ranks, NEW g \in Groups, Steady(r), EnterReplay(r, g) \/ LeaveReplay(r, g)
  PROVE  Steady(r)'
<1> DEFINE p == pos[r][g]
           c == Kind(g)
           i == TailOf(c)[p]
<1>0. /\ Advance(r, g) /\ case' = case /\ calls' = calls /\ early' = early /\ foreign' = foreign /\ ahead' = ahead
      /\ UNCHANGED <<main, groups, pc, wake, finished, errors, pending>>
      /\ UNCHANGED <<phases, open, lastEvent, kept, pin, row>>
      /\ \/ Runs(r, g, "enter") /\ ctx' = [ctx EXCEPT ![r] = ReplayCtx(g)]
         \/ Runs(r, g, "leave") /\ ctx' = [ctx EXCEPT ![r] = Ctx(g)]
  BY DEF EnterReplay, LeaveReplay, gpuVars
<1>1. /\ p \in 1..Len(TailOf(c)) /\ p \in 1..(Behind(c) - 1) /\ i.do \in {"enter", "leave"} /\ pc[r][g] = "running"
      /\ Moves(r, g) /\ At(r, g) = i /\ pos'[r][g] = p + 1 /\ pos'[r][Other(g)] = pos[r][Other(g)]
      /\ NotStopped(r, g) /\ c \in Tails
  BY <1>0, AtWork
<1>2. /\ row[r] = g /\ ctx[r] = CtxAt(c, g, p) /\ pending[r][g] = {}
      /\ open[r][g] = OpenAt(c, Way, p) /\ phases[r][g] = ClosedAt(c, Way, p)
      /\ Issued(c, g, p, ahead[r][Stream(r, g)]) /\ pc[r][Other(g)] # "running"
  BY <1>1, Here
<1>3. /\ ~GivesTurn(c, Way, p) /\ OpenAt(c, Way, p + 1) = OpenAt(c, Way, p) /\ ClosedAt(c, Way, p + 1) = ClosedAt(c, Way, p)
      /\ (i.do = "enter" => InReplayAt(c, p + 1)) /\ (i.do = "leave" => ~InReplayAt(c, p + 1)) /\ ~PinnedAt(c, p + 1)
  <2>1. StepIs(c, Way, p, At(r, g))
    BY <1>0, AtWork
  <2>2. StepIs(c, Way, p, i)
    BY <1>1, <2>1
  <2> HIDE DEF i
  <2> QED BY <1>1, <2>2 DEF StepIs, ContextIs, SameAfter
<1>4. Placed(r)' /\ Called(r)'
  BY <1>0, <1>1, <1>3, MoveOn, CalledNoMore
<1>5. Still(r, Other(g)) /\ Grows(r) /\ Way' = Way /\ Kind(g)' = c /\ Stream(r, g)' = Stream(r, g)
  BY <1>0, <1>1, SameCase DEF Still, Grows, Stream
<1>6. Owns(r, g)'
  <2>1. ctx'[r] = CtxAt(c, g, p + 1)
    <3>1. \/ i.do = "enter" /\ ctx' = [ctx EXCEPT ![r] = ReplayCtx(g)]
          \/ i.do = "leave" /\ ctx' = [ctx EXCEPT ![r] = Ctx(g)]
      BY <1>0, <1>1 DEF Runs
    <3>2. DOMAIN ctx = Ranks
      BY DEF StepTypeOK, Row
    <3> HIDE DEF c, i, p
    <3> QED BY <1>3, <3>1, <3>2 DEF CtxAt
  <2> HIDE DEF c
  <2> QED BY <1>0, <1>1, <1>2, <1>3, <1>5, <2>1 DEF Owns
<1>7. Ordered(r, g)'
  <2>1. Issued(c, g, p + 1, ahead'[r][Stream(r, g)'] \cup pending'[r][g])
    <3>1. Issued(c, g, p + 1, ahead[r][Stream(r, g)])
      BY <1>1, <1>2, IssuedNext
    <3> QED BY <1>0, <1>5, <3>1, IssuedGrows
  <2>2. Ordered(r, g)
    BY DEF Steady
  <2>3. Pipelined /\ p + 1 >= K + 4 => SpOps(g) \subseteq lastEvent'[r][g]
    BY <1>0, <1>1, SameEvent
  <2>4. i.do \notin {"comp", "coll", "replay"}
    BY <1>1
  <2> QED BY <1>0, <1>1, <1>5, <2>1, <2>2, <2>3, <2>4, OrderedOn
<1>8. Clean(r)'
  BY <1>0, SameCase DEF Steady, Clean
<1> QED BY <1>0, <1>1, <1>2, <1>4, <1>5, <1>6, <1>7, <1>8, Keeps

-----------------------------------------------------------------------------
(* Instructions that give the turn away *)

\* A hand-over, to a group that waits or past one that is done.
LEMMA GiveSteady ==
  ASSUME TurnInv, StepTypeOK, NEW r \in Ranks, NEW g \in Groups, Steady(r), case' = case,
         NEW do \in {"end", "yield", "rend"}, Runs(r, g, do), Advance(r, g), Way # "alone",
         GivesTurn(Kind(g), Way, pos[r][g]), NotStopped(r, g),
         NEW event, NEW myPin, HandOver(r, g, event, myPin),
         open'[r][g] = OpenAt(Kind(g), Way, pos[r][g] + 1), phases'[r][g] = ClosedAt(Kind(g), Way, pos[r][g] + 1),
         open'[r][Other(g)] = open[r][Other(g)], phases'[r][Other(g)] = phases[r][Other(g)],
         lastEvent'[r][Other(g)] = lastEvent[r][Other(g)],
         UNCHANGED <<main, groups, finished, errors, calls, early, foreign>>,
         InReplayAt(Kind(g), pos[r][g] + 1) <=> InReplayAt(Kind(g), pos[r][g]),
         PinnedAt(Kind(g), pos[r][g] + 1) => myPin = <<g>>,
         Issued(Kind(g), g, pos[r][g], ahead[r][Stream(r, g)'] \cup event),
         open'[r][g] # "none" => event = {}, open'[r][g] = "replay" => open[r][g] = "replay",
         Pipelined /\ pos[r][g] + 1 >= K + 4 => SpOps(g) \subseteq lastEvent'[r][g]
  PROVE  Steady(r)'
<1> DEFINE p == pos[r][g]
           c == Kind(g)
           i == TailOf(c)[p]
           o == Other(g)
           s == Stream(r, g)'
<1>1. /\ p \in 1..Len(TailOf(c)) /\ p \in 1..(Behind(c) - 1) /\ i.do = do /\ pc[r][g] = "running"
      /\ Moves(r, g) /\ At(r, g) = i /\ pos'[r][g] = p + 1 /\ pos'[r][o] = pos[r][o] /\ c \in Tails
  BY AtWork
<1>2. row[r] = g /\ ctx[r] = CtxAt(c, g, p) /\ pc[r][o] # "running" /\ pending[r][g] = {}
  BY <1>1, Here
<1>3. IF NoMate(r, g) THEN GoOn(r, g, event, myPin) ELSE GiveTurn(r, g, event, myPin)
  BY <1>1, OtherIs DEF HandOver
<1>4. Called(r)'
  BY <1>1, CalledNoMore
<1>5. Way' = Way /\ Kind(g)' = c /\ Clean(r)'
  BY SameCase DEF Steady, Clean
<1>6. s \in Streams /\ (open'[r][g] = "none" => s = "C")
  <2>1. open'[r][g] \in {"none", "comm", "replay"}
    BY DEF OpenAt
  <2> QED BY <2>1 DEF Stream, Streams
<1>7. ASSUME Grows(r), Issued(c, g, p, ahead'[r][s] \cup pending'[r][g]) PROVE Ordered(r, g)'
  <2>1. Issued(c, g, p + 1, ahead'[r][s] \cup pending'[r][g])
    BY <1>1, <1>7, IssuedNext
  <2>2. Ordered(r, g)
    BY DEF Steady
  <2>3. i.do \notin {"comp", "coll", "replay"}
    BY <1>1
  <2> QED BY <1>1, <1>7, <2>1, <2>2, <2>3, OrderedOn
<1>a. Issued(c, g, p, ahead[r][s] \cup event)
  OBVIOUS
<1>8. CASE NoMate(r, g)
  <2>1. /\ ahead' = [ahead EXCEPT ![r]["C"] = @ \cup event] /\ row' = [row EXCEPT ![r] = g]
        /\ pin' = [pin EXCEPT ![r] = myPin] /\ UNCHANGED <<pc, wake, kept, pending, ctx>>
    BY <1>3, <1>8 DEF GoOn
  <2>2. row'[r] = g /\ pin'[r] = myPin /\ pending'[r][g] = {}
    BY <1>2, <2>1 DEF StepTypeOK, Row
  <2>3. ahead'[r]["C"] = ahead[r]["C"] \cup event /\ \A x \in Streams \ {"C"} : ahead'[r][x] = ahead[r][x]
    BY <2>1 DEF StepTypeOK, Row, Streams
  <2>4. Grows(r) /\ Still(r, o) /\ ahead[r][s] \cup event \subseteq ahead'[r][s]
    BY <1>1, <1>6, <2>1, <2>3 DEF Grows, Still
  <2>5. Placed(r)'
    BY <1>1, <1>8, <2>1, MoveOn
  <2>6. Owns(r, g)'
    <3>1. ctx'[r] = CtxAt(c, g, p + 1) /\ pc'[r][g] = "running"
      BY <1>1, <1>2, <2>1 DEF CtxAt
    <3> HIDE DEF c
    <3>2. Kind(g) = c
      BY DEF c
    <3> QED BY <1>1, <1>5, <2>1, <2>2, <3>1, <3>2 DEF Owns
  <2>7. Ordered(r, g)'
    <3>1. ahead[r][s] \cup event \subseteq ahead'[r][s] \cup pending'[r][g]
      BY <2>4
    <3>2. Issued(c, g, p, ahead'[r][s] \cup pending'[r][g])
      <4> HIDE DEF c, p, s
      <4> QED BY <1>a, <3>1, IssuedGrows
    <3> QED BY <1>7, <2>4, <3>2
  <2> QED BY <1>2, <1>4, <1>5, <2>4, <2>5, <2>6, <2>7, Keeps
<1>9. CASE ~NoMate(r, g)
  <2>1. /\ kept' = [kept EXCEPT ![r][g] = [ctx |-> ctx[r], pin |-> myPin]]
        /\ pending' = [pending EXCEPT ![r][g] = event] /\ ahead' = ahead
        /\ pc' = [pc EXCEPT ![r][g] = "waiting"] /\ wake' = [wake EXCEPT ![r][Other(g)] = TRUE]
    BY <1>3, <1>9 DEF GiveTurn
  <2>2. /\ kept'[r][g] = [ctx |-> ctx[r], pin |-> myPin] /\ kept'[r][o] = kept[r][o]
        /\ pending'[r][g] = event /\ pending'[r][o] = pending[r][o]
    BY <2>1, TwoGroups DEF StepTypeOK, Table, Row
  <2>3. pc'[r][g] = "waiting" /\ pc'[r][o] = pc[r][o]
    BY <2>1, TwoGroups DEF TurnInv, TurnTypeOK
  <2>4. Placed(r)'
    BY <1>1, <1>9, <2>1, <2>2, GiveOn
  <2>5. Still(r, o) /\ Grows(r)
    BY <1>1, <2>1, <2>2, <2>3 DEF Still, Grows
  <2>6. Owns(r, g)'
    <3>1. kept'[r][g].ctx = CtxAt(c, g, p + 1) /\ kept'[r][g].pin = myPin
      BY <1>2, <2>2 DEF CtxAt
    <3> HIDE DEF c
    <3>2. Kind(g) = c
      BY DEF c
    <3> QED BY <1>1, <1>5, <2>2, <2>3, <3>1, <3>2 DEF Owns
  <2>7. Ordered(r, g)'
    <3>1. ahead[r][s] \cup event = ahead'[r][s] \cup pending'[r][g]
      BY <2>1, <2>2
    <3>2. Issued(c, g, p, ahead'[r][s] \cup pending'[r][g])
      <4> HIDE DEF c, p, s
      <4> QED BY <1>a, <3>1
    <3> QED BY <1>7, <2>5, <3>2
  <2> QED BY <1>2, <1>4, <1>5, <2>4, <2>5, <2>6, <2>7, Keeps
<1> QED BY <1>8, <1>9

LEMMA StaySteady ==
  ASSUME TurnInv, StepTypeOK, NEW r \in Ranks, NEW g \in Groups, Steady(r), case' = case,
         NEW do \in {"end", "yield", "rend"}, Runs(r, g, do), Advance(r, g),
         ~GivesTurn(Kind(g), Way, pos[r][g]), do = "end" => Way = "alone",
         UNCHANGED <<main, groups, pc, wake, finished, errors, pending>>,
         UNCHANGED <<phases, open, lastEvent, kept, ctx, row, ahead, calls, early, foreign>>,
         OpenAt(Kind(g), Way, pos[r][g] + 1) = OpenAt(Kind(g), Way, pos[r][g]),
         ClosedAt(Kind(g), Way, pos[r][g] + 1) = ClosedAt(Kind(g), Way, pos[r][g]),
         InReplayAt(Kind(g), pos[r][g] + 1) <=> InReplayAt(Kind(g), pos[r][g]),
         PinnedAt(Kind(g), pos[r][g] + 1) => pin'[r] = <<g>>
  PROVE  Steady(r)'
<1> DEFINE p == pos[r][g]
           c == Kind(g)
           i == TailOf(c)[p]
<1>1. /\ p \in 1..Len(TailOf(c)) /\ p \in 1..(Behind(c) - 1) /\ i.do = do /\ pc[r][g] = "running"
      /\ Moves(r, g) /\ At(r, g) = i /\ pos'[r][g] = p + 1 /\ pos'[r][Other(g)] = pos[r][Other(g)]
      /\ c \in Tails /\ NotStopped(r, g)
  BY AtWork, Ways_ DEF NotStopped
<1>2. /\ row[r] = g /\ ctx[r] = CtxAt(c, g, p) /\ pending[r][g] = {}
      /\ open[r][g] = OpenAt(c, Way, p) /\ phases[r][g] = ClosedAt(c, Way, p)
      /\ Issued(c, g, p, ahead[r][Stream(r, g)]) /\ pc[r][Other(g)] # "running"
  BY <1>1, Here
<1>3. Placed(r)' /\ Called(r)'
  BY <1>1, MoveOn, CalledNoMore
<1>4. /\ Still(r, Other(g)) /\ Grows(r) /\ Way' = Way /\ Kind(g)' = c /\ Stream(r, g)' = Stream(r, g)
      /\ (Way = "alone" <=> ~Pipelined)
  BY <1>1, Ways_, SameCase DEF Still, Grows, Stream
<1>5. Owns(r, g)'
  <2> HIDE DEF c
  <2>1. Kind(g) = c
    BY DEF c
  <2> QED BY <1>1, <1>2, <1>4, <2>1 DEF Owns, CtxAt
<1>6. Ordered(r, g)'
  <2>1. Issued(c, g, p + 1, ahead'[r][Stream(r, g)'] \cup pending'[r][g])
    <3>1. Issued(c, g, p + 1, ahead[r][Stream(r, g)])
      BY <1>1, <1>2, IssuedNext
    <3> QED BY SMTT(40), <1>4, <3>1, IssuedGrows
  <2>2. Ordered(r, g)
    BY DEF Steady
  <2>3. Pipelined /\ p + 1 >= K + 4 => SpOps(g) \subseteq lastEvent'[r][g]
    BY <1>1, <1>4, SameEvent
  <2>4. i.do \notin {"comp", "coll", "replay"}
    BY <1>1
  <2> QED BY <1>1, <1>4, <2>1, <2>2, <2>3, <2>4, OrderedOn
<1>7. Clean(r)'
  BY SameCase DEF Steady, Clean
<1> QED BY <1>1, <1>2, <1>3, <1>4, <1>5, <1>6, <1>7, Keeps

LEMMA YieldPointSteady ==
  ASSUME TurnInv, StepTypeOK, NEW r \in Ranks, NEW g \in Groups, Steady(r), YieldPoint(r, g)
  PROVE  Steady(r)'
<1> DEFINE p == pos[r][g]
           c == Kind(g)
<1>0. /\ Runs(r, g, "yield") /\ Advance(r, g) /\ case' = case
      /\ UNCHANGED <<main, groups, finished, errors, phases, open, lastEvent, calls, early, foreign>>
  BY DEF YieldPoint
<1>1. p \in 1..Len(TailOf(c)) /\ TailOf(c)[p].do = "yield" /\ pc[r][g] = "running" /\ NotStopped(r, g)
  BY <1>0, AtWork
<1>2. /\ OpenAt(c, Way, p + 1) = OpenAt(c, Way, p) /\ ClosedAt(c, Way, p + 1) = ClosedAt(c, Way, p)
      /\ (InReplayAt(c, p + 1) <=> InReplayAt(c, p)) /\ ~PinnedAt(c, p + 1) /\ (GivesTurn(c, Way, p) <=> Way = "stream")
  <2>1. StepIs(c, Way, p, At(r, g)) /\ At(r, g).do = "yield"
    BY <1>0, AtWork
  <2>2. YieldIs(c, Way, p)
    BY <2>1 DEF StepIs
  <2> QED BY <2>2 DEF YieldIs, SameAfter, StaysAfter
<1>3. open[r][g] = OpenAt(c, Way, p) /\ phases[r][g] = ClosedAt(c, Way, p) /\ Issued(c, g, p, ahead[r][Stream(r, g)])
  BY <1>1, Here
<1>4. CASE Way = "stream"
  <2>1. HandOver(r, g, {}, <<>>)
    BY <1>4, Ways_ DEF YieldPoint
  <2>2. Issued(c, g, p, ahead[r][Stream(r, g)'] \cup {})
    <3>1. Stream(r, g)' = Stream(r, g)
      BY <1>0 DEF Stream
    <3> QED BY <1>3, <3>1, IssuedGrows
  <2>3. Pipelined /\ p + 1 >= K + 4 => SpOps(g) \subseteq lastEvent'[r][g]
    BY <1>0, <1>1, SameEvent
  <2> QED BY <1>0, <1>1, <1>2, <1>3, <1>4, <2>1, <2>2, <2>3, GiveSteady
<1>5. CASE Way # "stream"
  <2>1. UNCHANGED <<pc, wake, pending, kept, ctx, row, ahead>>
    BY <1>5, Ways_ DEF YieldPoint
  <2> QED BY <1>0, <1>2, <1>5, <2>1, StaySteady
<1> QED BY <1>4, <1>5

-----------------------------------------------------------------------------
(* Closing a phase *)

\* Group 1 finds the phases of group 0 that its own one comes behind, except where
\* group 0 has no such phase.
LEMMA Matched ==
  ASSUME TurnInv, NEW r \in Ranks, NEW g \in Groups, Steady(r), pc[r][g] = "running", Way # "alone",
         NEW p \in 1..Len(TailOf(Kind(g))), pos[r][g] = p, TailOf(Kind(g))[p].do \in {"end", "rend"},
         GivesTurn(Kind(g), Way, p)
  PROVE  InOrder(r, g) <=> NotStopped(r, g)
<1>1. CASE g = 0
  BY <1>1 DEF InOrder, NotStopped
<1>2. CASE g = 1
  <2> DEFINE q == pos[r][0]
  <2>1. 0 \in Groups /\ Other(1) = 0 /\ Kind(0) \in Tails /\ Kind(1) \in Tails /\ Way \in Ways
    BY TwoGroups, KindOf, Ways_
  <2>2. q = Opposite(Kind(0), Way, 1, Kind(1), p)
    BY <1>2, <2>1, OtherIs
  <2>3. phases[r][0] = ClosedAt(Kind(0), Way, q) /\ phases[r][1] = ClosedAt(Kind(1), Way, p)
    BY <1>2, <2>1 DEF Steady, Owns
  <2>4. MorePhases <=> Kind(0) = "cut" /\ Kind(1) = "whole"
    BY Ways_ DEF MorePhases, Kind
  <2>5. MorePhases => p <= K + 7
    BY <1>2 DEF Steady, Placed, Stopped
  <2>6. IF MorePhases /\ p = K + 7 THEN ~(phases[r][0] >= phases[r][1] + 1)
                                   ELSE phases[r][0] >= phases[r][1] + 1
    BY <1>2, <2>1, <2>2, <2>3, <2>4, <2>5, ClosedBefore
  <2>7. InOrder(r, g) <=> phases[r][0] >= phases[r][1] + 1
    <3>1. 0..(g - 1) = {0}
      BY <1>2
    <3> QED BY <1>2, <3>1 DEF InOrder
  <2> QED BY <1>2, <2>6, <2>7 DEF NotStopped
<1> QED BY <1>1, <1>2, TwoGroups

LEMMA CloseSteady ==
  ASSUME TurnInv, StepTypeOK, NEW r \in Ranks, NEW g \in Groups, Steady(r), case' = case,
         NEW do \in {"end", "rend"}, Runs(r, g, do), Advance(r, g), Way # "alone",
         GivesTurn(Kind(g), Way, pos[r][g]), NEW myPin, ClosePhase(r, g, myPin),
         UNCHANGED <<main, groups, finished, errors, calls, early, foreign>>,
         OpenAt(Kind(g), Way, pos[r][g]) = (IF do = "end" THEN "comm" ELSE "replay"),
         OpenAt(Kind(g), Way, pos[r][g] + 1) = "none",
         ClosedAt(Kind(g), Way, pos[r][g] + 1) = ClosedAt(Kind(g), Way, pos[r][g]) + 1,
         InReplayAt(Kind(g), pos[r][g] + 1) <=> InReplayAt(Kind(g), pos[r][g]),
         PinnedAt(Kind(g), pos[r][g] + 1) => myPin = <<g>>
  PROVE  StepOk(r)'
<1> DEFINE c == Kind(g)
           p == pos[r][g]
           event == ahead[r][Stream(r, g)]
<1>1. /\ p \in 1..Len(TailOf(c)) /\ p \in 1..(Behind(c) - 1) /\ TailOf(c)[p].do = do /\ pc[r][g] = "running"
      /\ pos'[r][g] = p + 1 /\ c \in Tails
  BY AtWork
<1>2. /\ open[r][g] = OpenAt(c, Way, p) /\ phases[r][g] = ClosedAt(c, Way, p) /\ Issued(c, g, p, event)
      /\ main[r] = "threads"
  BY <1>1, Here
<1>3. /\ lastEvent' = [lastEvent EXCEPT ![r][g] = IF open[r][g] = "comm" THEN event ELSE @]
      /\ open' = [open EXCEPT ![r][g] = "none"] /\ phases' = [phases EXCEPT ![r][g] = @ + 1]
      /\ IF InOrder(r, g) THEN HandOver(r, g, event, myPin) ELSE pc' = [pc EXCEPT ![r][g] = "unwinding"]
  BY DEF ClosePhase
<1>4. InOrder(r, g) <=> NotStopped(r, g)
  BY <1>1, Matched
<1>5. CASE ~NotStopped(r, g)
  <2>1. pc'[r][g] = "unwinding"
    BY <1>3, <1>4, <1>5 DEF TurnInv, TurnTypeOK
  <2>2. MorePhases'
    BY <1>5, SameCase DEF NotStopped
  <2> QED BY <1>2, <2>1, <2>2 DEF StepOk, Failing
<1>6. CASE NotStopped(r, g)
  <2>1. HandOver(r, g, event, myPin)
    BY <1>3, <1>4, <1>6
  <2>2. /\ open'[r][g] = "none" /\ open'[r][Other(g)] = open[r][Other(g)]
        /\ phases'[r][g] = phases[r][g] + 1 /\ phases'[r][Other(g)] = phases[r][Other(g)]
    BY <1>3, TwoGroups DEF TurnInv, TurnTypeOK, StepTypeOK
  <2>3. /\ lastEvent'[r][g] = (IF open[r][g] = "comm" THEN event ELSE lastEvent[r][g])
        /\ lastEvent'[r][Other(g)] = lastEvent[r][Other(g)]
    BY <1>3, TwoGroups DEF StepTypeOK, Table, Row
  <2>4. Issued(c, g, p, ahead[r][Stream(r, g)'] \cup event)
    BY <1>2, IssuedGrows
  <2>5. Pipelined /\ p + 1 >= K + 4 => SpOps(g) \subseteq lastEvent'[r][g]
    <3>1. CASE do = "end" /\ p + 1 >= K + 4
      <4>1. p + 1 \in Int /\ p + 1 > K + 2
        BY <1>1, <3>1, Sizes DEF Size
      <4>2. Issued(c, g, p + 1, event)
        BY <1>1, <1>2, <3>1, IssuedNext
      <4>3. SpOps(g) \subseteq event
        <5> HIDE DEF event, p
        <5> QED BY <4>1, <4>2, SpIssued
      <4> QED BY <1>2, <2>3, <3>1, <4>3
    <3>2. CASE do = "rend"
      <4>1. lastEvent'[r][g] = lastEvent[r][g]
        BY <1>2, <2>3, <3>2
      <4> QED BY <1>1, <3>2, <4>1, SameEvent
    <3> QED BY <3>1, <3>2
  <2>6. phases'[r][g] = ClosedAt(c, Way, p + 1) /\ open'[r][g] = OpenAt(c, Way, p + 1)
    BY <1>2, <2>2
  <2>7. do \in {"end", "yield", "rend"} /\ (open'[r][g] # "none" => event = {}) /\ (open'[r][g] = "replay" => open[r][g] = "replay")
    BY <2>2
  <2>8. Steady(r)'
    <3> HIDE DEF event
    <3> QED BY <1>6, <2>1, <2>2, <2>3, <2>4, <2>5, <2>6, <2>7, GiveSteady
  <2> QED BY <2>8 DEF StepOk
<1> QED BY <1>5, <1>6

LEMMA PhaseEndSteady ==
  ASSUME TurnInv, StepTypeOK, NEW r \in Ranks, NEW g \in Groups, Steady(r), PhaseEnd(r, g)
  PROVE  StepOk(r)'
<1> DEFINE c == Kind(g)
           p == pos[r][g]
           myPin == IF At(r, g).name = "kv" THEN <<>> ELSE pin[r]
<1>0. /\ Runs(r, g, "end") /\ Advance(r, g) /\ case' = case
      /\ UNCHANGED <<main, groups, finished, errors, calls, early, foreign>>
      /\ IF Pipelined
         THEN ClosePhase(r, g, myPin)
         ELSE /\ pin' = [pin EXCEPT ![r] = myPin]
              /\ UNCHANGED <<pc, wake, phases, open, pending, lastEvent, kept, ctx, row, ahead>>
  BY DEF PhaseEnd
<1>1. EndIs(c, Way, p, At(r, g)) /\ pc[r][g] = "running"
  <2>1. StepIs(c, Way, p, At(r, g)) /\ At(r, g).do = "end" /\ pc[r][g] = "running"
    BY <1>0, AtWork
  <2> QED BY <2>1 DEF StepIs
<1>2. /\ (GivesTurn(c, Way, p) <=> Way # "alone") /\ OpenAt(c, Way, p) = (IF Way = "alone" THEN "none" ELSE "comm")
      /\ OpenAt(c, Way, p + 1) = "none" /\ (InReplayAt(c, p + 1) <=> InReplayAt(c, p)) /\ PinnedAt(c, p)
      /\ ClosedAt(c, Way, p + 1) = ClosedAt(c, Way, p) + (IF Way = "alone" THEN 0 ELSE 1)
      /\ At(r, g).name = "kv" => ~PinnedAt(c, p + 1)
  BY <1>1 DEF EndIs, StaysAfter
<1>3. pin[r] = <<g>> /\ ClosedAt(c, Way, p) \in Nat
  BY <1>1, <1>2, Here DEF StepTypeOK
<1>4. PinnedAt(c, p + 1) => myPin = <<g>>
  BY <1>2, <1>3
<1>5. CASE Way # "alone"
  <2>1. ClosePhase(r, g, myPin)
    BY <1>0, <1>5, Ways_
  <2>2. ClosedAt(c, Way, p + 1) = ClosedAt(c, Way, p) + 1
    BY <1>2, <1>5
  <2> HIDE DEF myPin
  <2> QED BY <1>0, <1>2, <1>4, <1>5, <2>1, <2>2, CloseSteady
<1>6. CASE Way = "alone"
  <2>1. /\ pin' = [pin EXCEPT ![r] = myPin]
        /\ UNCHANGED <<pc, wake, phases, open, pending, lastEvent, kept, ctx, row, ahead>>
    BY <1>0, <1>6, Ways_
  <2>2. ClosedAt(c, Way, p + 1) = ClosedAt(c, Way, p) /\ OpenAt(c, Way, p + 1) = OpenAt(c, Way, p)
    BY <1>2, <1>3, <1>6
  <2>3. PinnedAt(c, p + 1) => pin'[r] = <<g>>
    <3>1. pin'[r] = myPin
      <4> HIDE DEF myPin
      <4> QED BY <2>1 DEF StepTypeOK, Row
    <3> QED BY <1>4, <3>1
  <2>4. Steady(r)'
    BY <1>0, <1>2, <1>6, <2>1, <2>2, <2>3, StaySteady
  <2> QED BY <2>4 DEF StepOk
<1> QED BY <1>5, <1>6

LEMMA ReplayEndSteady ==
  ASSUME TurnInv, StepTypeOK, NEW r \in Ranks, NEW g \in Groups, Steady(r), ReplayEnd(r, g)
  PROVE  StepOk(r)'
<1> DEFINE c == Kind(g)
           p == pos[r][g]
<1>0. /\ Runs(r, g, "rend") /\ Advance(r, g) /\ case' = case
      /\ UNCHANGED <<main, groups, finished, errors, calls, early, foreign>>
      /\ IF open[r][g] = "replay"
         THEN ClosePhase(r, g, pin[r])
         ELSE UNCHANGED <<pc, wake, phases, open, pending, lastEvent, kept, ctx, pin, row, ahead>>
  BY DEF ReplayEnd, globalVars
<1>1. RendIs(c, Way, p) /\ pc[r][g] = "running"
  <2>1. StepIs(c, Way, p, At(r, g)) /\ At(r, g).do = "rend" /\ pc[r][g] = "running"
    BY <1>0, AtWork
  <2> QED BY <2>1 DEF StepIs
<1>2. /\ (InReplayAt(c, p + 1) <=> InReplayAt(c, p)) /\ ~PinnedAt(c, p + 1) /\ (GivesTurn(c, Way, p) <=> Way = "stream")
      /\ OpenAt(c, Way, p) = (IF Way = "stream" THEN "replay" ELSE "none") /\ OpenAt(c, Way, p + 1) = "none"
      /\ ClosedAt(c, Way, p + 1) = ClosedAt(c, Way, p) + (IF Way = "stream" THEN 1 ELSE 0)
  BY <1>1 DEF RendIs, StaysAfter
<1>3. open[r][g] = OpenAt(c, Way, p) /\ ClosedAt(c, Way, p) \in Nat
  BY <1>1, Here DEF StepTypeOK
<1>4. CASE Way = "stream"
  <2>1. ClosePhase(r, g, pin[r])
    BY <1>0, <1>2, <1>3, <1>4
  <2> QED BY <1>0, <1>2, <1>4, <2>1, CloseSteady
<1>5. CASE Way # "stream"
  <2>1. UNCHANGED <<pc, wake, phases, open, pending, lastEvent, kept, ctx, pin, row, ahead>>
    BY <1>0, <1>2, <1>3, <1>5
  <2>2. ClosedAt(c, Way, p + 1) = ClosedAt(c, Way, p) /\ OpenAt(c, Way, p + 1) = OpenAt(c, Way, p)
    BY <1>2, <1>3, <1>5
  <2>3. Steady(r)'
    BY <1>0, <1>2, <1>5, <2>1, <2>2, StaySteady
  <2> QED BY <2>3 DEF StepOk
<1> QED BY <1>4, <1>5

-----------------------------------------------------------------------------
(* Taking a turn, and the end of a thread *)

\* The one that has the turn knows where the other one is.
LEMMA Holder ==
  ASSUME NEW r \in Ranks, NEW g \in Groups, Steady(r), main[r] = "threads", Turn(r, g)
  PROVE  Partner(r, g) /\ pc[r][Other(g)] # "running"
<1>1. \/ \E h \in Groups : Turn(r, h) /\ Partner(r, h)
      \/ \A h \in Groups : pc[r][h] = "ended"
  BY DEF Steady, Placed, Alternate
<1>2. PICK h \in Groups : Turn(r, h) /\ Partner(r, h)
  BY <1>1 DEF Turn, HasTurn
<1>3. CASE h = g
  BY <1>2, <1>3 DEF Partner, Waits
<1>4. CASE h = Other(g)
  <2>1. Other(h) = g
    BY <1>4, TwoGroups
  <2> QED BY <1>2, <2>1 DEF Partner, Waits, Turn, HasTurn
<1> QED BY <1>3, <1>4, TwoGroups

LEMMA SamePartner ==
  ASSUME NEW r \in Ranks, NEW g \in Groups, case' = case, Partner(r, g), UNCHANGED pos,
         pc'[r][Other(g)] = pc[r][Other(g)], wake'[r][Other(g)] = wake[r][Other(g)]
  PROVE  Partner(r, g)'
<1>1. Way' = Way /\ \A h : Kind(h)' = Kind(h)
  BY SameCase
<1>2. NoMate(r, g)' <=> NoMate(r, g)
  BY <1>1 DEF NoMate
<1> QED BY <1>1, <1>2 DEF Partner, Waits

\* What the GPU has stays, and more comes.
LEMMA OrderedStays ==
  ASSUME NEW r \in Ranks, NEW g \in Groups, case' = case, Ordered(r, g), Grows(r),
         UNCHANGED <<pos, open, lastEvent>>,
         pc'[r][g] \in {"running", "waiting"} =>
            Issued(Kind(g), g, pos[r][g], ahead'[r][Stream(r, g)] \cup pending'[r][g])
  PROVE  Ordered(r, g)'
<1>1. /\ (Pipelined' <=> Pipelined) /\ (Gate' <=> Gate) /\ Kind(g)' = Kind(g)
      /\ (HasReplay(g)' <=> HasReplay(g)) /\ \A h, l : KvOp(h, l)' = KvOp(h, l)
  BY SameCase
<1>2. ahead[r]["C"] \subseteq ahead'[r]["C"] /\ ahead[r]["R"] \subseteq ahead'[r]["R"]
  BY DEF Grows, Streams
<1>3. Written(r, g)'
  BY WrittenGrows DEF Ordered
<1>4. Gathers(r, g)'
  BY <1>1, <1>2 DEF Ordered, Gathers
<1>5. Stream(r, g)' = Stream(r, g)
  BY DEF Stream
<1> QED BY <1>1, <1>3, <1>4, <1>5 DEF Ordered

LEMMA TakeTurnSteady ==
  ASSUME TurnInv, StepTypeOK, NEW r \in Ranks, NEW g \in Groups, Steady(r), TakeTurn(r, g)
  PROVE  Steady(r)'
<1> DEFINE h == Other(g)
           c == Kind(g)
<1>0. /\ h \in Groups /\ h # g /\ (\A k \in Groups : k = g \/ k = h)
      /\ Placed(r) /\ Owns(r, g) /\ Ordered(r, g) /\ RankInv(r) /\ Stopped(r)
  BY TwoGroups DEF Steady, TurnInv, Placed
<1>1. /\ pc[r][g] = "waiting" /\ wake[r][g] /\ case' = case
      /\ wake' = [wake EXCEPT ![r][g] = FALSE] /\ pc' = [pc EXCEPT ![r][g] = "running"]
      /\ ctx' = [ctx EXCEPT ![r] = kept[r][g].ctx] /\ pin' = [pin EXCEPT ![r] = kept[r][g].pin]
      /\ row' = [row EXCEPT ![r] = g] /\ ahead' = [ahead EXCEPT ![r]["C"] = @ \cup pending[r][g]]
      /\ pending' = [pending EXCEPT ![r][g] = {}]
      /\ UNCHANGED <<main, groups, pos, finished, errors, phases, open, lastEvent, kept, calls, early, foreign>>
  BY DEF TakeTurn, Resume
<1>2. /\ pc'[r][g] = "running" /\ pc'[r][h] = pc[r][h] /\ wake'[r][h] = wake[r][h]
  <2>1. pc \in [Ranks -> [Groups -> PcOf]] /\ wake \in [Ranks -> [Groups -> BOOLEAN]] /\ h # g
    BY TwoGroups DEF TurnInv, TurnTypeOK
  <2> HIDE DEF h
  <2>2. pc'[r][g] = "running" /\ pc'[r][h] = pc[r][h]
    BY <1>0, <1>1, <2>1
  <2>3. wake'[r][h] = wake[r][h]
    BY <1>0, <1>1, <2>1
  <2> QED BY <2>2, <2>3
<1>3. ctx'[r] = kept[r][g].ctx /\ pin'[r] = kept[r][g].pin /\ row'[r] = g
  BY <1>1 DEF StepTypeOK, Row
<1>4. pending'[r][g] = {} /\ pending'[r][h] = pending[r][h]
  BY <1>1, TwoGroups DEF StepTypeOK, Table, Row
<1>5. /\ ahead'[r]["C"] = ahead[r]["C"] \cup pending[r][g]
      /\ \A x \in Streams \ {"C"} : ahead'[r][x] = ahead[r][x]
  BY <1>1 DEF StepTypeOK, Row, Streams
<1>6. /\ Grows(r) /\ Still(r, h) /\ Way' = Way /\ (\A k : Kind(k)' = Kind(k)) /\ (MorePhases' <=> MorePhases)
  BY <1>1, <1>2, <1>4, <1>5, SameCase DEF Grows, Still
<1>7. main[r] = "threads"
  <2>1. main[r] = Mode /\ (main[r] = "alone" => FALSE)
    BY <1>0, <1>1 DEF RankInv, InMode, Placed, InTurn
  <2> QED BY <2>1 DEF Mode
<1>8. Partner(r, g) /\ pc[r][h] # "running"
  BY <1>1, <1>7, Holder DEF Turn, HasTurn
<1>9. Placed(r)'
  <2>1. Alternate(r)'
    <3>1. Partner(r, g)' /\ Turn(r, g)'
      BY <1>1, <1>2, <1>8, SamePartner DEF Turn, HasTurn
    <3> QED BY <3>1 DEF Alternate
  <2>2. InTurn(r)' /\ Stopped(r)'
    BY <1>0, <1>1, <1>6, <1>7 DEF InTurn, Stopped
  <2>3. ASSUME NEW k \in Groups PROVE Place1(r, k)'
    <3>1. CASE k = g
      BY <1>0, <1>1, <1>2, <1>6, <3>1 DEF Placed, Place1
    <3>2. CASE k = h
      BY <1>0, <1>1, <1>2, <1>4, <1>6, <3>2 DEF Placed, Place1
    <3> QED BY <1>0, <3>1, <3>2
  <2> QED BY <1>0, <1>1, <2>1, <2>2, <2>3 DEF Placed
<1>10. Owns(r, g)'
  BY <1>0, <1>1, <1>2, <1>3, <1>4, <1>6 DEF Owns
<1>11. Ordered(r, g)'
  <2>1. open[r][g] \in {"none", "comm", "replay"}
    BY DEF TurnInv, TurnTypeOK
  <2>2. ahead[r][Stream(r, g)] \cup pending[r][g] \subseteq ahead'[r][Stream(r, g)] \cup pending'[r][g]
    <3>1. CASE open[r][g] = "none"
      <4>1. Stream(r, g) = "C"
        BY <3>1 DEF Stream
      <4> QED BY <1>5, <4>1
    <3>2. CASE open[r][g] # "none"
      <4>1. pending[r][g] = {} /\ Stream(r, g) \in Streams
        BY <1>0, <2>1, <3>2, StreamOf DEF Owns, Streams
      <4> QED BY <1>6, <4>1 DEF Grows
    <3> QED BY <3>1, <3>2
  <2>3. Issued(Kind(g), g, pos[r][g], ahead'[r][Stream(r, g)] \cup pending'[r][g])
    BY SMTT(40), <1>0, <1>1, <2>2, IssuedGrows DEF Ordered
  <2> QED BY <1>0, <1>1, <1>6, <2>3, OrderedStays
<1>12. Called(r)' /\ Clean(r)'
  <2>1. Called(r) /\ Clean(r)
    BY DEF Steady
  <2> QED BY <1>1, <2>1, SameCalls, SameCase DEF Clean
<1> QED BY <1>1, <1>6, <1>8, <1>9, <1>10, <1>11, <1>12, Keeps

\* A thread that is done hands the rest to the other one.
LEMMA LastTurn ==
  ASSUME NEW r \in Ranks, NEW g \in Groups, Partner(r, g), pos[r][g] = Behind(Kind(g)), ~NoMate(r, g)
  PROVE  NoMate(r, Other(g)) /\ pos[r][g] = Opposite(Kind(g), Way, Other(g), Kind(Other(g)), pos[r][Other(g)])
<1> DEFINE o == Other(g)
           L == LastRun(Kind(g), Way)
           m == Mate(g, L)
<1>0. o \in Groups /\ Other(o) = g /\ Kind(g) \in Tails /\ Kind(o) \in Tails /\ Way \in Ways
  BY TwoGroups, KindOf, Ways_
<1>1. Run(Kind(g), Way, pos[r][g]) = L /\ L \in Nat
  BY <1>0, RunsLeft, RunBegins, Numbers_
<1>2. m \in Nat /\ Mate(o, m) = L + 1
  BY <1>0, <1>1, Mates
<1>3. m <= LastRun(Kind(o), Way) /\ pos[r][o] = Begins(Kind(o), Way, m)
  <2>1. LastRun(Kind(o), Way) \in Nat
    BY <1>0, RunBegins
  <2>2. ~(m > LastRun(Kind(o), Way)) /\ pos[r][o] = Begins(Kind(o), Way, m)
    BY <1>1 DEF NoMate, Partner, Opposite
  <2> HIDE DEF m, o
  <2> QED BY <1>2, <2>1, <2>2
<1>4. Run(Kind(o), Way, pos[r][o]) = m
  BY <1>0, <1>2, <1>3, RunBegins
<1>5. L + 1 > L /\ L + 1 \in Nat
  BY <1>1
<1>6. Begins(Kind(g), Way, L + 1) = Behind(Kind(g))
  BY <1>0, <1>5, RunBegins
<1> QED BY <1>0, <1>2, <1>4, <1>5, <1>6 DEF NoMate, Opposite

\* The end of a thread: nothing on the GPU, nothing of the other thread.
LEMMA EndSteady ==
  ASSUME TurnInv, StepTypeOK, NEW r \in Ranks, NEW g \in Groups, Steady(r),
         FinishTail(r, g) \/ SetFinished(r, g) \/ WakeOther(r, g)
  PROVE  Steady(r)'
<1> DEFINE h == Other(g)
<1>0. /\ h \in Groups /\ h # g /\ Other(h) = g /\ (\A k \in Groups : k = g \/ k = h)
      /\ Placed(r) /\ Owns(r, g) /\ Ordered(r, g) /\ RankInv(r) /\ Stopped(r) /\ InTurn(r)
      /\ \A k \in Groups : Place1(r, k)
  BY TwoGroups DEF Steady, TurnInv, Placed
<1>1. /\ case' = case
      /\ UNCHANGED <<main, groups, pos, errors, phases, open, pending, lastEvent, kept, ctx, pin, row>>
      /\ UNCHANGED <<ahead, calls, early, foreign>>
      /\ \/ /\ pc[r][g] = "running" /\ pos[r][g] > Len(Tail_(g)) /\ pc' = [pc EXCEPT ![r][g] = Over(r)]
            /\ UNCHANGED <<wake, finished>>
         \/ /\ pc[r][g] = "ending" /\ pc' = [pc EXCEPT ![r][g] = "leaving"]
            /\ finished' = [finished EXCEPT ![r][g] = TRUE] /\ wake' = wake
         \/ /\ pc[r][g] = "leaving" /\ pc' = [pc EXCEPT ![r][g] = "ended"]
            /\ wake' = [wake EXCEPT ![r][Other(g)] = TRUE] /\ finished' = finished
  BY DEF FinishTail, SetFinished, WakeOther, globalVars, gpuVars
<1>2. /\ pc \in [Ranks -> [Groups -> PcOf]] /\ wake \in [Ranks -> [Groups -> BOOLEAN]]
      /\ finished \in [Ranks -> [Groups -> BOOLEAN]] /\ h # g
  BY TwoGroups DEF TurnInv, TurnTypeOK
<1>3. /\ pc'[r][h] = pc[r][h] /\ pos[r][g] = Behind(Kind(g)) /\ finished'[r][h] = finished[r][h]
      /\ wake'[r][g] = wake[r][g]
      /\ \/ /\ pc[r][g] = "running" /\ pc'[r][g] = Over(r) /\ finished'[r][g] = finished[r][g] /\ wake'[r][h] = wake[r][h]
         \/ /\ pc[r][g] = "ending" /\ pc'[r][g] = "leaving" /\ wake'[r][h] = wake[r][h]
         \/ /\ pc[r][g] = "leaving" /\ pc'[r][g] = "ended" /\ wake'[r][h]
  <2> HIDE DEF h
  <2>1. pc'[r][h] = pc[r][h]
    BY <1>0, <1>1, <1>2
  <2>2. pos[r][g] = Behind(Kind(g))
    <3>1. pos[r][g] \in 1..Behind(Kind(g)) /\ (pc[r][g] \in {"ending", "leaving"} => pos[r][g] = Behind(Kind(g)))
      BY <1>0 DEF Place1
    <3>2. pos[r][g] > Len(Tail_(g)) => pos[r][g] = Behind(Kind(g))
      <4>1. Len(Tail_(g)) + 1 = Behind(Kind(g)) /\ Behind(Kind(g)) \in Int
        <5>1. Len(Tail_(g)) = Behind(Kind(g)) - 1 /\ Behind(Kind(g)) \in Nat
          BY KindOf, Layout, Numbers_
        <5> QED BY <5>1
      <4> QED BY <3>1, <4>1
    <3> QED BY <1>1, <3>1, <3>2
  <2>3. finished'[r][h] = finished[r][h] /\ wake'[r][g] = wake[r][g]
    BY <1>0, <1>1, <1>2 DEF h
  <2>4. CASE pc[r][g] = "running"
    <3>1. UNCHANGED <<wake, finished>> /\ pc'[r][g] = Over(r)
      BY <1>0, <1>1, <1>2, <2>4
    <3> QED BY <2>1, <2>2, <2>3, <2>4, <3>1
  <2>5. CASE pc[r][g] = "ending"
    <3>1. wake' = wake /\ pc'[r][g] = "leaving"
      BY <1>0, <1>1, <1>2, <2>5
    <3> QED BY <2>1, <2>2, <2>3, <2>5, <3>1
  <2>6. CASE pc[r][g] = "leaving"
    <3>1. pc'[r][g] = "ended" /\ wake'[r][h]
      BY <1>0, <1>1, <1>2, <2>6 DEF h
    <3> QED BY <2>1, <2>2, <2>3, <2>6, <3>1
  <2> QED BY <1>1, <2>4, <2>5, <2>6
<1>4. /\ Grows(r) /\ Still(r, h) /\ Way' = Way /\ (\A k : Kind(k)' = Kind(k)) /\ (MorePhases' <=> MorePhases)
  BY <1>1, <1>3, SameCase DEF Grows, Still
<1>5. /\ Over(r) = (IF main[r] = "threads" THEN "ending" ELSE "ended")
      /\ main[r] \in {"threads", "alone"} /\ (pc[r][g] # "running" => main[r] = "threads")
  <2>1. main[r] = Mode
    BY <1>0, <1>3 DEF RankInv, InMode
  <2>2. pc[r][g] # "running" => main[r] # "alone"
    BY <1>0, <1>3 DEF InTurn
  <2> QED BY <2>1, <2>2 DEF Over, Mode
<1>6. main[r] = "threads" => Turn(r, g) /\ Partner(r, g)
  BY <1>3, Holder DEF Turn, HasTurn
<1>7. pc[r][h] # "running"
  BY <1>0, <1>3, <1>5, Holder, Here DEF Turn, HasTurn
<1>8. Alternate(r)'
  <2>1. SUFFICES ASSUME main[r] = "threads"
                 PROVE  \/ \E k \in Groups : Turn(r, k)' /\ Partner(r, k)'
                        \/ \A k \in Groups : pc'[r][k] = "ended"
    BY <1>1 DEF Alternate
  <2>2. CASE pc[r][g] # "leaving"
    <3>1. Partner(r, g)'
      BY <1>1, <1>3, <1>6, <2>1, <2>2, SamePartner
    <3>2. Turn(r, g)'
      BY <1>3, <1>5, <2>1, <2>2 DEF Turn
    <3> QED BY <3>1, <3>2
  <2>3. CASE pc[r][g] = "leaving" /\ NoMate(r, g)
    BY <1>0, <1>3, <1>6, <2>1, <2>3 DEF Partner
  <2>4. CASE pc[r][g] = "leaving" /\ ~NoMate(r, g)
    <3>1. Turn(r, h)' /\ pc'[r][g] = "ended"
      BY <1>3, <1>6, <2>1, <2>4 DEF Partner, Waits, Turn, HasTurn
    <3>2. NoMate(r, h) /\ pos[r][g] = Opposite(Kind(g), Way, h, Kind(h), pos[r][h])
      BY <1>3, <1>6, <2>1, <2>4, LastTurn
    <3>3. NoMate(r, h)' /\ pos'[r][g] = Opposite(Kind(g), Way, h, Kind(h), pos'[r][h])
      BY <1>1, <1>4, <3>2 DEF NoMate
    <3>4. Partner(r, h)'
      BY <1>0, <1>4, <3>1, <3>3 DEF Partner
    <3> QED BY <1>0, <3>1, <3>4
  <2> QED BY <2>2, <2>3, <2>4
<1>9. InTurn(r)'
  <2>1. SUFFICES ASSUME main[r] = "alone" PROVE InTurn(r)'
    BY <1>1 DEF InTurn
  <2>2. pc[r][g] = "running" /\ pc'[r][g] = "ended"
    BY <1>3, <1>5, <2>1
  <2>3. \A k \in Groups : pc'[r][k] \in {"off", "running", "ended"}
    BY <1>0, <1>3, <2>1, <2>2 DEF InTurn
  <2>4. pos'[r][0] = Behind(Kind(0)) \/ pc'[r][1] = "off"
    <3>1. CASE g = 0
      BY <1>1, <1>3, <3>1
    <3>2. CASE g = 1
      BY <1>0, <1>1, <2>1, <2>2, <3>2 DEF InTurn
    <3> QED BY <3>1, <3>2, TwoGroups
  <2> QED BY <1>4, <2>3, <2>4 DEF InTurn
<1>10. ASSUME NEW k \in Groups PROVE Place1(r, k)'
  <2>1. CASE k = g
    BY <1>0, <1>1, <1>3, <1>4, <1>5, <2>1 DEF Place1
  <2>2. CASE k = h
    BY <1>0, <1>1, <1>3, <1>4, <2>2 DEF Place1
  <2> QED BY <1>0, <2>1, <2>2
<1>11. Placed(r)'
  <2>1. Stopped(r)'
    BY <1>0, <1>1, <1>4, <1>5 DEF Stopped
  <2> QED BY <1>0, <1>1, <1>8, <1>9, <1>10, <2>1 DEF Placed
<1>12. pc'[r][g] \notin {"running", "waiting"}
  BY <1>3, <1>5
<1>13. Owns(r, g)'
  BY <1>0, <1>1, <1>4, <1>12 DEF Owns
<1>14. Ordered(r, g)'
  BY <1>0, <1>1, <1>4, <1>12, OrderedStays
<1>15. Called(r)' /\ Clean(r)'
  <2>1. Called(r) /\ Clean(r)
    BY DEF Steady
  <2> QED BY <1>1, <2>1, SameCalls, SameCase DEF Clean
<1> QED BY <1>1, <1>4, <1>7, <1>11, <1>13, <1>14, <1>15, Keeps

-----------------------------------------------------------------------------
(* Starting and leaving a step *)

LEMMA AtStart ==
  ASSUME NEW c \in Tails, NEW w \in Ways
  PROVE  /\ ~InReplayAt(c, 1) /\ ~PinnedAt(c, 1) /\ OpenAt(c, w, 1) = "none" /\ ClosedAt(c, w, 1) = 0
         /\ \A g, A : Issued(c, g, 1, A)
         /\ \A g, names, A : NamesIssued(c, g, names, 1, A)
<1>1. Numbers(c)
  BY Numbers_
<1>2. ~InReplayAt(c, 1) /\ ~PinnedAt(c, 1)
  BY <1>1 DEF Numbers, InReplayAt, PinnedAt
<1>3. OpenAt(c, w, 1) = "none" /\ ClosedAt(c, w, 1) = 0
  BY <1>1 DEF Numbers, OpenAt, ClosedAt
<1> QED BY <1>2, <1>3 DEF Issued, NamesIssued

LEMMA RunAloneSteady ==
  ASSUME TurnInv, StepTypeOK, NEW r \in Ranks, NEW g \in Groups, Steady(r), RunAlone(r, g)
  PROVE  Steady(r)'
<1> DEFINE h == Other(g)
<1>0. /\ h \in Groups /\ h # g /\ (\A k \in Groups : k = g \/ k = h) /\ (g = 0 \/ g = 1) /\ (g = 0 => h = 1) /\ (g = 1 => h = 0)
      /\ Placed(r) /\ Owns(r, g) /\ Ordered(r, g) /\ RankInv(r) /\ Stopped(r) /\ InTurn(r)
      /\ \A k \in Groups : Place1(r, k)
  BY TwoGroups DEF Steady, TurnInv, Placed
<1>1. /\ case' = case /\ main[r] = "alone" /\ pc[r][g] = "off" /\ pc' = [pc EXCEPT ![r][g] = "running"]
      /\ ctx' = [ctx EXCEPT ![r] = Ctx(g)] /\ row' = [row EXCEPT ![r] = g]
      /\ UNCHANGED <<main, groups, pos, wake, finished, errors, phases, open, pending, lastEvent, kept, pin>>
      /\ UNCHANGED <<ahead, calls, early, foreign>>
      /\ \A k \in 0..(g - 1) : pc[r][k] = "ended"
  BY DEF RunAlone, gpuVars
<1>2. pc'[r][g] = "running" /\ pc'[r][h] = pc[r][h] /\ ctx'[r] = Ctx(g) /\ row'[r] = g
  <2>1. pc'[r][g] = "running" /\ pc'[r][h] = pc[r][h]
    BY <1>1, TwoGroups DEF TurnInv, TurnTypeOK
  <2> QED BY <1>1, <2>1 DEF StepTypeOK, Row
<1>3. /\ Way' = Way /\ ~Pipelined /\ Grows(r) /\ Still(r, h) /\ (\A k : Kind(k)' = Kind(k)) /\ (MorePhases' <=> MorePhases)
  BY <1>0, <1>1, <1>2, SameCase DEF Grows, Still, RankInv, InMode, Mode
<1>4. (g = 0 => pc[r][1] = "off") /\ (g = 1 => pc[r][0] = "ended" /\ pos[r][0] = Behind(Kind(0)))
  <2>1. g = 0 => pc[r][1] = "off"
    BY <1>1, <1>3, <1>0 DEF RankInv, OneAfterTheOther
  <2>2. g = 1 => pc[r][0] = "ended"
    BY <1>1
  <2> QED BY <1>0, <2>1, <2>2 DEF Place1
<1>5. pos[r][g] = 1 /\ pending[r][g] = {}
  BY <1>0, <1>1 DEF Place1
<1>6. Placed(r)'
  <2>1. InTurn(r)' /\ Stopped(r)'
    BY <1>0, <1>1, <1>2, <1>3, <1>4 DEF InTurn, Stopped
  <2>2. ASSUME NEW k \in Groups PROVE Place1(r, k)'
    <3>1. CASE k = g
      BY <1>0, <1>1, <1>2, <1>3, <3>1 DEF Place1
    <3>2. CASE k = h
      BY <1>0, <1>1, <1>2, <1>3, <3>2 DEF Place1
    <3> QED BY <1>0, <3>1, <3>2
  <2> QED BY <1>0, <1>1, <2>1, <2>2 DEF Placed, Alternate
<1>7. Kind(g) \in Tails /\ Way \in Ways
  BY KindOf, Ways_
<1>8. Owns(r, g)'
  BY <1>0, <1>1, <1>2, <1>3, <1>5, <1>7, AtStart DEF Owns, CtxAt
<1>9. Ordered(r, g)'
  BY <1>0, <1>1, <1>3, <1>5, <1>7, AtStart, OrderedStays
<1>10. Called(r)' /\ Clean(r)' /\ pc[r][h] # "running"
  <2>1. Called(r) /\ Clean(r)
    BY DEF Steady
  <2> QED BY <1>0, <1>1, <1>4, <2>1, SameCalls, SameCase DEF Clean
<1> QED BY <1>1, <1>3, <1>6, <1>8, <1>9, <1>10, Keeps

\* No thread runs before or after.
LEMMA Rests ==
  ASSUME NEW r \in Ranks, Steady(r), case' = case, Placed(r)',
         UNCHANGED <<pos, phases, open, pending, lastEvent, ahead, calls, early, foreign>>,
         \A g \in Groups : pc'[r][g] \notin {"running", "waiting"} \/ pos[r][g] = 1,
         \A g \in Groups : pc'[r][g] # "running",
         \A g \in Groups : pc'[r][g] = "waiting" => kept'[r][g].ctx = Ctx(g)
  PROVE  Steady(r)'
<1>1. Way' = Way /\ (\A k : Kind(k)' = Kind(k)) /\ Grows(r)
  BY SameCase DEF Grows
<1>2. ASSUME NEW g \in Groups PROVE Owns(r, g)' /\ Ordered(r, g)'
  <2>1. Owns(r, g) /\ Ordered(r, g) /\ Kind(g) \in Tails /\ Way \in Ways
    BY KindOf, Ways_ DEF Steady
  <2>2. Owns(r, g)'
    BY <1>1, <2>1, AtStart DEF Owns, CtxAt
  <2>3. Ordered(r, g)'
    BY <1>1, <2>1, AtStart, OrderedStays
  <2> QED BY <2>2, <2>3
<1>3. Called(r)' /\ Clean(r)'
  <2>1. Called(r) /\ Clean(r)
    BY DEF Steady
  <2> QED BY <2>1, SameCalls, SameCase DEF Clean
<1> QED BY <1>2, <1>3 DEF Steady

LEMMA PlanSteady ==
  ASSUME TurnInv, StepTypeOK, NEW r \in Ranks, Steady(r), Plan(r)
  PROVE  Steady(r)'
<1>0. /\ Groups = {0, 1} /\ Placed(r) /\ Stopped(r) /\ RankInv(r) /\ case' = case /\ main[r] = "plan"
      /\ main \in [Ranks -> {"plan", "threads", "alone", "returned", "raised"}]
  BY TwoGroups DEF Steady, TurnInv, TurnTypeOK, Plan, Placed
<1>1. /\ \A g \in Groups : pc[r][g] = "off" /\ pos[r][g] = 1 /\ pending[r][g] = {} /\ ~finished[r][g]
      /\ groups[r] = <<>>
  BY <1>0 DEF Placed, Place1, Stopped
<1>2. UNCHANGED <<pos, finished, errors, phases, open, pending, lastEvent, ahead, calls, early, foreign>>
  BY DEF Plan, threadVars, globalVars, gpuVars
<1>3. /\ Way' = Way /\ (Way = "alone" <=> ~Pipelined) /\ Way \in Ways /\ (\A g : Kind(g)' = Kind(g) /\ Kind(g) \in Tails)
      /\ (MorePhases' <=> MorePhases)
  BY <1>0, Ways_, SameCase, KindOf
<1>4. \A g \in Groups : 1 \in 1..Behind(Kind(g))
  BY <1>3, Numbers_
<1>5. 1 <= K + 7
  BY Sizes DEF Size
<1>6. CASE main'[r] \in {"returned", "raised"} /\ UNCHANGED <<groups, pc>>
  <2>1. Stopped(r)' /\ Alternate(r)' /\ InTurn(r)'
    BY <1>0, <1>1, <1>2, <1>5, <1>6 DEF Stopped, Alternate, InTurn
  <2>2. \A g \in Groups : Place1(r, g)'
    BY <1>1, <1>2, <1>3, <1>4, <1>6 DEF Place1
  <2>3. Placed(r)'
    BY <1>0, <1>2, <2>1, <2>2 DEF Placed
  <2> QED BY <1>0, <1>1, <1>2, <1>6, <2>3, Rests
<1>7. CASE Verdict = "groups"
  <2>1. /\ main'[r] = (IF Pipelined THEN "threads" ELSE "alone")
        /\ \A g \in Groups : /\ pc'[r][g] = (IF Pipelined THEN "waiting" ELSE "off")
                             /\ kept'[r][g].ctx = Ctx(g) /\ wake'[r][g] = (Pipelined /\ g = 0)
    <3>1. main'[r] = (IF Pipelined THEN "threads" ELSE "alone")
      BY <1>0, <1>7 DEF Plan
    <3>2. pc'[r] = [g \in Groups |-> IF Pipelined THEN "waiting" ELSE "off"]
      BY <1>7 DEF Plan, TurnInv, TurnTypeOK
    <3>3. wake'[r] = [g \in Groups |-> Pipelined /\ g = 0]
      BY <1>7 DEF Plan, TurnInv, TurnTypeOK, FirstTurn
    <3>4. kept'[r] = [g \in Groups |-> [ctx |-> Ctx(g), pin |-> <<>>]]
      BY <1>7 DEF Plan, StepTypeOK, Table, Row
    <3> QED BY <3>1, <3>2, <3>3, <3>4
  <2>2. Alternate(r)'
    <3>1. SUFFICES ASSUME Pipelined PROVE Turn(r, 0)' /\ Partner(r, 0)'
      BY <1>0, <2>1 DEF Alternate
    <3>2. pc'[r][0] = "waiting" /\ pc'[r][1] = "waiting" /\ wake'[r][0] /\ ~wake'[r][1]
      <4>1. 0 \in Groups /\ 1 \in Groups /\ ~(1 = 0)
        BY <1>0
      <4>2. pc'[r][0] = "waiting" /\ pc'[r][1] = "waiting"
        BY <2>1, <3>1, <4>1
      <4>3. wake'[r][0] = (Pipelined /\ 0 = 0) /\ wake'[r][1] = (Pipelined /\ 1 = 0)
        BY <2>1, <4>1, Zenon
      <4>4. wake'[r][0] /\ ~wake'[r][1]
        BY <3>1, <4>1, <4>3, Zenon
      <4> QED BY <4>2, <4>4
    <3>3. Run(Kind(0), Way, 1) = 0 /\ Mate(0, 0) = 0 /\ Begins(Kind(1), Way, 0) = 1 /\ LastRun(Kind(1), Way) \in Nat
      <4>1. Run(Kind(0), Way, 1) = 0 /\ LastRun(Kind(1), Way) \in Nat
        BY <1>0, <1>3, <1>4, RunsLeft, RunBegins
      <4>2. Mate(0, 0) = 0 /\ Begins(Kind(1), Way, 0) = 1
        BY DEF Mate, Begins
      <4> QED BY <4>1, <4>2
    <3>4. pos'[r][0] = 1 /\ pos'[r][1] = 1 /\ Other(0) = 1
      BY <1>0, <1>1, <1>2, TwoGroups
    <3>5. ~(0 > LastRun(Kind(1), Way))
      BY <3>3
    <3>6. ~NoMate(r, 0)' /\ Waits(r, 1)'
      BY <1>3, <3>2, <3>3, <3>4, <3>5 DEF NoMate, Waits
    <3>7. pos'[r][1] = Opposite(Kind(1), Way, 0, Kind(0), pos'[r][0])
      BY <3>3, <3>4 DEF Opposite
    <3> QED BY <1>3, <3>2, <3>4, <3>6, <3>7 DEF Partner, Turn, HasTurn
  <2>3. InTurn(r)' /\ Stopped(r)'
    BY <1>0, <1>1, <1>2, <1>5, <2>1 DEF InTurn, Stopped
  <2>4. \A g \in Groups : Place1(r, g)'
    BY <1>1, <1>2, <1>3, <1>4, <2>1 DEF Place1
  <2>5. Placed(r)'
    BY <1>0, <1>2, <2>2, <2>3, <2>4 DEF Placed
  <2> QED BY <1>0, <1>1, <1>2, <2>1, <2>5, Rests
<1>8. Verdict = "groups" \/ (main'[r] \in {"returned", "raised"} /\ UNCHANGED <<groups, pc>>)
  BY <1>0 DEF Plan, threadVars
<1> QED BY <1>6, <1>7, <1>8

LEMMA JoinSteady ==
  ASSUME TurnInv, StepTypeOK, NEW r \in Ranks, Steady(r), Join(r)
  PROVE  Steady(r)'
<1>0. /\ Placed(r) /\ Stopped(r) /\ RankInv(r) /\ case' = case /\ AllDone(r)
      /\ main \in [Ranks -> {"plan", "threads", "alone", "returned", "raised"}]
      /\ UNCHANGED <<groups, pc, pos, wake, finished, errors, phases, open, pending, lastEvent, kept>>
      /\ UNCHANGED <<ahead, calls, early, foreign>>
      /\ main' = [main EXCEPT ![r] = IF errors[r] = {} THEN "returned" ELSE "raised"]
      /\ \A g \in Groups : Place1(r, g)
  BY DEF Steady, TurnInv, TurnTypeOK, Join, threadVars, gpuVars, Placed
<1>1. main'[r] \in {"returned", "raised"}
  BY <1>0
<1>2. \A g \in Groups : pc[r][g] = "ended"
  BY <1>0 DEF AllDone, Placed
<1>3. ~MorePhases
  <2>1. ASSUME MorePhases PROVE FALSE
    <3>1. 1 \in Groups /\ Kind(1) = "whole" /\ pos[r][1] <= K + 7
      BY <1>0, <2>1, TwoGroups, Ways_ DEF Stopped
    <3>2. pos[r][1] = Behind("whole")
      BY <1>0, <1>2, <3>1 DEF Place1
    <3>3. Behind("whole") > K + 7 /\ K \in Int /\ Behind("whole") \in Int
      BY Numbers_ DEF Numbers, Tails
    <3> QED BY <3>1, <3>2, <3>3
  <2> QED BY <2>1
<1>4. (~MorePhases)' /\ \A g : Kind(g)' = Kind(g)
  BY <1>0, <1>3, SameCase
<1>5. Placed(r)'
  <2>1. Alternate(r)' /\ InTurn(r)' /\ Stopped(r)'
    BY <1>1, <1>4 DEF Alternate, InTurn, Stopped
  <2>2. \A g \in Groups : Place1(r, g)'
    BY <1>0, <1>4 DEF Place1
  <2> QED BY <1>0, <2>1, <2>2 DEF Placed
<1> QED BY <1>0, <1>2, <1>5, Rests
-----------------------------------------------------------------------------
(* Failing, and every step *)

\* A rank that fails keeps failing: nothing clears an error.
LEMMA FailingStays ==
  ASSUME TurnInv, StepTypeOK, NEW r \in Ranks, NEW g \in Groups, Failing(r), main[r] \notin {"plan", "returned"},
         Plan(r) \/ Join(r) \/ Thread(r, g) \/ Fault(r, g)
  PROVE  Failing(r)' /\ main'[r] \notin {"plan", "returned"}
<1>0. pc \in [Ranks -> [Groups -> PcOf]] /\ DOMAIN errors = Ranks /\ DOMAIN main = Ranks /\ ~Plan(r)
  BY DEF TurnInv, TurnTypeOK, StepTypeOK, Row, Plan
<1>1. errors[r] \subseteq errors'[r]
  <2>1. CASE Unwind(r, g)
    BY <1>0, <2>1 DEF Unwind
  <2>2. CASE ~Unwind(r, g)
    <3>1. CASE Thread(r, g)
      BY <2>2, <3>1 DEF Thread, TakeTurn, Compute, Collective, PhaseBegin, PhaseEnd, ReplayBegin, EnterReplay,
                        LeaveReplay, YieldPoint, ReplayEnd, FinishTail, SetFinished, WakeOther, RunAlone
    <3>2. CASE Join(r) \/ Fault(r, g)
      BY <3>2 DEF Join, Fault, Raise, TurnTimeout, threadVars
    <3> QED BY <1>0, <3>1, <3>2
  <2> QED BY <2>1, <2>2
<1>2. ASSUME NEW h \in Groups, pc[r][h] = "unwinding" PROVE pc'[r][h] = "unwinding" \/ errors'[r] # {}
  <2>1. CASE Unwind(r, g)
    BY <1>0, <2>1 DEF Unwind
  <2>2. CASE UNCHANGED pc
    BY <1>2, <2>2
  <2>3. CASE pc[r][g] # "unwinding" /\ \E x : pc' = [pc EXCEPT ![r][g] = x]
    BY <1>0, <1>2, <2>3
  <2>4. CASE Raise(r, g) \/ TurnTimeout(r, g)
    BY <1>0, <1>2, <2>4 DEF Raise, TurnTimeout
  <2>5. ASSUME NEW event, NEW myPin, HandOver(r, g, event, myPin) \/ ClosePhase(r, g, myPin)
        PROVE  UNCHANGED pc \/ \E x : pc' = [pc EXCEPT ![r][g] = x]
    BY <2>5 DEF ClosePhase, HandOver, GoOn, GiveTurn
  <2>6. CASE PhaseEnd(r, g) \/ YieldPoint(r, g) \/ ReplayEnd(r, g)
    <3>1. pc[r][g] # "unwinding"
      BY <2>6 DEF PhaseEnd, YieldPoint, ReplayEnd, Runs
    <3>2. UNCHANGED pc \/ \E event, myPin : HandOver(r, g, event, myPin) \/ ClosePhase(r, g, myPin)
      BY <2>6 DEF PhaseEnd, YieldPoint, ReplayEnd
    <3> QED BY <2>2, <2>3, <2>5, <3>1, <3>2
  <2>7. CASE Compute(r, g) \/ Collective(r, g) \/ PhaseBegin(r, g) \/ ReplayBegin(r, g) \/ EnterReplay(r, g)
             \/ LeaveReplay(r, g) \/ Join(r)
    BY <2>2, <2>7 DEF Compute, Collective, PhaseBegin, ReplayBegin, EnterReplay, LeaveReplay, Join, threadVars
  <2>8. CASE TakeTurn(r, g) \/ FinishTail(r, g) \/ SetFinished(r, g) \/ WakeOther(r, g) \/ RunAlone(r, g)
    BY <2>3, <2>8 DEF TakeTurn, FinishTail, SetFinished, WakeOther, RunAlone
  <2> QED BY <1>0, <2>1, <2>4, <2>6, <2>7, <2>8 DEF Thread, Fault
<1>3. main'[r] \notin {"plan", "returned"}
  <2>1. CASE Join(r)
    <3>1. \A h \in Groups : pc[r][h] # "unwinding"
      BY <2>1 DEF Join, AllDone
    <3>2. errors[r] # {}
      BY <3>1 DEF Failing
    <3> QED BY <1>0, <2>1, <3>2 DEF Join
  <2>2. CASE Thread(r, g) \/ Fault(r, g)
    <3>1. main' = main
      BY <2>2 DEF Thread, TakeTurn, Compute, Collective, PhaseBegin, PhaseEnd, ReplayBegin, EnterReplay, LeaveReplay,
                  YieldPoint, ReplayEnd, Unwind, FinishTail, SetFinished, WakeOther, RunAlone, Fault, Raise, TurnTimeout
    <3> QED BY <3>1
  <2> QED BY <1>0, <2>1, <2>2
<1> QED BY <1>1, <1>2, <1>3 DEF Failing

LEMMA ThreadOk ==
  ASSUME TurnInv, StepTypeOK, NEW r \in Ranks, NEW g \in Groups, Steady(r), Thread(r, g)
  PROVE  StepOk(r)'
<1>1. CASE PhaseEnd(r, g) \/ ReplayEnd(r, g)
  BY <1>1, PhaseEndSteady, ReplayEndSteady
<1>2. CASE ~(PhaseEnd(r, g) \/ ReplayEnd(r, g))
  <2>1. ~Unwind(r, g)
    BY DEF Unwind, Steady, Placed, Place1
  <2>2. Steady(r)'
    BY <1>2, <2>1, TakeTurnSteady, ComputeSteady, CollectiveSteady, PhaseBeginSteady, ReplayBeginSteady,
       ContextSteady, YieldPointSteady, EndSteady, RunAloneSteady DEF Thread
  <2> QED BY <2>2 DEF StepOk
<1> QED BY <1>1, <1>2

LEMMA FaultFails ==
  ASSUME TurnInv, NEW r \in Ranks, NEW g \in Groups, Fault(r, g)
  PROVE  Failing(r)' /\ r \in case.faulty \cup case.hasty /\ main'[r] \notin {"plan", "returned"}
<1>1. /\ pc \in [Ranks -> [Groups -> PcOf]] /\ r \in case.faulty \cup case.hasty /\ main' = main
      /\ pc[r][g] \in {"running", "waiting"} /\ RankInv(r)
  BY DEF TurnInv, TurnTypeOK, Fault, Raise, TurnTimeout, Runs
<1>2. pc' = [pc EXCEPT ![r][g] = "unwinding"]
  BY DEF Fault, Raise, TurnTimeout
<1>3. pc'[r][g] = "unwinding"
  BY <1>1, <1>2
<1>4. main[r] = Mode
  BY <1>1 DEF RankInv, InMode
<1> QED BY <1>1, <1>3, <1>4 DEF Failing, Mode

LEMMA InitStep == Init => StepInv
<1> SUFFICES ASSUME Init PROVE StepInv
  OBVIOUS
<1>1. TurnInv
  BY InitTurn
<1>2. StepTypeOK
  BY DEF Init, None, StepTypeOK, Row, Table
<1>3. ASSUME NEW r \in Ranks PROVE Steady(r)
  <2>1. /\ main[r] = "plan" /\ errors[r] = {} /\ calls[r] = <<>> /\ early[r] = {} /\ foreign[r] = {} /\ groups[r] = <<>>
        /\ \A g \in Groups : /\ pc[r][g] = "off" /\ pos[r][g] = 1 /\ ~finished[r][g] /\ phases[r][g] = 0
                             /\ open[r][g] = "none" /\ pending[r][g] = {}
    BY DEF Init, None
  <2>2. /\ 1 <= K + 7 /\ ~(1 > K + 4) /\ ~(1 >= K + 4) /\ ~(1 >= K + 6)
    BY Sizes DEF Size
  <2>3. \A g \in Groups : Kind(g) \in Tails /\ Way \in Ways /\ 1 \in 1..Behind(Kind(g))
    BY KindOf, Ways_, Numbers_
  <2>4. Placed(r)
    <3>1. Stopped(r) /\ Alternate(r) /\ InTurn(r)
      BY <2>1, <2>2, TwoGroups DEF Stopped, Alternate, InTurn
    <3>2. \A g \in Groups : Place1(r, g)
      BY <2>1, <2>3 DEF Place1
    <3> QED BY <2>1, <3>1, <3>2 DEF Placed
  <2>5. Called(r)
    <3>1. Colls(Kind(0), 1) = 0 /\ Colls(Kind(1), 1) = 0
      BY <2>3, CollsRise, TwoGroups
    <3>2. pos[r][0] = 1 /\ pos[r][1] = 1
      BY <2>1, TwoGroups
    <3>3. Len(calls[r]) = 0
      BY <2>1
    <3> QED BY <3>1, <3>2, <3>3 DEF Called
  <2>6. ASSUME NEW g \in Groups PROVE Owns(r, g) /\ Ordered(r, g)
    <3>1. Owns(r, g)
      BY <2>1, <2>3, AtStart DEF Owns
    <3>2. Written(r, g)
      BY <2>1, <2>3, AtStart DEF Written
    <3>3. Gathers(r, g)
      BY <2>1, <2>2 DEF Gathers
    <3>4. Ordered(r, g)
      BY <2>1, <3>2, <3>3 DEF Ordered
    <3> QED BY <3>1, <3>4
  <2> QED BY <2>1, <2>4, <2>5, <2>6 DEF Steady, Clean
<1> QED BY <1>1, <1>2, <1>3 DEF StepInv, StepOk

LEMMA NextStep == StepInv /\ [Next]_vars => StepInv'
<1> SUFFICES ASSUME StepInv, [Next]_vars PROVE StepInv'
  OBVIOUS
<1>1. TurnInv' /\ TurnInv /\ StepTypeOK
  BY NextTurn DEF StepInv
<1>2. ASSUME NEW r \in Ranks, NEW g \in Groups, Plan(r) \/ Join(r) \/ Thread(r, g) \/ Fault(r, g) PROVE StepInv'
  <2>1. Local(r)
    BY <1>1, <1>2, LocalPlan, LocalTurns, LocalMoves DEF Thread, Fault
  <2>2. StepOk(r)'
    <3>1. CASE Steady(r) /\ ~Fault(r, g)
      BY <1>1, <1>2, <3>1, ThreadOk, PlanSteady, JoinSteady DEF StepOk
    <3>2. CASE Steady(r) /\ Fault(r, g)
      BY <1>1, <2>1, <3>2, FaultFails DEF StepOk, Local
    <3>3. CASE Failing(r) /\ main[r] \notin {"plan", "returned"} /\ (r \in case.faulty \cup case.hasty \/ MorePhases)
      <4>1. case' = case /\ (MorePhases' <=> MorePhases)
        BY <2>1, SameCase DEF Local
      <4>2. Failing(r)' /\ main'[r] \notin {"plan", "returned"}
        BY <1>1, <1>2, <3>3, FailingStays
      <4> QED BY <3>3, <4>1, <4>2 DEF StepOk
    <3> QED BY <3>1, <3>2, <3>3 DEF StepInv, StepOk
  <2>3. ASSUME NEW q \in Ranks PROVE StepOk(q)'
    <3>1. CASE q # r
      BY <2>1, <3>1, SameStep DEF StepInv, Local
    <3> QED BY <2>2, <3>1
  <2> QED BY <1>1, <2>1, <2>3 DEF StepInv, Local
<1>3. CASE UNCHANGED vars
  <2>1. StepTypeOK' /\ case' = case
    BY <1>1, <1>3 DEF StepTypeOK, Row, Table, vars, threadVars, globalVars, gpuVars
  <2>2. ASSUME NEW q \in Ranks PROVE StepOk(q)'
    <3>1. SameAt(q)
      BY <1>3 DEF SameAt, Agree, vars, threadVars, globalVars, gpuVars
    <3> QED BY <2>1, <3>1, SameStep DEF StepInv
  <2> QED BY <1>1, <2>1, <2>2 DEF StepInv
<1> QED BY <1>2, <1>3, TwoGroups DEF Next, Rank

-----------------------------------------------------------------------------
(* What the threads of a step promise *)

LEMMA StepAlways == Spec => []StepInv
<1>1. Init => StepInv
  BY InitStep
<1>2. StepInv /\ [Next]_vars => StepInv'
  BY NextStep
<1> QED BY <1>1, <1>2, PTL DEF Spec

\* A rank fails only if one of its threads raised or gave up waiting, or if group 1
\* has phases that group 0 lacks; and with such groups no rank returns.
THEOREM FailsForAReason == Spec => []RaisesForAReason
<1>1. StepInv => RaisesForAReason
  <2>1. SUFFICES ASSUME StepInv, NEW r \in Ranks
                 PROVE  /\ Failing(r) => r \in case.faulty \cup case.hasty \/ MorePhases
                        /\ MorePhases /\ groups[r] # <<>> => main[r] # "returned"
    BY DEF RaisesForAReason
  <2>2. CASE Steady(r)
    <3>1. ~Failing(r) /\ Stopped(r)
      BY <2>2, SteadyNotFailing DEF Steady, Placed
    <3> QED BY <3>1 DEF Stopped
  <2>3. CASE Failing(r) /\ main[r] # "returned" /\ (r \in case.faulty \cup case.hasty \/ MorePhases)
    BY <2>3
  <2> QED BY <2>1, <2>2, <2>3 DEF StepInv, StepOk
<1> QED BY <1>1, StepAlways, PTL

\* Whatever a thread launches runs under its own forward context, row buffers and
\* pin, for any number of layers and any switches.
THEOREM StateIsOwn == Spec => []OwnState
<1>1. StepInv => OwnState
  BY DEF StepInv, StepOk, Steady, Clean, OwnState
<1> QED BY <1>1, StepAlways, PTL

\* Everything a kernel reads is ordered before it on the GPU, across hand-overs,
\* phases and streams; except in a pipelined step whose group 1 alone has a replay
\* batch and reads rows of a request that group 0 has, too.
THEOREM StreamsInOrder == Spec => [](Disordered \/ StreamOrder)
<1>1. StepInv => Disordered \/ StreamOrder
  BY DEF StepInv, StepOk, Steady, Clean, StreamOrder
<1> QED BY <1>1, StepAlways, PTL

LEMMA AgreeingPrefix ==
  ASSUME NEW S, NEW s \in Seq(S), NEW t \in Seq(S), Len(s) <= Len(t), \A i \in 1..Len(s) : s[i] = t[i]
  PROVE  IsPrefix(s, t)
<1> DEFINE n == Len(s)
<1>1. n \in Nat /\ Len(t) \in Nat
  OBVIOUS
<1>2. SubSeq(s, 1, n) = [i \in 1..n |-> s[i]] /\ SubSeq(t, 1, n) = [i \in 1..n |-> t[i]]
  BY <1>1
<1> QED BY <1>1, <1>2 DEF IsPrefix

\* No two collectives of a step have the same place.
LEMMA OneNth == ASSUME NEW x, NEW y, NEW i, IsNth(x, i), IsNth(y, i) PROVE x = y
<1>1. PICK g \in Groups, p \in Nat : IsCall(Kind(g), p) /\ Place(g, p) = i /\ x = Op(g, TailOf(Kind(g))[p])
  BY DEF IsNth
<1>2. PICK h \in Groups, q \in Nat : IsCall(Kind(h), q) /\ Place(h, q) = i /\ y = Op(h, TailOf(Kind(h))[q])
  BY DEF IsNth
<1>3. g = h /\ p = q
  BY <1>1, <1>2, OnePlace, Ways_
<1> QED BY <1>1, <1>2, <1>3

\* Ranks that do not fail issue the same collectives in the same order: each has
\* issued the first ones of one fixed sequence.
THEOREM CollectivesAgree == Spec => []SameCollectives
<1>1. StepInv => SameCollectives
  <2>1. SUFFICES ASSUME StepInv, NEW q \in Ranks, NEW r \in Ranks, ~Failing(q), ~Failing(r)
                 PROVE  IsPrefix(calls[q], calls[r]) \/ IsPrefix(calls[r], calls[q])
    BY DEF SameCollectives
  <2>2. Called(q) /\ Called(r) /\ calls[q] \in Seq(AllOps) /\ calls[r] \in Seq(AllOps)
    BY <2>1 DEF StepInv, StepOk, Steady, StepTypeOK
  <2>3. Len(calls[q]) \in Nat /\ Len(calls[r]) \in Nat
    BY <2>2
  <2>4. /\ \A i \in 1..Len(calls[q]) : IsNth(calls[q][i], i)
        /\ \A i \in 1..Len(calls[r]) : IsNth(calls[r][i], i)
    BY <2>2 DEF Called
  <2>5. CASE Len(calls[q]) <= Len(calls[r])
    <3>1. \A i \in 1..Len(calls[q]) : calls[q][i] = calls[r][i]
      BY <2>3, <2>4, <2>5, OneNth
    <3> QED BY <2>2, <2>5, <3>1, AgreeingPrefix
  <2>6. CASE Len(calls[r]) <= Len(calls[q])
    <3>1. \A i \in 1..Len(calls[r]) : calls[r][i] = calls[q][i]
      BY <2>3, <2>4, <2>6, OneNth
    <3> QED BY <2>2, <2>6, <3>1, AgreeingPrefix
  <2> QED BY <2>3, <2>5, <2>6
<1> QED BY <1>1, StepAlways, PTL

\* Behind the gate of TAIL=barrier and TAIL=sync the sequence-parallel layers of
\* both groups are complete when a tail's first kernel is issued.
THEOREM TailsAreGated == Spec => []TailGated
<1>1. StepInv => TailGated
  <2>1. SUFFICES ASSUME StepInv, NEW r \in Ranks, NEW g \in Groups, ~Failing(r), Pipelined,
                        setup.tail # "serial", Runs(r, g, "coll"), At(r, g).name = "gather", NEW h \in Groups
                 PROVE  SpOps(h) \subseteq ahead[r][Stream(r, g)]
    BY DEF TailGated
  <2> DEFINE c == Kind(g)
             p == pos[r][g]
  <2>2. Steady(r) /\ TurnInv
    BY <2>1 DEF StepInv, StepOk
  <2>3. c \in Tails /\ Way \in Ways /\ p \in 1..Len(TailOf(c)) /\ TailOf(c)[p] = At(r, g)
    <3>1. p \in Nat \ {0} /\ Tail_(g) = TailOf(c) /\ p <= Len(TailOf(c)) /\ c \in Tails /\ Way \in Ways
      BY <2>1, KindOf, Ways_ DEF Runs, StepInv, StepTypeOK
    <3>2. Len(TailOf(c)) = Behind(c) - 1 /\ Behind(c) \in Nat
      BY <3>1, Layout, Numbers_
    <3>3. p \in 1..Len(TailOf(c))
      BY <3>1, <3>2
    <3> QED BY <3>1, <3>3 DEF At
  <2>4. CollIs(c, Way, p, At(r, g)) /\ ShapeIs(c, p, At(r, g)) /\ At(r, g).do = "coll"
    BY <2>1, <2>3, Steps, Shape DEF StepIs, Runs
  <2>5. p = K + 6 /\ K \in Nat /\ HasReplay(g)
    <3>1. p = K + 6 /\ K \in Nat
      BY <2>1, <2>4, Sizes DEF CollIs, Size
    <3>2. c = "cut"
      <4>1. \A n, l : I("coll", n, l).name = n
        BY Fields
      <4> QED BY <2>1, <2>4, <4>1 DEF ShapeIs
    <3> QED BY <3>1, <3>2, KindOf
  <2>6. open[r][g] \in {"none", "replay"}
    <3>1. open[r][g] = OpenAt(c, Way, p)
      BY <2>2 DEF Steady, Owns
    <3>2. OpenAt(c, Way, p) = (IF Way = "stream" THEN "replay" ELSE "none")
      BY <2>1, <2>4 DEF CollIs
    <3> HIDE DEF c, p
    <3> QED BY <3>1, <3>2
  <2>7. SpOps(h) \subseteq ahead[r]["C"] /\ (open[r][g] = "replay" => SpOps(h) \subseteq ahead[r]["R"])
    <3>1. Gathers(r, g) /\ Gate /\ p >= K + 6
      <4>1. Gathers(r, g) /\ Gate
        BY <2>1, <2>2 DEF Steady, Ordered, Gate
      <4>2. p >= K + 6
        <5> HIDE DEF p
        <5> QED BY <2>5
      <4> QED BY <4>1, <4>2
    <3>2. \A k \in Groups : /\ SpOps(k) \subseteq ahead[r]["C"]
                            /\ open[r][g] = "replay" => SpOps(k) \subseteq ahead[r]["R"]
      BY <2>5, <3>1 DEF Gathers
    <3> QED BY <3>2
  <2> QED BY <2>6, <2>7 DEF Stream
<1> QED BY <1>1, StepAlways, PTL

-----------------------------------------------------------------------------
(* The plan: the requests of a step and its groups *)

\* The natural numbers are well-founded: what replaces induction here.
LEMMA LeastOf ==
  ASSUME NEW S, S \subseteq Nat, S # {}
  PROVE  \E n \in S : \A m \in S : n <= m
<1>1. IsWellFoundedOn(OpToRel(<,Nat), Nat)
  BY NatLessThanWellFounded
<1>2. PICK x \in S : \A y \in S : ~(<<y, x>> \in OpToRel(<,Nat))
  BY <1>1, WFMin
<1>3. \A y \in S : ~(y < x)
  BY <1>2 DEF OpToRel
<1> QED BY <1>3

\* What is kept from each number to the next holds of all of them.
LEMMA Climb ==
  ASSUME NEW n \in Nat, NEW S, 0 \in S, \A k \in 1..n : k - 1 \in S => k \in S
  PROVE  0..n \subseteq S
<1>1. SUFFICES ASSUME (0..n) \ S # {} PROVE FALSE
  OBVIOUS
<1> DEFINE T == (0..n) \ S
<1>5. T \subseteq Nat /\ T # {}
  BY <1>1
<1> HIDE DEF T
<1>6. PICK k \in T : \A m \in T : k <= m
  BY <1>5, LeastOf
<1>2. k \in (0..n) \ S /\ \A m \in (0..n) \ S : k <= m
  BY <1>6 DEF T
<1>3. k # 0 /\ k - 1 \in 0..n /\ k \in 1..n
  BY <1>2
<1>4. k - 1 \in S
  BY <1>2, <1>3
<1> QED BY <1>2, <1>3, <1>4

StartsTo(lens, n, f) == f = [j \in 0..n |-> IF j = 0 THEN 0 ELSE f[j - 1] + lens[j]]
LEMMA StartsExist ==
  ASSUME NEW lens \in Seq(Nat \ {0})
  PROVE  \A n \in 0..Len(lens) : \E f : StartsTo(lens, n, f)
<1> DEFINE S == {n \in 0..Len(lens) : \E f : StartsTo(lens, n, f)}
<1>1. 0 \in S
  <2>1. StartsTo(lens, 0, [j \in 0..0 |-> 0])
    BY DEF StartsTo
  <2> QED BY <2>1
<1>2. ASSUME NEW k \in 1..Len(lens), k - 1 \in S PROVE k \in S
  <2>1. PICK f : StartsTo(lens, k - 1, f)
    BY <1>2
  <2> DEFINE g == [j \in 0..k |-> IF j = k THEN f[k - 1] + lens[k] ELSE f[j]]
  <2>3. k \in Int /\ k > 0 /\ DOMAIN f = 0..(k - 1)
    BY <2>1 DEF StartsTo
  <2>4. \A j \in 0..k : j # k => j \in 0..(k - 1) /\ g[j] = f[j]
    BY <2>3
  <2>5. \A j \in 0..(k - 1) : j # 0 => j - 1 \in 0..(k - 1) /\ j - 1 # k
    BY <2>3
  <2>6. \A j \in 0..(k - 1) : f[j] = IF j = 0 THEN 0 ELSE f[j - 1] + lens[j]
    BY <2>1 DEF StartsTo
  <2>7. g[k] = g[k - 1] + lens[k]
    BY <2>3
  <2>8. \A j \in 0..k : g[j] = IF j = 0 THEN 0 ELSE g[j - 1] + lens[j]
    <3>1. ASSUME NEW j \in 0..k, j # k
          PROVE  g[j] = IF j = 0 THEN 0 ELSE g[j - 1] + lens[j]
      <4>1. g[j] = f[j] /\ j \in 0..(k - 1) /\ (j # 0 => g[j - 1] = f[j - 1])
        BY <2>3, <2>4, <2>5, <3>1
      <4> QED BY <2>6, <4>1
    <3> HIDE DEF g
    <3> QED BY <2>3, <2>7, <3>1
  <2>9. g = [j \in 0..k |-> IF j = 0 THEN 0 ELSE g[j - 1] + lens[j]]
    <3>1. g = [j \in 0..k |-> g[j]]
      OBVIOUS
    <3> HIDE DEF g
    <3>2. [j \in 0..k |-> g[j]] = [j \in 0..k |-> IF j = 0 THEN 0 ELSE g[j - 1] + lens[j]]
      BY <2>8
    <3> QED BY <3>1, <3>2, Zenon
  <2>2. StartsTo(lens, k, g)
    BY <2>9 DEF StartsTo
  <2> QED BY <2>2
<1> HIDE DEF S
<1>3. 0..Len(lens) \subseteq S
  <2>1. Len(lens) \in Nat /\ \A k \in 1..Len(lens) : k - 1 \in S => k \in S
    BY <1>2
  <2> QED BY <1>1, <2>1, Climb
<1> QED BY <1>3 DEF S

LEMMA StartsAre ==
  ASSUME NEW lens \in Seq(Nat \ {0})
  PROVE  StartsTo(lens, Len(lens), Starts(lens))
<1>1. \E f : f = [j \in 0..Len(lens) |-> IF j = 0 THEN 0 ELSE f[j - 1] + lens[j]]
  BY StartsExist DEF StartsTo
<1> QED BY <1>1 DEF Starts, StartsTo

\* query_start_loc starts at 0 and increases strictly, as no request is empty.
LEMMA StartsIncrease ==
  ASSUME NEW lens \in Seq(Nat \ {0})
  PROVE  /\ Starts(lens)[0] = 0
         /\ \A j \in 0..Len(lens) : Starts(lens)[j] \in Nat
         /\ \A i, j \in 0..Len(lens) : i < j => Starts(lens)[i] < Starts(lens)[j]
<1> DEFINE n == Len(lens)
           q == Starts(lens)
           S == {j \in 0..n : q[j] \in Nat /\ \A i \in 0..n : i < j => q[i] \in Nat /\ q[i] < q[j]}
<1>1. n \in Nat /\ \A j \in 0..n : q[j] = IF j = 0 THEN 0 ELSE q[j - 1] + lens[j]
  <2>1. q = [j \in 0..n |-> IF j = 0 THEN 0 ELSE q[j - 1] + lens[j]]
    BY StartsAre DEF StartsTo
  <2>2. n \in Nat
    OBVIOUS
  <2> HIDE DEF q, n
  <2> QED BY <2>1, <2>2
<1>2. \A j \in 1..n : lens[j] \in Nat /\ lens[j] > 0
  OBVIOUS
<1> HIDE DEF q, n
<1>3. 0 \in S
  BY <1>1
<1>4. ASSUME NEW k \in 1..n, k - 1 \in S PROVE k \in S
  <2>1. q[k] = q[k - 1] + lens[k] /\ q[k - 1] \in Nat /\ k \in 0..n /\ k - 1 \in 0..n /\ n \in Nat
    BY <1>1, <1>4
  <2>2. q[k] \in Nat /\ q[k - 1] < q[k]
    BY <1>2, <2>1
  <2>3. ASSUME NEW i \in 0..n, i < k PROVE q[i] \in Nat /\ q[i] < q[k]
    <3>1. CASE i = k - 1
      BY <2>1, <2>2, <3>1
    <3>2. CASE i < k - 1
      <4>1. q[i] \in Nat /\ q[i] < q[k - 1]
        BY <1>4, <3>2
      <4> QED BY <2>1, <2>2, <4>1
    <3> QED BY <2>1, <2>3, <3>1, <3>2
  <2> QED BY <2>1, <2>2, <2>3
<1> HIDE DEF S
<1>5. 0..n \subseteq S
  <2>1. \A k \in 1..n : k - 1 \in S => k \in S
    BY <1>4
  <2> QED BY <1>1, <1>3, <2>1, Climb
<1>6. q[0] = 0
  BY <1>1
<1>7. \A j \in 0..n : q[j] \in Nat /\ \A i \in 0..n : i < j => q[i] < q[j]
  BY <1>5 DEF S
<1> QED BY <1>6, <1>7 DEF q, n

\* A row is of one request, which searchsorted finds.
LEMMA RowOf ==
  ASSUME NEW n \in Nat, NEW q, q[0] = 0, \A j \in 0..n : q[j] \in Nat,
         \A i, j \in 0..n : i < j => q[i] < q[j], NEW x \in 0..(q[n] - 1)
  PROVE  \E k \in 0..(n - 1) :
           /\ q[k] <= x /\ x < q[k + 1] /\ Cardinality({j \in 0..n : q[j] <= x}) = k + 1
           /\ \A j \in 0..(n - 1) : q[j] <= x /\ x < q[j + 1] => j = k
<1> DEFINE T == {j \in 0..n : q[j] > x}
<1>1. x \in Nat /\ q[n] \in Nat /\ x < q[n] /\ n \in 0..n
  OBVIOUS
<1>2. T \subseteq Nat /\ T # {}
  BY <1>1
<1> HIDE DEF T
<1>3. PICK m \in T : \A j \in T : m <= j
  BY <1>2, LeastOf
<1>4. m \in 0..n /\ q[m] > x /\ \A j \in 0..n : j < m => ~(q[j] > x)
  BY <1>3 DEF T
<1> DEFINE k == m - 1
<1>5. m # 0 /\ k \in 0..(n - 1) /\ k + 1 = m /\ k \in 0..n /\ k < m
  BY <1>1, <1>4
<1>6. q[k] <= x /\ x < q[k + 1]
  BY <1>1, <1>4, <1>5
<1>7. {j \in 0..n : q[j] <= x} = 0..k
  <2>1. ASSUME NEW j \in 0..n PROVE q[j] <= x <=> j <= k
    <3>1. CASE j < m
      BY <1>1, <1>4, <1>5, <3>1
    <3>2. CASE j = m
      BY <1>1, <1>4, <1>5, <3>2
    <3>3. CASE j > m
      BY <1>1, <1>4, <1>5, <3>3
    <3> QED BY <1>4, <3>1, <3>2, <3>3
  <2> HIDE DEF k
  <2> QED BY <1>5, <2>1
<1>8. Cardinality(0..k) = k + 1
  BY <1>5, FS_Interval
<1>9. \A j \in 0..(n - 1) : q[j] <= x /\ x < q[j + 1] => j = k
  <2>1. ASSUME NEW j \in 0..(n - 1), q[j] <= x, x < q[j + 1] PROVE j = k
    <3>1. j \in 0..n /\ j + 1 \in 0..n /\ q[j] \in Nat /\ q[j + 1] \in Nat /\ j \in Int
      OBVIOUS
    <3>2. ~(j < k)
      <4>1. ASSUME j < k PROVE FALSE
        <5>1. j + 1 = k \/ j + 1 < k
          BY <1>5, <3>1, <4>1
        <5>2. q[j + 1] <= q[k]
          BY <1>1, <1>5, <3>1, <5>1
        <5> QED BY <1>1, <1>5, <1>6, <2>1, <3>1, <5>2
      <4> QED BY <4>1
    <3>3. ~(k < j)
      <4>1. ASSUME k < j PROVE FALSE
        <5>1. m = j \/ m < j
          BY <1>4, <1>5, <3>1, <4>1
        <5>2. q[m] <= q[j]
          BY <1>1, <1>4, <3>1, <5>1
        <5> QED BY <1>1, <1>4, <2>1, <3>1, <5>2
      <4> QED BY <4>1
    <3> QED BY <1>5, <3>1, <3>2, <3>3
  <2> QED BY <2>1
<1> HIDE DEF k
<1> QED BY <1>5, <1>6, <1>7, <1>8, <1>9

Planned == batch.lens \in Seq(Nat \ {0}) /\ batch.decodes \in 0..Len(batch.lens)
Begun(k, x) == QueryStart(k) <= x /\ x < QueryStart(k + 1)

\* What RequestAt and OwnerOf make of a row.
LEMMA RequestIs ==
  ASSUME Planned, NEW x \in 0..(Tokens - 1)
  PROVE  /\ RequestAt(x) \in 0..(Len(batch.lens) - 1) /\ Begun(RequestAt(x), x)
         /\ OwnerOf(x) = RequestAt(x)
         /\ \A j \in 0..(Len(batch.lens) - 1) : Begun(j, x) => j = RequestAt(x)
<1> DEFINE n == Len(batch.lens)
           q == Starts(batch.lens)
<1>1. /\ n \in Nat /\ q[0] = 0 /\ \A j \in 0..n : q[j] \in Nat
      /\ \A i, j \in 0..n : i < j => q[i] < q[j]
  BY StartsIncrease DEF Planned
<1>2. x \in 0..(q[n] - 1)
  BY DEF Tokens, QueryStart
<1>3. PICK k \in 0..(n - 1) :
        /\ q[k] <= x /\ x < q[k + 1] /\ Cardinality({j \in 0..n : q[j] <= x}) = k + 1
        /\ \A j \in 0..(n - 1) : q[j] <= x /\ x < q[j + 1] => j = k
  <2> HIDE DEF n, q
  <2> QED BY <1>1, <1>2, RowOf
<1>4. RequestAt(x) = Cardinality({j \in 0..n : q[j] <= x}) - 1
  BY DEF RequestAt, QueryStart
<1>5. RequestAt(x) = k
  BY <1>3, <1>4
<1>6. \A j : Begun(j, x) <=> q[j] <= x /\ x < q[j + 1]
  BY DEF Begun, QueryStart
<1>7. OwnerOf(x) = CHOOSE j \in 0..(n - 1) : Begun(j, x)
  BY DEF OwnerOf, Begun
<1> HIDE DEF n, q
<1>8. Begun(k, x) /\ \A j \in 0..(n - 1) : Begun(j, x) => j = k
  BY <1>3, <1>6
<1>9. (CHOOSE j \in 0..(n - 1) : Begun(j, x)) = k
  BY <1>3, <1>8
<1> QED BY <1>3, <1>5, <1>7, <1>8, <1>9 DEF n

\* Later rows are of later requests, and a request's rows begin at its start.
LEMMA RequestsRise ==
  ASSUME Planned, NEW x \in 0..(Tokens - 1), NEW j \in 0..Len(batch.lens)
  PROVE  /\ QueryStart(j) \in Nat
         /\ j <= RequestAt(x) <=> QueryStart(j) <= x
<1> DEFINE n == Len(batch.lens)
           q == Starts(batch.lens)
           k == RequestAt(x)
<1>1. /\ n \in Nat /\ \A i \in 0..n : q[i] \in Nat
      /\ \A h, i \in 0..n : h < i => q[h] < q[i]
  BY StartsIncrease DEF Planned
<1>2. k \in 0..(n - 1) /\ q[k] <= x /\ x < q[k + 1]
  BY RequestIs DEF Begun, QueryStart
<1>3. QueryStart(j) = q[j] /\ j \in 0..n /\ x \in Int
  BY DEF QueryStart
<1> HIDE DEF n, q, k
<1>4. k \in 0..n /\ k + 1 \in 0..n /\ k \in Int /\ j \in Int
  BY <1>1, <1>2, <1>3
<1>5. CASE j <= k
  <2>1. q[j] <= q[k]
    BY <1>1, <1>3, <1>4, <1>5
  <2> QED BY <1>1, <1>2, <1>3, <1>4, <1>5, <2>1 DEF k
<1>6. CASE j > k
  <2>1. q[k + 1] <= q[j]
    BY <1>1, <1>3, <1>4, <1>6
  <2> QED BY <1>1, <1>2, <1>3, <1>4, <1>6, <2>1 DEF k
<1> QED BY <1>4, <1>5, <1>6

\* A group of the rows lo..hi - 1: its requests are those with rows in it, and its
\* rows before `from` are of decodes.
Covers(b, lo, hi) ==
  /\ b.lo = lo /\ b.hi = hi
  /\ {OwnerOf(x) : x \in lo..(hi - 1)} = b.first..b.last
  /\ \A x \in lo..(hi - 1) : (x - lo < b.from) <=> OwnerOf(x) < batch.decodes

LEMMA GroupCovers ==
  ASSUME Planned, NEW i, NEW lo \in Nat, NEW hi \in Nat, lo < hi, hi <= Tokens, Tokens \in Nat
  PROVE  Covers(RowGroup(i, lo, hi), lo, hi)
<1> DEFINE b == RowGroup(i, lo, hi)
           n == Len(batch.lens)
           d == batch.decodes
<1>1. /\ b.lo = lo /\ b.hi = hi /\ b.first = RequestAt(lo) /\ b.last = RequestAt(hi - 1)
      /\ b.from = IF {j \in RequestAt(lo)..RequestAt(hi - 1) : j >= d} = {} THEN hi - lo
                  ELSE IF QueryStart(d) > lo THEN QueryStart(d) - lo ELSE 0
  BY DEF RowGroup
<1>2. lo \in 0..(Tokens - 1) /\ hi - 1 \in 0..(Tokens - 1) /\ n \in Nat /\ d \in 0..n
  BY DEF Planned
<1>3. \A x \in lo..(hi - 1) : x \in 0..(Tokens - 1) /\ x \in Int
  BY <1>2
<1>4. \A x \in lo..(hi - 1) : OwnerOf(x) = RequestAt(x) /\ RequestAt(x) \in 0..(n - 1)
  BY <1>3, RequestIs
<1>5. RequestAt(lo) \in 0..(n - 1) /\ RequestAt(hi - 1) \in 0..(n - 1)
  BY <1>2, RequestIs
<1>6. \A x \in lo..(hi - 1), j \in 0..n : QueryStart(j) \in Nat /\ (j <= RequestAt(x) <=> QueryStart(j) <= x)
  BY <1>3, RequestsRise
<1>7. QueryStart(d) \in Nat
  BY <1>2, RequestsRise
<1> HIDE DEF b, n, d
<1>8. \A x \in lo..(hi - 1) : RequestAt(x) \in RequestAt(lo)..RequestAt(hi - 1)
  <2>1. ASSUME NEW x \in lo..(hi - 1) PROVE RequestAt(lo) <= RequestAt(x) /\ RequestAt(x) <= RequestAt(hi - 1)
    <3>1. lo \in lo..(hi - 1) /\ hi - 1 \in lo..(hi - 1) /\ x \in Int /\ lo <= x /\ x <= hi - 1
      BY <1>3, <2>1
    <3>2. RequestAt(lo) \in 0..n /\ RequestAt(x) \in 0..n
      BY <1>2, <1>4, <1>5
    <3>3. QueryStart(RequestAt(lo)) <= lo /\ QueryStart(RequestAt(lo)) \in Nat
      BY <1>5, <1>6, <3>1, <3>2
    <3>4. QueryStart(RequestAt(x)) <= x /\ QueryStart(RequestAt(x)) \in Nat
      BY <1>4, <1>6, <3>1, <3>2
    <3>5. QueryStart(RequestAt(lo)) <= x
      BY <3>1, <3>3
    <3>6. QueryStart(RequestAt(x)) <= hi - 1
      BY <3>1, <3>4
    <3> QED BY <1>6, <3>1, <3>2, <3>5, <3>6
  <2> QED BY <1>4, <1>5, <2>1
<1>9. \A j \in RequestAt(lo)..RequestAt(hi - 1) : \E x \in lo..(hi - 1) : RequestAt(x) = j
  <2>1. ASSUME NEW j \in RequestAt(lo)..RequestAt(hi - 1) PROVE \E x \in lo..(hi - 1) : RequestAt(x) = j
    <3>1. j \in 0..(n - 1) /\ j \in 0..n /\ j + 1 \in 0..n /\ j \in Int
      BY <1>2, <1>5
    <3>2. lo \in lo..(hi - 1) /\ hi - 1 \in lo..(hi - 1)
      OBVIOUS
    <3>3. QueryStart(j) <= hi - 1 /\ QueryStart(j) \in Nat
      BY <1>5, <1>6, <3>1, <3>2
    <3>4. CASE QueryStart(j) <= lo
      <4>1. j <= RequestAt(lo)
        BY <1>6, <3>1, <3>2, <3>4
      <4>2. RequestAt(lo) = j
        BY <1>5, <2>1, <3>1, <4>1
      <4> QED BY <3>2, <4>2
    <3>5. CASE QueryStart(j) > lo
      <4> DEFINE x == QueryStart(j)
      <4>1. x \in lo..(hi - 1) /\ x \in 0..(Tokens - 1)
        BY <1>3, <3>3, <3>5
      <4>2. Begun(j, x)
        <5>1. QueryStart(j + 1) > QueryStart(j)
          BY <3>1, StartsIncrease DEF QueryStart, Planned, n
        <5> QED BY <3>3, <5>1 DEF Begun
      <4>3. RequestAt(x) = j
        BY <3>1, <4>1, <4>2, RequestIs DEF n
      <4> QED BY <4>1, <4>3
    <3> QED BY <3>3, <3>4, <3>5
  <2> QED BY <2>1
<1>10. {OwnerOf(x) : x \in lo..(hi - 1)} = b.first..b.last
  <2>1. {OwnerOf(x) : x \in lo..(hi - 1)} = {RequestAt(x) : x \in lo..(hi - 1)}
    BY <1>4
  <2>2. {RequestAt(x) : x \in lo..(hi - 1)} = RequestAt(lo)..RequestAt(hi - 1)
    BY <1>8, <1>9
  <2> QED BY <1>1, <2>1, <2>2
<1>11. ASSUME NEW x \in lo..(hi - 1) PROVE (x - lo < b.from) <=> OwnerOf(x) < d
  <2>1. OwnerOf(x) = RequestAt(x) /\ RequestAt(x) \in 0..(n - 1) /\ x \in Int /\ lo <= x /\ x <= hi - 1
    BY <1>3, <1>4
  <2>2. (RequestAt(x) < d) <=> x < QueryStart(d)
    BY <1>2, <1>6, <1>7, <2>1
  <2>3. CASE {j \in RequestAt(lo)..RequestAt(hi - 1) : j >= d} = {}
    <3>1. RequestAt(x) < d
      BY <1>2, <1>8, <2>1, <2>3
    <3> QED BY <1>1, <2>1, <2>3, <3>1
  <2>4. CASE {j \in RequestAt(lo)..RequestAt(hi - 1) : j >= d} # {}
    BY <1>1, <1>7, <2>1, <2>2, <2>4
  <2> QED BY <2>3, <2>4
<1> QED BY <1>1, <1>10, <1>11 DEF Covers, b, d

\* The groups a rank planned, if it did.
PlanInv ==
  /\ case \in Cases
  /\ DOMAIN groups = Ranks
  /\ \A r \in Ranks : groups[r] # <<>> =>
       Rows < Tokens /\ groups[r] = <<RowGroup(0, 0, Rows), RowGroup(1, Rows, Tokens)>>

\* The plan is of the step alone.
LEMMA SamePlan ==
  ASSUME case' = case
  PROVE  Tokens' = Tokens /\ \A i, lo, hi : RowGroup(i, lo, hi)' = RowGroup(i, lo, hi)
<1>1. batch' = batch
  BY DEF batch
<1>2. ASSUME NEW j PROVE QueryStart(j)' = QueryStart(j)
  BY <1>1 DEF QueryStart
<1>3. Tokens' = Tokens
  BY <1>1 DEF Tokens, QueryStart
<1>4. ASSUME NEW x PROVE RequestAt(x)' = RequestAt(x)
  <2>1. {j \in 0..Len(batch.lens) : QueryStart(j) <= x}' = {j \in 0..Len(batch.lens) : QueryStart(j) <= x}
    BY <1>1, <1>2
  <2> QED BY <2>1 DEF RequestAt
<1>5. ASSUME NEW i, NEW lo, NEW hi PROVE RowGroup(i, lo, hi)' = RowGroup(i, lo, hi)
  BY <1>1, <1>2, <1>4 DEF RowGroup
<1> QED BY <1>3, <1>5

LEMMA PlanAlways == Spec => []PlanInv
<1>1. Init => PlanInv
  BY DEF Init, PlanInv
<1>2. ASSUME PlanInv, [Next]_vars PROVE PlanInv'
  <2>1. CASE UNCHANGED vars
    <3>1. case' = case /\ groups' = groups
      BY <2>1 DEF vars
    <3> QED BY <1>2, <3>1, SamePlan DEF PlanInv
  <2>2. ASSUME NEW r \in Ranks, Plan(r) PROVE PlanInv'
    <3>1. case' = case
      BY <2>2 DEF Plan
    <3>2. CASE groups' = groups
      BY <1>2, <3>1, <3>2, SamePlan DEF PlanInv
    <3>3. CASE groups' # groups
      <4> DEFINE plan == <<RowGroup(0, 0, Rows), RowGroup(1, Rows, Tokens)>>
      <4>1. Verdict = "groups" /\ groups' = [groups EXCEPT ![r] = plan]
        BY <2>2, <3>3 DEF Plan
      <4>2. ~(Tokens <= Rows)
        BY <4>1 DEF Verdict
      <4>3. Planned
        BY <1>2, PipeAssumption DEF PlanInv, Planned, Case, Batch, batch
      <4>4. Tokens \in Nat
        BY <4>3, StartsIncrease DEF Tokens, QueryStart, Planned
      <4>5. Rows < Tokens
        BY <4>2, <4>4, PipeAssumption
      <4>6. plan' = plan /\ Tokens' = Tokens
        BY <3>1, SamePlan
      <4> HIDE DEF plan
      <4>7. ASSUME NEW q \in Ranks, groups'[q] # <<>> PROVE groups'[q] = plan /\ Rows < Tokens
        <5>1. CASE q = r
          BY <1>2, <4>1, <4>5, <5>1 DEF PlanInv
        <5>2. CASE q # r
          <6>1. groups'[q] = groups[q]
            BY <1>2, <4>1, <5>2 DEF PlanInv
          <6> QED BY <1>2, <4>5, <4>7, <6>1 DEF PlanInv, plan
        <5> QED BY <5>1, <5>2
      <4>8. DOMAIN groups' = Ranks
        BY <1>2, <4>1 DEF PlanInv
      <4> QED BY <1>2, <3>1, <4>6, <4>7, <4>8 DEF PlanInv, plan
    <3> QED BY <3>2, <3>3
  <2>3. ASSUME NEW r \in Ranks, Join(r) PROVE case' = case /\ groups' = groups
    BY <2>3 DEF Join
  <2>4. ASSUME NEW r \in Ranks, NEW g \in Groups, Thread(r, g) \/ Fault(r, g)
        PROVE  case' = case /\ groups' = groups
    BY <2>4 DEF Thread, Fault, TakeTurn, Compute, Collective, PhaseBegin, PhaseEnd, ReplayBegin, EnterReplay,
                LeaveReplay, YieldPoint, ReplayEnd, Unwind, FinishTail, SetFinished, WakeOther, RunAlone,
                Raise, TurnTimeout
  <2>5. ASSUME case' = case /\ groups' = groups PROVE PlanInv'
    BY <1>2, <2>5, SamePlan DEF PlanInv
  <2> QED BY <1>2, <2>1, <2>2, <2>3, <2>4, <2>5 DEF Next, Rank
<1> QED BY <1>1, <1>2, PTL DEF Spec

\* PipeRunner.plan and _build: the groups partition the step's rows, whatever the
\* lengths of its requests, each with the requests that have rows in it, and
\* prefill_rows_from parts its decodes' rows from the others.
THEOREM PlansCover == Spec => []GroupsCover
<1>1. PlanInv => GroupsCover
  <2>1. SUFFICES ASSUME PlanInv, NEW r \in Ranks, groups[r] # <<>>
                 PROVE  /\ RowsOf(groups[r][1]) \cap RowsOf(groups[r][2]) = {}
                        /\ RowsOf(groups[r][1]) \cup RowsOf(groups[r][2]) = 0..(Tokens - 1)
                        /\ \A i \in 1..2 :
                             LET b == groups[r][i] IN
                             /\ {OwnerOf(x) : x \in RowsOf(b)} = b.first..b.last
                             /\ \A x \in RowsOf(b) : (x - b.lo < b.from) <=> OwnerOf(x) < batch.decodes
    BY DEF GroupsCover
  <2>2. Planned
    BY <2>1, PipeAssumption DEF PlanInv, Planned, Case, Batch, batch
  <2>3. Tokens \in Nat /\ Rows \in Nat \ {0} /\ Rows < Tokens
    <3>1. Tokens \in Nat
      BY <2>2, StartsIncrease DEF Tokens, QueryStart, Planned
    <3> QED BY <2>1, <3>1, PipeAssumption DEF PlanInv
  <2> DEFINE a == RowGroup(0, 0, Rows)
             b == RowGroup(1, Rows, Tokens)
  <2>4. groups[r][1] = a /\ groups[r][2] = b
    BY <2>1 DEF PlanInv
  <2>5. /\ a.lo = 0 /\ a.hi = Rows /\ {OwnerOf(x) : x \in 0..(Rows - 1)} = a.first..a.last
        /\ \A x \in 0..(Rows - 1) : (x - 0 < a.from) <=> OwnerOf(x) < batch.decodes
    <3>1. 0 \in Nat /\ Rows \in Nat /\ 0 < Rows /\ Rows <= Tokens
      BY <2>3
    <3>2. Covers(a, 0, Rows)
      BY <2>2, <2>3, <3>1, GroupCovers
    <3> HIDE DEF a
    <3> QED BY <3>2 DEF Covers
  <2>6. /\ b.lo = Rows /\ b.hi = Tokens /\ {OwnerOf(x) : x \in Rows..(Tokens - 1)} = b.first..b.last
        /\ \A x \in Rows..(Tokens - 1) : (x - Rows < b.from) <=> OwnerOf(x) < batch.decodes
    <3>1. Rows \in Nat /\ Tokens \in Nat /\ Rows < Tokens /\ Tokens <= Tokens
      BY <2>3
    <3>2. Covers(b, Rows, Tokens)
      BY <2>2, <3>1, GroupCovers
    <3> HIDE DEF b
    <3> QED BY <3>2 DEF Covers
  <2> HIDE DEF a, b
  <2>7. RowsOf(a) = 0..(Rows - 1) /\ RowsOf(b) = Rows..(Tokens - 1)
    BY <2>5, <2>6 DEF RowsOf
  <2>8. (0..(Rows - 1)) \cap (Rows..(Tokens - 1)) = {} /\ (0..(Rows - 1)) \cup (Rows..(Tokens - 1)) = 0..(Tokens - 1)
    BY <2>3
  <2>9. \A i \in 1..2 : i = 1 \/ i = 2
    OBVIOUS
  <2> QED BY <2>4, <2>5, <2>6, <2>7, <2>8, <2>9
<1> QED BY <1>1, PlanAlways, PTL
=============================================================================
