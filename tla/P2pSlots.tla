------------------------------ MODULE P2pSlots ------------------------------
(***************************************************************************)
(* The PCIe peer-to-peer collectives (tools/dsv41_sm120/p2p_ar, p2p_rs): a *)
(* rank pushes its part into a slot on each peer and raises a flag there;  *)
(* a consumer waits for the flags of all peers and reads the slots.  The   *)
(* slots are reused by sequence number with no acknowledgement: that the   *)
(* readers of a slot are done before it is written again follows from the  *)
(* order of the launches alone.                                            *)
(*                                                                         *)
(*   Shots = 1: one-shot all-reduce, all-gather, reduce-scatter - one push *)
(*       and one consumer per collective, flags carry n + 1;               *)
(*   Shots = 2: two-shot all-reduce - push, reduce a slice, push it,       *)
(*       assemble; flags carry 2n + 1 and 2n + 2, the two pushes of a      *)
(*       collective share slot and flag and write disjoint columns.        *)
(*                                                                         *)
(* A rank's launches run in stream order.  Its CTAs and threads are one    *)
(* reader and one writer here; what a slot's bytes are is the number of    *)
(* the collective they belong to, or Torn while a push writes them.        *)
(***************************************************************************)
EXTENDS Integers, FiniteSets

CONSTANTS
  Ranks,      \* the tensor-parallel ranks
  Shots,      \* pushes per collective
  NSlots,     \* NSLOTS: 4 (p2p_ar), 2 (p2p_rs)
  Width,      \* values of a flag word (2^32)
  MaxOps,     \* bound: collectives run
  Hasty,      \* the ranks on which a wait may give up (2^27 or 2^28 polls)
  LateFrom,   \* bound: the collectives such a rank completes before it may
  Live,       \* the ranks whose launches run
  NoPeer, Torn

ASSUME ShotsAssumption    == Shots \in {1, 2}
ASSUME NSlotsAssumption   == NSlots \in Nat \ {0}
ASSUME WidthAssumption    == Width \in Nat \ {0}
ASSUME MaxOpsAssumption   == MaxOps \in Nat
ASSUME HastyAssumption    == Hasty \subseteq Ranks
ASSUME LateFromAssumption == LateFrom \in Nat
ASSUME LiveAssumption     == Live \subseteq Ranks
ASSUME NoPeerAssumption   == NoPeer \notin Ranks
ASSUME TornAssumption     == Torn \notin Nat

VARIABLES
  n,        \* ctrl[0]: collectives this rank has completed
  shot,     \* which push / consumer of the current one
  at,       \* "push", "wait" or "read"
  todo,     \* the peers the running push has not finished
  writing,  \* the peer it is writing to
  flag,     \* flags: rank -> slot -> source -> sequence number
  data,     \* slots: rank -> slot -> source -> shot -> collective
  got,      \* what the running consumer read, per source
  result,   \* what the last collective was computed from
  timeout   \* timeout_flag: the peers whose wait gave up

vars == <<n, shot, at, todo, writing, flag, data, got, result, timeout>>

Peers(r) == Ranks \ {r}

\* the sequence number of the push / consumer running on r, and its slot
Seq(r)  == IF Shots = 1 THEN n[r] + 1 ELSE 2 * n[r] + shot[r]

Slot(r) == IF Shots = 1 THEN (n[r] + 1) % NSlots ELSE n[r] % NSlots

\* (int)(flag - seq) < 0, on words of Width values
Behind(f, s) == (f - s) % Width >= Width \div 2

Init ==
  /\ n = [r \in Ranks |-> 0]
  /\ shot = [r \in Ranks |-> 1]
  /\ at = [r \in Ranks |-> "push"]
  /\ todo = [r \in Ranks |-> Peers(r)]
  /\ writing = [r \in Ranks |-> NoPeer]
  /\ flag = [r \in Ranks |-> [k \in 0 .. NSlots - 1 |-> [s \in Ranks |-> 0]]]
  /\ data = [r \in Ranks |-> [k \in 0 .. NSlots - 1 |-> [s \in Ranks |->
               [i \in 1 .. Shots |-> 0]]]]
  /\ got = [r \in Ranks |-> [s \in {} |-> 0]]
  /\ result = [r \in Ranks |-> [s \in Ranks |-> 0]]
  /\ timeout = [r \in Ranks |-> {}]

-----------------------------------------------------------------------------
(* The push: one peer after the other; its stores, then its flag.          *)

BeginPush(r) ==
  /\ at[r] = "push" /\ writing[r] = NoPeer /\ n[r] < MaxOps
  /\ \E d \in todo[r] :
       /\ writing' = [writing EXCEPT ![r] = d]
       /\ data' = [data EXCEPT ![d][Slot(r)][r][shot[r]] = Torn]
  /\ UNCHANGED <<n, shot, at, todo, flag, got, result, timeout>>

\* mutant: the flag carries the last collective's number
EndPushOldSeq(r) ==
  LET d == writing[r] IN
  /\ d # NoPeer
  /\ data' = [data EXCEPT ![d][Slot(r)][r][shot[r]] = n[r] + 1]
  /\ flag' = [flag EXCEPT ![d][Slot(r)][r] = Seq(r) - 1]
  /\ writing' = [writing EXCEPT ![r] = NoPeer]
  /\ todo' = [todo EXCEPT ![r] = @ \ {d}]
  /\ at' = [at EXCEPT ![r] = IF todo[r] = {d} THEN "wait" ELSE @]
  /\ UNCHANGED <<n, shot, got, result, timeout>>

EndPush(r) ==
  LET d == writing[r] IN
  /\ d # NoPeer
  /\ data' = [data EXCEPT ![d][Slot(r)][r][shot[r]] = n[r] + 1]
  /\ flag' = [flag EXCEPT ![d][Slot(r)][r] = Seq(r)]
  /\ writing' = [writing EXCEPT ![r] = NoPeer]
  /\ todo' = [todo EXCEPT ![r] = @ \ {d}]
  /\ at' = [at EXCEPT ![r] = IF todo[r] = {d} THEN "wait" ELSE @]
  /\ UNCHANGED <<n, shot, got, result, timeout>>

-----------------------------------------------------------------------------
(* The consumer: wait for every peer's flag, read every slot, count.       *)

Arrived(r, s) == ~Behind(flag[r][Slot(r)][s], Seq(r))

\* mutant: the wait is over when one peer's flag is there
StartReadAny(r) ==
  /\ at[r] = "wait" /\ \E s \in Peers(r) : Arrived(r, s)
  /\ at' = [at EXCEPT ![r] = "read"]
  /\ UNCHANGED <<n, shot, todo, writing, flag, data, got, result, timeout>>

\* mutant: the limit is reached and not said
StartReadSilent(r) ==
  /\ at[r] = "wait"
  /\ (\A s \in Peers(r) : Arrived(r, s)) \/ (r \in Hasty /\ n[r] >= LateFrom)
  /\ at' = [at EXCEPT ![r] = "read"]
  /\ UNCHANGED <<n, shot, todo, writing, flag, data, got, result, timeout>>

\* a wait that reaches the poll limit gives up, says so and goes on
StartRead(r) ==
  LET late == {s \in Peers(r) : ~Arrived(r, s)} IN
  /\ at[r] = "wait" /\ (late = {} \/ (r \in Hasty /\ n[r] >= LateFrom))
  /\ at' = [at EXCEPT ![r] = "read"]
  /\ timeout' = [timeout EXCEPT ![r] = @ \union late]
  /\ UNCHANGED <<n, shot, todo, writing, flag, data, got, result>>

Read(r) ==
  /\ at[r] = "read"
  /\ \E s \in Ranks \ DOMAIN got[r] :
       got' = [got EXCEPT ![r] = [t \in DOMAIN @ \union {s} |->
                 IF t # s THEN @[t]
                 ELSE IF s = r THEN n[r] + 1 ELSE data[r][Slot(r)][s][shot[r]]]]
  /\ UNCHANGED <<n, shot, at, todo, writing, flag, data, result, timeout>>

\* the slice is reduced: the next launch pushes it
NextShot(r) ==
  /\ at[r] = "read" /\ DOMAIN got[r] = Ranks /\ shot[r] < Shots
  /\ shot' = [shot EXCEPT ![r] = @ + 1]
  /\ at' = [at EXCEPT ![r] = "push"]
  /\ todo' = [todo EXCEPT ![r] = Peers(r)]
  /\ got' = [got EXCEPT ![r] = [s \in {} |-> 0]]
  /\ UNCHANGED <<n, writing, flag, data, result, timeout>>

\* the consumer's last CTA counts the collective
Done(r) ==
  /\ at[r] = "read" /\ DOMAIN got[r] = Ranks /\ shot[r] = Shots
  /\ n' = [n EXCEPT ![r] = @ + 1]
  /\ result' = [result EXCEPT ![r] = got[r]]
  /\ shot' = [shot EXCEPT ![r] = 1]
  /\ at' = [at EXCEPT ![r] = "push"]
  /\ todo' = [todo EXCEPT ![r] = Peers(r)]
  /\ got' = [got EXCEPT ![r] = [s \in {} |-> 0]]
  /\ UNCHANGED <<writing, flag, data, timeout>>

Rank(r) ==
  \/ BeginPush(r) \/ EndPush(r) \/ StartRead(r) \/ Read(r)
  \/ NextShot(r) \/ Done(r)

Next == \E r \in Ranks : Rank(r)

Spec == Init /\ [][Next]_vars

\* the launches of a live rank's stream run
Fairness == \A r \in Live : WF_vars(Rank(r))

FairSpec == Spec /\ Fairness

-----------------------------------------------------------------------------

\* "two slots suffice" (p2p_reduce_scatter_sm120.cu:19): as long as a consumer
\* may read, every peer's slot holds this collective's bytes
SlotStable ==
  \A r \in Ranks : at[r] = "read" =>
    \A s \in Peers(r) : data[r][Slot(r)][s][shot[r]] = n[r] + 1

\* a wait that gave up may read anything, and a peer of it may then run ahead of
\* slots that are still read: but never without some rank's timeout_flag
TimeoutsTold == (\A r \in Ranks : timeout[r] = {}) => SlotStable

\* every live rank runs through all its collectives: the flags it waits for come,
\* or the poll limit does
AllFinish == \A r \in Live : <>(n[r] = MaxOps)

\* the collectives implement what they promise (Exchange): a rank has contributed
\* once the first peer has its bytes, and says it gave up with its timeout_flag
Given(r) ==
  IF at[r] = "push" /\ shot[r] = 1 /\ todo[r] = Peers(r) THEN n[r] ELSE n[r] + 1

Promise == INSTANCE Exchange WITH
  given <- [r \in Ranks |-> Given(r)], done <- n,
  told <- {r \in Ranks : timeout[r] # {}}

Implements == Promise!Spec

=============================================================================
