------------------------------ MODULE Exchange ------------------------------
(***************************************************************************)
(* What a collective of the tensor-parallel group promises, whatever moves *)
(* the data: the ranks run the same collectives in the same order, a rank  *)
(* finishes number k only after every rank contributed to number k, and    *)
(* the result it finishes with is made of those contributions.  The        *)
(* all-reduce, the all-gather and the reduce-scatter differ only in what   *)
(* they compute from them.                                                 *)
(*                                                                         *)
(* A rank may give up waiting, but says so; from then on a collective may  *)
(* end early and with anything.                                            *)
(***************************************************************************)
EXTENDS Naturals

CONSTANTS
  Ranks,    \* the ranks of the group
  MaxOps    \* bound: collectives run

VARIABLES
  given,    \* collectives each rank has contributed to
  done,     \* collectives each rank has finished
  result,   \* of the last one: whose contribution, to which collective
  told      \* the ranks that said they gave up waiting

vars == <<given, done, result, told>>

Init ==
  /\ given = [r \in Ranks |-> 0]
  /\ done = [r \in Ranks |-> 0]
  /\ result = [r \in Ranks |-> [s \in Ranks |-> 0]]
  /\ told = {}

Contribute(r) ==
  /\ given[r] = done[r] /\ given[r] < MaxOps
  /\ given' = [given EXCEPT ![r] = @ + 1]
  /\ UNCHANGED <<done, result, told>>

\* with the contributions of all, unless somebody gave up
Finish(r) ==
  /\ done' = [done EXCEPT ![r] = @ + 1]
  /\ result' = [result EXCEPT ![r] = result'[r]]
  /\ told = {} => /\ \A s \in Ranks : given[s] > done[r]
                  /\ result'[r] = [s \in Ranks |-> done[r] + 1]
  /\ UNCHANGED <<given, told>>

GiveUp(r) ==
  /\ told' = told \union {r}
  /\ UNCHANGED <<given, done, result>>

Next == \E r \in Ranks : Contribute(r) \/ Finish(r) \/ GiveUp(r)

Spec == Init /\ [][Next]_vars

=============================================================================
