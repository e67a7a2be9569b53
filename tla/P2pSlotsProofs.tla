--------------------------- MODULE P2pSlotsProofs ---------------------------
(***************************************************************************)
(* The slot protocol is right for any number of ranks and collectives: as  *)
(* long as no wait gives up, a slot is not written while its reader may    *)
(* read it, and the collectives implement Exchange.                        *)
(*                                                                         *)
(* The argument counts pushes.  A rank's consumer number q needs every     *)
(* peer's push q, so nobody is more than one consumer behind a peer, and   *)
(* the push a peer may be writing is at most the one after the next.       *)
(* With waits that give up, all this holds until the first of them does,   *)
(* and that one is told; the shape of the pushes holds throughout.         *)
(***************************************************************************)
EXTENDS P2pSlots, TLAPS

\* no wait gives up; the slots of the code (two, four); the sequence numbers of
\* the run stay within half the range of a flag word
NoTimeouts == Hasty = {}
CodeSlots  == NSlots \in {2, 4}
NoWrap     == 2 * MaxOps < Width \div 2

-----------------------------------------------------------------------------
\* consumers completed by r, pushes completed from s to d
Completed(r) == IF Shots = 1 THEN n[r] ELSE 2 * n[r] + shot[r] - 1

Pushed(s, d) ==
  IF at[s] = "push" /\ d \in todo[s] THEN Completed(s) ELSE Completed(s) + 1

Types ==
  /\ n \in [Ranks -> 0 .. MaxOps]
  /\ shot \in [Ranks -> 1 .. Shots]
  /\ at \in [Ranks -> {"push", "wait", "read"}]
  /\ todo \in [Ranks -> SUBSET Ranks]
  /\ writing \in [Ranks -> Ranks \union {NoPeer}]
  /\ flag \in [Ranks -> [0 .. NSlots - 1 -> [Ranks -> Int]]]
  /\ data \in [Ranks -> [0 .. NSlots - 1 -> [Ranks -> [1 .. Shots -> Nat \union {Torn}]]]]

\* a push is under way only from "push", to a peer not done yet
Pushing ==
  \A r \in Ranks :
    /\ todo[r] \subseteq Peers(r)
    /\ writing[r] # NoPeer => at[r] = "push" /\ writing[r] \in todo[r]
    /\ at[r] # "push" \/ writing[r] # NoPeer \/ todo[r] # Peers(r) \/ shot[r] = 2
         => n[r] < MaxOps

\* a flag is never ahead of the pushes
Flags ==
  \A d \in Ranks : \A s \in Peers(d) : \A k \in 0 .. NSlots - 1 :
    0 <= flag[d][k][s] /\ flag[d][k][s] <= Pushed(s, d)

\* a consumer is never ahead of the pushes it needs
Ordered ==
  \A d \in Ranks : \A s \in Peers(d) :
    /\ Completed(d) <= Pushed(s, d)
    /\ at[d] = "read" => Completed(d) < Pushed(s, d)

\* the last push is intact until the next begins
LastIntact ==
  \A d \in Ranks : \A s \in Peers(d) :
    Pushed(s, d) = Completed(s) + 1 => data[d][Slot(s)][s][shot[s]] = n[s] + 1

\* and so is the one before, as long as the peer has not consumed it
PrevIntact ==
  \A d \in Ranks : \A s \in Peers(d) :
    Completed(s) = Completed(d) + 1 => data[d][Slot(d)][s][shot[d]] = n[d] + 1

\* what holds whether or not a wait gave up
Shape == Types /\ Pushing

SlotInv == Shape /\ Flags /\ Ordered /\ LastIntact /\ PrevIntact

\* no wait has given up so far
NoneLate == \A r \in Ranks : timeout[r] = {}

TimeoutsKept == timeout = [r \in Ranks |-> timeout[r]]

\* the invariant of a run in which waits may give up
TimedInv == TimeoutsKept /\ Shape /\ (NoneLate => SlotInv)

-----------------------------------------------------------------------------
\* The signed comparison of two words is the comparison of the numbers while
\* they stay within half the range.
LEMMA BehindIsLess ==
  ASSUME NoWrap, NEW f \in 0 .. 2 * MaxOps, NEW s \in 0 .. 2 * MaxOps
  PROVE  Behind(f, s) <=> f < s
<1> DEFINE W == Width
           D == f - s
<1>1. W \in Nat /\ W > 0 /\ D \in Int /\ MaxOps \in Nat
  BY WidthAssumption, MaxOpsAssumption
<1>2. W \div 2 \in Nat /\ 2 * (W \div 2) <= W
  BY <1>1
<1>3. CASE f >= s
  <2>1. 0 <= D /\ D < W
    BY <1>1, <1>2, <1>3 DEF NoWrap
  <2>2. D % W = D
    BY <1>1, <2>1
  <2> QED BY <1>1, <1>2, <1>3, <2>1, <2>2 DEF Behind, NoWrap
<1>4. CASE f < s
  <2>1. 0 <= D + W /\ D + W < W
    BY <1>1, <1>2, <1>4 DEF NoWrap
  <2>2. D % W = D + W
    BY <1>1, <2>1
  <2> QED BY <1>1, <1>2, <1>4, <2>1, <2>2 DEF Behind, NoWrap
<1> QED BY <1>3, <1>4

\* Neighbouring sequence numbers have their own places: another slot, or another
\* shot's columns.
LEMMA PlacesDiffer ==
  ASSUME CodeSlots, Types, NEW s \in Ranks, NEW d \in Ranks,
         Completed(s) = Completed(d) + 1
  PROVE  Slot(s) # Slot(d) \/ shot[s] # shot[d]
<1>1. CASE Shots = 1
  <2>1. n[s] = n[d] + 1 /\ n[d] \in Nat
    BY <1>1, MaxOpsAssumption DEF Completed, Types
  <2>2. (n[s] + 1) % NSlots # (n[d] + 1) % NSlots
    BY <2>1 DEF CodeSlots
  <2> QED BY <1>1, <2>2 DEF Slot
<1>2. CASE Shots = 2
  <2>0. n[s] \in 0 .. MaxOps /\ n[d] \in 0 .. MaxOps /\ shot[s] \in 1 .. Shots
    BY DEF Types
  <2>1. n[s] \in Nat /\ n[d] \in Nat /\ shot[s] \in Nat
    BY <1>2, <2>0, MaxOpsAssumption
  <2>2. 2 * n[s] + shot[s] - 1 = 2 * n[d] + shot[d] - 1 + 1
    BY <1>2 DEF Completed
  <2>3. shot[s] # shot[d]
    BY <2>1, <2>2
  <2> QED BY <2>3
<1> QED BY <1>1, <1>2, ShotsAssumption

\* The places are those of the arrays.
LEMMA PlaceTypes ==
  ASSUME Types, NEW r \in Ranks
  PROVE  /\ Slot(r) \in 0 .. NSlots - 1
         /\ shot[r] \in 1 .. Shots
         /\ Completed(r) \in Nat /\ Seq(r) = Completed(r) + 1
         /\ n[r] \in Nat
<1>1. n[r] \in Nat /\ shot[r] \in 1 .. Shots
  BY MaxOpsAssumption DEF Types
<1>2. \A x \in Nat : x % NSlots \in 0 .. NSlots - 1
  BY NSlotsAssumption
<1>3. Slot(r) \in 0 .. NSlots - 1
  BY <1>1, <1>2 DEF Slot
<1> QED BY <1>1, <1>3, ShotsAssumption DEF Completed, Seq

LEMMA FlagTypes ==
  ASSUME Types, NEW p \in Ranks, NEW s \in Ranks, NEW k \in 0 .. NSlots - 1
  PROVE  flag[p][k][s] \in Int
<1>1. flag[p] \in [0 .. NSlots - 1 -> [Ranks -> Int]]
  BY DEF Types
<1>2. flag[p][k] \in [Ranks -> Int]
  BY <1>1
<1> QED BY <1>2

\* r's push puts v into its place on d: nothing else changes
DataPut(d, r, v) ==
  /\ data' \in [Ranks -> [0 .. NSlots - 1 -> [Ranks -> [1 .. Shots -> Nat \union {Torn}]]]]
  /\ \A p \in Ranks, s \in Ranks, k \in 0 .. NSlots - 1, i \in 1 .. Shots :
       data'[p][k][s][i] = IF p = d /\ s = r /\ k = Slot(r) /\ i = shot[r] THEN v
                           ELSE data[p][k][s][i]

FlagPut(d, r, v) ==
  /\ flag' \in [Ranks -> [0 .. NSlots - 1 -> [Ranks -> Int]]]
  /\ \A p \in Ranks, s \in Ranks, k \in 0 .. NSlots - 1 :
       flag'[p][k][s] = IF p = d /\ s = r /\ k = Slot(r) THEN v ELSE flag[p][k][s]

\* A store into a slot changes one place of the arrays and keeps their types.
LEMMA DataUpdate ==
  ASSUME Types, NEW d \in Ranks, NEW r \in Ranks, NEW v \in Nat \union {Torn},
         data' = [data EXCEPT ![d][Slot(r)][r][shot[r]] = v]
  PROVE  DataPut(d, r, v)
<1> DEFINE K == 0 .. NSlots - 1
           I == 1 .. Shots
           V == Nat \union {Torn}
           a == Slot(r)
           b == shot[r]
           C == [data[d][a][r] EXCEPT ![b] = v]
           B == [data[d][a] EXCEPT ![r] = C]
           A == [data[d] EXCEPT ![a] = B]
<1>1. a \in K /\ b \in I
  BY PlaceTypes
<1>2. data \in [Ranks -> [K -> [Ranks -> [I -> V]]]] /\ v \in V
  BY DEF Types
<1>3. data' = [data EXCEPT ![d][a][r][b] = v]
  OBVIOUS
<1> SUFFICES /\ data' \in [Ranks -> [K -> [Ranks -> [I -> V]]]]
             /\ \A p \in Ranks, s \in Ranks, k \in K, i \in I :
                  data'[p][k][s][i] = IF p = d /\ s = r /\ k = a /\ i = b THEN v
                                      ELSE data[p][k][s][i]
  BY DEF DataPut
<1> HIDE DEF K, I, V, a, b
<1>4. \A p \in Ranks : data[p] \in [K -> [Ranks -> [I -> V]]]
  BY <1>2
<1>5. \A p \in Ranks, k \in K : data[p][k] \in [Ranks -> [I -> V]]
  BY <1>4
<1>6. \A p \in Ranks, k \in K, s \in Ranks : data[p][k][s] \in [I -> V]
  BY <1>5
<1>7. /\ data' = [data EXCEPT ![d] = A] /\ A = [data[d] EXCEPT ![a] = B]
      /\ B = [data[d][a] EXCEPT ![r] = C] /\ C = [data[d][a][r] EXCEPT ![b] = v]
  BY <1>3 DEF A, B, C
<1> HIDE DEF A, B, C
<1>8. data'[d] = A
  BY <1>2, <1>7
<1>9. data'[d][a] = B /\ data'[d][a][r] = C
  <2>1. A[a] = B
    BY <1>1, <1>4, <1>7
  <2>2. B[r] = C
    BY <1>1, <1>5, <1>7
  <2> QED BY <1>8, <2>1, <2>2
<1>10. data'[d][a][r] \in [I -> V]
  <2>1. data[d][a][r] \in [I -> V]
    BY <1>1, <1>6
  <2>2. \A i \in I : data'[d][a][r][i] \in V
    BY <1>1, <1>2, <1>7, <1>9, <2>1
  <2> QED BY <1>7, <1>9, <2>1, <2>2
<1>11. data'[d][a] \in [Ranks -> [I -> V]]
  <2>1. data[d][a] \in [Ranks -> [I -> V]]
    BY <1>1, <1>5
  <2> QED BY <1>7, <1>9, <1>10, <2>1
<1>12. data'[d] \in [K -> [Ranks -> [I -> V]]]
  <2>1. data[d] \in [K -> [Ranks -> [I -> V]]]
    BY <1>4
  <2>2. data'[d] = [data[d] EXCEPT ![a] = data'[d][a]]
    BY <1>7, <1>8, <1>9
  <2> QED BY <1>1, <1>11, <2>1, <2>2
<1>13. data' \in [Ranks -> [K -> [Ranks -> [I -> V]]]]
  BY <1>2, <1>7, <1>8, <1>12
<1>14. ASSUME NEW p \in Ranks, NEW s \in Ranks, NEW k \in K, NEW i \in I
       PROVE  data'[p][k][s][i] = IF p = d /\ s = r /\ k = a /\ i = b THEN v
                                  ELSE data[p][k][s][i]
  <2>1. CASE p # d
    BY <1>2, <1>7, <2>1
  <2>2. CASE p = d /\ k # a
    BY <1>4, <1>7, <1>8, <2>2
  <2>3. CASE p = d /\ k = a /\ s # r
    BY <1>5, <1>7, <1>9, <2>3
  <2>4. CASE p = d /\ k = a /\ s = r
    BY <1>6, <1>7, <1>9, <2>4
  <2> QED BY <2>1, <2>2, <2>3, <2>4
<1> QED BY <1>13, <1>14

LEMMA FlagUpdate ==
  ASSUME Types, NEW d \in Ranks, NEW r \in Ranks, NEW v \in Int,
         flag' = [flag EXCEPT ![d][Slot(r)][r] = v]
  PROVE  FlagPut(d, r, v)
<1> DEFINE K == 0 .. NSlots - 1
           V == Int
           a == Slot(r)
           B == [flag[d][a] EXCEPT ![r] = v]
           A == [flag[d] EXCEPT ![a] = B]
<1>1. a \in K
  BY PlaceTypes
<1>2. flag \in [Ranks -> [K -> [Ranks -> V]]] /\ v \in V
  BY DEF Types
<1>3. flag' = [flag EXCEPT ![d][a][r] = v]
  OBVIOUS
<1> SUFFICES /\ flag' \in [Ranks -> [K -> [Ranks -> V]]]
             /\ \A p \in Ranks, s \in Ranks, k \in K :
                  flag'[p][k][s] = IF p = d /\ s = r /\ k = a THEN v ELSE flag[p][k][s]
  BY DEF FlagPut
<1> HIDE DEF K, V, a
<1>4. \A p \in Ranks : flag[p] \in [K -> [Ranks -> V]]
  BY <1>2
<1>5. \A p \in Ranks, k \in K : flag[p][k] \in [Ranks -> V]
  BY <1>4
<1>6. /\ flag' = [flag EXCEPT ![d] = A] /\ A = [flag[d] EXCEPT ![a] = B]
      /\ B = [flag[d][a] EXCEPT ![r] = v]
  BY <1>3 DEF A, B
<1> HIDE DEF A, B
<1>7. flag'[d] = A /\ flag'[d][a] = B
  <2>1. flag'[d] = A
    BY <1>2, <1>6
  <2>2. A[a] = B
    BY <1>1, <1>4, <1>6
  <2> QED BY <2>1, <2>2
<1>8. flag'[d][a] \in [Ranks -> V]
  BY <1>1, <1>2, <1>5, <1>6, <1>7
<1>9. flag'[d] \in [K -> [Ranks -> V]]
  <2>1. flag[d] \in [K -> [Ranks -> V]]
    BY <1>4
  <2>2. flag'[d] = [flag[d] EXCEPT ![a] = flag'[d][a]]
    BY <1>6, <1>7
  <2> DEFINE f == flag[d]
             g == flag'[d]
             R == [Ranks -> V]
  <2>3. f \in [K -> R] /\ g = [f EXCEPT ![a] = g[a]] /\ g[a] \in R
    BY <1>8, <2>1, <2>2
  <2> HIDE DEF f, g, R
  <2>4. g \in [K -> R]
    BY <2>3
  <2> QED BY <2>4 DEF g, R
<1>10. flag' \in [Ranks -> [K -> [Ranks -> V]]]
  BY <1>2, <1>6, <1>7, <1>9
<1>11. ASSUME NEW p \in Ranks, NEW s \in Ranks, NEW k \in K
       PROVE  flag'[p][k][s] = IF p = d /\ s = r /\ k = a THEN v ELSE flag[p][k][s]
  <2>1. CASE p # d
    BY <1>2, <1>6, <2>1
  <2>2. CASE p = d /\ k # a
    BY <1>4, <1>6, <1>7, <2>2
  <2>3. CASE p = d /\ k = a
    BY <1>5, <1>6, <1>7, <2>3
  <2> QED BY <2>1, <2>2, <2>3
<1> QED BY <1>10, <1>11

\* Nobody is more than one consumer ahead of a peer.
LEMMA OneApart ==
  ASSUME Types, Pushing, Ordered, NEW d \in Ranks, NEW s \in Peers(d)
  PROVE  Completed(s) <= Completed(d) + 1
<1>1. s \in Ranks /\ d \in Peers(s)
  BY DEF Peers
<1>2. Completed(s) <= Pushed(d, s)
  BY <1>1 DEF Ordered
<1>3. Pushed(d, s) <= Completed(d) + 1
  BY PlaceTypes DEF Pushed
<1>4. Completed(s) \in Nat /\ Completed(d) \in Nat /\ Pushed(d, s) \in Nat
  BY <1>1, PlaceTypes DEF Pushed
<1> QED BY <1>2, <1>3, <1>4

\* A consumer that may read finds its bytes.
LEMMA ReadsIntact ==
  ASSUME SlotInv
  PROVE  SlotStable
<1> SUFFICES ASSUME NEW d \in Ranks, at[d] = "read", NEW s \in Peers(d)
             PROVE  data[d][Slot(d)][s][shot[d]] = n[d] + 1
  BY DEF SlotStable
<1>1. s \in Ranks
  BY DEF Peers
<1>2. Completed(d) < Pushed(s, d)
  BY DEF SlotInv, Ordered
<1>3. Completed(s) \in Nat /\ Completed(d) \in Nat
  BY <1>1, PlaceTypes DEF SlotInv, Shape
<1>4. Completed(s) <= Completed(d) + 1
  BY OneApart DEF SlotInv, Shape
<1>5. Pushed(s, d) = Completed(s) \/ Pushed(s, d) = Completed(s) + 1
  BY DEF Pushed
<1>6. CASE Completed(s) = Completed(d) + 1
  BY <1>6 DEF SlotInv, PrevIntact
<1>7. CASE Completed(s) = Completed(d)
  <2>1. Pushed(s, d) = Completed(s) + 1
    BY <1>2, <1>3, <1>5, <1>7
  <2>2. n[s] = n[d] /\ shot[s] = shot[d]
    BY <1>1, <1>7, ShotsAssumption, MaxOpsAssumption DEF SlotInv, Shape, Types, Completed
  <2>3. Slot(s) = Slot(d)
    BY <2>2 DEF Slot
  <2> QED BY <2>1, <2>2, <2>3 DEF SlotInv, LastIntact
<1> QED BY <1>2, <1>3, <1>4, <1>5, <1>6, <1>7

-----------------------------------------------------------------------------
\* The words a wait compares are within half the range.
LEMMA WordsInRange ==
  ASSUME Types, Pushing, Flags, NEW r \in Ranks, NEW s \in Peers(r), at[r] = "wait"
  PROVE  flag[r][Slot(r)][s] \in 0 .. 2 * MaxOps /\ Seq(r) \in 0 .. 2 * MaxOps
<1>1. s \in Ranks /\ r \in Peers(s)
  BY DEF Peers
<1>2. flag[r][Slot(r)][s] \in Int /\ 0 <= flag[r][Slot(r)][s]
        /\ flag[r][Slot(r)][s] <= Pushed(s, r)
  <2>1. Slot(r) \in 0 .. NSlots - 1
    BY PlaceTypes
  <2>2. flag[r][Slot(r)][s] \in Int
    BY <1>1, <2>1, FlagTypes
  <2> QED BY <2>1, <2>2 DEF Flags
<1>3. n[r] < MaxOps
  BY DEF Pushing
<1>4. Seq(r) \in 0 .. 2 * MaxOps
  BY <1>3, ShotsAssumption, MaxOpsAssumption DEF Seq, Types
<1>5. Pushed(s, r) \in Nat /\ Pushed(s, r) <= 2 * MaxOps
  <2>1. CASE at[s] = "push" /\ r \in todo[s]
    <3>1. n[s] \in 0 .. MaxOps /\ shot[s] \in 1 .. Shots /\ (shot[s] = 2 => n[s] < MaxOps)
      BY <1>1 DEF Types, Pushing
    <3> QED BY <2>1, <3>1, ShotsAssumption, MaxOpsAssumption DEF Pushed, Completed
  <2>2. CASE ~(at[s] = "push" /\ r \in todo[s])
    <3>1. n[s] < MaxOps
      BY <1>1, <2>2 DEF Pushing
    <3>2. n[s] \in 0 .. MaxOps /\ shot[s] \in 1 .. Shots
      BY <1>1 DEF Types
    <3> QED BY <2>2, <3>1, <3>2, ShotsAssumption, MaxOpsAssumption DEF Pushed, Completed
  <2> QED BY <2>1, <2>2
<1> QED BY <1>2, <1>4, <1>5, MaxOpsAssumption

LEMMA InitSlots ==
  ASSUME Init
  PROVE  SlotInv
<1>1. Types
  BY ShotsAssumption, MaxOpsAssumption, NSlotsAssumption DEF Init, Types, Peers
<1>2. Pushing
  BY ShotsAssumption DEF Init, Pushing
<1>3. \A s \in Ranks : Completed(s) = 0
  BY DEF Init, Completed
<1>4. \A s \in Ranks : \A d \in Peers(s) : Pushed(s, d) = 0
  BY <1>3 DEF Init, Pushed
<1>5. \A d \in Ranks : \A s \in Peers(d) : s \in Ranks /\ Pushed(s, d) = 0
  BY <1>4 DEF Peers
<1>6. Flags
  BY <1>5 DEF Init, Flags
<1>7. Ordered
  BY <1>3, <1>5 DEF Init, Ordered
<1>8. LastIntact
  BY <1>3, <1>5 DEF LastIntact
<1>9. PrevIntact
  BY <1>3, <1>5 DEF PrevIntact
<1> QED BY <1>1, <1>2, <1>6, <1>7, <1>8, <1>9 DEF SlotInv, Shape

-----------------------------------------------------------------------------
(* One lemma per action.  What a step does to the counts comes first.      *)

LEMMA BeginPushShape ==
  ASSUME Shape, NEW r \in Ranks, BeginPush(r)
  PROVE  Shape'
<1>1. PICK d \in todo[r] :
        /\ writing' = [writing EXCEPT ![r] = d]
        /\ data' = [data EXCEPT ![d][Slot(r)][r][shot[r]] = Torn]
  BY DEF BeginPush
<1>2. d \in Ranks /\ at[r] = "push" /\ n[r] < MaxOps
  BY DEF BeginPush, Shape, Pushing, Peers
<1>3. UNCHANGED <<n, shot, at, todo, flag>>
  BY DEF BeginPush
<1>4. DataPut(d, r, Torn)
  <2>1. Types /\ data' = [data EXCEPT ![d][Slot(r)][r][shot[r]] = Torn]
    BY <1>1 DEF Shape
  <2>2. Torn \in Nat \union {Torn}
    OBVIOUS
  <2> QED BY <1>2, <2>1, <2>2, DataUpdate
<1>5. Types'
  <2>1. writing' \in [Ranks -> Ranks \union {NoPeer}]
    BY <1>1, <1>2 DEF Shape, Types
  <2> QED BY <1>3, <1>4, <2>1 DEF Shape, Types, DataPut
<1>6. Pushing'
  <2>1. \A q \in Ranks : writing'[q] = IF q = r THEN d ELSE writing[q]
    BY <1>1 DEF Shape, Types
  <2> QED BY <1>1, <1>2, <1>3, <2>1 DEF Shape, Pushing, Peers
<1> QED BY <1>5, <1>6 DEF Shape

\* A push that ends: what it writes, where, and what becomes of the rank.
LEMMA EndPushDoes ==
  ASSUME Shape, NEW r \in Ranks, EndPush(r)
  PROVE  \E d \in Ranks :
           /\ d = writing[r] /\ d \in todo[r] /\ r \in Peers(d)
           /\ at[r] = "push" /\ n[r] < MaxOps /\ d # NoPeer
           /\ DataPut(d, r, n[r] + 1) /\ FlagPut(d, r, Seq(r))
           /\ UNCHANGED <<n, shot>>
           /\ todo' = [todo EXCEPT ![r] = @ \ {d}]
           /\ at' = [at EXCEPT ![r] = IF todo[r] = {d} THEN "wait" ELSE "push"]
           /\ writing' = [writing EXCEPT ![r] = NoPeer]
<1>1. PICK d \in Ranks :
        /\ d = writing[r] /\ d \in todo[r] /\ r \in Peers(d)
        /\ at[r] = "push" /\ n[r] < MaxOps /\ d # NoPeer
  BY DEF EndPush, Shape, Pushing, Peers
<1>2. /\ data' = [data EXCEPT ![d][Slot(r)][r][shot[r]] = n[r] + 1]
      /\ flag' = [flag EXCEPT ![d][Slot(r)][r] = Seq(r)]
      /\ writing' = [writing EXCEPT ![r] = NoPeer]
      /\ todo' = [todo EXCEPT ![r] = @ \ {d}]
      /\ at' = [at EXCEPT ![r] = IF todo[r] = {d} THEN "wait" ELSE "push"]
      /\ UNCHANGED <<n, shot>>
  BY <1>1 DEF EndPush, Shape, Types
<1>3. n[r] \in Nat /\ Seq(r) \in Nat
  BY PlaceTypes DEF Shape
<1>4. DataPut(d, r, n[r] + 1)
  <2>1. Types /\ n[r] + 1 \in Nat \union {Torn}
    BY <1>3 DEF Shape
  <2> QED BY <1>2, <2>1, DataUpdate
<1>5. FlagPut(d, r, Seq(r))
  <2>1. Types /\ Seq(r) \in Int
    BY <1>3 DEF Shape
  <2> QED BY <1>2, <2>1, FlagUpdate
<1> QED BY <1>1, <1>2, <1>4, <1>5

LEMMA EndPushShape ==
  ASSUME Shape, NEW r \in Ranks, EndPush(r)
  PROVE  Shape'
<1>1. PICK d \in Ranks :
        /\ d = writing[r] /\ d \in todo[r] /\ r \in Peers(d)
        /\ at[r] = "push" /\ n[r] < MaxOps /\ d # NoPeer
        /\ DataPut(d, r, n[r] + 1) /\ FlagPut(d, r, Seq(r))
        /\ UNCHANGED <<n, shot>>
        /\ todo' = [todo EXCEPT ![r] = @ \ {d}]
        /\ at' = [at EXCEPT ![r] = IF todo[r] = {d} THEN "wait" ELSE "push"]
        /\ writing' = [writing EXCEPT ![r] = NoPeer]
  BY EndPushDoes
<1>2. Types'
  <2>1. /\ writing' \in [Ranks -> Ranks \union {NoPeer}]
        /\ todo' \in [Ranks -> SUBSET Ranks]
        /\ at' \in [Ranks -> {"push", "wait", "read"}]
    BY <1>1 DEF Shape, Types
  <2> QED BY <1>1, <2>1 DEF Shape, Types, DataPut, FlagPut
<1>3. \A q \in Ranks :
        /\ todo'[q] = IF q = r THEN todo[r] \ {d} ELSE todo[q]
        /\ at'[q] = IF q = r THEN IF todo[r] = {d} THEN "wait" ELSE "push" ELSE at[q]
        /\ writing'[q] = IF q = r THEN NoPeer ELSE writing[q]
  BY <1>1 DEF Shape, Types
<1>4. Pushing'
  BY <1>1, <1>3 DEF Shape, Pushing, Peers
<1> QED BY <1>2, <1>4 DEF Shape

LEMMA StartReadShape ==
  ASSUME Shape, NEW r \in Ranks, StartRead(r)
  PROVE  Shape'
<1>1. /\ at[r] = "wait" /\ at' = [at EXCEPT ![r] = "read"]
      /\ UNCHANGED <<n, shot, todo, writing, flag, data>>
  BY DEF StartRead
<1>2. \A q \in Ranks : at'[q] = IF q = r THEN "read" ELSE at[q]
  BY <1>1 DEF Shape, Types
<1>3. Types'
  BY <1>1 DEF Shape, Types
<1>4. Pushing'
  BY <1>1, <1>2 DEF Shape, Pushing, Peers
<1> QED BY <1>3, <1>4 DEF Shape

LEMMA BeginPushSlots ==
  ASSUME CodeSlots, SlotInv, NEW r \in Ranks, BeginPush(r)
  PROVE  SlotInv'
<1>1. PICK d \in todo[r] :
        /\ writing' = [writing EXCEPT ![r] = d]
        /\ data' = [data EXCEPT ![d][Slot(r)][r][shot[r]] = Torn]
  BY DEF BeginPush
<1>2. d \in Ranks /\ r \in Peers(d) /\ at[r] = "push" /\ n[r] < MaxOps
  BY DEF BeginPush, SlotInv, Shape, Pushing, Peers
<1>3. UNCHANGED <<n, shot, at, todo, flag>>
  BY DEF BeginPush
<1>4. \A s \in Ranks : Completed(s)' = Completed(s) /\ Slot(s)' = Slot(s)
  BY <1>3 DEF Completed, Slot
<1>5. \A s \in Ranks, p \in Ranks : Pushed(s, p)' = Pushed(s, p)
  BY <1>3, <1>4 DEF Pushed
<1>6. Slot(r) \in 0 .. NSlots - 1 /\ shot[r] \in 1 .. Shots /\ Completed(r) \in Nat
  BY PlaceTypes DEF SlotInv, Shape
<1>7. DataPut(d, r, Torn)
  <2>1. Types /\ data' = [data EXCEPT ![d][Slot(r)][r][shot[r]] = Torn]
    BY <1>1 DEF SlotInv, Shape
  <2>2. Torn \in Nat \union {Torn}
    OBVIOUS
  <2> QED BY <1>2, <2>1, <2>2, DataUpdate
<1>8. Shape'
  BY BeginPushShape DEF SlotInv
<1>10. Flags' /\ Ordered'
  BY <1>3, <1>4, <1>5 DEF SlotInv, Flags, Ordered, Peers
<1>11. \A p \in Ranks, s \in Ranks, k \in 0 .. NSlots - 1, i \in 1 .. Shots :
         ~(p = d /\ s = r /\ k = Slot(r) /\ i = shot[r]) => data'[p][k][s][i] = data[p][k][s][i]
  BY <1>7 DEF DataPut
<1>12. LastIntact'
  <2> SUFFICES ASSUME NEW p \in Ranks, NEW s \in Peers(p), Pushed(s, p) = Completed(s) + 1
               PROVE  data'[p][Slot(s)][s][shot[s]] = n[s] + 1
    BY <1>3, <1>4, <1>5 DEF LastIntact, Peers
  <2>1. s \in Ranks /\ Slot(s) \in 0 .. NSlots - 1 /\ shot[s] \in 1 .. Shots
    BY PlaceTypes DEF Peers, SlotInv, Shape
  <2>2. ~(p = d /\ s = r)
    BY <1>2, <1>6 DEF Pushed
  <2> QED BY <1>11, <2>1, <2>2 DEF SlotInv, LastIntact
<1>13. PrevIntact'
  <2> SUFFICES ASSUME NEW p \in Ranks, NEW s \in Peers(p), Completed(s) = Completed(p) + 1
               PROVE  data'[p][Slot(p)][s][shot[p]] = n[p] + 1
    BY <1>3, <1>4, <1>5 DEF PrevIntact, Peers
  <2>1. s \in Ranks /\ Slot(p) \in 0 .. NSlots - 1 /\ shot[p] \in 1 .. Shots
    BY PlaceTypes DEF Peers, SlotInv, Shape
  <2>2. Slot(s) # Slot(p) \/ shot[s] # shot[p]
    BY <2>1, PlacesDiffer DEF SlotInv, Shape
  <2> QED BY <1>11, <2>1, <2>2 DEF SlotInv, PrevIntact
<1> QED BY <1>8, <1>10, <1>12, <1>13 DEF SlotInv

LEMMA EndPushSlots ==
  ASSUME CodeSlots, SlotInv, NEW r \in Ranks, EndPush(r)
  PROVE  SlotInv'
<1>1. PICK d \in Ranks :
        /\ d = writing[r] /\ d \in todo[r] /\ r \in Peers(d)
        /\ at[r] = "push" /\ n[r] < MaxOps /\ d # NoPeer
        /\ DataPut(d, r, n[r] + 1) /\ FlagPut(d, r, Seq(r))
        /\ UNCHANGED <<n, shot>>
        /\ todo' = [todo EXCEPT ![r] = @ \ {d}]
        /\ at' = [at EXCEPT ![r] = IF todo[r] = {d} THEN "wait" ELSE "push"]
        /\ writing' = [writing EXCEPT ![r] = NoPeer]
  BY EndPushDoes DEF SlotInv
<1>2. UNCHANGED <<n, shot>>
  BY <1>1
<1>3. \A s \in Ranks : Completed(s)' = Completed(s) /\ Slot(s)' = Slot(s)
  BY <1>2 DEF Completed, Slot
<1>4. /\ Slot(r) \in 0 .. NSlots - 1 /\ shot[r] \in 1 .. Shots /\ n[r] \in Nat
      /\ Completed(r) \in Nat /\ Seq(r) = Completed(r) + 1
  BY PlaceTypes DEF SlotInv, Shape
<1>5. \A q \in Ranks :
        /\ todo'[q] = IF q = r THEN todo[r] \ {d} ELSE todo[q]
        /\ at'[q] = IF q = r THEN IF todo[r] = {d} THEN "wait" ELSE "push" ELSE at[q]
  BY <1>1 DEF SlotInv, Shape, Types
<1>6. \A s \in Ranks, p \in Ranks :
        Pushed(s, p)' = IF s = r /\ p = d THEN Completed(r) + 1 ELSE Pushed(s, p)
  BY <1>1, <1>3, <1>5 DEF Pushed
<1>7. DataPut(d, r, n[r] + 1)
  BY <1>1
<1>8. FlagPut(d, r, Seq(r))
  BY <1>1
<1>9. Shape'
  BY EndPushShape DEF SlotInv
<1>11. Pushed(r, d) = Completed(r)
  BY <1>1 DEF Pushed
<1>12. Flags'
  <2> SUFFICES ASSUME NEW p \in Ranks, NEW s \in Peers(p), NEW k \in 0 .. NSlots - 1
               PROVE  0 <= flag'[p][k][s] /\ flag'[p][k][s] <= Pushed(s, p)'
    BY DEF Flags, Peers
  <2>1. s \in Ranks /\ 0 <= flag[p][k][s] /\ flag[p][k][s] <= Pushed(s, p)
    BY DEF Peers, SlotInv, Flags
  <2>2. flag[p][k][s] \in Int
    BY <2>1, FlagTypes DEF SlotInv, Shape
  <2>3. CASE p = d /\ s = r
    <3>1. flag'[p][k][s] = Seq(r) \/ flag'[p][k][s] = flag[p][k][s]
      BY <1>8, <2>1, <2>3 DEF FlagPut
    <3>2. Pushed(s, p)' = Completed(r) + 1 /\ Pushed(s, p) = Completed(r)
      BY <1>6, <1>11, <2>1, <2>3
    <3> QED BY <1>4, <2>1, <2>2, <3>1, <3>2
  <2>4. CASE ~(p = d /\ s = r)
    BY <1>6, <1>8, <2>1, <2>4 DEF FlagPut
  <2> QED BY <2>3, <2>4
<1>13. Ordered'
  <2> SUFFICES ASSUME NEW p \in Ranks, NEW s \in Peers(p)
               PROVE  /\ Completed(p) <= Pushed(s, p)'
                      /\ at'[p] = "read" => Completed(p) < Pushed(s, p)'
    BY <1>3 DEF Ordered, Peers
  <2>1. s \in Ranks /\ Completed(p) <= Pushed(s, p)
        /\ (at[p] = "read" => Completed(p) < Pushed(s, p))
    BY DEF Peers, SlotInv, Ordered
  <2>2. Completed(p) \in Nat
    BY PlaceTypes DEF SlotInv, Shape
  <2>3. at'[p] = "read" => at[p] = "read"
    BY <1>5
  <2>4. CASE s = r /\ p = d
    BY <1>4, <1>6, <1>11, <2>1, <2>2, <2>3, <2>4
  <2>5. CASE ~(s = r /\ p = d)
    BY <1>6, <2>1, <2>3, <2>5
  <2> QED BY <2>4, <2>5
<1>14. LastIntact'
  <2> SUFFICES ASSUME NEW p \in Ranks, NEW s \in Peers(p), Pushed(s, p)' = Completed(s) + 1
               PROVE  data'[p][Slot(s)][s][shot[s]] = n[s] + 1
    BY <1>2, <1>3 DEF LastIntact, Peers
  <2>1. s \in Ranks /\ Slot(s) \in 0 .. NSlots - 1 /\ shot[s] \in 1 .. Shots
    BY PlaceTypes DEF Peers, SlotInv, Shape
  <2>2. CASE s = r /\ p = d
    BY <1>1, <1>4, <1>7, <2>2 DEF DataPut
  <2>3. CASE ~(s = r /\ p = d)
    <3>1. data[p][Slot(s)][s][shot[s]] = n[s] + 1
      BY <1>6, <2>1, <2>3 DEF SlotInv, LastIntact
    <3> QED BY <1>7, <2>1, <2>3, <3>1 DEF DataPut
  <2> QED BY <2>2, <2>3
<1>15. PrevIntact'
  <2> SUFFICES ASSUME NEW p \in Ranks, NEW s \in Peers(p), Completed(s) = Completed(p) + 1
               PROVE  data'[p][Slot(p)][s][shot[p]] = n[p] + 1
    BY <1>2, <1>3 DEF PrevIntact, Peers
  <2>1. s \in Ranks /\ Slot(p) \in 0 .. NSlots - 1 /\ shot[p] \in 1 .. Shots
    BY PlaceTypes DEF Peers, SlotInv, Shape
  <2>2. Slot(s) # Slot(p) \/ shot[s] # shot[p]
    BY <2>1, PlacesDiffer DEF SlotInv, Shape
  <2>3. data[p][Slot(p)][s][shot[p]] = n[p] + 1
    BY DEF SlotInv, PrevIntact
  <2>4. data'[p][Slot(p)][s][shot[p]] = data[p][Slot(p)][s][shot[p]]
    <3>1. ~(p = d /\ s = r /\ Slot(p) = Slot(r) /\ shot[p] = shot[r])
      BY <2>2
    <3> QED BY <1>7, <2>1, <3>1 DEF DataPut
  <2> QED BY <2>3, <2>4
<1> QED BY <1>9, <1>12, <1>13, <1>14, <1>15 DEF SlotInv

LEMMA StartReadSlots ==
  ASSUME NoWrap, SlotInv, NEW r \in Ranks, StartRead(r), TimeoutsKept, NoneLate'
  PROVE  SlotInv'
<1>1. at[r] = "wait" /\ \A s \in Peers(r) : Arrived(r, s)
  <2> DEFINE late == {s \in Peers(r) : ~Arrived(r, s)}
  <2>1. at[r] = "wait" /\ timeout' = [timeout EXCEPT ![r] = @ \union late]
    BY DEF StartRead
  <2>2. timeout'[r] = timeout[r] \union late
    BY <2>1 DEF TimeoutsKept
  <2>3. late = {}
    BY <2>2 DEF NoneLate
  <2> QED BY <2>1, <2>3
<1>2. at' = [at EXCEPT ![r] = "read"] /\ UNCHANGED <<n, shot, todo, writing, flag, data>>
  BY DEF StartRead
<1>3. \A q \in Ranks : at'[q] = IF q = r THEN "read" ELSE at[q]
  BY <1>2 DEF SlotInv, Shape, Types
<1>4. \A s \in Ranks : Completed(s)' = Completed(s) /\ Slot(s)' = Slot(s)
  BY <1>2 DEF Completed, Slot
<1>5. \A s \in Ranks, p \in Ranks : Pushed(s, p)' = Pushed(s, p)
  BY <1>1, <1>2, <1>3, <1>4 DEF Pushed
<1>6. Shape'
  BY StartReadShape DEF SlotInv
<1>8. Flags' /\ LastIntact' /\ PrevIntact'
  BY <1>2, <1>4, <1>5 DEF SlotInv, Flags, LastIntact, PrevIntact, Peers
<1>9. \A s \in Peers(r) : Completed(r) < Pushed(s, r)
  <2> SUFFICES ASSUME NEW s \in Peers(r)
               PROVE  Completed(r) < Pushed(s, r)
    OBVIOUS
  <2>1. s \in Ranks /\ Slot(r) \in 0 .. NSlots - 1
    BY PlaceTypes DEF Peers, SlotInv, Shape
  <2>2. flag[r][Slot(r)][s] \in 0 .. 2 * MaxOps /\ Seq(r) \in 0 .. 2 * MaxOps
    BY <1>1, WordsInRange DEF SlotInv, Shape
  <2>3. ~(flag[r][Slot(r)][s] < Seq(r))
    BY <1>1, <2>2, BehindIsLess DEF Arrived
  <2>4. flag[r][Slot(r)][s] <= Pushed(s, r)
    BY <2>1 DEF SlotInv, Flags
  <2>5. Seq(r) = Completed(r) + 1 /\ Completed(r) \in Nat
    BY PlaceTypes DEF SlotInv, Shape
  <2>6. Pushed(s, r) \in Nat
    BY <2>1, PlaceTypes DEF Pushed, SlotInv, Shape
  <2> QED BY <2>2, <2>3, <2>4, <2>5, <2>6, MaxOpsAssumption
<1>10. Ordered'
  BY <1>3, <1>4, <1>5, <1>9 DEF SlotInv, Ordered, Peers
<1> QED BY <1>6, <1>8, <1>10 DEF SlotInv

\* NextShot and Done alike: r's consumer is done, its next push not begun.
Advances(r) ==
  /\ Types'
  /\ Completed(r)' = Completed(r) + 1
  /\ \A q \in Ranks \ {r} : n'[q] = n[q] /\ shot'[q] = shot[q]
  /\ \A q \in Ranks : at'[q] = IF q = r THEN "push" ELSE at[q]
  /\ \A q \in Ranks : todo'[q] = IF q = r THEN Peers(r) ELSE todo[q]
  /\ UNCHANGED <<writing, flag, data>>
  /\ shot'[r] = 2 => n'[r] < MaxOps

LEMMA NextShotAdvances ==
  ASSUME Shape, NEW r \in Ranks, NextShot(r)
  PROVE  at[r] = "read" /\ Advances(r)
<1>1. /\ at[r] = "read" /\ n[r] < MaxOps /\ n[r] \in Nat
      /\ shot[r] = 1 /\ Shots = 2 /\ shot' = [shot EXCEPT ![r] = 2]
  <2>1. at[r] = "read" /\ n[r] < MaxOps /\ n[r] \in Nat
    BY MaxOpsAssumption DEF NextShot, Shape, Types, Pushing
  <2>2. shot[r] \in 1 .. Shots /\ shot[r] < Shots /\ shot' = [shot EXCEPT ![r] = shot[r] + 1]
    BY DEF NextShot, Shape, Types
  <2>3. shot[r] = 1 /\ Shots = 2
    BY <2>2, ShotsAssumption
  <2> QED BY <2>1, <2>2, <2>3
<1>2. /\ at' = [at EXCEPT ![r] = "push"] /\ todo' = [todo EXCEPT ![r] = Peers(r)]
      /\ UNCHANGED <<n, writing, flag, data>>
  BY DEF NextShot
<1>3. Types'
  BY <1>1, <1>2 DEF Shape, Types, Peers
<1>4. shot[r] = 1 /\ shot'[r] = 2 /\ n'[r] = n[r]
  BY <1>1, <1>2 DEF Shape, Types
<1>5. Completed(r)' = Completed(r) + 1
  BY <1>1, <1>4 DEF Completed
<1>6. /\ \A q \in Ranks \ {r} : n'[q] = n[q] /\ shot'[q] = shot[q]
      /\ \A q \in Ranks : at'[q] = IF q = r THEN "push" ELSE at[q]
      /\ \A q \in Ranks : todo'[q] = IF q = r THEN Peers(r) ELSE todo[q]
  BY <1>1, <1>2 DEF Shape, Types
<1> QED BY <1>1, <1>2, <1>3, <1>4, <1>5, <1>6 DEF Advances

LEMMA DoneAdvances ==
  ASSUME Shape, NEW r \in Ranks, Done(r)
  PROVE  at[r] = "read" /\ Advances(r)
<1>1. /\ at[r] = "read" /\ n[r] < MaxOps /\ n[r] \in Nat /\ shot[r] = Shots
      /\ n' = [n EXCEPT ![r] = n[r] + 1] /\ shot' = [shot EXCEPT ![r] = 1]
  BY MaxOpsAssumption DEF Done, Shape, Types, Pushing
<1>2. /\ at' = [at EXCEPT ![r] = "push"] /\ todo' = [todo EXCEPT ![r] = Peers(r)]
      /\ UNCHANGED <<writing, flag, data>>
  BY DEF Done
<1>3. Types'
  <2>1. n[r] + 1 \in 0 .. MaxOps /\ 1 \in 1 .. Shots
    BY <1>1, ShotsAssumption, MaxOpsAssumption
  <2> QED BY <1>1, <1>2, <2>1 DEF Shape, Types, Peers
<1>4. shot'[r] = 1 /\ n'[r] = n[r] + 1
  BY <1>1 DEF Shape, Types
<1>5. Completed(r)' = Completed(r) + 1
  BY <1>1, <1>4, ShotsAssumption DEF Completed
<1>6. /\ \A q \in Ranks \ {r} : n'[q] = n[q] /\ shot'[q] = shot[q]
      /\ \A q \in Ranks : at'[q] = IF q = r THEN "push" ELSE at[q]
      /\ \A q \in Ranks : todo'[q] = IF q = r THEN Peers(r) ELSE todo[q]
  BY <1>1, <1>2 DEF Shape, Types
<1> QED BY <1>1, <1>2, <1>3, <1>4, <1>5, <1>6 DEF Advances

LEMMA AdvanceShape ==
  ASSUME Shape, NEW r \in Ranks, at[r] = "read", Advances(r)
  PROVE  Shape'
<1>1. Types'
  BY DEF Advances
<1>2. Pushing'
  BY DEF Shape, Advances, Pushing, Peers
<1> QED BY <1>1, <1>2 DEF Shape

LEMMA AdvanceSlots ==
  ASSUME SlotInv, NEW r \in Ranks, at[r] = "read", Advances(r)
  PROVE  SlotInv'
<1>1. \A q \in Ranks : Completed(q)' = IF q = r THEN Completed(r) + 1 ELSE Completed(q)
  BY DEF Advances, Completed
<1>2. \A q \in Ranks : q # r => Slot(q)' = Slot(q)
  BY DEF Advances, Slot
<1>3. \A s \in Ranks : \A p \in Peers(s) : Pushed(s, p)' = Pushed(s, p)
  BY <1>1 DEF Advances, Pushed, Peers
<1>4. \A s \in Ranks : Completed(s) \in Nat
  BY PlaceTypes DEF SlotInv, Shape
<1>5. \A p \in Ranks : \A s \in Peers(p) : s \in Ranks /\ p \in Peers(s) /\ s # p
  BY DEF Peers
<1>6. Shape'
  BY AdvanceShape DEF SlotInv
<1>8. Flags'
  BY <1>3, <1>5 DEF SlotInv, Advances, Flags, Peers
<1>9. Ordered'
  <2> SUFFICES ASSUME NEW p \in Ranks, NEW s \in Peers(p)
               PROVE  /\ Completed(p)' <= Pushed(s, p)
                      /\ at'[p] = "read" => Completed(p)' < Pushed(s, p)
    BY <1>3, <1>5 DEF Ordered, Peers
  <2>1. /\ Completed(p) <= Pushed(s, p)
        /\ at[p] = "read" => Completed(p) < Pushed(s, p)
    BY DEF SlotInv, Ordered
  <2>2. Pushed(s, p) \in Nat
    BY <1>4, <1>5 DEF Pushed
  <2>3. CASE p = r
    BY <1>1, <1>4, <2>1, <2>2, <2>3 DEF Advances
  <2>4. CASE p # r
    BY <1>1, <2>1, <2>4 DEF Advances
  <2> QED BY <2>3, <2>4
<1>10. LastIntact'
  <2> SUFFICES ASSUME NEW p \in Ranks, NEW s \in Peers(p), Pushed(s, p) = Completed(s)' + 1
               PROVE  data[p][Slot(s)'][s][shot'[s]] = n'[s] + 1
    BY <1>3, <1>5 DEF Advances, LastIntact, Peers
  <2>1. s # r
    BY <1>1, <1>4, <1>5 DEF Pushed
  <2>2. Pushed(s, p) = Completed(s) + 1
    BY <1>1, <1>5, <2>1
  <2> QED BY <1>2, <1>5, <2>1, <2>2 DEF SlotInv, Advances, LastIntact
<1>11. PrevIntact'
  <2> SUFFICES ASSUME NEW p \in Ranks, NEW s \in Peers(p), Completed(s)' = Completed(p)' + 1
               PROVE  data[p][Slot(p)'][s][shot'[p]] = n'[p] + 1
    BY DEF Advances, PrevIntact, Peers
  <2>1. p # r
    <3>1. Completed(s) <= Completed(p) + 1
      BY OneApart DEF SlotInv, Shape
    <3> QED BY <1>1, <1>4, <1>5, <3>1
  <2>2. CASE s = r
    <3>1. Completed(s) = Completed(p)
      BY <1>1, <1>4, <1>5, <2>1, <2>2
    <3>2. n[s] = n[p] /\ shot[s] = shot[p]
      BY <1>5, <3>1, ShotsAssumption, MaxOpsAssumption DEF SlotInv, Shape, Types, Completed
    <3>3. Slot(s) = Slot(p)
      BY <3>2 DEF Slot
    <3>4. Pushed(s, p) = Completed(s) + 1
      BY <2>2 DEF Pushed
    <3>5. data[p][Slot(s)][s][shot[s]] = n[s] + 1
      BY <3>4 DEF SlotInv, LastIntact
    <3> QED BY <1>2, <2>1, <3>2, <3>3, <3>5 DEF Advances
  <2>3. CASE s # r
    <3>1. Completed(s) = Completed(p) + 1
      BY <1>1, <1>5, <2>1, <2>3
    <3> QED BY <1>2, <2>1, <3>1 DEF SlotInv, PrevIntact, Advances
  <2> QED BY <2>2, <2>3
<1> QED BY <1>6, <1>8, <1>9, <1>10, <1>11 DEF SlotInv

\* A step that leaves the slots and the counts alone.
LEMMA SameShape ==
  ASSUME Shape, UNCHANGED <<n, shot, at, todo, writing, flag, data>>
  PROVE  Shape'
BY DEF Shape, Types, Pushing

LEMMA SameSlots ==
  ASSUME SlotInv, UNCHANGED <<n, shot, at, todo, writing, flag, data>>
  PROVE  SlotInv'
<1>1. \A s \in Ranks : Completed(s)' = Completed(s) /\ Slot(s)' = Slot(s)
  BY DEF Completed, Slot
<1>2. \A s \in Ranks, p \in Ranks : Pushed(s, p)' = Pushed(s, p)
  BY <1>1 DEF Pushed
<1>3. Shape'
  BY SameShape DEF SlotInv
<1> QED BY <1>1, <1>2, <1>3 DEF SlotInv, Flags, Ordered, LastIntact, PrevIntact, Peers

\* The shape of the pushes does not ask whether a wait gave up.
LEMMA StepShape ==
  ASSUME Shape, [Next]_vars
  PROVE  Shape'
<1>1. CASE UNCHANGED vars
  BY <1>1, SameShape DEF vars
<1>2. ASSUME NEW r \in Ranks, Rank(r)
      PROVE  Shape'
  <2>1. CASE BeginPush(r)
    BY <2>1, BeginPushShape
  <2>2. CASE EndPush(r)
    BY <2>2, EndPushShape
  <2>3. CASE StartRead(r)
    BY <2>3, StartReadShape
  <2>4. CASE Read(r)
    BY <2>4, SameShape DEF Read
  <2>5. CASE NextShot(r)
    BY <2>5, NextShotAdvances, AdvanceShape
  <2>6. CASE Done(r)
    BY <2>6, DoneAdvances, AdvanceShape
  <2> QED BY <1>2, <2>1, <2>2, <2>3, <2>4, <2>5, <2>6 DEF Rank
<1> QED BY <1>1, <1>2 DEF Next

LEMMA StepSlots ==
  ASSUME CodeSlots, NoWrap, SlotInv, TimeoutsKept, NoneLate', [Next]_vars
  PROVE  SlotInv'
<1>1. CASE UNCHANGED vars
  BY <1>1, SameSlots DEF vars
<1>2. ASSUME NEW r \in Ranks, Rank(r)
      PROVE  SlotInv'
  <2>1. CASE BeginPush(r)
    BY <2>1, BeginPushSlots
  <2>2. CASE EndPush(r)
    BY <2>2, EndPushSlots
  <2>3. CASE StartRead(r)
    BY <2>3, StartReadSlots
  <2>4. CASE Read(r)
    BY <2>4, SameSlots DEF Read
  <2>5. CASE NextShot(r)
    BY <2>5, NextShotAdvances, AdvanceSlots DEF SlotInv
  <2>6. CASE Done(r)
    BY <2>6, DoneAdvances, AdvanceSlots DEF SlotInv
  <2> QED BY <1>2, <2>1, <2>2, <2>3, <2>4, <2>5, <2>6 DEF Rank
<1> QED BY <1>1, <1>2 DEF Next

\* A timeout_flag stays up once a wait gave up, and none goes up in a run where no
\* wait gives up.
LEMMA StepTimeouts ==
  ASSUME TimeoutsKept, [Next]_vars
  PROVE  /\ TimeoutsKept'
         /\ NoneLate' => NoneLate
         /\ NoTimeouts /\ NoneLate => NoneLate'
<1>1. CASE UNCHANGED timeout
  BY <1>1 DEF TimeoutsKept, NoneLate
<1>2. ASSUME NEW r \in Ranks, StartRead(r)
      PROVE  /\ TimeoutsKept'
             /\ NoneLate' => NoneLate
             /\ NoTimeouts /\ NoneLate => NoneLate'
  <2> DEFINE late == {s \in Peers(r) : ~Arrived(r, s)}
  <2>1. timeout' = [timeout EXCEPT ![r] = @ \union late] /\ (late = {} \/ (r \in Hasty /\ n[r] >= LateFrom))
    BY <1>2 DEF StartRead
  <2> HIDE DEF late
  <2>2. /\ timeout' = [q \in Ranks |-> timeout'[q]]
        /\ \A q \in Ranks : timeout'[q] = IF q = r THEN timeout[r] \union late ELSE timeout[q]
    BY <2>1 DEF TimeoutsKept
  <2>3. TimeoutsKept'
    BY <2>2 DEF TimeoutsKept
  <2>4. NoneLate' => NoneLate
    BY <2>2 DEF NoneLate
  <2>5. NoTimeouts /\ NoneLate => NoneLate'
    BY <2>1, <2>2 DEF NoneLate, NoTimeouts
  <2> QED BY <2>3, <2>4, <2>5
<1>3. [Next]_vars => UNCHANGED timeout \/ \E r \in Ranks : StartRead(r)
  BY DEF vars, Next, Rank, BeginPush, EndPush, Read, NextShot, Done
<1> QED BY <1>1, <1>2, <1>3

\* The counts stay in step as long as no rank's timeout_flag is up.
LEMMA StepTimed ==
  ASSUME CodeSlots, NoWrap, TimedInv, [Next]_vars
  PROVE  TimedInv'
BY StepShape, StepSlots, StepTimeouts DEF TimedInv

LEMMA InitTimed ==
  ASSUME Init
  PROVE  TimedInv /\ NoneLate
<1>1. TimeoutsKept /\ NoneLate
  BY DEF Init, TimeoutsKept, NoneLate
<1> QED BY <1>1, InitSlots DEF TimedInv, SlotInv

\* "Two slots suffice" only while every wait gets its flags; when one gives up and
\* reads on, slots may be overwritten under a reader, but never with every rank's
\* timeout_flag still down: for any number of ranks and collectives, the state a
\* reader may find torn is one some rank reports.
THEOREM TimeoutsAreTold ==
  ASSUME CodeSlots, NoWrap
  PROVE  Spec => []TimeoutsTold
<1>1. Init => TimedInv
  BY InitTimed
<1>2. TimedInv /\ [Next]_vars => TimedInv'
  BY StepTimed
<1>3. TimedInv => TimeoutsTold
  BY ReadsIntact DEF TimedInv, NoneLate, TimeoutsTold
<1> QED BY <1>1, <1>2, <1>3, PTL DEF Spec

\* Type correctness of the state the argument uses, with the counts of pushes and
\* consumers in step: the invariant of every run without time-outs.
THEOREM SlotsInStep ==
  ASSUME NoTimeouts, CodeSlots, NoWrap
  PROVE  Spec => []SlotInv
<1>1. Init => TimedInv /\ NoneLate
  BY InitTimed
<1>2. TimedInv /\ NoneLate /\ [Next]_vars => TimedInv' /\ NoneLate'
  BY StepTimed, StepTimeouts DEF TimedInv
<1>3. TimedInv /\ NoneLate => SlotInv
  BY DEF TimedInv
<1> QED BY <1>1, <1>2, <1>3, PTL DEF Spec

\* Two slots suffice (p2p_reduce_scatter_sm120.cu:19), and four: no rank writes a
\* slot whose reader may still read it, for any number of ranks and collectives.
THEOREM SlotsSafe ==
  ASSUME NoTimeouts, CodeSlots, NoWrap
  PROVE  Spec => []SlotStable
<1>1. SlotInv => SlotStable
  BY ReadsIntact
<1> QED BY <1>1, SlotsInStep, PTL

-----------------------------------------------------------------------------
(* The collectives implement Exchange.                                     *)

\* what a consumer has read is its collective's
GotInv ==
  /\ got = [r \in Ranks |-> got[r]]
  /\ result = [r \in Ranks |-> result[r]]
  /\ \A r \in Ranks :
       /\ DOMAIN got[r] \subseteq Ranks
       /\ got[r] = [s \in DOMAIN got[r] |-> n[r] + 1]
       /\ at[r] # "read" => DOMAIN got[r] = {}

LEMMA StepGot ==
  ASSUME SlotInv, GotInv, [Next]_vars
  PROVE  GotInv'
<1>1. CASE UNCHANGED vars
  BY <1>1 DEF vars, GotInv
<1>2. ASSUME NEW r \in Ranks, Rank(r)
      PROVE  GotInv'
  <2>1. CASE BeginPush(r)
    BY <2>1 DEF BeginPush, GotInv
  <2>2. CASE EndPush(r)
    <3>1. at[r] = "push" /\ at' = [at EXCEPT ![r] = at'[r]] /\ at'[r] # "read"
      BY <2>2 DEF EndPush, SlotInv, Shape, Types, Pushing
    <3>2. \A q \in Ranks : at'[q] # "read" => at[q] # "read"
      BY <3>1 DEF SlotInv, Shape, Types
    <3> QED BY <2>2, <3>2 DEF EndPush, GotInv
  <2>3. CASE StartRead(r)
    <3>1. \A q \in Ranks : at'[q] # "read" => at[q] # "read"
      BY <2>3 DEF StartRead, SlotInv, Shape, Types
    <3> QED BY <2>3, <3>1 DEF StartRead, GotInv
  <2>4. CASE Read(r)
    <3>1. at[r] = "read" /\ UNCHANGED <<n, at, result>>
      BY <2>4 DEF Read
    <3>2. PICK s \in Ranks \ DOMAIN got[r] :
            got' = [got EXCEPT ![r] = [t \in DOMAIN got[r] \union {s} |->
                      IF t # s THEN got[r][t]
                      ELSE IF s = r THEN n[r] + 1 ELSE data[r][Slot(r)][s][shot[r]]]]
      BY <2>4 DEF Read
    <3>3. s # r => data[r][Slot(r)][s][shot[r]] = n[r] + 1
      BY <3>1, ReadsIntact DEF SlotStable, Peers
    <3>4. \A t \in DOMAIN got[r] : got[r][t] = n[r] + 1
      BY DEF GotInv
    <3>5. got' = [got EXCEPT ![r] = [t \in DOMAIN got[r] \union {s} |-> n[r] + 1]]
      BY <3>2, <3>3, <3>4
    <3>6. /\ got' = [q \in Ranks |-> got'[q]]
          /\ got'[r] = [t \in DOMAIN got[r] \union {s} |-> n[r] + 1]
          /\ \A q \in Ranks \ {r} : got'[q] = got[q]
      BY <3>5 DEF GotInv
    <3>7. DOMAIN got'[r] = DOMAIN got[r] \union {s}
      BY <3>6
    <3>8. ASSUME NEW q \in Ranks
          PROVE  /\ DOMAIN got'[q] \subseteq Ranks
                 /\ got'[q] = [t \in DOMAIN got'[q] |-> n[q] + 1]
                 /\ at[q] # "read" => DOMAIN got'[q] = {}
      <4>1. CASE q = r
        BY <3>1, <3>2, <3>6, <3>7, <4>1 DEF GotInv
      <4>2. CASE q # r
        BY <3>6, <4>2 DEF GotInv
      <4> QED BY <4>1, <4>2
    <3> QED BY <3>1, <3>6, <3>8 DEF GotInv
  <2>5. ASSUME at[r] = "read", Advances(r), got' = [got EXCEPT ![r] = [s \in {} |-> 0]],
               result' = [q \in Ranks |-> result'[q]]
        PROVE  GotInv'
    <3>1. /\ got' = [q \in Ranks |-> got'[q]]
          /\ got'[r] = [s \in {} |-> 0]
          /\ \A q \in Ranks \ {r} : got'[q] = got[q]
      BY <2>5 DEF GotInv
    <3>2. DOMAIN got'[r] = {} /\ got'[r] = [s \in {} |-> n'[r] + 1]
      BY <3>1
    <3>3. \A q \in Ranks \ {r} : n'[q] = n[q] /\ at'[q] = at[q]
      BY <2>5 DEF Advances
    <3>4. ASSUME NEW q \in Ranks
          PROVE  /\ DOMAIN got'[q] \subseteq Ranks
                 /\ got'[q] = [s \in DOMAIN got'[q] |-> n'[q] + 1]
                 /\ at'[q] # "read" => DOMAIN got'[q] = {}
      <4>1. CASE q = r
        BY <3>2, <4>1
      <4>2. CASE q # r
        BY <3>1, <3>3, <4>2 DEF GotInv
      <4> QED BY <4>1, <4>2
    <3> QED BY <2>5, <3>1, <3>4 DEF GotInv
  <2>6. CASE NextShot(r)
    <3>1. result' = [q \in Ranks |-> result'[q]]
      BY <2>6 DEF NextShot, GotInv
    <3> QED BY <2>5, <2>6, <3>1, NextShotAdvances DEF NextShot, SlotInv
  <2>7. CASE Done(r)
    <3>1. result' = [q \in Ranks |-> result'[q]]
      <4>1. result' = [result EXCEPT ![r] = got[r]] /\ result = [q \in Ranks |-> result[q]]
        BY <2>7 DEF Done, GotInv
      <4> QED BY <4>1
    <3> QED BY <2>5, <2>7, <3>1, DoneAdvances DEF Done, SlotInv
  <2> QED BY <1>2, <2>1, <2>2, <2>3, <2>4, <2>6, <2>7 DEF Rank
<1> QED BY <1>1, <1>2 DEF Next

\* A consumer that has read every slot follows every rank's contribution.
LEMMA AllGiven ==
  ASSUME SlotInv, NEW r \in Ranks, at[r] = "read", shot[r] = Shots, NEW s \in Ranks
  PROVE  Given(s) > n[r]
<1>1. n[s] \in Nat /\ n[r] \in Nat /\ shot[s] \in 1 .. Shots /\ at[s] \in {"push", "wait", "read"}
  BY PlaceTypes DEF SlotInv, Shape, Types
<1>2. CASE s = r
  BY <1>1, <1>2 DEF Given
<1>3. CASE s # r
  <2>1. s \in Peers(r) /\ r \in Peers(s)
    BY <1>3 DEF Peers
  <2>2. Completed(r) < Pushed(s, r)
    BY <2>1 DEF SlotInv, Ordered
  <2>3. CASE at[s] = "push" /\ shot[s] = 1 /\ todo[s] = Peers(s)
    <3>1. Given(s) = n[s] /\ Pushed(s, r) = Completed(s)
      BY <2>1, <2>3 DEF Given, Pushed
    <3> QED BY <1>1, <2>2, <2>3, <3>1, ShotsAssumption DEF Completed
  <2>4. CASE ~(at[s] = "push" /\ shot[s] = 1 /\ todo[s] = Peers(s))
    <3>1. Given(s) = n[s] + 1
      BY <2>4 DEF Given
    <3>2. Pushed(s, r) = Completed(s) \/ Pushed(s, r) = Completed(s) + 1
      BY DEF Pushed
    <3> QED BY <1>1, <2>2, <3>1, <3>2, ShotsAssumption DEF Completed
  <2> QED BY <2>3, <2>4
<1> QED BY <1>2, <1>3

\* Every step is a step of Exchange or leaves it as it is.
LEMMA StepPromised ==
  ASSUME TimedInv, NoneLate => GotInv, [Next]_vars
  PROVE  [Promise!Next]_(Promise!vars)
<1> DEFINE given == [q \in Ranks |-> Given(q)]
           told  == {q \in Ranks : timeout[q] # {}}
<1>0. Shape /\ (told = {} <=> NoneLate)
  BY DEF TimedInv, NoneLate
<1>1. CASE UNCHANGED vars
  BY <1>1 DEF vars, Promise!vars, Given
<1>2. ASSUME NEW r \in Ranks, Rank(r)
      PROVE  [Promise!Next]_(Promise!vars)
  <2>1. CASE BeginPush(r)
    BY <2>1 DEF BeginPush, Promise!vars, Given
  <2>2. CASE StartRead(r)
    <3>1. \A q \in Ranks : (at'[q] = "push" <=> at[q] = "push")
      BY <1>0, <2>2 DEF StartRead, Shape, Types
    <3>2. given' = given /\ UNCHANGED <<n, result>>
      BY <2>2, <3>1 DEF StartRead, Given
    <3>3. \/ timeout' = timeout
          \/ timeout'[r] # {} /\ \A q \in Ranks \ {r} : timeout'[q] = timeout[q]
      <4> DEFINE late == {s \in Peers(r) : ~Arrived(r, s)}
      <4>1. timeout' = [timeout EXCEPT ![r] = @ \union late]
        BY <2>2 DEF StartRead
      <4> HIDE DEF late
      <4>2. timeout = [q \in Ranks |-> timeout[q]]
        BY DEF TimedInv, TimeoutsKept
      <4>3. CASE late = {}
        BY <4>1, <4>2, <4>3
      <4>4. CASE late # {}
        BY <4>1, <4>2, <4>4
      <4> QED BY <4>3, <4>4
    <3>4. CASE timeout' = timeout
      BY <3>2, <3>4 DEF Promise!vars
    <3>5. CASE timeout'[r] # {} /\ \A q \in Ranks \ {r} : timeout'[q] = timeout[q]
      <4>1. told' = told \union {r}
        BY <3>5
      <4>2. Promise!GiveUp(r)
        BY <3>2, <4>1 DEF Promise!GiveUp
      <4> QED BY <4>2 DEF Promise!Next
    <3> QED BY <3>3, <3>4, <3>5
  <2>3. CASE Read(r)
    BY <2>3 DEF Read, Promise!vars, Given
  <2>4. CASE EndPush(r)
    <3>1. /\ writing[r] \in todo[r] /\ writing[r] \in Peers(r) /\ todo[r] \subseteq Peers(r)
          /\ at[r] = "push" /\ n[r] < MaxOps
      BY <1>0, <2>4 DEF EndPush, Shape, Pushing
    <3>2. /\ \A q \in Ranks \ {r} : todo'[q] = todo[q] /\ at'[q] = at[q]
          /\ todo'[r] = todo[r] \ {writing[r]}
          /\ UNCHANGED <<n, shot, result, timeout>>
      BY <1>0, <2>4 DEF EndPush, Shape, Types
    <3>3. \A q \in Ranks \ {r} : Given(q)' = Given(q)
      BY <3>2 DEF Given
    <3>4. Given(r)' = n[r] + 1
      BY <3>1, <3>2 DEF Given
    <3>5. CASE Given(r) = n[r]
      <4>1. given' = [given EXCEPT ![r] = @ + 1]
        BY <3>3, <3>4, <3>5
      <4>2. Promise!Contribute(r)
        BY <3>1, <3>2, <3>5, <4>1 DEF Promise!Contribute
      <4> QED BY <4>2 DEF Promise!Next
    <3>6. CASE Given(r) = n[r] + 1
      <4>1. given' = given
        BY <3>3, <3>4, <3>6
      <4> QED BY <3>2, <4>1 DEF Promise!vars
    <3> QED BY <3>5, <3>6 DEF Given
  <2>5. CASE NextShot(r)
    <3>1. at[r] = "read" /\ Advances(r) /\ UNCHANGED <<n, result, timeout>>
      BY <1>0, <2>5, NextShotAdvances DEF NextShot
    <3>2. shot'[r] # 1
      <4>1. shot[r] \in 1 .. Shots /\ shot'[r] = shot[r] + 1
        BY <1>0, <2>5 DEF NextShot, Shape, Types
      <4> QED BY <4>1, ShotsAssumption
    <3>3. \A q \in Ranks : Given(q)' = Given(q)
      BY <3>1, <3>2 DEF Given, Advances
    <3> QED BY <3>1, <3>3 DEF Promise!vars
  <2>6. CASE Done(r)
    <3>1. at[r] = "read" /\ Advances(r)
      BY <1>0, <2>6, DoneAdvances
    <3>2. /\ n' = [n EXCEPT ![r] = @ + 1] /\ shot' = [shot EXCEPT ![r] = 1]
          /\ result' = [result EXCEPT ![r] = got[r]] /\ DOMAIN got[r] = Ranks /\ shot[r] = Shots
      BY <2>6 DEF Done
    <3>3. n'[r] = n[r] + 1 /\ shot'[r] = 1
      BY <1>0, <3>2 DEF Shape, Types
    <3>4. \A q \in Ranks : Given(q)' = Given(q)
      BY <3>1, <3>3 DEF Given, Advances
    <3>5. result' = [result EXCEPT ![r] = result'[r]] /\ UNCHANGED timeout
      <4>1. CASE r \in DOMAIN result
        BY <2>6, <3>2, <4>1 DEF Done
      <4>2. CASE r \notin DOMAIN result
        BY <2>6, <3>2, <4>2 DEF Done
      <4> QED BY <4>1, <4>2
    <3>6. ASSUME told = {}
          PROVE  /\ \A s \in Ranks : Given(s) > n[r]
                 /\ result'[r] = [s \in Ranks |-> n[r] + 1]
      <4>1. SlotInv /\ GotInv
        BY <1>0, <3>6 DEF TimedInv
      <4>2. got[r] = [s \in Ranks |-> n[r] + 1]
        BY <3>2, <4>1 DEF GotInv
      <4>3. \A s \in Ranks : Given(s) > n[r]
        BY <3>1, <3>2, <4>1, AllGiven
      <4> QED BY <3>2, <4>1, <4>2, <4>3 DEF GotInv
    <3>7. Promise!Finish(r)
      BY <3>2, <3>4, <3>5, <3>6 DEF Promise!Finish
    <3> QED BY <3>7 DEF Promise!Next
  <2> QED BY <1>2, <2>1, <2>2, <2>3, <2>4, <2>5, <2>6 DEF Rank
<1> QED BY <1>1, <1>2 DEF Next

\* As long as no wait has given up, a rank finishes a collective only with the
\* contributions of all ranks to that collective, whatever the interleaving of
\* their pushes and reads; after that the ranks still run the same collectives in
\* the same order, and some rank's timeout_flag says that results may be wrong.
THEOREM CollectivesImplementExchange ==
  ASSUME CodeSlots, NoWrap
  PROVE  Spec => Implements
<1> DEFINE Inv == TimedInv /\ (NoneLate => GotInv)
<1>1. Init => Inv
  BY InitTimed DEF Init, GotInv
<1>2. Inv /\ [Next]_vars => Inv'
  BY StepTimed, StepTimeouts, StepGot DEF TimedInv
<1>3. Init => Promise!Init
  BY DEF Init, Promise!Init, Given
<1>4. Inv /\ [Next]_vars => [Promise!Next]_(Promise!vars)
  BY StepPromised
<1> HIDE DEF Inv
<1> QED BY <1>1, <1>2, <1>3, <1>4, PTL DEF Spec, Implements, Promise!Spec

=============================================================================
