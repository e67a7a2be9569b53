-------------------------------- MODULE Engram --------------------------------
(***************************************************************************)
(* The Engram row fetcher of one rank (tools/dsv41_5090/engram_v2): per    *)
(* Engram layer the GPU publishes the ids of the rows it needs, the        *)
(* fetcher takes them from its row cache or reads them from the table's    *)
(* file through io_uring, writes them into the layer's staging and raises  *)
(* its ack; the GPU's wait kernel copies the staging, or gives up.         *)
(*                                                                         *)
(* Who interleaves: the GPU (one stream of lookups per layer), the thread  *)
(* that polls (the fetcher's own or the dispatcher's, see PollHook), the   *)
(* kernel's io_uring, and the lookahead (the step hook and its helper      *)
(* thread), which queues rows of later chunks.                             *)
(*                                                                         *)
(* A row's bytes are its id, Zero for an id outside the rank's range, or   *)
(* Torn when one of its two halves was not read.                           *)
(***************************************************************************)
EXTENDS Naturals, Sequences, FiniteSets, FiniteSetsExt, SequencesExt

CONSTANTS
  NLayers,        \* Engram layers, numbered in the order in which they are served
  Owned,          \* ids in the rank's range (vocab_start .. vocab_end - 1)
  Requests,       \* layer -> the requests (sequences of ids) a lookup may publish
  Lookaheads,     \* what the lookahead may queue for a chunk: parts <<layer, its rows>>
  Depth,          \* in-flight reads (the ring's entries)
  Batch,          \* prefetch_batch
  CacheRows,      \* rows one set of the cache holds
  ResidentScales, \* TRUE: scales are kept in memory, a row is one read
  NCtas,          \* CTAs of the wait kernel
  MaxRequests,    \* layer -> bound: its lookups
  MaxPlans,       \* bound: chunks the lookahead queues
  Faults,         \* {"short": reads fail, "submit": the submit call fails}
  Zero, Torn

Layers == 1 .. NLayers
Ctas == 0 .. NCtas - 1
Ids == Owned \cup UNION {ToSet(r) : r \in UNION {Requests[l] : l \in Layers}}
Halves == {"values", "scales"}
\* n_reads of issue_entry
ReadHalves == IF ResidentScales THEN {"values"} ELSE Halves
NReads == Cardinality(ReadHalves)

ASSUME EngramAssumption ==
  /\ NLayers \in Nat \ {0} /\ NCtas \in Nat \ {0} /\ Batch \in Nat \ {0}
  /\ Depth \in Nat /\ Depth >= 2 /\ CacheRows \in Nat
  /\ MaxRequests \in [Layers -> Nat] /\ MaxPlans \in Nat
  /\ ResidentScales \in BOOLEAN /\ Faults \subseteq {"short", "submit"}
  /\ IsFiniteSet(Owned) /\ Lookaheads \subseteq Seq(Layers \X SUBSET Owned)
  /\ \A l \in Layers : Requests[l] \subseteq Seq(Ids)
  /\ Zero \notin Ids /\ Torn \notin Ids /\ Zero # Torn

VARIABLES
  \* the GPU
  gpu,      \* a layer's lookup: "idle", "publishing" (the ids are written), "waiting"
  seqDev,   \* seq_dev
  cta,      \* CTAs of a layer's wait kernel: "new", "spin" (found no error), "out"
  land,     \* the landing arrays
  \* the mailboxes and the error word
  req,      \* [step, ids]
  ack,      \* [step, status]
  staging,
  err,      \* 0, 1 (time-out), 16 + status
  \* the fetcher
  at,       \* "scan", "reap", and inside begin_job "issue", "wait", "conclude"
  scan,     \* the layer poll_once looks at
  busy,
  expected,
  job,      \* Job: [active, seq, remaining, failed]
  entry,    \* <<layer, id>> -> the row being read (Entry); the keys are `pending`
  queued,   \* the entries of the job being begun that have no reads yet
  reads,    \* <<key, half>> -> "queued" "flight" "done" "short": the ring and its slots
  cache,    \* layer -> id -> bytes
  ringErr,  \* ring_err # 0
  \* the lookahead
  plans,    \* chunks it has asked for
  ahead,    \* what its helper thread has still to queue: <<layer, ids>>
  prefetch  \* pf_queue: keys to read in the background

gpuVars == <<gpu, seqDev, cta, land>>
mailVars == <<req, ack, staging, err>>
pollVars == <<at, scan, busy, expected>>
rowVars == <<job, entry, queued, reads, cache, ringErr>>
aheadVars == <<plans, ahead, prefetch>>
vars == <<gpuVars, mailVars, pollVars, rowVars, aheadVars>>

Init ==
  /\ gpu = [l \in Layers |-> "idle"] /\ seqDev = [l \in Layers |-> 0]
  /\ cta = [l \in Layers |-> [c \in Ctas |-> "new"]]
  /\ land = [l \in Layers |-> <<>>] /\ staging = [l \in Layers |-> <<>>]
  /\ req = [l \in Layers |-> [step |-> 0, ids |-> <<>>]]
  /\ ack = [l \in Layers |-> [step |-> 0, status |-> 0]] /\ err = 0
  /\ at = "scan" /\ scan = 1 /\ busy = FALSE /\ expected = [l \in Layers |-> 1]
  /\ job = [l \in Layers |-> [active |-> FALSE, seq |-> 0, remaining |-> 0, failed |-> FALSE]]
  /\ entry = <<>> /\ queued = <<>> /\ reads = <<>> /\ cache = [l \in Layers |-> <<>>]
  /\ ringErr = FALSE
  /\ plans = 0 /\ ahead = <<>> /\ prefetch = <<>>
-----------------------------------------------------------------------------
(* The GPU *)

\* publish_kernel writes the ids, then raises the step.
PublishIds(l) ==
  /\ gpu[l] = "idle" /\ seqDev[l] < MaxRequests[l]
  /\ gpu' = [gpu EXCEPT ![l] = "publishing"]
  /\ \E r \in Requests[l] : req' = [req EXCEPT ![l].ids = r]
  /\ UNCHANGED <<seqDev, cta, land, ack, staging, err, pollVars, rowVars, aheadVars>>

PublishStep(l) ==
  /\ gpu[l] = "publishing"
  /\ gpu' = [gpu EXCEPT ![l] = "waiting"]
  /\ seqDev' = [seqDev EXCEPT ![l] = @ + 1]
  /\ req' = [req EXCEPT ![l].step = seqDev'[l]]
  /\ UNCHANGED <<cta, land, ack, staging, err, pollVars, rowVars, aheadVars>>

\* A CTA is through; the kernel ends with its last one.
CtaEnds(l, c) ==
  IF \A d \in Ctas \ {c} : cta[l][d] = "out"
  THEN /\ cta' = [cta EXCEPT ![l] = [d \in Ctas |-> "new"]]
       /\ gpu' = [gpu EXCEPT ![l] = "idle"]
  ELSE cta' = [cta EXCEPT ![l][c] = "out"] /\ UNCHANGED gpu

CtaIs(l, c, where) == gpu[l] = "waiting" /\ cta[l][c] = where

\* wait_copy_kernel looks at the error word once, then spins or leaves.
Enter(l, c) ==
  /\ CtaIs(l, c, "new")
  /\ IF err = 0
     THEN cta' = [cta EXCEPT ![l][c] = "spin"] /\ UNCHANGED gpu
     ELSE CtaEnds(l, c)
  /\ UNCHANGED <<seqDev, land, mailVars, pollVars, rowVars, aheadVars>>

\* The rows CTA c copies.
Landed(l, c) ==
  [i \in 1 .. Len(req[l].ids) |->
     IF i % NCtas = c THEN staging[l][i]
     ELSE IF i \in DOMAIN land[l] THEN land[l][i] ELSE Zero]

\* Mutant: the status is not looked at.
CopyAnyStatus(l, c) ==
  /\ CtaIs(l, c, "spin") /\ ack[l].step = seqDev[l]
  /\ land' = [land EXCEPT ![l] = Landed(l, c)] /\ UNCHANGED err
  /\ CtaEnds(l, c)
  /\ UNCHANGED <<seqDev, req, ack, staging, pollVars, rowVars, aheadVars>>

Copy(l, c) ==
  /\ CtaIs(l, c, "spin") /\ ack[l].step = seqDev[l]
  /\ IF ack[l].status = 0
     THEN land' = [land EXCEPT ![l] = Landed(l, c)] /\ UNCHANGED err
     ELSE err' = 16 + ack[l].status /\ UNCHANGED land
  /\ CtaEnds(l, c)
  /\ UNCHANGED <<seqDev, req, ack, staging, pollVars, rowVars, aheadVars>>

TimeOut(l, c) ==
  /\ CtaIs(l, c, "spin") /\ ack[l].step # seqDev[l]
  /\ err' = 1 /\ CtaEnds(l, c)
  /\ UNCHANGED <<seqDev, land, req, ack, staging, pollVars, rowVars, aheadVars>>

\* EngramV2.clear_error, after a step that failed closed (runner_after_step raises).
\* The engine does not call it by itself; the fetcher is written for serving that
\* goes on ("a request we never served", engram_v2.cpp:469).
ClearError ==
  /\ err # 0 /\ \A l \in Layers : gpu[l] = "idle"
  /\ err' = 0
  /\ UNCHANGED <<gpuVars, req, ack, staging, pollVars, rowVars, aheadVars>>
-----------------------------------------------------------------------------
(* The fetcher: one poll *)

\* An earlier layer's job, which goes first.
EarlierActive(l) == \E k \in 1 .. l - 1 : job[k].active

\* Served with the next poll.
Resync(l) ==
  /\ expected' = [expected EXCEPT ![l] = req[l].step] /\ scan' = l + 1
  /\ UNCHANGED <<at, busy, rowVars, staging, ack>>

FreshEntry(rows) == [demand |-> TRUE, dsts |-> rows, halves |-> {}, got |-> {}, failed |-> FALSE]

\* Of the rows that are being read, those read for a prefetch (mutant: none counts).
AdoptedNone(wanted) == {}
Adopted(wanted) == {k \in wanted \cap DOMAIN entry : ~entry[k].demand}

\* begin_job up to the issue loop: a row outside the range is zeros, a cached one is
\* copied, one that is being read already is adopted, the others get an entry.  Equal
\* ids share an entry.  (What staging held before is of no use: Torn.  A lookup of
\* more than max_rows rows is refused before it is published: no ack has status 2.)
Begin(l) ==
  LET ids == req[l].ids
      wanted == {<<l, id>> : id \in (ToSet(ids) \cap Owned) \ DOMAIN cache[l]}
      new == wanted \ DOMAIN entry
      Rows(k) == {i \in DOMAIN ids : ids[i] = k[2]}
  IN /\ staging' = [staging EXCEPT ![l] = [i \in DOMAIN ids |->
            IF ids[i] \notin Owned THEN Zero
            ELSE IF ids[i] \in DOMAIN cache[l] THEN cache[l][ids[i]] ELSE Torn]]
     /\ entry' = [k \in DOMAIN entry \cup new |->
            IF k \in new THEN FreshEntry(Rows(k))
            ELSE IF k \in wanted THEN [entry[k] EXCEPT !.demand = TRUE, !.dsts = @ \cup Rows(k)]
            ELSE entry[k]]
     /\ job' = [job EXCEPT ![l] = [active |-> TRUE, seq |-> req[l].step, failed |-> FALSE,
                                   remaining |-> 1 + Cardinality(new \cup Adopted(wanted))]]
     /\ queued' = SetToSeq(new)
     /\ at' = IF new = {} THEN "conclude" ELSE "issue"
     /\ scan' = l /\ UNCHANGED <<busy, expected, reads, cache, ringErr, ack>>

\* What poll_once finds at a layer; a layer it passes over changes nothing, so the
\* looks that find nothing are part of the next step.
MayBegin(l) == ~EarlierActive(l) /\ ~job[l].active
Begins(l) == MayBegin(l) /\ req[l].step = expected[l]
ResyncsNever(l) == FALSE  \* mutant: a number that was passed over is waited for
Resyncs(l) == MayBegin(l) /\ req[l].step > expected[l]
Idle(l) == ~Begins(l) /\ ~Resyncs(l)

Look ==
  /\ at = "scan"
  /\ \E l \in scan .. NLayers :
       /\ \A k \in scan .. l - 1 : Idle(k)
       /\ (Begins(l) /\ Begin(l)) \/ (Resyncs(l) /\ Resync(l))
  /\ UNCHANGED <<gpuVars, req, err, aheadVars>>

LayersDone == at = "scan" /\ \A l \in scan .. NLayers : Idle(l)

\* The reads of the entries in B are prepared; those prepared before, and these, are
\* given to the kernel (or stay prepared when it refuses).
Submitted(B, as) ==
  [x \in DOMAIN reads \cup (B \X ReadHalves) |->
     IF x \notin DOMAIN reads THEN as
     ELSE IF reads[x] = "queued" THEN as ELSE reads[x]]
\* issue_entry: resident scales are there at once.
Prepared(B) ==
  [k \in DOMAIN entry |->
     IF k \in B THEN [entry[k] EXCEPT !.halves = Halves \ ReadHalves, !.got = Halves \ ReadHalves]
     ELSE entry[k]]
FreeSlots == Depth - Cardinality(DOMAIN reads)

\* One round of begin_job's issue loop.
Issue ==
  LET n == Min({FreeSlots \div NReads, Len(queued)})
      B == {queued[i] : i \in 1 .. n}
      rest == SubSeq(queued, n + 1, Len(queued))
  IN /\ at = "issue"
     /\ entry' = Prepared(B)
     /\ \/ /\ reads' = Submitted(B, "flight") /\ queued' = rest
           /\ at' = IF rest = <<>> THEN "conclude" ELSE "wait"
           /\ UNCHANGED <<job, ringErr>>
        \/ /\ "submit" \in Faults /\ ~ringErr /\ B # {}
           /\ reads' = Submitted(B, "queued") /\ queued' = <<>>
           /\ at' = "conclude" /\ ringErr' = TRUE
           /\ job' = [job EXCEPT ![scan].failed = TRUE]
     /\ UNCHANGED <<gpuVars, mailVars, scan, busy, expected, cache, aheadVars>>

Completed == {x \in DOMAIN reads : reads[x] \in {"done", "short"}}

\* ring.wait(1): the loop goes on once a completion is there.
Wait ==
  /\ at = "wait" /\ Completed # {}
  /\ at' = "reap"
  /\ UNCHANGED <<gpuVars, mailVars, scan, busy, expected, rowVars, aheadVars>>

\* finish_job: the ack's status, then its step.
Acked(l, failed) == [step |-> job[l].seq, status |-> IF failed THEN 1 ELSE 0]

\* cache.insert: the row's own place, an empty one, or that of any other row.
Inserts(c, id, bytes) ==
  LET Without(victims) == [i \in (DOMAIN c \cup {id}) \ victims |-> IF i = id THEN bytes ELSE c[i]]
      others == DOMAIN c \ {id}
  IN  IF CacheRows = 0 THEN {c}
      ELSE IF id \in DOMAIN c \/ Cardinality(others) < CacheRows THEN {Without({})}
      ELSE {Without({v}) : v \in others}

Bytes(e, id) == IF e.got = Halves THEN id ELSE Torn
\* Mutant: a row that was not read whole is cached.
CacheableAny(e) == TRUE
Cacheable(e) == ~e.failed

\* complete_entry: the row goes to the cache and to the rows that wait for it.
CompleteEntry(k, e) ==
  LET l == k[1]
      failed == job[l].failed \/ e.failed
  IN /\ entry' = [x \in DOMAIN entry \ {k} |-> entry[x]]
     /\ IF Cacheable(e)
        THEN \E c \in Inserts(cache[l], k[2], Bytes(e, k[2])) : cache' = [cache EXCEPT ![l] = c]
        ELSE UNCHANGED cache
     /\ IF e.demand
        THEN /\ staging' = [staging EXCEPT ![l] = [i \in DOMAIN @ |->
                              IF i \in e.dsts THEN Bytes(e, k[2]) ELSE @[i]]]
             /\ job' = [job EXCEPT ![l].failed = failed, ![l].remaining = @ - 1,
                                   ![l].active = job[l].remaining # 1]
             /\ ack' = IF job[l].remaining = 1 THEN [ack EXCEPT ![l] = Acked(l, failed)] ELSE ack
        ELSE UNCHANGED <<staging, job, ack>>

\* Mutant: an entry is complete with the first of its two reads.
WholeFirst(e) == e.halves # {}
Whole(e) == e.halves = Halves

\* reap_all, one completion.
Reap ==
  /\ at = "reap"
  /\ \E x \in Completed :
       LET k == x[1]
           e == [entry[k] EXCEPT !.halves = @ \cup {x[2]},
                                 !.got = IF reads[x] = "done" THEN @ \cup {x[2]} ELSE @,
                                 !.failed = @ \/ reads[x] = "short"]
       IN /\ reads' = [y \in DOMAIN reads \ {x} |-> reads[y]]
          /\ IF Whole(e)
             THEN CompleteEntry(k, e)
             ELSE entry' = [entry EXCEPT ![k] = e] /\ UNCHANGED <<cache, staging, job, ack>>
  /\ UNCHANGED <<gpuVars, req, err, pollVars, queued, ringErr, aheadVars>>

\* The completion queue is empty: back to the issue loop, or the poll is over.
ReapDone ==
  /\ at = "reap" /\ Completed = {}
  /\ IF queued # <<>> THEN at' = "issue" /\ UNCHANGED <<scan, busy>>
     ELSE at' = "scan" /\ scan' = 1 /\ busy' = FALSE
  /\ UNCHANGED <<gpuVars, mailVars, expected, rowVars, aheadVars>>

\* The end of begin_job (its guard is dropped), and the layer's next number.
Conclude ==
  LET l == scan IN
  /\ at = "conclude"
  /\ job' = [job EXCEPT ![l].remaining = @ - 1, ![l].active = job[l].remaining # 1]
  /\ ack' = IF job[l].remaining = 1 THEN [ack EXCEPT ![l] = Acked(l, job[l].failed)] ELSE ack
  /\ expected' = [expected EXCEPT ![l] = job[l].seq + 1]
  /\ at' = "scan" /\ scan' = l + 1 /\ busy' = TRUE
  /\ UNCHANGED <<gpuVars, req, staging, err, entry, queued, reads, cache, ringErr, aheadVars>>

\* After the layers: completions first.
PollReap ==
  /\ LayersDone /\ Completed # {}
  /\ at' = "reap"
  /\ UNCHANGED <<gpuVars, mailVars, scan, busy, expected, rowVars, aheadVars>>

\* prefetch_step: rows that are neither cached nor being read.
PrefetchStep ==
  LET n == Min({Batch, FreeSlots \div 2, Len(prefetch)})
      B == {k \in {prefetch[i] : i \in 1 .. n} :
              k[2] \in Owned \ DOMAIN cache[k[1]] /\ k \notin DOMAIN entry}
  IN /\ prefetch' = SubSeq(prefetch, n + 1, Len(prefetch))
     /\ entry' = [k \in DOMAIN entry \cup B |->
           IF k \in DOMAIN entry THEN entry[k]
           ELSE [FreshEntry({}) EXCEPT !.demand = FALSE,
                   !.halves = Halves \ ReadHalves, !.got = Halves \ ReadHalves]]
     /\ \/ /\ reads' = IF B = {} THEN reads ELSE Submitted(B, "flight")
           /\ UNCHANGED ringErr
        \/ /\ "submit" \in Faults /\ ~ringErr /\ B # {}
           /\ reads' = Submitted(B, "queued") /\ ringErr' = TRUE

PollEnd ==
  /\ LayersDone /\ Completed = {}
  /\ scan' = 1 /\ busy' = FALSE
  /\ IF ~busy /\ \A l \in Layers : ~job[l].active
     THEN PrefetchStep
     ELSE UNCHANGED <<entry, reads, ringErr, prefetch>>
  /\ UNCHANGED <<gpuVars, mailVars, at, expected, job, queued, cache, plans, ahead>>

\* The kernel.
Complete ==
  /\ \E x \in DOMAIN reads : /\ reads[x] = "flight"
       /\ \E r \in {"done"} \cup (Faults \cap {"short"}) : reads' = [reads EXCEPT ![x] = r]
  /\ UNCHANGED <<gpuVars, mailVars, pollVars, job, entry, queued, cache, ringErr, aheadVars>>
-----------------------------------------------------------------------------
(* The lookahead *)

\* on_schedule: the rows of the prompt's next chunks, for every layer that has any.
Schedule ==
  /\ plans < MaxPlans
  /\ plans' = plans + 1
  /\ \E parts \in Lookaheads : ahead' = ahead \o parts
  /\ UNCHANGED <<gpuVars, mailVars, pollVars, rowVars, prefetch>>

\* _worker hands one layer's ids to engram_v2_prefetch.
Queue ==
  /\ ahead # <<>>
  /\ ahead' = Tail(ahead)
  /\ prefetch' = prefetch \o SetToSeq({Head(ahead)[1]} \X Head(ahead)[2])
  /\ UNCHANGED <<gpuVars, mailVars, pollVars, rowVars, plans>>

\* The prompt is through, or its request ended.
PrefetchClear ==
  /\ prefetch # <<>>
  /\ prefetch' = <<>>
  /\ UNCHANGED <<gpuVars, mailVars, pollVars, rowVars, plans, ahead>>
-----------------------------------------------------------------------------
Stream(l) == PublishStep(l) \/ \E c \in Ctas : Enter(l, c) \/ Copy(l, c)
Fetcher == Look \/ Issue \/ Wait \/ Reap \/ ReapDone \/ Conclude \/ PollReap \/ PollEnd
Next ==
  \/ \E l \in Layers : PublishIds(l) \/ Stream(l) \/ \E c \in Ctas : TimeOut(l, c)
  \/ ClearError \/ Fetcher \/ Complete
  \/ Schedule \/ Queue \/ PrefetchClear

Spec == Init /\ [][Next]_vars
\* The polling thread runs, the kernel completes its reads, the stream goes on.
\* Nothing makes a lookup start, a wait time out or an error be cleared.
FairSpec == Spec /\ WF_vars(Fetcher) /\ WF_vars(Complete)
                 /\ \A l \in Layers : WF_vars(Stream(l))
-----------------------------------------------------------------------------
RowBytes == Ids \cup {Zero, Torn}
\* The variables keep their types.
TypeOK ==
  /\ gpu \in [Layers -> {"idle", "publishing", "waiting"}] /\ seqDev \in [Layers -> Nat]
  /\ cta \in [Layers -> [Ctas -> {"new", "spin", "out"}]]
  /\ land \in [Layers -> Seq(RowBytes)] /\ staging \in [Layers -> Seq(RowBytes)]
  /\ req \in [Layers -> [step : Nat, ids : Seq(Ids)]]
  /\ ack \in [Layers -> [step : Nat, status : 0 .. 1]] /\ err \in {0, 1, 17}
  /\ at \in {"scan", "reap", "issue", "wait", "conclude"}
  /\ scan \in 1 .. NLayers + 1 /\ busy \in BOOLEAN /\ expected \in [Layers -> Nat]
  /\ job \in [Layers -> [active : BOOLEAN, seq : Nat, remaining : Nat, failed : BOOLEAN]]
  /\ DOMAIN entry \subseteq Layers \X Owned
  /\ \A k \in DOMAIN entry :
       entry[k] \in [demand : BOOLEAN, dsts : SUBSET Nat, halves : SUBSET Halves,
                     got : SUBSET Halves, failed : BOOLEAN]
  /\ queued \in Seq(DOMAIN entry)
  /\ DOMAIN reads \subseteq (DOMAIN entry) \X Halves
  /\ \A x \in DOMAIN reads : reads[x] \in {"queued", "flight", "done", "short"}
  /\ \A l \in Layers : DOMAIN cache[l] \subseteq Owned
  /\ ringErr \in BOOLEAN /\ plans \in Nat
  /\ ahead \in Seq(Layers \X SUBSET Owned) /\ prefetch \in Seq(Layers \X Owned)

\* A lookup ends with an armed error word or with every row that of its own id: not
\* one of an earlier request that was answered late, nor of another layer's, nor one
\* that a failed read, a dropped prefetch or an eviction left half written.
RowsRight ==
  [][\A l \in Layers : gpu[l] = "waiting" /\ gpu'[l] = "idle" /\ err' = 0 =>
       land'[l] = [i \in DOMAIN req[l].ids |->
                     IF req[l].ids[i] \in Owned THEN req[l].ids[i] ELSE Zero]]_vars

\* A job counts its rows: it is acked with the last one, once, whoever began the read
\* and whichever loop reaps it; the ring's slots are never more than there are.
Beginning(l) ==
  scan = l /\ (at \in {"issue", "wait", "conclude"} \/ (at = "reap" /\ queued # <<>>))
JobsCounted ==
  /\ \A l \in Layers :
       LET rows == {k \in DOMAIN entry : k[1] = l /\ entry[k].demand}
       IN  IF job[l].active
           THEN job[l].remaining = Cardinality(rows) + (IF Beginning(l) THEN 1 ELSE 0)
           ELSE rows = {} /\ ~Beginning(l)
  /\ \A k \in DOMAIN entry :
       ringErr \/ k \in ToSet(queued) \/ \E h \in ReadHalves : <<k, h>> \in DOMAIN reads
  /\ Cardinality(DOMAIN reads) <= Depth

\* A lookup that waits is answered: no request is passed over for ever, after a late
\* answer, behind prefetches or another layer's rows, or in a ring smaller than it.
\* Only a submit that failed leaves a job without its reads.
LookupAnswered ==
  \A l \in Layers : (gpu[l] = "waiting") ~> (gpu[l] # "waiting" \/ ringErr)
=============================================================================
