--------------------------- MODULE MCPrefillPipe ---------------------------
(* Two ranks and steps cut after the third row; a replay batch keeps the    *)
(* last row of a request.  Decodes before a prefill that end inside, at or  *)
(* behind the cut; groups with and without a replay batch, a request in     *)
(* both groups that is trimmed in the second, and one that is not.  Faults  *)
(* on one rank; steps that are not cut, and switches that refuse a cut.     *)
EXTENDS PrefillPipe
CONSTANTS r1, r2
TwoRanks == {r1, r2}

S(lens, decodes) == [lens |-> lens, decodes |-> decodes, keeps |-> {}, plain |-> TRUE]
OneDecode == S(<<1, 5>>, 1)
Prefill == S(<<6>>, 0)
Straddling == S(<<4, 2>>, 0)
Kept == [Prefill EXCEPT !.keeps = {0}]
Little == S(<<1, 1, 1, 1, 1>>, 4)
Rising == S(<<1, 1, 4>>, 2)
RisingStraddled == S(<<1, 1, 2, 2>>, 2)
FallingStraddled == S(<<4, 1>>, 0)
Short == S(<<1, 1>>, 1)
Padded == [Prefill EXCEPT !.plain = FALSE]

On(replay, tail) ==
  [replay |-> replay, tail |-> tail, mixed |-> "pipe", parallel |-> TRUE, forced |-> FALSE]
Alone == [On("stream", "barrier") EXCEPT !.parallel = FALSE]
Forced == [On("stream", "sync") EXCEPT !.forced = TRUE]
Mix(mixed) == [On("serial", "serial") EXCEPT !.mixed = mixed]
Healthy(b, s) == [batch |-> b, setup |-> s, faulty |-> {}, hasty |-> {}]
Failed(b, s) == [Healthy(b, s) EXCEPT !.faulty = {r1}]
Late(b, s) == [Healthy(b, s) EXCEPT !.hasty = {r1}]

Looked ==
  {Healthy(OneDecode, On("stream", t)) : t \in {"serial", "barrier", "sync"}}
  \cup {Healthy(b, On("stream", "serial")) : b \in {Straddling, Little}}
  \cup {Healthy(b, On("stream", "barrier")) : b \in {Rising, FallingStraddled}}
  \cup {Healthy(b, On("serial", "sync")) : b \in {OneDecode, Straddling, Rising}}
  \cup {Healthy(b, Alone) : b \in {Kept, RisingStraddled, FallingStraddled}}
  \cup {Healthy(b, Mix("pipe")) : b \in {Short, Padded}}
  \cup {Healthy(OneDecode, Mix(m)) : m \in {"today", "error"}}
  \cup {Failed(OneDecode, On("stream", t)) : t \in {"barrier", "sync"}}
  \cup {Late(OneDecode, On("stream", "sync")), Failed(OneDecode, Forced)}

\* A request that ends with one row in the second group, and a longer one behind it.
Shortened == {Healthy(RisingStraddled, On(rp, "serial")) : rp \in {"serial", "stream"}}
=============================================================================
