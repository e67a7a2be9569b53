----------------------------- MODULE MCPollHook -----------------------------
(* PollHook on small instances.                                            *)
EXTENDS PollHook

CONSTANTS f1, f2

OneFetcher  == {f1}
TwoFetchers == {f1, f2}

=============================================================================
