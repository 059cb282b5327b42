------------------------------ MODULE MCMemoryRouter ------------------------------
(***************************************************************************)
(* Three shards a caller of scope "a" may search (two local ones, one      *)
(* remote and dear), one of another scope, and a scope with no shard.      *)
(***************************************************************************)
EXTENDS MemoryRouter, TLC

CONSTANTS episodic, semantic, remote, vault, unrestricted, a, b, c

MCShards == {episodic, semantic, remote, vault}

MCProfile ==
  episodic :> [latency_ms |-> 1, usd_per_query |-> 0, tokens_per_result |-> 1] @@
  semantic :> [latency_ms |-> 1, usd_per_query |-> 0, tokens_per_result |-> 2] @@
  remote   :> [latency_ms |-> 4, usd_per_query |-> 2, tokens_per_result |-> 1] @@
  vault    :> [latency_ms |-> 1, usd_per_query |-> 0, tokens_per_result |-> 1]

MCAllowedScopes ==
  episodic :> {a, b} @@ semantic :> {a} @@ remote :> {a} @@ vault :> {b}

MCScopes == {a, b, c}

\* Roomy; short of tokens; short of dollars; short of time; nothing at all.
MCBudgets ==
  {[max_tokens |-> 20, max_latency_ms |-> 20, max_usd |-> 9],
   [max_tokens |-> 3,  max_latency_ms |-> 20, max_usd |-> 9],
   [max_tokens |-> 20, max_latency_ms |-> 20, max_usd |-> 1],
   [max_tokens |-> 20, max_latency_ms |-> 5,  max_usd |-> 9],
   [max_tokens |-> 0,  max_latency_ms |-> 0,  max_usd |-> 0]}

==================================================================================
