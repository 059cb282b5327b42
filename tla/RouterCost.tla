-------------------------------- MODULE RouterCost --------------------------------
(***************************************************************************)
(* lulu_router/cost.py: what a search costs, what a budget allows.         *)
(* Milliseconds and dollars are floats in the code; here every attribute   *)
(* counts whole units, which keeps the additions and comparisons.          *)
(***************************************************************************)
EXTENDS Integers, Sequences

CostProfile == [latency_ms : Nat, usd_per_query : Nat, tokens_per_result : Nat]

Cost == [latency_ms : Nat, usd : Nat, tokens : Nat]

Budget == [max_tokens : Nat, max_latency_ms : Nat, max_usd : Nat]

ZeroCost == [latency_ms |-> 0, usd |-> 0, tokens |-> 0]

\* Mutant of CostFor: the first result is free.
CostForAllButOne(profile, n) == [latency_ms |-> profile.latency_ms,
                                 usd        |-> profile.usd_per_query,
                                 tokens     |-> profile.tokens_per_result * (n - 1)]

\* CostProfile.cost_for: one query, n results injected.
CostFor(profile, n) == [latency_ms |-> profile.latency_ms,
                        usd        |-> profile.usd_per_query,
                        tokens     |-> profile.tokens_per_result * n]

\* Cost.__add__
AddCost(a, b) == [latency_ms |-> a.latency_ms + b.latency_ms,
                  usd        |-> a.usd + b.usd,
                  tokens     |-> a.tokens + b.tokens]

\* Cost.exceeds: any one attribute strictly over its cap.
Exceeds(c, b) == \/ c.tokens > b.max_tokens
                 \/ c.latency_ms > b.max_latency_ms
                 \/ c.usd > b.max_usd

-----------------------------------------------------------------------------------
(* counterfactual.py: what contacting every shard would have cost.         *)

\* Mutant of QueryAllCost: the last shard is left out.
QueryAllCostButLast(profiles, k) ==
  LET total[i \in 0..Len(profiles)] ==
        IF i <= 1 THEN ZeroCost
                  ELSE AddCost(total[i - 1], CostFor(profiles[i - 1], k))
  IN  total[Len(profiles)]

\* query_all_cost over a list of cost profiles (flat_topk_cost is the same).
QueryAllCost(profiles, k) ==
  LET total[i \in 0..Len(profiles)] ==
        IF i = 0 THEN ZeroCost
                 ELSE AddCost(total[i - 1], CostFor(profiles[i], k))
  IN  total[Len(profiles)]

\* savings_pct on one attribute, rounded down; nothing to save against is 0.
SavingsPct(actual, baseline) ==
  IF baseline <= 0 THEN 0 ELSE ((baseline - actual) * 100) \div baseline

==================================================================================
