------------------------------- MODULE MemoryRouter -------------------------------
(***************************************************************************)
(* One call of MemoryRouter.route (lulu_router/router.py) with the six     *)
(* strategies of lulu_router/strategies.py.  A step is one iteration of a  *)
(* strategy's loop; the judge's verdict on a round is a step of its own.   *)
(*                                                                         *)
(* Data left out: vectors, similarities and contents.  The ranking is any  *)
(* order of the permitted shards, a search returns any number of results   *)
(* up to k (or raises, as a remote shard's does), a judge answers anything.*)
(* The confidence is a level: Tau is the level that clears the threshold.  *)
(***************************************************************************)
EXTENDS RouterCost, FiniteSets

CONSTANTS
  Shards,         \* the shards handed to the router
  Profile,        \* shard -> its CostProfile
  AllowedScopes,  \* shard -> Unrestricted or the set of scopes it admits
  Unrestricted,   \* allowed_scopes=None
  Scopes,         \* the scopes a caller may present (None among them)
  Budgets,        \* the budgets a caller may pass
  K,              \* results asked of each shard
  TopN,           \* top_n_neighbors' n
  Confidences,    \* the confidence levels a judge may report
  Tau             \* the level that is enough

Adaptive == {"confidence_threshold", "progressive_expansion"}
Exhaustive == {"query_all", "flat_topk"}
STRATEGIES == Adaptive \cup Exhaustive \cup {"top_n_neighbors", "budgeted_communication"}
Unknown == "unknown_strategy"

ASSUME RouterAssumption ==
  /\ IsFiniteSet(Shards)
  /\ Profile \in [Shards -> CostProfile]
  /\ AllowedScopes \in [Shards -> {Unrestricted} \cup SUBSET Scopes]
  /\ Budgets \subseteq Budget
  /\ K \in Nat /\ TopN \in Nat
  /\ Confidences \subseteq Nat /\ 0 \in Confidences
  /\ Tau \in Nat \ {0}

VARIABLES
  request,      \* the arguments of route(): strategy, scope, budget
  pc,           \* where the call is
  ranked,       \* the permitted shards, closest first
  considered,   \* the trace's ShardScores
  rounds,       \* the trace's ExpansionRounds
  spent,        \* the trace's cost
  confidence,   \* the trace's confidence
  stop_reason,  \* why an adaptive loop stopped
  searched,     \* history: every shard searched, in order
  incurred      \* history: the cost of every search made

vars == <<request, pc, ranked, considered, rounds, spent, confidence, stop_reason,
          searched, incurred>>
history == <<searched, incurred>>

Reasons == {"outside_top_n", "budget_exhausted", "confidence_met", "sources_exhausted"}
NoReason == "none"
ShardScore == [shard_id : Shards, contacted : BOOLEAN, skip_reason : Reasons \cup {NoReason}]
ExpansionRound == [shard_id : Shards, confidence_before : Confidences,
                   confidence_after : Confidences, verdict : {"sufficient", "expand"}]
Requests == [strategy : STRATEGIES \cup {Unknown}, scope : Scopes, budget : Budgets]

-----------------------------------------------------------------------------------
(* Access policy and ranking.                                              *)

\* Mutant of Permits: any policy admits anybody.
PermitsAnyone(shard, scope) == TRUE

\* Shard.permits
Permits(shard, scope) ==
  \/ AllowedScopes[shard] = Unrestricted
  \/ scope \in AllowedScopes[shard]

Permitted(scope) == {s \in Shards : Permits(s, scope)}

\* _rank_shards_by_centroid: the permitted shards in some order, each once.
Rankings(scope) ==
  {r \in [1..Cardinality(Permitted(scope)) -> Permitted(scope)] :
     \A i, j \in DOMAIN r : r[i] = r[j] => i = j}

-----------------------------------------------------------------------------------
(* The loop's position and the pieces its iterations share.                *)

Visited == Len(considered)
More == Visited < Len(ranked)
Current == ranked[Visited + 1]

Contacted(shard) == [shard_id |-> shard, contacted |-> TRUE, skip_reason |-> NoReason]
Skipped(shard, reason) == [shard_id |-> shard, contacted |-> FALSE, skip_reason |-> reason]

At(strategies) == pc = "visit" /\ request.strategy \in strategies

\* shard.search(): the query is paid for whatever is done with its results; tokens are
\* paid for the results that are kept.
Search(shard, kept) ==
  /\ searched' = Append(searched, shard)
  /\ incurred' = AddCost(incurred, CostFor(Profile[shard], kept))

\* Mutant of Contact: the worst case is charged instead of the results that came.
ContactAtWorstCase(shard, n) ==
  /\ Search(shard, n)
  /\ spent' = AddCost(spent, CostFor(Profile[shard], K))
  /\ considered' = Append(considered, Contacted(shard))

\* The shard's results and cost are kept: ShardScore(contacted=True).
Contact(shard, n) ==
  /\ Search(shard, n)
  /\ spent' = AddCost(spent, CostFor(Profile[shard], n))
  /\ considered' = Append(considered, Contacted(shard))

\* The shard is listed in the trace without having been searched.
Skip(shard, reason) ==
  /\ considered' = Append(considered, Skipped(shard, reason))
  /\ UNCHANGED <<request, pc, ranked, rounds, spent, confidence, stop_reason, history>>

Stop(reason) ==
  /\ pc' = "finish"
  /\ stop_reason' = reason

-----------------------------------------------------------------------------------
Init ==
  /\ request \in Requests
  /\ pc = "route"
  /\ ranked = <<>> /\ considered = <<>> /\ rounds = <<>> /\ searched = <<>>
  /\ spent = ZeroCost /\ incurred = ZeroCost
  /\ confidence = 0
  /\ stop_reason = "confidence_met"

\* route(): an unknown strategy is a ValueError.
RejectStrategy ==
  /\ pc = "route"
  /\ request.strategy \notin STRATEGIES
  /\ pc' = "raised"
  /\ UNCHANGED <<request, ranked, considered, rounds, spent, confidence, stop_reason, history>>

Rank ==
  /\ pc = "route"
  /\ request.strategy \in STRATEGIES
  /\ ranked' \in Rankings(request.scope)
  /\ pc' = "visit"
  /\ UNCHANGED <<request, considered, rounds, spent, confidence, stop_reason, history>>

\* query_all, flat_topk, and top_n_neighbors up to n.
ContactFreely(n) ==
  /\ At(Exhaustive \cup {"top_n_neighbors"})
  /\ More
  /\ request.strategy = "top_n_neighbors" => Visited < TopN
  /\ Contact(Current, n)
  /\ UNCHANGED <<request, pc, ranked, rounds, confidence, stop_reason>>

SkipOutsideTopN ==
  /\ At({"top_n_neighbors"})
  /\ More
  /\ Visited >= TopN
  /\ Skip(Current, "outside_top_n")

\* Mutant of FitsCap: tested on what is already spent, the next search forgotten.
FitsCapLate(shard) == ~Exceeds(spent, request.budget)

\* budgeted_communication: the worst case of the next search, before it is made.
FitsCap(shard) == ~Exceeds(AddCost(spent, CostFor(Profile[shard], K)), request.budget)

ContactUnderCap(n) ==
  /\ At({"budgeted_communication"})
  /\ More
  /\ FitsCap(Current)
  /\ Contact(Current, n)
  /\ UNCHANGED <<request, pc, ranked, rounds, confidence, stop_reason>>

SkipOverCap ==
  /\ At({"budgeted_communication"})
  /\ More
  /\ ~FitsCap(Current)
  /\ Skip(Current, "budget_exhausted")

\* Mutant of OverBudget: the loop never looks at what it has spent.
NeverOverBudget == FALSE

\* The adaptive loops' first test.
OverBudget == Exceeds(spent, request.budget)

StopOverBudget ==
  /\ At(Adaptive)
  /\ More
  /\ OverBudget
  /\ Stop("budget_exhausted")
  /\ UNCHANGED <<request, ranked, considered, rounds, spent, confidence, history>>

\* Mutant of Refuses: no exemption for the first shard.
RefusesEveryShard(n) ==
  /\ request.strategy = "progressive_expansion"
  /\ Exceeds(AddCost(spent, CostFor(Profile[Current], n)), request.budget)

\* Mutant of Refuses: no projection, as in confidence_threshold.
RefusesNothing(n) == FALSE

\* progressive_expansion: the round's cost would exceed the budget, and i > 0.
Refuses(n) ==
  /\ request.strategy = "progressive_expansion"
  /\ Exceeds(AddCost(spent, CostFor(Profile[Current], n)), request.budget)
  /\ Visited > 0

ContactAdaptively(n) ==
  /\ At(Adaptive)
  /\ More
  /\ ~OverBudget
  /\ ~Refuses(n)
  /\ Contact(Current, n)
  /\ pc' = "judge"
  /\ UNCHANGED <<request, ranked, rounds, confidence, stop_reason>>

\* The search has been made by the time the projected cost is refused: its results are
\* dropped, its query is not charged to the trace.
RefuseRound(n) ==
  /\ At(Adaptive)
  /\ More
  /\ ~OverBudget
  /\ Refuses(n)
  /\ Search(Current, 0)
  /\ Stop("budget_exhausted")
  /\ UNCHANGED <<request, ranked, considered, rounds, spent, confidence>>

\* Both loops' verdict (the two expressions are each other's negation).
Verdict(conf, should_expand) ==
  IF should_expand /\ conf < Tau THEN "expand" ELSE "sufficient"

\* Mutant of Round: the confidence before is read after the judge's answer is stored.
RoundReadLate(conf, verdict) ==
  [shard_id          |-> considered[Visited].shard_id,
   confidence_before |-> conf,
   confidence_after  |-> conf,
   verdict           |-> verdict]

Round(conf, verdict) ==
  [shard_id          |-> considered[Visited].shard_id,
   confidence_before |-> confidence,
   confidence_after  |-> conf,
   verdict           |-> verdict]

\* Mutant of ReasonAfter: the loop's else runs after a break too.
ReasonAlwaysElse(verdict) == "sources_exhausted"

\* break keeps "confidence_met"; the for loop's else runs when no break did.
ReasonAfter(verdict) ==
  IF verdict = "sufficient" THEN stop_reason ELSE "sources_exhausted"

JudgeRound(conf, should_expand) ==
  LET verdict == Verdict(conf, should_expand) IN
  /\ pc = "judge"
  /\ confidence' = conf
  /\ rounds' = Append(rounds, Round(conf, verdict))
  /\ IF verdict = "sufficient" \/ ~More
       THEN Stop(ReasonAfter(verdict))
       ELSE pc' = "visit" /\ UNCHANGED stop_reason
  /\ UNCHANGED <<request, ranked, considered, spent, history>>

\* Nothing is permitted: the adaptive loop's body never runs.
NothingToVisit ==
  /\ At(Adaptive)
  /\ ~More
  /\ Stop("sources_exhausted")
  /\ UNCHANGED <<request, ranked, considered, rounds, spent, confidence, history>>

\* Mutant of Unvisited: the trace lists the contacted shards only.
UnvisitedForgotten == <<>>

\* The ranked shards whose id is not in considered: all after the last contacted one.
Unvisited ==
  [i \in 1..(Len(ranked) - Visited) |-> Skipped(ranked[Visited + i], stop_reason)]

ReturnAdaptive ==
  /\ pc = "finish"
  /\ considered' = considered \o Unvisited
  /\ pc' = "done"
  /\ UNCHANGED <<request, ranked, rounds, spent, confidence, stop_reason, history>>

\* The other strategies judge once, after their loop.
ReturnJudged(conf) ==
  /\ At(STRATEGIES \ Adaptive)
  /\ ~More
  /\ confidence' = conf
  /\ pc' = "done"
  /\ UNCHANGED <<request, ranked, considered, rounds, spent, stop_reason, history>>

\* shard.search() raises (an MCP tool error, a locked database): no trace at all.
SearchRaises ==
  /\ pc = "visit"
  /\ More
  /\ request.strategy \in Adaptive => ~OverBudget
  /\ request.strategy = "budgeted_communication" => FitsCap(Current)
  /\ request.strategy = "top_n_neighbors" => Visited < TopN
  /\ pc' = "raised"
  /\ UNCHANGED <<request, ranked, considered, rounds, spent, confidence, stop_reason, history>>

Returned == pc \in {"done", "raised"}

\* The call is over.
Terminated == Returned /\ UNCHANGED vars

Next ==
  \/ RejectStrategy
  \/ Rank
  \/ \E n \in 0..K : \/ ContactFreely(n)
                     \/ ContactUnderCap(n)
                     \/ ContactAdaptively(n)
                     \/ RefuseRound(n)
  \/ SkipOutsideTopN
  \/ SkipOverCap
  \/ StopOverBudget
  \/ \E conf \in Confidences : \/ \E should_expand \in BOOLEAN : JudgeRound(conf, should_expand)
                               \/ ReturnJudged(conf)
  \/ NothingToVisit
  \/ ReturnAdaptive
  \/ SearchRaises
  \/ Terminated

Spec == Init /\ [][Next]_vars

-----------------------------------------------------------------------------------
(* Properties.                                                             *)

\* The record the code builds, and the history, have the shapes trace.py declares.
TypeOK ==
  /\ request \in Requests
  /\ pc \in {"route", "visit", "judge", "finish", "done", "raised"}
  /\ ranked \in Seq(Shards)
  /\ considered \in Seq(ShardScore)
  /\ rounds \in Seq(ExpansionRound)
  /\ spent \in Cost /\ incurred \in Cost
  /\ confidence \in Confidences
  /\ stop_reason \in Reasons
  /\ searched \in Seq(Shards)

IsContacted(i) == considered[i].contacted
ContactedIds == {considered[i].shard_id : i \in {j \in DOMAIN considered : IsContacted(j)}}
SearchedIds == {searched[i] : i \in DOMAIN searched}

\* n results from the shard, on top of what has been charged, would exceed the budget.
WouldOverrun(shard, n) == Exceeds(AddCost(spent, CostFor(Profile[shard], n)), request.budget)

\* A shard the caller's scope does not admit is neither searched nor named in the trace,
\* whatever the strategy (Shard.permits: an access boundary, not a routing decision).
DeniedStaysOut ==
  \A shard \in SearchedIds \cup {considered[i].shard_id : i \in DOMAIN considered} :
    AllowedScopes[shard] # Unrestricted => request.scope \in AllowedScopes[shard]

\* budgeted_communication's guarantee is on what the searches really cost, at every
\* moment of the call and with any number of results: never over the cap.
HardCeiling ==
  request.strategy = "budgeted_communication" => ~Exceeds(incurred, request.budget)

\* progressive_expansion charges at most one shard (the first) beyond its budget: once a
\* second shard is contacted, the charged cost fits.
ProgressiveCap ==
  request.strategy = "progressive_expansion" =>
    \A i \in DOMAIN considered :
      (IsContacted(i) /\ i > 1) => ~Exceeds(spent, request.budget)

\* confidence_threshold overruns by one shard at most: at every contact what had been
\* spent before it was within the budget.
OverrunIsOneShard ==
  [][ (request.strategy = "confidence_threshold" /\ spent' # spent)
        => ~Exceeds(spent, request.budget) ]_vars

\* The returned trace lists every permitted shard exactly once, contacted or skipped.
TraceIsComplete ==
  pc = "done" =>
    /\ {considered[i].shard_id : i \in DOMAIN considered} = Permitted(request.scope)
    /\ Len(considered) = Cardinality(Permitted(request.scope))

\* The trace never claims a contact that was not made, and charges exactly what the
\* contacts cost; only progressive_expansion may have searched one shard more, which it
\* lists as skipped because its results did not fit.
TraceIsCharged ==
  /\ ContactedIds \subseteq SearchedIds
  /\ \/ spent = incurred /\ ContactedIds = SearchedIds
     \/ /\ request.strategy = "progressive_expansion"
        /\ stop_reason = "budget_exhausted"
        /\ \E s \in SearchedIds : /\ SearchedIds \ ContactedIds = {s}
                                  /\ WouldOverrun(s, K)
                                  /\ incurred = AddCost(spent, CostFor(Profile[s], 0))

\* Each reason a skipped shard carries is what happened: the judge was satisfied, the
\* budget had no room for this shard or for the one the expansion had come to, or the
\* shard ranked below n.  "sources_exhausted" is never a reason to skip: it means that
\* no shard was left.
SkipReasonsAreTrue ==
  pc = "done" =>
    \A i \in DOMAIN considered : ~IsContacted(i) =>
      LET reason == considered[i].skip_reason IN
        \/ /\ reason = "confidence_met"
           /\ rounds # <<>> /\ rounds[Len(rounds)].verdict = "sufficient"
        \/ /\ reason = "budget_exhausted"
           /\ \/ OverBudget
              \/ WouldOverrun(considered[i].shard_id, K)
              \/ /\ request.strategy \in Adaptive
                 /\ WouldOverrun(ranked[Len(rounds) + 1], K)
        \/ reason = "outside_top_n" /\ Cardinality(ContactedIds) = TopN

\* The rounds replay the expansion: one for each contacted shard in ranking order, each
\* starting from the confidence the one before ended with, only the last one sufficient,
\* the trace's confidence being the last one's.
RoundsReplayExpansion ==
  (pc = "done" /\ request.strategy \in Adaptive) =>
    /\ Len(rounds) = Cardinality(ContactedIds)
    /\ \A i \in DOMAIN rounds :
         /\ rounds[i].shard_id = ranked[i] /\ IsContacted(i)
         /\ rounds[i].confidence_before = (IF i = 1 THEN 0 ELSE rounds[i - 1].confidence_after)
         /\ i < Len(rounds) => rounds[i].verdict = "expand"
    /\ rounds # <<>> => confidence = rounds[Len(rounds)].confidence_after

\* An adaptive strategy never leaves a query empty while some shard is permitted, not
\* even on a zero budget.
NeverLeftEmpty ==
  (pc = "done" /\ request.strategy \in Adaptive /\ Permitted(request.scope) # {})
     => ContactedIds # {}

Baseline == QueryAllCost([i \in DOMAIN ranked |-> Profile[ranked[i]]], K)

\* /cost's headline: what routing spent is never more than the query_all counterfactual
\* over the same shards and k, so no saving is negative and none exceeds 100%.
SavingsAreReal ==
  pc = "done" =>
    /\ SavingsPct(spent.tokens, Baseline.tokens) \in 0..100
    /\ SavingsPct(spent.latency_ms, Baseline.latency_ms) \in 0..100
    /\ SavingsPct(spent.usd, Baseline.usd) \in 0..100

==================================================================================
