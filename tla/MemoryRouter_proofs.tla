--------------------------- MODULE MemoryRouter_proofs ---------------------------
(***************************************************************************)
(* Theorems about MemoryRouter, for every set of shards, cost profile,     *)
(* access policy, budget, k, n, confidence scale and tau.                  *)
(***************************************************************************)
EXTENDS MemoryRouter, FiniteSetTheorems, TLAPS

-----------------------------------------------------------------------------------
(* Arithmetic of costs.                                                    *)

\* Costs and their sums are costs: cost.py never produces a negative attribute.
LEMMA CostsAreCosts ==
  /\ ZeroCost \in Cost
  /\ \A p \in CostProfile, n \in Nat : CostFor(p, n) \in Cost
  /\ \A c, d \in Cost : AddCost(c, d) \in Cost
<1>1. \A t, n \in Nat : t * n \in Nat
  OBVIOUS
<1>2. \A p \in CostProfile, n \in Nat : CostFor(p, n) \in Cost
  BY <1>1 DEF CostProfile, CostFor, Cost
<1> QED
  BY <1>2 DEF ZeroCost, AddCost, Cost

\* Fewer results cost no more tokens.
LEMMA TokensGrow ==
  ASSUME NEW t \in Nat, NEW m \in Nat, NEW n \in 0..m
  PROVE  t * n <= t * m
<1>1. PICK d \in Nat : m = n + d
  <2>1. m - n \in Nat /\ m = n + (m - n)
    OBVIOUS
  <2> QED BY <2>1
<1>2. t * m = t * n + t * d
  BY <1>1
<1>3. t * d \in Nat /\ t * n \in Nat
  BY <1>1
<1> QED BY <1>2, <1>3

\* cost_for(k) is the worst case of any search that returns at most k results: if it
\* fits on top of what is spent, the search's own cost does.
LEMMA WorstCase ==
  ASSUME NEW c \in Cost, NEW p \in CostProfile, NEW b \in Budget,
         NEW k \in Nat, NEW n \in 0..k,
         ~Exceeds(AddCost(c, CostFor(p, k)), b)
  PROVE  ~Exceeds(AddCost(c, CostFor(p, n)), b)
<1>1. p.tokens_per_result \in Nat /\ p.latency_ms \in Nat /\ p.usd_per_query \in Nat
  BY DEF CostProfile
<1>2. p.tokens_per_result * n <= p.tokens_per_result * k
  BY <1>1, TokensGrow
<1>3. /\ p.tokens_per_result * n \in Nat
      /\ p.tokens_per_result * k \in Nat
  BY <1>1
<1>4. /\ c.tokens \in Nat /\ b.max_tokens \in Nat
      /\ c.tokens + p.tokens_per_result * k <= b.max_tokens
      /\ c.latency_ms + p.latency_ms <= b.max_latency_ms
      /\ c.usd + p.usd_per_query <= b.max_usd
  BY <1>1, <1>3 DEF Exceeds, AddCost, CostFor, Cost, Budget
<1>5. c.tokens + p.tokens_per_result * n <= b.max_tokens
  BY <1>2, <1>3, <1>4
<1> QED
  BY <1>1, <1>3, <1>4, <1>5 DEF Exceeds, AddCost, CostFor, Cost, Budget

\* Nothing spent exceeds no budget, not even the empty one.
LEMMA ZeroFits == \A b \in Budget : ~Exceeds(ZeroCost, b)
  BY DEF Exceeds, ZeroCost, Budget

-----------------------------------------------------------------------------------
(* The inductive invariant.                                                *)

\* Once the shards are ranked, the ranking holds every permitted shard exactly once.
RankedInv ==
  \/ pc \in {"route", "raised"} /\ ranked = <<>> /\ considered = <<>>
  \/ /\ pc # "route"
     /\ ranked \in Rankings(request.scope)

\* The trace grows along the ranking, and only permitted shards are searched.
PrefixInv ==
  /\ Len(considered) <= Len(ranked)
  /\ \A i \in DOMAIN considered : considered[i].shard_id = ranked[i]
  /\ SearchedIds \subseteq Permitted(request.scope)

\* An adaptive loop has contacted everything it has considered; it is judging, or has
\* stopped, after at least one contact, unless nothing is permitted.
AdaptiveInv ==
  /\ pc \in {"judge", "finish"} => request.strategy \in Adaptive
  /\ pc = "judge" => Len(considered) > 0
  /\ (pc \in {"visit", "judge", "finish"} /\ request.strategy \in Adaptive)
       => \A i \in DOMAIN considered : IsContacted(i)
  /\ pc \in {"route", "visit"} /\ considered = <<>> => spent = ZeroCost
  /\ pc = "finish" => (considered # <<>> \/ ranked = <<>>)
  /\ (pc = "done" /\ request.strategy \in Adaptive /\ ranked # <<>>)
       => considered # <<>> /\ IsContacted(1)

\* Nothing but progressive_expansion discards a search it has made.
ChargedInv == request.strategy # "progressive_expansion" => incurred = spent

DoneInv == pc = "done" => Len(considered) = Len(ranked)

IInv == /\ TypeOK /\ RankedInv /\ PrefixInv /\ AdaptiveInv /\ ChargedInv /\ DoneInv
        /\ HardCeiling /\ ProgressiveCap

-----------------------------------------------------------------------------------
(* Facts about one step.                                                   *)

\* The permitted shards are a finite part of the shards, and a ranking is a sequence
\* as long as there are of them.
LEMMA RankingsAreSequences ==
  ASSUME NEW scope, NEW r \in Rankings(scope)
  PROVE  /\ r \in Seq(Shards)
         /\ Len(r) = Cardinality(Permitted(scope))
         /\ Permitted(scope) \subseteq Shards
         /\ IsFiniteSet(Permitted(scope))
         /\ \A i \in 1..Len(r) : r[i] \in Permitted(scope)
<1>1. Permitted(scope) \subseteq Shards
  BY DEF Permitted
<1>2. IsFiniteSet(Permitted(scope))
  BY <1>1, FS_Subset, RouterAssumption DEF RouterAssumption
<1>3. Cardinality(Permitted(scope)) \in Nat
  BY <1>2, FS_CardinalityType
<1>4. r \in [1..Cardinality(Permitted(scope)) -> Permitted(scope)]
  BY DEF Rankings
<1>5. r \in Seq(Shards) /\ Len(r) = Cardinality(Permitted(scope))
  BY <1>1, <1>3, <1>4
<1> QED BY <1>1, <1>2, <1>4, <1>5

\* While a loop runs, the shard it has come to is a permitted one, not yet considered.
LEMMA CurrentIsPermitted ==
  ASSUME TypeOK, RankedInv, PrefixInv, pc = "visit", More
  PROVE  /\ Visited \in Nat /\ Visited + 1 \in 1..Len(ranked)
         /\ Current \in Shards /\ Current \in Permitted(request.scope)
         /\ Profile[Current] \in CostProfile
         /\ request.budget \in Budget
<1>1. ranked \in Rankings(request.scope)
  BY DEF RankedInv, More, Visited, TypeOK
<1>2. Visited \in Nat /\ Visited + 1 \in 1..Len(ranked)
  BY DEF TypeOK, More, Visited
<1>3. Current \in Permitted(request.scope) /\ Current \in Shards
  BY <1>1, <1>2, RankingsAreSequences DEF Current
<1>4. Profile[Current] \in CostProfile
  BY <1>3, RouterAssumption DEF RouterAssumption
<1>5. request.budget \in Budget
  BY RouterAssumption DEF RouterAssumption, TypeOK, Requests
<1> QED BY <1>2, <1>3, <1>4, <1>5

\* Making a search keeps the history well formed.
LEMMA SearchKeepsHistory ==
  ASSUME TypeOK, RankedInv, PrefixInv, pc = "visit", More, NEW n \in 0..K,
         Search(Current, n)
  PROVE  /\ searched' \in Seq(Shards) /\ incurred' \in Cost
         /\ SearchedIds' \subseteq Permitted(request.scope)
<1>1. /\ Current \in Shards /\ Current \in Permitted(request.scope)
      /\ Profile[Current] \in CostProfile
  BY CurrentIsPermitted
<1>2. n \in Nat
  BY RouterAssumption DEF RouterAssumption
<1>3. searched' \in Seq(Shards) /\ incurred' \in Cost
  BY <1>1, <1>2, CostsAreCosts DEF Search, TypeOK
<1>4. /\ Len(searched') = Len(searched) + 1
      /\ searched'[Len(searched) + 1] = Current
      /\ \A i \in 1..Len(searched) : searched'[i] = searched[i]
      /\ searched \in Seq(Shards)
  BY <1>1 DEF Search, TypeOK
<1>5. \A i \in DOMAIN searched' : searched'[i] \in Permitted(request.scope)
  BY <1>1, <1>3, <1>4 DEF PrefixInv, SearchedIds
<1> QED BY <1>3, <1>5 DEF SearchedIds

\* Contacting or skipping the current shard extends the trace along the ranking.
LEMMA TraceGrows ==
  ASSUME TypeOK, RankedInv, PrefixInv, pc = "visit", More,
         NEW entry \in ShardScore, entry.shard_id = Current,
         considered' = Append(considered, entry), ranked' = ranked
  PROVE  /\ considered' \in Seq(ShardScore)
         /\ Len(considered') = Visited + 1
         /\ considered' # <<>>
         /\ considered'[Visited + 1] = entry
         /\ \A i \in 1..Visited : considered'[i] = considered[i]
         /\ Len(considered') <= Len(ranked')
         /\ \A i \in DOMAIN considered' : considered'[i].shard_id = ranked'[i]
<1>1. Visited \in Nat /\ Visited + 1 \in 1..Len(ranked)
  BY CurrentIsPermitted
<1>2. /\ considered' \in Seq(ShardScore)
      /\ Len(considered') = Visited + 1
      /\ considered'[Visited + 1] = entry
      /\ \A i \in 1..Visited : considered'[i] = considered[i]
  BY DEF TypeOK, Visited
<1>3. considered' # <<>>
  BY <1>1, <1>2
<1>4. \A i \in 1..Visited + 1 : considered'[i].shard_id = ranked[i]
  BY <1>1, <1>2 DEF PrefixInv, Visited, Current, TypeOK
<1> QED BY <1>1, <1>2, <1>3, <1>4

\* What every contact establishes, whichever strategy makes it.
LEMMA ContactKeeps ==
  ASSUME TypeOK, RankedInv, PrefixInv, ChargedInv, pc = "visit", More, NEW n \in 0..K,
         Contact(Current, n), UNCHANGED <<request, ranked>>
  PROVE  /\ considered' \in Seq(ShardScore) /\ spent' \in Cost
         /\ searched' \in Seq(Shards) /\ incurred' \in Cost
         /\ PrefixInv' /\ ChargedInv'
         /\ Len(considered') = Visited + 1 /\ considered' # <<>>
         /\ considered'[Visited + 1].contacted
         /\ \A i \in 1..Visited : considered'[i] = considered[i]
         /\ spent' = AddCost(spent, CostFor(Profile[Current], n))
<1>1. /\ Current \in Shards /\ Profile[Current] \in CostProfile /\ n \in Nat
  BY CurrentIsPermitted, RouterAssumption DEF RouterAssumption
<1>2. Contacted(Current) \in ShardScore /\ Contacted(Current).shard_id = Current
  BY <1>1 DEF Contacted, ShardScore
<1>3. considered' = Append(considered, Contacted(Current))
  BY DEF Contact
<1>4. /\ considered' \in Seq(ShardScore)
      /\ Len(considered') = Visited + 1
      /\ considered' # <<>>
      /\ considered'[Visited + 1] = Contacted(Current)
      /\ \A i \in 1..Visited : considered'[i] = considered[i]
      /\ Len(considered') <= Len(ranked')
      /\ \A i \in DOMAIN considered' : considered'[i].shard_id = ranked'[i]
  BY <1>2, <1>3, TraceGrows
<1>5. /\ searched' \in Seq(Shards) /\ incurred' \in Cost
      /\ SearchedIds' \subseteq Permitted(request.scope)
  BY SearchKeepsHistory DEF Contact
<1>6. spent' = AddCost(spent, CostFor(Profile[Current], n)) /\ spent' \in Cost
  BY <1>1, CostsAreCosts DEF Contact, TypeOK
<1>7. PrefixInv'
  BY <1>4, <1>5 DEF PrefixInv
<1>8. ChargedInv'
  BY <1>6 DEF ChargedInv, Contact, Search
<1>9. considered'[Visited + 1].contacted
  BY <1>4 DEF Contacted
<1> QED BY <1>4, <1>5, <1>6, <1>7, <1>8, <1>9

\* What every skip establishes.
LEMMA SkipKeeps ==
  ASSUME IInv, pc = "visit", More, request.strategy \notin Adaptive,
         NEW reason \in Reasons, Skip(Current, reason)
  PROVE  IInv'
<1>1. Current \in Shards
  BY CurrentIsPermitted DEF IInv
<1>2. /\ Skipped(Current, reason) \in ShardScore
      /\ Skipped(Current, reason).shard_id = Current
  BY <1>1 DEF Skipped, ShardScore
<1>3. /\ considered' \in Seq(ShardScore)
      /\ Len(considered') <= Len(ranked')
      /\ considered' # <<>>
      /\ \A i \in DOMAIN considered' : considered'[i].shard_id = ranked'[i]
  BY <1>2, TraceGrows DEF IInv, Skip
<1>4. UNCHANGED <<request, pc, ranked, rounds, spent, confidence, stop_reason, searched,
                  incurred>>
  BY DEF Skip, history
<1>5. TypeOK'
  BY <1>3, <1>4 DEF IInv, TypeOK
<1>6. RankedInv' /\ PrefixInv'
  BY <1>3, <1>4 DEF IInv, RankedInv, PrefixInv, SearchedIds
<1>7. AdaptiveInv' /\ DoneInv'
  BY <1>3, <1>4 DEF IInv, AdaptiveInv, DoneInv
<1>8. ChargedInv' /\ HardCeiling'
  BY <1>4 DEF IInv, ChargedInv, HardCeiling
<1>9. ProgressiveCap'
  BY <1>4 DEF ProgressiveCap, Adaptive
<1> QED BY <1>5, <1>6, <1>7, <1>8, <1>9 DEF IInv

\* The actions that leave the trace, its cost and the history alone keep what only
\* depends on them.
LEMMA QuietKeeps ==
  ASSUME IInv, UNCHANGED <<request, ranked, considered, spent, searched, incurred>>
  PROVE  PrefixInv' /\ ChargedInv' /\ HardCeiling' /\ ProgressiveCap'
<1>1. PrefixInv'
  BY DEF IInv, PrefixInv, SearchedIds
<1>2. ChargedInv' /\ HardCeiling'
  BY DEF IInv, ChargedInv, HardCeiling
<1>3. ProgressiveCap'
  BY DEF IInv, ProgressiveCap, IsContacted
<1> QED BY <1>1, <1>2, <1>3

-----------------------------------------------------------------------------------
(* The invariant is inductive.                                             *)

LEMMA InitInvariant == Init => IInv
<1> SUFFICES ASSUME Init PROVE IInv
  OBVIOUS
<1>1. TypeOK
  BY CostsAreCosts, RouterAssumption DEF Init, TypeOK, RouterAssumption, Reasons
<1>2. RankedInv /\ PrefixInv /\ AdaptiveInv /\ DoneInv
  BY DEF Init, RankedInv, PrefixInv, AdaptiveInv, DoneInv, SearchedIds
<1>3. ChargedInv
  BY DEF Init, ChargedInv
<1>4. HardCeiling
  BY <1>1, ZeroFits, RouterAssumption DEF Init, HardCeiling, TypeOK, Requests, RouterAssumption
<1>5. ProgressiveCap
  BY DEF Init, ProgressiveCap
<1> QED BY <1>1, <1>2, <1>3, <1>4, <1>5 DEF IInv

LEMMA RankKeeps == IInv /\ Rank => IInv'
<1> SUFFICES ASSUME IInv, Rank PROVE IInv'
  OBVIOUS
<1>1. /\ ranked' \in Rankings(request.scope) /\ pc' = "visit"
      /\ UNCHANGED <<request, considered, rounds, spent, confidence, stop_reason, searched,
                     incurred>>
      /\ considered = <<>>
  BY DEF Rank, history, IInv, RankedInv
<1>2. ranked' \in Seq(Shards)
  BY <1>1, RankingsAreSequences
<1>3. TypeOK'
  BY <1>1, <1>2 DEF IInv, TypeOK
<1>4. RankedInv' /\ ChargedInv' /\ DoneInv'
  BY <1>1 DEF IInv, RankedInv, ChargedInv, DoneInv
<1>5. PrefixInv'
  BY <1>1, <1>2 DEF IInv, PrefixInv, SearchedIds
<1>6. AdaptiveInv'
  BY <1>1 DEF IInv, AdaptiveInv, Rank
<1>7. HardCeiling' /\ ProgressiveCap'
  BY <1>1 DEF IInv, HardCeiling, ProgressiveCap, IsContacted
<1> QED BY <1>3, <1>4, <1>5, <1>6, <1>7 DEF IInv

\* query_all, flat_topk and top_n_neighbors have no budget to keep.
LEMMA ContactFreelyKeeps ==
  ASSUME IInv, NEW n \in 0..K, ContactFreely(n)
  PROVE  IInv'
<1>1. /\ pc = "visit" /\ More /\ Contact(Current, n)
      /\ UNCHANGED <<request, pc, ranked, rounds, confidence, stop_reason>>
      /\ request.strategy \in {"query_all", "flat_topk", "top_n_neighbors"}
  BY DEF ContactFreely, At, Exhaustive
<1>2. /\ considered' \in Seq(ShardScore) /\ spent' \in Cost
      /\ searched' \in Seq(Shards) /\ incurred' \in Cost
      /\ PrefixInv' /\ ChargedInv' /\ considered' # <<>>
  BY <1>1, ContactKeeps DEF IInv
<1>3. TypeOK'
  BY <1>1, <1>2 DEF IInv, TypeOK
<1>4. RankedInv' /\ AdaptiveInv' /\ DoneInv'
  BY <1>1, <1>2 DEF IInv, RankedInv, AdaptiveInv, DoneInv, Adaptive
<1>5. HardCeiling' /\ ProgressiveCap'
  BY <1>1 DEF HardCeiling, ProgressiveCap
<1> QED BY <1>2, <1>3, <1>4, <1>5 DEF IInv

\* budgeted_communication: the worst case fitted, so the search that was made fits.
LEMMA ContactUnderCapKeeps ==
  ASSUME IInv, NEW n \in 0..K, ContactUnderCap(n)
  PROVE  IInv'
<1>1. /\ pc = "visit" /\ More /\ Contact(Current, n) /\ FitsCap(Current)
      /\ UNCHANGED <<request, pc, ranked, rounds, confidence, stop_reason>>
      /\ request.strategy = "budgeted_communication"
  BY DEF ContactUnderCap, At
<1>2. /\ considered' \in Seq(ShardScore) /\ spent' \in Cost
      /\ searched' \in Seq(Shards) /\ incurred' \in Cost
      /\ PrefixInv' /\ ChargedInv' /\ considered' # <<>>
      /\ spent' = AddCost(spent, CostFor(Profile[Current], n))
  BY <1>1, ContactKeeps DEF IInv
<1>3. TypeOK'
  BY <1>1, <1>2 DEF IInv, TypeOK
<1>4. RankedInv' /\ AdaptiveInv' /\ DoneInv'
  BY <1>1, <1>2 DEF IInv, RankedInv, AdaptiveInv, DoneInv, Adaptive
<1>5. HardCeiling'
  <2>1. Profile[Current] \in CostProfile /\ request.budget \in Budget
    BY <1>1, CurrentIsPermitted DEF IInv
  <2>2. spent \in Cost /\ K \in Nat
    BY RouterAssumption DEF IInv, TypeOK, RouterAssumption
  <2>3. ~Exceeds(AddCost(spent, CostFor(Profile[Current], K)), request.budget)
    BY <1>1 DEF FitsCap
  <2>4. ~Exceeds(spent', request.budget)
    BY <1>2, <2>1, <2>2, <2>3, WorstCase
  <2>5. incurred' = spent'
    BY <1>1, <1>2 DEF ChargedInv
  <2> QED BY <1>1, <2>4, <2>5 DEF HardCeiling
<1>6. ProgressiveCap'
  BY <1>1 DEF ProgressiveCap
<1> QED BY <1>2, <1>3, <1>4, <1>5, <1>6 DEF IInv

\* The adaptive loops; progressive_expansion's cap holds past its first shard.
LEMMA ContactAdaptivelyKeeps ==
  ASSUME IInv, NEW n \in 0..K, ContactAdaptively(n)
  PROVE  IInv'
<1>1. /\ pc = "visit" /\ More /\ Contact(Current, n) /\ ~Refuses(n) /\ pc' = "judge"
      /\ UNCHANGED <<request, ranked, rounds, confidence, stop_reason>>
      /\ request.strategy \in Adaptive
  BY DEF ContactAdaptively, At
<1>2. /\ considered' \in Seq(ShardScore) /\ spent' \in Cost
      /\ searched' \in Seq(Shards) /\ incurred' \in Cost
      /\ PrefixInv' /\ ChargedInv' /\ considered' # <<>>
      /\ Len(considered') = Visited + 1
      /\ considered'[Visited + 1].contacted
      /\ \A i \in 1..Visited : considered'[i] = considered[i]
      /\ spent' = AddCost(spent, CostFor(Profile[Current], n))
  BY <1>1, ContactKeeps DEF IInv
<1>3. TypeOK'
  BY <1>1, <1>2 DEF IInv, TypeOK
<1>4. RankedInv' /\ DoneInv'
  BY <1>1 DEF IInv, RankedInv, DoneInv
<1>5. Visited \in Nat /\ Visited = Len(considered)
  BY DEF IInv, TypeOK, Visited
<1>6. AdaptiveInv'
  <2>1. \A i \in 1..Visited : considered[i].contacted
    BY <1>1, <1>5 DEF IInv, AdaptiveInv, IsContacted, TypeOK
  <2>2. \A i \in DOMAIN considered' : considered'[i].contacted
    BY <1>2, <1>5, <2>1
  <2> QED BY <1>1, <1>2, <1>5, <2>2 DEF AdaptiveInv, IsContacted
<1>7. HardCeiling'
  BY <1>1 DEF HardCeiling, Adaptive
<1>8. ProgressiveCap'
  <2>1. CASE Visited > 0
    BY <1>1, <1>2, <2>1 DEF ProgressiveCap, Refuses
  <2>2. CASE Visited = 0
    BY <1>2, <2>2 DEF ProgressiveCap
  <2> QED BY <1>5, <2>1, <2>2
<1> QED BY <1>2, <1>3, <1>4, <1>6, <1>7, <1>8 DEF IInv

LEMMA RefuseRoundKeeps ==
  ASSUME IInv, NEW n \in 0..K, RefuseRound(n)
  PROVE  IInv'
<1>1. /\ pc = "visit" /\ More /\ Search(Current, 0)
      /\ pc' = "finish" /\ stop_reason' = "budget_exhausted"
      /\ UNCHANGED <<request, ranked, considered, rounds, spent, confidence>>
      /\ request.strategy = "progressive_expansion" /\ Visited > 0
  BY DEF RefuseRound, At, Stop, Refuses
<1>2. 0 \in 0..K
  BY RouterAssumption DEF RouterAssumption
<1>3. /\ searched' \in Seq(Shards) /\ incurred' \in Cost
      /\ SearchedIds' \subseteq Permitted(request.scope)
  BY <1>1, <1>2, SearchKeepsHistory DEF IInv
<1>4. TypeOK'
  BY <1>1, <1>3 DEF IInv, TypeOK, Reasons
<1>5. RankedInv' /\ DoneInv' /\ PrefixInv'
  BY <1>1, <1>3 DEF IInv, RankedInv, DoneInv, PrefixInv
<1>6. AdaptiveInv'
  BY <1>1 DEF IInv, AdaptiveInv, Adaptive, IsContacted, Visited
<1>7. ChargedInv' /\ HardCeiling'
  BY <1>1 DEF ChargedInv, HardCeiling
<1>8. ProgressiveCap'
  BY <1>1 DEF IInv, ProgressiveCap, IsContacted
<1> QED BY <1>4, <1>5, <1>6, <1>7, <1>8 DEF IInv

\* Leaving an adaptive loop before its first contact means that nothing is permitted:
\* a zero spend exceeds no budget.
LEMMA StopKeeps ==
  ASSUME IInv, StopOverBudget \/ NothingToVisit
  PROVE  IInv'
<1>1. /\ pc = "visit" /\ pc' = "finish" /\ request.strategy \in Adaptive
      /\ stop_reason' \in Reasons
      /\ UNCHANGED <<request, ranked, considered, rounds, spent, confidence, searched,
                     incurred>>
  BY DEF StopOverBudget, NothingToVisit, At, Stop, history, Reasons
<1>2. TypeOK' /\ RankedInv' /\ DoneInv'
  BY <1>1 DEF IInv, TypeOK, RankedInv, DoneInv
<1>3. considered # <<>> \/ ranked = <<>>
  <2>1. CASE StopOverBudget
    <3>1. Exceeds(spent, request.budget) /\ request.budget \in Budget
      BY <2>1, RouterAssumption
         DEF StopOverBudget, OverBudget, IInv, TypeOK, Requests, RouterAssumption
    <3>2. spent # ZeroCost
      BY <3>1, ZeroFits
    <3> QED BY <1>1, <3>2 DEF IInv, AdaptiveInv
  <2>2. CASE NothingToVisit
    BY <2>2 DEF NothingToVisit, More, Visited, IInv, TypeOK
  <2> QED BY <2>1, <2>2
<1>4. AdaptiveInv'
  BY <1>1, <1>3 DEF IInv, AdaptiveInv, IsContacted
<1>5. PrefixInv' /\ ChargedInv' /\ HardCeiling' /\ ProgressiveCap'
  BY <1>1, QuietKeeps
<1> QED BY <1>2, <1>4, <1>5 DEF IInv

LEMMA JudgeRoundKeeps ==
  ASSUME IInv, NEW conf \in Confidences, NEW should_expand \in BOOLEAN,
         JudgeRound(conf, should_expand)
  PROVE  IInv'
<1> DEFINE verdict == Verdict(conf, should_expand)
<1>1. /\ pc = "judge" /\ pc' \in {"visit", "finish"} /\ confidence' = conf
      /\ rounds' = Append(rounds, Round(conf, verdict))
      /\ stop_reason' \in {stop_reason, "sources_exhausted"}
      /\ UNCHANGED <<request, ranked, considered, spent, searched, incurred>>
      /\ request.strategy \in Adaptive /\ Len(considered) > 0
  BY DEF JudgeRound, Stop, ReasonAfter, history, IInv, AdaptiveInv
<1>2. Visited \in 1..Len(considered) /\ considered[Visited] \in ShardScore
  BY <1>1 DEF IInv, TypeOK, Visited
<1>3. Round(conf, verdict) \in ExpansionRound
  BY <1>2 DEF Round, Verdict, ExpansionRound, ShardScore, IInv, TypeOK
<1>4. TypeOK'
  BY <1>1, <1>3 DEF IInv, TypeOK, Reasons
<1>5. RankedInv' /\ DoneInv'
  BY <1>1 DEF IInv, RankedInv, DoneInv
<1>6. AdaptiveInv'
  BY <1>1 DEF IInv, AdaptiveInv, IsContacted, TypeOK
<1>7. PrefixInv' /\ ChargedInv' /\ HardCeiling' /\ ProgressiveCap'
  BY <1>1, QuietKeeps
<1> QED BY <1>4, <1>5, <1>6, <1>7 DEF IInv

LEMMA ReturnJudgedKeeps ==
  ASSUME IInv, NEW conf \in Confidences, ReturnJudged(conf)
  PROVE  IInv'
<1>1. /\ pc = "visit" /\ pc' = "done" /\ confidence' = conf /\ ~More
      /\ request.strategy \notin Adaptive
      /\ UNCHANGED <<request, ranked, considered, rounds, spent, stop_reason, searched,
                     incurred>>
  BY DEF ReturnJudged, At, history
<1>2. TypeOK' /\ RankedInv' /\ AdaptiveInv'
  BY <1>1 DEF IInv, TypeOK, RankedInv, AdaptiveInv
<1>3. DoneInv'
  BY <1>1 DEF IInv, DoneInv, PrefixInv, TypeOK, More, Visited
<1>4. PrefixInv' /\ ChargedInv' /\ HardCeiling' /\ ProgressiveCap'
  BY <1>1, QuietKeeps
<1> QED BY <1>2, <1>3, <1>4 DEF IInv

LEMMA RaiseKeeps == IInv /\ (RejectStrategy \/ SearchRaises) => IInv'
<1> SUFFICES ASSUME IInv, RejectStrategy \/ SearchRaises PROVE IInv'
  OBVIOUS
<1>1. /\ pc \in {"route", "visit"} /\ pc' = "raised"
      /\ UNCHANGED <<request, ranked, considered, rounds, spent, confidence, stop_reason,
                     searched, incurred>>
  BY DEF RejectStrategy, SearchRaises, history
<1>2. TypeOK' /\ RankedInv' /\ AdaptiveInv' /\ DoneInv'
  BY <1>1 DEF IInv, TypeOK, RankedInv, AdaptiveInv, DoneInv
<1>3. PrefixInv' /\ ChargedInv' /\ HardCeiling' /\ ProgressiveCap'
  BY <1>1, QuietKeeps
<1> QED BY <1>2, <1>3 DEF IInv

\* A function on 1..n is a sequence of length n.
LEMMA FunctionIsSequence ==
  ASSUME NEW S, NEW n \in Nat, NEW f \in [1..n -> S]
  PROVE  f \in Seq(S) /\ Len(f) = n /\ DOMAIN f = 1..n
  OBVIOUS

\* Returning an adaptive trace adds every shard that was not come to, as skipped.
LEMMA ReturnAdaptiveKeeps == IInv /\ ReturnAdaptive => IInv'
<1> SUFFICES ASSUME IInv, ReturnAdaptive PROVE IInv'
  OBVIOUS
<1> DEFINE m == Len(ranked) - Visited
<1>1. /\ pc = "finish" /\ pc' = "done" /\ request.strategy \in Adaptive
      /\ considered' = considered \o Unvisited
      /\ UNCHANGED <<request, ranked, rounds, spent, confidence, stop_reason, searched,
                     incurred>>
  BY DEF ReturnAdaptive, history, IInv, AdaptiveInv
<1>2. /\ ranked \in Seq(Shards) /\ considered \in Seq(ShardScore)
      /\ Visited = Len(considered) /\ Visited \in Nat /\ Len(ranked) \in Nat /\ m \in Nat
  BY DEF IInv, TypeOK, PrefixInv, Visited
<1>3. \A i \in 1..m : Skipped(ranked[Visited + i], stop_reason) \in ShardScore
  BY <1>2 DEF Skipped, ShardScore, IInv, TypeOK
<1>4. /\ Unvisited \in [1..m -> ShardScore]
      /\ \A i \in 1..m : Unvisited[i] = Skipped(ranked[Visited + i], stop_reason)
  BY <1>3 DEF Unvisited
<1>5. Unvisited \in Seq(ShardScore) /\ Len(Unvisited) = m
  <2> HIDE DEF m
  <2> QED BY <1>2, <1>4, FunctionIsSequence
<1>6. /\ considered' \in Seq(ShardScore)
      /\ Len(considered') = Len(ranked)
      /\ DOMAIN considered' = 1..Len(ranked)
      /\ \A i \in 1..Visited : considered'[i] = considered[i]
      /\ \A i \in 1..m : considered'[Visited + i] = Unvisited[i]
  BY <1>1, <1>2, <1>5
<1>7. \A i \in 1..Len(ranked) : \/ i \in 1..Visited
                                \/ i - Visited \in 1..m /\ Visited + (i - Visited) = i
  BY <1>2
<1>8. \A i \in 1..Len(ranked) :
        \/ i \in 1..Visited /\ considered'[i] = considered[i]
        \/ considered'[i] = Skipped(ranked[i], stop_reason)
  BY <1>4, <1>6, <1>7
<1>9. TypeOK' /\ RankedInv' /\ DoneInv'
  BY <1>1, <1>6 DEF IInv, TypeOK, RankedInv, DoneInv
<1>10. PrefixInv'
  <2>1. \A i \in 1..Visited : considered'[i].shard_id = ranked[i]
    BY <1>2, <1>6 DEF IInv, PrefixInv
  <2>2. \A i \in 1..Len(ranked) : considered'[i].shard_id = ranked[i]
    <3>1. \A i \in 1..Len(ranked) : Skipped(ranked[i], stop_reason).shard_id = ranked[i]
      BY DEF Skipped
    <3> QED BY <1>8, <2>1, <3>1
  <2> QED BY <1>1, <1>6, <2>2 DEF IInv, PrefixInv, SearchedIds
<1>11. AdaptiveInv'
  <2>1. ranked # <<>> => considered # <<>> /\ IsContacted(1)
    BY <1>1, <1>2 DEF IInv, AdaptiveInv
  <2>2. ranked # <<>> => considered' # <<>> /\ considered'[1].contacted
    BY <1>2, <1>6, <2>1 DEF IsContacted
  <2> QED BY <1>1, <2>2 DEF AdaptiveInv, IsContacted
<1>12. ChargedInv' /\ HardCeiling'
  BY <1>1 DEF IInv, ChargedInv, HardCeiling
<1>13. ProgressiveCap'
  <2>1. \A i \in DOMAIN considered' : considered'[i].contacted =>
           i \in DOMAIN considered /\ IsContacted(i)
    <3>1. DOMAIN considered = 1..Visited
      BY <1>2
    <3> QED BY <1>6, <1>8, <3>1 DEF IsContacted, Skipped
  <2> QED BY <1>1, <2>1 DEF IInv, ProgressiveCap, IsContacted
<1> QED BY <1>9, <1>10, <1>11, <1>12, <1>13 DEF IInv

LEMMA StepInvariant == IInv /\ [Next]_vars => IInv'
<1> SUFFICES ASSUME IInv, [Next]_vars PROVE IInv'
  OBVIOUS
<1>1. CASE RejectStrategy \/ SearchRaises
  BY <1>1, RaiseKeeps
<1>2. CASE Rank
  BY <1>2, RankKeeps
<1>3. CASE \E n \in 0..K : ContactFreely(n)
  BY <1>3, ContactFreelyKeeps
<1>4. CASE \E n \in 0..K : ContactUnderCap(n)
  BY <1>4, ContactUnderCapKeeps
<1>5. CASE \E n \in 0..K : ContactAdaptively(n)
  BY <1>5, ContactAdaptivelyKeeps
<1>6. CASE \E n \in 0..K : RefuseRound(n)
  BY <1>6, RefuseRoundKeeps
<1>7. CASE SkipOutsideTopN
  BY <1>7, SkipKeeps DEF SkipOutsideTopN, At, Adaptive, Reasons
<1>8. CASE SkipOverCap
  BY <1>8, SkipKeeps DEF SkipOverCap, At, Adaptive, Reasons
<1>9. CASE StopOverBudget \/ NothingToVisit
  BY <1>9, StopKeeps
<1>10. CASE \E conf \in Confidences, should_expand \in BOOLEAN : JudgeRound(conf, should_expand)
  BY <1>10, JudgeRoundKeeps
<1>11. CASE \E conf \in Confidences : ReturnJudged(conf)
  BY <1>11, ReturnJudgedKeeps
<1>12. CASE ReturnAdaptive
  BY <1>12, ReturnAdaptiveKeeps
<1>13. CASE UNCHANGED vars
  <2>1. UNCHANGED <<request, pc, ranked, considered, rounds, spent, confidence, stop_reason,
                    searched, incurred>>
    BY <1>13 DEF vars
  <2>2. TypeOK' /\ RankedInv' /\ AdaptiveInv' /\ DoneInv'
    BY <2>1 DEF IInv, TypeOK, RankedInv, AdaptiveInv, DoneInv, IsContacted
  <2> QED BY <2>1, <2>2, QuietKeeps DEF IInv
<1> QED
  BY <1>1, <1>2, <1>3, <1>4, <1>5, <1>6, <1>7, <1>8, <1>9, <1>10, <1>11, <1>12, <1>13
     DEF Next, Terminated

LEMMA Invariance == Spec => []IInv
<1>1. Init => IInv
  BY InitInvariant
<1>2. IInv /\ [Next]_vars => IInv'
  BY StepInvariant
<1> QED BY <1>1, <1>2, PTL DEF Spec

-----------------------------------------------------------------------------------
(* The theorems.                                                           *)

\* The trace and the history keep the shapes trace.py declares.
THEOREM TypeCorrect == Spec => []TypeOK
<1>1. IInv => TypeOK
  BY DEF IInv
<1> QED BY <1>1, Invariance, PTL

\* budgeted_communication never incurs more than its budget, in any attribute, at any
\* moment, whatever the searches return.
THEOREM BudgetedIsCapped == Spec => []HardCeiling
<1>1. IInv => HardCeiling
  BY DEF IInv
<1> QED BY <1>1, Invariance, PTL

\* progressive_expansion charges nothing beyond its budget past its first shard.
THEOREM ProgressiveIsCapped == Spec => []ProgressiveCap
<1>1. IInv => ProgressiveCap
  BY DEF IInv
<1> QED BY <1>1, Invariance, PTL

\* No strategy searches a shard the scope is denied, nor names it in the trace.
THEOREM DeniedIsNeverSearched == Spec => []DeniedStaysOut
<1>1. IInv => DeniedStaysOut
  <2> SUFFICES ASSUME IInv PROVE DeniedStaysOut
    OBVIOUS
  <2>1. \A i \in DOMAIN considered : considered[i].shard_id \in Permitted(request.scope)
    <3>1. CASE considered = <<>>
      BY <3>1
    <3>2. CASE considered # <<>>
      <4>1. ranked \in Rankings(request.scope)
        BY <3>2 DEF IInv, RankedInv
      <4> QED BY <4>1, RankingsAreSequences DEF IInv, PrefixInv, TypeOK
    <3> QED BY <3>1, <3>2
  <2>2. SearchedIds \subseteq Permitted(request.scope)
    BY DEF IInv, PrefixInv
  <2> QED BY <2>1, <2>2 DEF DeniedStaysOut, Permitted, Permits
<1> QED BY <1>1, Invariance, PTL

\* An adaptive strategy contacts a shard whenever one is permitted.
THEOREM NeverEmpty == Spec => []NeverLeftEmpty
<1>1. IInv => NeverLeftEmpty
  <2> SUFFICES ASSUME IInv, pc = "done", request.strategy \in Adaptive,
                      Permitted(request.scope) # {}
               PROVE  ContactedIds # {}
    BY DEF NeverLeftEmpty
  <2>1. ranked \in Rankings(request.scope)
    BY DEF IInv, RankedInv
  <2>2. Len(ranked) = Cardinality(Permitted(request.scope)) /\ Len(ranked) # 0
    BY <2>1, RankingsAreSequences, FS_EmptySet
  <2>3. considered # <<>> /\ IsContacted(1) /\ 1 \in DOMAIN considered
    BY <2>2 DEF IInv, AdaptiveInv, TypeOK
  <2> QED BY <2>3 DEF ContactedIds
<1> QED BY <1>1, Invariance, PTL

\* The returned trace lists each permitted shard once and no other.
THEOREM TracesAreComplete == Spec => []TraceIsComplete
<1>1. IInv => TraceIsComplete
  <2> SUFFICES ASSUME IInv, pc = "done"
               PROVE  /\ {considered[i].shard_id : i \in DOMAIN considered}
                           = Permitted(request.scope)
                      /\ Len(considered) = Cardinality(Permitted(request.scope))
    BY DEF TraceIsComplete
  <2> DEFINE P == Permitted(request.scope)
             image == {ranked[i] : i \in 1..Len(ranked)}
  <2>1. ranked \in Rankings(request.scope)
    BY DEF IInv, RankedInv
  <2>2. /\ Len(ranked) = Cardinality(P) /\ Len(ranked) \in Nat /\ IsFiniteSet(P)
        /\ image \subseteq P /\ DOMAIN ranked = 1..Len(ranked)
    BY <2>1, RankingsAreSequences DEF IInv, TypeOK
  <2>3. Len(considered) = Len(ranked)
    BY DEF IInv, DoneInv
  <2>4. {considered[i].shard_id : i \in DOMAIN considered} = image
    <3>1. DOMAIN considered = 1..Len(ranked)
      BY <2>3 DEF IInv, TypeOK
    <3>2. \A i \in 1..Len(ranked) : considered[i].shard_id = ranked[i]
      BY <3>1 DEF IInv, PrefixInv
    <3> QED BY <3>1, <3>2
  <2>5. IsFiniteSet(1..Len(ranked)) /\ Cardinality(1..Len(ranked)) = Len(ranked)
    BY <2>2, FS_Interval
  <2>6. ExistsBijection(1..Len(ranked), image)
    <3>1. \A i, j \in 1..Len(ranked) : ranked[i] = ranked[j] => i = j
      BY <2>1, <2>2 DEF Rankings
    <3>2. ranked \in [1..Len(ranked) -> image]
      BY <2>1, <2>2 DEF Rankings
    <3>3. ranked \in Bijection(1..Len(ranked), image)
      BY <3>1, <3>2 DEF Bijection, Injection, Surjection, IsInjective
    <3> QED BY <3>3 DEF ExistsBijection
  <2>7. Cardinality(image) = Cardinality(P)
    BY <2>2, <2>5, <2>6, FS_Bijection
  <2>8. image = P
    BY <2>2, <2>7, FS_Subset
  <2> QED BY <2>2, <2>3, <2>4, <2>8
<1> QED BY <1>1, Invariance, PTL

\* confidence_threshold never pays for a shard once its budget is exceeded.
THEOREM ThresholdOverrunsOnce == Spec => OverrunIsOneShard
<1> DEFINE A == (request.strategy = "confidence_threshold" /\ spent' # spent)
                  => ~Exceeds(spent, request.budget)
<1>1. [Next]_vars => A
  BY DEF Next, vars, history, RejectStrategy, Rank, ContactFreely, ContactUnderCap,
         ContactAdaptively, RefuseRound, SkipOutsideTopN, SkipOverCap, Skip, StopOverBudget,
         JudgeRound, ReturnJudged, NothingToVisit, ReturnAdaptive, SearchRaises, Terminated,
         At, Exhaustive, OverBudget
<1>2. [Next]_vars => [A]_vars
  BY <1>1
<1>3. [][Next]_vars => [][A]_vars
  BY <1>2, PTL
<1> QED BY <1>3 DEF Spec, OverrunIsOneShard

-----------------------------------------------------------------------------------
(* What the trace tells: charges, rounds and reasons.                      *)

\* As long as no round has been refused, the trace charges every search that was made.
TraceIsExact == spent = incurred /\ ContactedIds = SearchedIds

TraceInv ==
  /\ TraceIsCharged
  /\ pc \in {"route", "visit", "judge"} => TraceIsExact

\* A search adds its shard to those searched.
LEMMA SearchAddsId ==
  ASSUME TypeOK, NEW shard \in Shards, NEW n, Search(shard, n)
  PROVE  SearchedIds' = SearchedIds \cup {shard}
<1>1. /\ searched \in Seq(Shards)
      /\ Len(searched) \in Nat
      /\ DOMAIN searched = 1..Len(searched)
      /\ searched' = Append(searched, shard)
  BY DEF TypeOK, Search
<1>2. /\ DOMAIN searched' = 1..(Len(searched) + 1)
      /\ searched'[Len(searched) + 1] = shard
      /\ \A i \in 1..Len(searched) : searched'[i] = searched[i]
  BY <1>1
<1>3. \A i \in 1..(Len(searched) + 1) : i \in 1..Len(searched) \/ i = Len(searched) + 1
  BY <1>1
<1>4. Len(searched) + 1 \in DOMAIN searched'
  BY <1>1, <1>2
<1>5. \A i \in 1..Len(searched) : i \in DOMAIN searched'
  BY <1>1, <1>2
<1> QED
  BY <1>1, <1>2, <1>3, <1>4, <1>5 DEF SearchedIds

\* An entry of the trace adds its shard to those contacted, if it was.
LEMMA EntryAddsId ==
  ASSUME TypeOK, NEW entry \in ShardScore, considered' = Append(considered, entry)
  PROVE  /\ entry.contacted => ContactedIds' = ContactedIds \cup {entry.shard_id}
         /\ ~entry.contacted => ContactedIds' = ContactedIds
<1>1. /\ considered \in Seq(ShardScore)
      /\ Len(considered) \in Nat
      /\ DOMAIN considered = 1..Len(considered)
  BY DEF TypeOK
<1>2. /\ DOMAIN considered' = 1..(Len(considered) + 1)
      /\ considered'[Len(considered) + 1] = entry
      /\ \A i \in 1..Len(considered) : considered'[i] = considered[i]
  BY <1>1
<1>3. \A i \in 1..(Len(considered) + 1) : i \in 1..Len(considered) \/ i = Len(considered) + 1
  BY <1>1
<1>4. /\ Len(considered) + 1 \in DOMAIN considered'
      /\ \A i \in 1..Len(considered) : i \in DOMAIN considered'
  BY <1>1, <1>2
<1>5. ContactedIds' = {considered'[i].shard_id : i \in {j \in DOMAIN considered' : considered'[j].contacted}}
  BY DEF ContactedIds, IsContacted
<1>6. ContactedIds = {considered[i].shard_id : i \in {j \in 1..Len(considered) : considered[j].contacted}}
  BY <1>1 DEF ContactedIds, IsContacted
<1> QED
  BY <1>2, <1>3, <1>4, <1>5, <1>6

\* The shard a loop has come to is not among those it has contacted.
LEMMA CurrentIsNew ==
  ASSUME TypeOK, RankedInv, PrefixInv, pc = "visit", More
  PROVE  Current \notin ContactedIds
<1>1. ranked \in Rankings(request.scope)
  BY DEF RankedInv, More, Visited, TypeOK
<1>2. /\ Visited \in Nat
      /\ Visited + 1 \in 1..Len(ranked)
      /\ DOMAIN ranked = 1..Len(ranked)
      /\ DOMAIN considered = 1..Visited
  BY CurrentIsPermitted DEF TypeOK, Visited
<1>3. \A i, j \in 1..Len(ranked) : ranked[i] = ranked[j] => i = j
  BY <1>1, <1>2 DEF Rankings
<1>4. \A i \in DOMAIN considered : /\ considered[i].shard_id = ranked[i]
                                   /\ i \in 1..Len(ranked)
                                   /\ i # Visited + 1
  BY <1>2 DEF PrefixInv
<1> QED
  BY <1>2, <1>3, <1>4 DEF ContactedIds, Current

\* A cost that no longer fits with n results does not fit with k.
LEMMA OverrunGrows ==
  ASSUME TypeOK, RankedInv, PrefixInv, pc = "visit", More, NEW n \in 0..K,
         WouldOverrun(Current, n)
  PROVE  WouldOverrun(Current, K)
BY CurrentIsPermitted, WorstCase, RouterAssumption
   DEF WouldOverrun, TypeOK, RouterAssumption

\* The actions that make no search, charge nothing and contact nothing.
LEMMA TraceStays ==
  ASSUME TraceInv, UNCHANGED <<request, spent, searched, incurred>>,
         ContactedIds' = ContactedIds,
         stop_reason' = stop_reason \/ pc \in {"route", "visit", "judge"},
         pc' \in {"route", "visit", "judge"} => pc \in {"route", "visit", "judge"}
  PROVE  TraceInv'
<1>1. SearchedIds' = SearchedIds
  BY DEF SearchedIds
<1>2. TraceIsExact => TraceIsExact'
  BY <1>1 DEF TraceIsExact
<1>3. CASE TraceIsExact
  <2>1. TraceIsCharged'
    BY <1>2, <1>3 DEF TraceIsExact, TraceIsCharged
  <2> QED
    BY <1>2, <1>3, <2>1 DEF TraceInv
<1>4. CASE ~TraceIsExact
  <2>1. /\ pc \notin {"route", "visit", "judge"}
        /\ stop_reason' = stop_reason
    BY <1>4 DEF TraceInv
  <2>2. TraceIsCharged'
    BY <1>1, <2>1 DEF TraceInv, TraceIsCharged, WouldOverrun
  <2> QED
    BY <2>1, <2>2 DEF TraceInv
<1> QED
  BY <1>3, <1>4

\* A contact is charged as the search was.
LEMMA TraceAfterContact ==
  ASSUME IInv, TraceInv, pc = "visit", More, NEW n \in 0..K, Contact(Current, n),
         pc' \in {"visit", "judge"}
  PROVE  TraceInv'
<1>1. Current \in Shards
  BY CurrentIsPermitted DEF IInv
<1>2. /\ Contacted(Current) \in ShardScore
      /\ Contacted(Current).shard_id = Current
      /\ Contacted(Current).contacted
  BY <1>1 DEF Contacted, ShardScore
<1>3. ContactedIds' = ContactedIds \cup {Current}
  <2>1. considered' = Append(considered, Contacted(Current))
    BY DEF Contact
  <2> QED
    BY <1>2, <2>1, EntryAddsId DEF IInv
<1>4. SearchedIds' = SearchedIds \cup {Current}
  BY <1>1, SearchAddsId DEF IInv, Contact
<1>5. spent' = incurred'
  BY DEF Contact, Search, TraceInv, TraceIsExact
<1>6. ContactedIds = SearchedIds
  BY DEF TraceInv, TraceIsExact
<1> QED
  BY <1>3, <1>4, <1>5, <1>6 DEF TraceInv, TraceIsCharged, TraceIsExact

\* The round that is refused leaves the one search the trace does not list, and its query
\* the one cost the trace does not charge.
LEMMA TraceAfterRefusal ==
  ASSUME IInv, TraceInv, NEW n \in 0..K, RefuseRound(n)
  PROVE  TraceInv'
<1>1. /\ pc = "visit"
      /\ More
      /\ Search(Current, 0)
      /\ pc' = "finish"
      /\ stop_reason' = "budget_exhausted"
      /\ UNCHANGED <<request, ranked, considered, rounds, spent, confidence>>
      /\ request.strategy = "progressive_expansion"
      /\ WouldOverrun(Current, n)
  BY DEF RefuseRound, At, Stop, Refuses, WouldOverrun
<1>2. PICK shard \in Shards : shard = Current
  BY <1>1, CurrentIsPermitted DEF IInv
<1>3. SearchedIds' = SearchedIds \cup {shard}
  BY <1>1, <1>2, SearchAddsId DEF IInv
<1>4. ContactedIds' = ContactedIds
  BY <1>1 DEF ContactedIds, IsContacted
<1>5. /\ shard \notin ContactedIds
      /\ WouldOverrun(shard, K)
  BY <1>1, <1>2, CurrentIsNew, OverrunGrows DEF IInv
<1>6. /\ spent = incurred
      /\ ContactedIds = SearchedIds
  BY <1>1 DEF TraceInv, TraceIsExact
<1>7. incurred' = AddCost(spent', CostFor(Profile[shard], 0))
  BY <1>1, <1>2, <1>6 DEF Search
<1>8. WouldOverrun(shard, K)'
  BY <1>1, <1>5 DEF WouldOverrun
<1>9. SearchedIds' \ ContactedIds' = {shard}
  BY <1>3, <1>4, <1>5, <1>6
<1> QED
  BY <1>1, <1>3, <1>4, <1>6, <1>7, <1>8, <1>9 DEF TraceInv, TraceIsCharged

\* Returning lists the shards that were not come to, as skipped.
LEMMA ReturnLists ==
  ASSUME IInv, ReturnAdaptive
  PROVE  /\ Visited \in Nat
         /\ DOMAIN considered = 1..Visited
         /\ DOMAIN considered' = 1..Len(ranked)
         /\ Visited <= Len(ranked)
         /\ \A i \in 1..Visited : considered'[i] = considered[i]
         /\ \A i \in 1..Len(ranked) : i > Visited =>
              considered'[i] = Skipped(ranked[i], stop_reason)
<1> DEFINE m == Len(ranked) - Visited
<1>1. /\ ranked \in Seq(Shards)
      /\ considered \in Seq(ShardScore)
      /\ Visited = Len(considered)
      /\ Visited \in Nat
      /\ Len(ranked) \in Nat
      /\ m \in Nat
      /\ considered' = considered \o Unvisited
  BY DEF IInv, TypeOK, PrefixInv, Visited, ReturnAdaptive
<1>2. \A i \in 1..m : Skipped(ranked[Visited + i], stop_reason) \in ShardScore
  BY <1>1 DEF Skipped, ShardScore, IInv, TypeOK
<1>3. /\ Unvisited \in [1..m -> ShardScore]
      /\ \A i \in 1..m : Unvisited[i] = Skipped(ranked[Visited + i], stop_reason)
  BY <1>2 DEF Unvisited
<1>4. Unvisited \in Seq(ShardScore) /\ Len(Unvisited) = m
  <2> HIDE DEF m
  <2> QED
    BY <1>1, <1>3, FunctionIsSequence
<1>5. /\ DOMAIN considered = 1..Visited
      /\ DOMAIN considered' = 1..Len(ranked)
      /\ Visited <= Len(ranked)
      /\ \A i \in 1..Visited : considered'[i] = considered[i]
      /\ \A i \in 1..m : considered'[Visited + i] = Unvisited[i]
  BY <1>1, <1>4
<1>6. \A i \in 1..Len(ranked) : i > Visited => i - Visited \in 1..m /\ Visited + (i - Visited) = i
  BY <1>1
<1>7. \A i \in 1..Len(ranked) : i > Visited => considered'[i] = Skipped(ranked[i], stop_reason)
  BY <1>3, <1>5, <1>6
<1> QED
  BY <1>1, <1>5, <1>7

\* Nothing that is listed on return was contacted.
LEMMA ReturnContactsNothing ==
  ASSUME IInv, ReturnAdaptive
  PROVE  ContactedIds' = ContactedIds
<1>1. \A i \in DOMAIN considered' :
        \/ i \in DOMAIN considered /\ considered'[i] = considered[i]
        \/ ~considered'[i].contacted
  <2>1. \A shard, reason : ~Skipped(shard, reason).contacted
    BY DEF Skipped
  <2>2. \A i \in 1..Len(ranked) : i \in 1..Visited \/ i > Visited
    BY ReturnLists DEF IInv, TypeOK
  <2> QED
    BY <2>1, <2>2, ReturnLists
<1>2. \A i \in DOMAIN considered : i \in DOMAIN considered' /\ considered'[i] = considered[i]
  BY ReturnLists DEF IInv, TypeOK
<1> QED
  BY <1>1, <1>2 DEF ContactedIds, IsContacted

LEMMA TraceInvariant ==
  ASSUME IInv, TraceInv, [Next]_vars
  PROVE  TraceInv'
<1>1. CASE \E n \in 0..K : ContactFreely(n) \/ ContactUnderCap(n) \/ ContactAdaptively(n)
  BY <1>1, TraceAfterContact DEF ContactFreely, ContactUnderCap, ContactAdaptively, At
<1>2. CASE \E n \in 0..K : RefuseRound(n)
  BY <1>2, TraceAfterRefusal
<1>3. CASE ReturnAdaptive
  BY <1>3, ReturnContactsNothing, TraceStays DEF ReturnAdaptive, history
<1>4. ASSUME pc = "visit", More, NEW reason \in Reasons, Skip(Current, reason)
      PROVE  TraceInv'
  <2>1. Current \in Shards
    BY <1>4, CurrentIsPermitted DEF IInv
  <2>2. /\ Skipped(Current, reason) \in ShardScore
        /\ ~Skipped(Current, reason).contacted
    BY <2>1 DEF Skipped, ShardScore
  <2>3. considered' = Append(considered, Skipped(Current, reason))
    BY <1>4 DEF Skip
  <2>4. ContactedIds' = ContactedIds
    BY <2>2, <2>3, EntryAddsId DEF IInv
  <2> QED
    BY <1>4, <2>4, TraceStays DEF Skip, history
<1>5. CASE SkipOutsideTopN
  BY <1>4, <1>5 DEF SkipOutsideTopN, At, Reasons
<1>6. CASE SkipOverCap
  BY <1>4, <1>6 DEF SkipOverCap, At, Reasons
<1>7. ASSUME UNCHANGED <<request, considered, spent, searched, incurred>>,
             stop_reason' = stop_reason \/ pc \in {"route", "visit", "judge"},
             pc' \in {"route", "visit", "judge"} => pc \in {"route", "visit", "judge"}
      PROVE  TraceInv'
  <2>1. ContactedIds' = ContactedIds
    BY <1>7 DEF ContactedIds, IsContacted
  <2> QED
    BY <1>7, <2>1, TraceStays
<1>8. CASE RejectStrategy \/ Rank \/ StopOverBudget \/ NothingToVisit \/ SearchRaises
  BY <1>7, <1>8 DEF RejectStrategy, Rank, StopOverBudget, NothingToVisit, SearchRaises, At, Stop,
                    history
<1>9. CASE \E conf \in Confidences, should_expand \in BOOLEAN : JudgeRound(conf, should_expand)
  BY <1>7, <1>9 DEF JudgeRound, Stop, history
<1>10. CASE \E conf \in Confidences : ReturnJudged(conf)
  BY <1>7, <1>10 DEF ReturnJudged, At, history
<1>11. CASE UNCHANGED vars
  BY <1>7, <1>11 DEF vars
<1> QED
  BY <1>1, <1>2, <1>3, <1>5, <1>6, <1>8, <1>9, <1>10, <1>11 DEF Next, Terminated

\* The confidence the next round starts from.
LastConfidence == IF rounds = <<>> THEN 0 ELSE rounds[Len(rounds)].confidence_after

RoundIsTrue(i) ==
  /\ rounds[i].shard_id = ranked[i]
  /\ rounds[i].confidence_before = (IF i = 1 THEN 0 ELSE rounds[i - 1].confidence_after)
  /\ i < Len(rounds) \/ pc \in {"visit", "judge"} => rounds[i].verdict = "expand"

\* An adaptive loop has a round for each shard it has contacted, but for the one it is
\* judging.
RoundsMatch ==
  /\ pc \in {"route", "visit", "finish"} => Len(rounds) = Visited
  /\ pc = "judge" => Len(rounds) = Visited - 1
  /\ pc = "done" => Len(rounds) <= Visited
  /\ pc = "done" => \A i \in DOMAIN considered : IsContacted(i) <=> i <= Len(rounds)
  /\ \A i \in DOMAIN rounds : RoundIsTrue(i)
  /\ confidence = LastConfidence

RoundsInv == request.strategy \in Adaptive => RoundsMatch

\* The actions of an adaptive loop that judge nothing.
LEMMA RoundsStay ==
  ASSUME RoundsInv, UNCHANGED <<request, ranked, rounds, confidence>>,
         pc' \in {"visit", "judge"} => pc \in {"visit", "judge"},
         pc' \in {"route", "visit", "finish"} => Len(rounds) = Visited',
         pc' = "judge" => Len(rounds) = Visited' - 1,
         pc' # "done"
  PROVE  RoundsInv'
<1> SUFFICES ASSUME request.strategy \in Adaptive
             PROVE  RoundsMatch'
  BY DEF RoundsInv
<1>1. RoundsMatch
  BY DEF RoundsInv
<1>2. \A i \in DOMAIN rounds' : RoundIsTrue(i)'
  BY <1>1 DEF RoundsMatch, RoundIsTrue
<1>3. confidence' = LastConfidence'
  BY <1>1 DEF RoundsMatch, LastConfidence
<1> QED
  BY <1>2, <1>3 DEF RoundsMatch

LEMMA RoundsAfterJudging ==
  ASSUME IInv, RoundsInv, NEW conf \in Confidences, NEW should_expand \in BOOLEAN,
         JudgeRound(conf, should_expand)
  PROVE  RoundsInv'
<1> DEFINE verdict == Verdict(conf, should_expand)
           round == Round(conf, verdict)
           L == Len(rounds)
<1>1. /\ pc = "judge"
      /\ pc' \in {"visit", "finish"}
      /\ pc' = "visit" => verdict # "sufficient"
      /\ verdict \in {"sufficient", "expand"}
      /\ confidence' = conf
      /\ rounds' = Append(rounds, round)
      /\ UNCHANGED <<request, ranked, considered>>
      /\ request.strategy \in Adaptive
      /\ Len(considered) > 0
  BY DEF JudgeRound, Stop, Verdict, IInv, AdaptiveInv
<1>2. /\ RoundsMatch
      /\ rounds \in Seq(ExpansionRound)
      /\ L \in Nat
      /\ L = Visited - 1
      /\ Visited \in Nat
      /\ Visited \in DOMAIN considered
      /\ DOMAIN rounds = 1..L
  BY <1>1 DEF RoundsInv, RoundsMatch, IInv, TypeOK, Visited
<1>3. /\ round.shard_id = ranked[Visited]
      /\ round.confidence_before = confidence
      /\ round.confidence_after = conf
      /\ round.verdict = verdict
      /\ round \in ExpansionRound
  <2>1. considered[Visited].shard_id = ranked[Visited]
    BY <1>2 DEF IInv, PrefixInv
  <2>2. considered[Visited] \in ShardScore
    BY <1>2 DEF IInv, TypeOK
  <2>3. considered[Visited].shard_id \in Shards
    BY <2>2 DEF ShardScore
  <2>4. confidence \in Confidences
    BY DEF IInv, TypeOK
  <2> QED
    BY <1>1, <2>1, <2>3, <2>4 DEF Round, ExpansionRound
<1> HIDE DEF verdict, round
<1>4. /\ Len(rounds') = L + 1
      /\ DOMAIN rounds' = 1..(L + 1)
      /\ rounds'[L + 1] = round
      /\ \A i \in 1..L : rounds'[i] = rounds[i]
      /\ rounds' # <<>>
  BY <1>1, <1>2, <1>3
<1> HIDE DEF L
<1>5. confidence' = LastConfidence'
  BY <1>1, <1>3, <1>4 DEF LastConfidence
<1>6. confidence = IF L = 0 THEN 0 ELSE rounds[L].confidence_after
  BY <1>2 DEF RoundsMatch, LastConfidence, L
<1>7. ASSUME NEW i \in 1..(L + 1)
      PROVE  RoundIsTrue(i)'
  <2>1. CASE i \in 1..L
    <3>1. RoundIsTrue(i) /\ rounds[i].verdict = "expand"
      BY <1>1, <1>2, <2>1 DEF RoundsMatch, RoundIsTrue
    <3>2. rounds'[i] = rounds[i]
      BY <1>4, <2>1
    <3>3. i # 1 => rounds'[i - 1] = rounds[i - 1]
      BY <1>2, <1>4, <2>1
    <3> QED
      BY <1>1, <3>1, <3>2, <3>3 DEF RoundIsTrue
  <2>2. CASE i = L + 1
    <3>1. rounds'[i] = round /\ i = Visited
      BY <1>2, <1>4, <2>2
    <3>2. i # 1 => L # 0 /\ i - 1 = L /\ rounds'[i - 1] = rounds[L]
      BY <1>2, <1>4, <2>2
    <3>3. i = 1 => L = 0
      BY <1>2, <2>2
    <3>4. round.confidence_before = (IF i = 1 THEN 0 ELSE rounds'[i - 1].confidence_after)
      BY <1>3, <1>6, <3>2, <3>3
    <3>5. ~(i < Len(rounds'))
      BY <1>2, <1>4, <2>2
    <3> QED
      BY <1>1, <1>3, <3>1, <3>4, <3>5 DEF RoundIsTrue
  <2> QED
    BY <1>2, <1>7, <2>1, <2>2
<1>8. Visited' = Visited
  BY <1>1 DEF Visited
<1> QED
  BY <1>1, <1>2, <1>4, <1>5, <1>7, <1>8 DEF RoundsInv, RoundsMatch

LEMMA RoundsAfterReturn ==
  ASSUME IInv, RoundsInv, ReturnAdaptive
  PROVE  RoundsInv'
<1>1. /\ pc = "finish"
      /\ pc' = "done"
      /\ request.strategy \in Adaptive
      /\ UNCHANGED <<request, ranked, rounds, confidence>>
  BY DEF ReturnAdaptive, IInv, AdaptiveInv
<1>2. /\ RoundsMatch
      /\ Len(rounds) = Visited
  BY <1>1 DEF RoundsInv, RoundsMatch
<1>3. \A i \in 1..Visited : considered[i].contacted
  BY <1>1, ReturnLists DEF IInv, AdaptiveInv, IsContacted
<1>4. \A i \in DOMAIN considered' : considered'[i].contacted <=> i <= Visited
  <2>1. \A shard, reason : ~Skipped(shard, reason).contacted
    BY DEF Skipped
  <2>2. \A i \in 1..Len(ranked) : i <= Visited => i \in 1..Visited
    BY ReturnLists DEF IInv, TypeOK
  <2>3. \A i \in 1..Len(ranked) : ~(i <= Visited) => i > Visited
    BY ReturnLists DEF IInv, TypeOK
  <2> QED
    BY <1>3, <2>1, <2>2, <2>3, ReturnLists
<1>5. Visited <= Visited'
  <2>1. considered' \in Seq(ShardScore)
    BY ReturnAdaptiveKeeps DEF IInv, TypeOK
  <2> QED
    BY <2>1, ReturnLists DEF Visited, IInv, TypeOK
<1>6. \A i \in DOMAIN rounds' : RoundIsTrue(i)'
  BY <1>1, <1>2 DEF RoundsMatch, RoundIsTrue
<1>7. confidence' = LastConfidence'
  BY <1>1, <1>2 DEF RoundsMatch, LastConfidence
<1> QED
  BY <1>1, <1>2, <1>4, <1>5, <1>6, <1>7 DEF RoundsInv, RoundsMatch, IsContacted

LEMMA RoundsInvariant ==
  ASSUME IInv, RoundsInv, [Next]_vars
  PROVE  RoundsInv'
<1>1. ASSUME request.strategy \notin Adaptive, request' = request
      PROVE  RoundsInv'
  BY <1>1 DEF RoundsInv
<1>2. Visited \in Nat
  BY DEF IInv, TypeOK, Visited
<1>3. CASE RejectStrategy \/ SearchRaises
  BY <1>3, RoundsStay DEF RejectStrategy, SearchRaises
<1>4. CASE Rank
  <2>1. /\ considered = <<>>
        /\ pc = "route"
        /\ pc' = "visit"
        /\ UNCHANGED <<request, considered, rounds, confidence>>
    BY <1>4 DEF Rank, IInv, RankedInv
  <2>2. ASSUME request.strategy \in Adaptive
        PROVE  RoundsMatch'
    <3>1. RoundsMatch /\ Len(rounds) = Visited /\ Visited = 0
      BY <2>1, <2>2 DEF RoundsInv, RoundsMatch, Visited
    <3>2. DOMAIN rounds = {}
      BY <3>1 DEF IInv, TypeOK
    <3> QED
      BY <2>1, <3>1, <3>2 DEF RoundsMatch, LastConfidence, Visited
  <2> QED
    BY <2>1, <2>2 DEF RoundsInv
<1>5. CASE \E n \in 0..K : ContactFreely(n) \/ ContactUnderCap(n)
  BY <1>1, <1>5 DEF ContactFreely, ContactUnderCap, At, Exhaustive, Adaptive
<1>6. ASSUME NEW n \in 0..K, ContactAdaptively(n)
      PROVE  RoundsInv'
  <2>1. /\ pc = "visit"
        /\ More
        /\ Contact(Current, n)
        /\ pc' = "judge"
        /\ UNCHANGED <<request, ranked, rounds, confidence>>
        /\ request.strategy \in Adaptive
    BY <1>6 DEF ContactAdaptively, At
  <2>2. Visited' = Visited + 1
    BY <2>1, ContactKeeps DEF IInv, Visited
  <2>3. Len(rounds) = Visited
    BY <2>1 DEF RoundsInv, RoundsMatch
  <2>4. Len(rounds) = Visited' - 1
    BY <1>2, <2>2, <2>3
  <2> QED
    BY <2>1, <2>4, RoundsStay
<1>7. CASE \E n \in 0..K : RefuseRound(n)
  <2>1. /\ pc = "visit"
        /\ pc' = "finish"
        /\ UNCHANGED <<request, ranked, considered, rounds, confidence>>
        /\ request.strategy \in Adaptive
    BY <1>7 DEF RefuseRound, At, Stop
  <2>2. Len(rounds) = Visited'
    BY <2>1 DEF RoundsInv, RoundsMatch, Visited
  <2> QED
    BY <2>1, <2>2, RoundsStay
<1>8. CASE StopOverBudget \/ NothingToVisit
  <2>1. /\ pc = "visit"
        /\ pc' = "finish"
        /\ UNCHANGED <<request, ranked, considered, rounds, confidence>>
        /\ request.strategy \in Adaptive
    BY <1>8 DEF StopOverBudget, NothingToVisit, At, Stop
  <2>2. Len(rounds) = Visited'
    BY <2>1 DEF RoundsInv, RoundsMatch, Visited
  <2> QED
    BY <2>1, <2>2, RoundsStay
<1>9. CASE SkipOutsideTopN \/ SkipOverCap
  BY <1>1, <1>9 DEF SkipOutsideTopN, SkipOverCap, Skip, At, Adaptive
<1>10. CASE \E conf \in Confidences, should_expand \in BOOLEAN : JudgeRound(conf, should_expand)
  BY <1>10, RoundsAfterJudging
<1>11. CASE \E conf \in Confidences : ReturnJudged(conf)
  BY <1>1, <1>11 DEF ReturnJudged, At
<1>12. CASE ReturnAdaptive
  BY <1>12, RoundsAfterReturn
<1>13. CASE UNCHANGED vars
  BY <1>13 DEF vars, RoundsInv, RoundsMatch, RoundIsTrue, LastConfidence, Visited, IsContacted
<1> QED
  BY <1>3, <1>4, <1>5, <1>6, <1>7, <1>8, <1>9, <1>10, <1>11, <1>12, <1>13 DEF Next, Terminated

\* Why an adaptive loop has stopped.
StopIsTrue ==
  \/ /\ stop_reason = "confidence_met"
     /\ rounds # <<>>
     /\ rounds[Len(rounds)].verdict = "sufficient"
  \/ /\ stop_reason = "budget_exhausted"
     /\ OverBudget \/ WouldOverrun(ranked[Len(rounds) + 1], K)
  \/ /\ stop_reason = "sources_exhausted"
     /\ Len(considered) = Len(ranked)
     /\ \A i \in DOMAIN considered : IsContacted(i)

\* Why the other loops have left out entry i.
OmissionIsTrue(i) ==
  \/ /\ request.strategy = "top_n_neighbors"
     /\ i > TopN
     /\ considered[i].skip_reason = "outside_top_n"
  \/ /\ request.strategy = "budgeted_communication"
     /\ considered[i].skip_reason = "budget_exhausted"
     /\ WouldOverrun(considered[i].shard_id, K)

ReasonsInv ==
  /\ pc \in {"route", "visit", "judge"} => stop_reason = "confidence_met"
  /\ pc \in {"finish", "done"} => (request.strategy \in Adaptive => StopIsTrue)
  /\ request.strategy \in Adaptive =>
       \A i \in DOMAIN considered : IsContacted(i) \/ considered[i].skip_reason = stop_reason
  /\ request.strategy \notin Adaptive =>
       \A i \in DOMAIN considered : IsContacted(i) \/ OmissionIsTrue(i)
  /\ request.strategy = "top_n_neighbors" =>
       \A i \in DOMAIN considered : IsContacted(i) => i <= TopN

\* What does not fit goes on not to fit when more is spent.
LEMMA OverrunStays ==
  ASSUME NEW c \in Cost, NEW d \in Cost, NEW e \in Cost, NEW b \in Budget,
         Exceeds(AddCost(c, d), b)
  PROVE  Exceeds(AddCost(AddCost(c, e), d), b)
<1>1. /\ c.tokens \in Nat /\ c.latency_ms \in Nat /\ c.usd \in Nat
      /\ d.tokens \in Nat /\ d.latency_ms \in Nat /\ d.usd \in Nat
      /\ e.tokens \in Nat /\ e.latency_ms \in Nat /\ e.usd \in Nat
      /\ b.max_tokens \in Nat /\ b.max_latency_ms \in Nat /\ b.max_usd \in Nat
  BY DEF Cost, Budget
<1>2. \/ c.tokens + d.tokens > b.max_tokens
      \/ c.latency_ms + d.latency_ms > b.max_latency_ms
      \/ c.usd + d.usd > b.max_usd
  BY DEF Exceeds, AddCost
<1> QED
  BY <1>1, <1>2 DEF Exceeds, AddCost

\* Another entry of a loop that is not adaptive: contacted, or left out for its reason.
LEMMA ReasonsAfterEntry ==
  ASSUME IInv, ReasonsInv, pc = "visit", More, request.strategy \notin Adaptive,
         UNCHANGED <<request, pc, ranked, stop_reason>>,
         NEW v \in Nat, v = Visited,
         Len(considered') = v + 1,
         considered' \in Seq(ShardScore),
         \A i \in 1..v : considered'[i] = considered[i],
         \A i \in DOMAIN considered : OmissionIsTrue(i) => OmissionIsTrue(i)',
         considered'[v + 1].contacted \/ OmissionIsTrue(v + 1)',
         request.strategy = "top_n_neighbors" =>
           (considered'[v + 1].contacted => v + 1 <= TopN)
  PROVE  ReasonsInv'
<1>1. /\ DOMAIN considered = 1..v
      /\ DOMAIN considered' = 1..(v + 1)
  BY DEF IInv, TypeOK, Visited
<1>2. \A i \in 1..(v + 1) : i \in 1..v \/ i = v + 1
  BY <1>1
<1>3. \A i \in DOMAIN considered' : IsContacted(i)' \/ OmissionIsTrue(i)'
  <2>1. \A i \in DOMAIN considered : IsContacted(i) \/ OmissionIsTrue(i)
    BY DEF ReasonsInv
  <2> QED
    BY <1>1, <1>2, <2>1 DEF IsContacted
<1>4. request.strategy = "top_n_neighbors" =>
        \A i \in DOMAIN considered' : considered'[i].contacted => i <= TopN
  <2>1. request.strategy = "top_n_neighbors" =>
          \A i \in DOMAIN considered : considered[i].contacted => i <= TopN
    BY DEF ReasonsInv, IsContacted
  <2> QED
    BY <1>1, <1>2, <2>1
<1>5. stop_reason' = "confidence_met" /\ pc' = "visit"
  BY DEF ReasonsInv
<1> QED
  BY <1>3, <1>4, <1>5 DEF ReasonsInv, IsContacted

LEMMA ReasonsAfterContact ==
  ASSUME IInv, ReasonsInv, NEW n \in 0..K, ContactFreely(n) \/ ContactUnderCap(n)
  PROVE  ReasonsInv'
<1>1. /\ pc = "visit"
      /\ More
      /\ Contact(Current, n)
      /\ request.strategy \notin Adaptive
      /\ UNCHANGED <<request, pc, ranked, stop_reason>>
  BY DEF ContactFreely, ContactUnderCap, At, Exhaustive, Adaptive
<1>2. /\ considered' \in Seq(ShardScore)
      /\ Len(considered') = Visited + 1
      /\ considered'[Visited + 1].contacted
      /\ \A i \in 1..Visited : considered'[i] = considered[i]
      /\ spent' = AddCost(spent, CostFor(Profile[Current], n))
  BY <1>1, ContactKeeps DEF IInv
<1>3. Visited \in Nat /\ DOMAIN considered = 1..Visited
  BY DEF IInv, TypeOK, Visited
<1>4. request.strategy = "top_n_neighbors" => Visited + 1 <= TopN
  <2>1. request.strategy = "top_n_neighbors" => Visited < TopN
    BY DEF ContactFreely, ContactUnderCap, At
  <2> QED
    BY <1>3, <2>1, RouterAssumption DEF RouterAssumption
<1>5. ASSUME NEW i \in DOMAIN considered, OmissionIsTrue(i)
      PROVE  OmissionIsTrue(i)'
  <2>1. considered'[i] = considered[i]
    BY <1>2, <1>3, <1>5
  <2>2. PICK shard : shard = considered[i].shard_id
    OBVIOUS
  <2>3. /\ shard \in Shards
        /\ Profile[shard] \in CostProfile
        /\ K \in Nat
        /\ n \in Nat
        /\ Profile[Current] \in CostProfile
        /\ request.budget \in Budget
        /\ spent \in Cost
    <3>1. considered[i] \in ShardScore
      BY <1>5 DEF IInv, TypeOK
    <3> QED
      BY <1>1, <2>2, <3>1, CurrentIsPermitted, RouterAssumption
         DEF IInv, TypeOK, ShardScore, RouterAssumption
  <2>4. /\ CostFor(Profile[shard], K) \in Cost
        /\ CostFor(Profile[Current], n) \in Cost
    BY <2>3, CostsAreCosts
  <2>5. WouldOverrun(shard, K) => WouldOverrun(shard, K)'
    BY <1>1, <1>2, <2>3, <2>4, OverrunStays DEF WouldOverrun
  <2> QED
    BY <1>1, <1>5, <2>1, <2>2, <2>5 DEF OmissionIsTrue
<1>6. PICK v \in Nat : v = Visited
  BY <1>3
<1> QED
  BY <1>1, <1>2, <1>4, <1>5, <1>6, ReasonsAfterEntry

LEMMA ReasonsAfterSkip ==
  ASSUME IInv, ReasonsInv, SkipOutsideTopN \/ SkipOverCap
  PROVE  ReasonsInv'
<1>1. PICK reason \in Reasons :
        /\ Skip(Current, reason)
        /\ \/ /\ request.strategy = "top_n_neighbors"
              /\ Visited >= TopN
              /\ reason = "outside_top_n"
           \/ /\ request.strategy = "budgeted_communication"
              /\ WouldOverrun(Current, K)
              /\ reason = "budget_exhausted"
  BY DEF SkipOutsideTopN, SkipOverCap, At, FitsCap, WouldOverrun, Reasons
<1>2. /\ pc = "visit"
      /\ More
      /\ request.strategy \notin Adaptive
  BY DEF SkipOutsideTopN, SkipOverCap, At, Adaptive
<1>3. PICK shard \in Shards : shard = Current
  BY <1>2, CurrentIsPermitted DEF IInv
<1>4. /\ UNCHANGED <<request, pc, ranked, spent, stop_reason>>
      /\ considered' = Append(considered, Skipped(Current, reason))
  BY <1>1 DEF Skip
<1>5. /\ Skipped(Current, reason) \in ShardScore
      /\ Skipped(Current, reason).shard_id = shard
      /\ Skipped(Current, reason).skip_reason = reason
      /\ ~Skipped(Current, reason).contacted
  BY <1>3 DEF Skipped, ShardScore
<1>6. /\ considered' \in Seq(ShardScore)
      /\ Len(considered') = Visited + 1
      /\ considered'[Visited + 1] = Skipped(Current, reason)
      /\ \A i \in 1..Visited : considered'[i] = considered[i]
  BY <1>2, <1>3, <1>4, <1>5, TraceGrows DEF IInv
<1>7. Visited \in Nat /\ DOMAIN considered = 1..Visited
  BY DEF IInv, TypeOK, Visited
<1>8. ASSUME NEW i \in DOMAIN considered, OmissionIsTrue(i)
      PROVE  OmissionIsTrue(i)'
  <2>1. considered'[i] = considered[i]
    BY <1>6, <1>7, <1>8
  <2> QED
    BY <1>4, <1>8, <2>1 DEF OmissionIsTrue, WouldOverrun
<1>9. PICK v \in Nat : v = Visited
  BY <1>7
<1>10. OmissionIsTrue(v + 1)'
  <2>1. request.strategy = "top_n_neighbors" => Visited + 1 > TopN
    BY <1>1, <1>7, RouterAssumption DEF RouterAssumption
  <2>2. /\ considered'[v + 1].skip_reason = reason
        /\ considered'[v + 1].shard_id = shard
    BY <1>5, <1>6, <1>9
  <2>3. WouldOverrun(shard, K) => WouldOverrun(shard, K)'
    BY <1>4 DEF WouldOverrun
  <2> QED
    BY <1>1, <1>3, <1>4, <1>9, <2>1, <2>2, <2>3 DEF OmissionIsTrue
<1>11. ~considered'[v + 1].contacted
  BY <1>5, <1>6, <1>9
<1> QED
  BY <1>2, <1>4, <1>6, <1>8, <1>9, <1>10, <1>11, ReasonsAfterEntry

\* The adaptive loops list no entry but the contacted ones until they return.
LEMMA ReasonsAfterStop ==
  ASSUME IInv', ReasonsInv, request'.strategy \in Adaptive,
         \/ pc' \in {"visit", "judge"} /\ stop_reason' = "confidence_met"
         \/ pc' = "finish" /\ StopIsTrue'
  PROVE  ReasonsInv'
<1>1. \A i \in DOMAIN considered' : IsContacted(i)'
  BY DEF IInv, AdaptiveInv
<1>2. request'.strategy # "top_n_neighbors"
  BY DEF Adaptive
<1> QED
  BY <1>1, <1>2 DEF ReasonsInv

LEMMA ReasonsAfterRefusal ==
  ASSUME IInv, RoundsInv, ReasonsInv, NEW n \in 0..K, RefuseRound(n)
  PROVE  ReasonsInv'
<1>1. /\ pc = "visit"
      /\ More
      /\ pc' = "finish"
      /\ stop_reason' = "budget_exhausted"
      /\ UNCHANGED <<request, ranked, considered, rounds, spent>>
      /\ request.strategy \in Adaptive
      /\ WouldOverrun(Current, n)
  BY DEF RefuseRound, At, Stop, Refuses, WouldOverrun
<1>2. PICK shard \in Shards : shard = Current
  BY <1>1, CurrentIsPermitted DEF IInv
<1>3. WouldOverrun(shard, K)
  BY <1>1, <1>2, OverrunGrows DEF IInv
<1>4. ranked'[Len(rounds') + 1] = shard
  BY <1>1, <1>2 DEF RoundsInv, RoundsMatch, Current
<1>5. WouldOverrun(shard, K)'
  BY <1>1, <1>3 DEF WouldOverrun
<1>6. StopIsTrue'
  BY <1>1, <1>4, <1>5 DEF StopIsTrue
<1> QED
  BY <1>1, <1>6, RefuseRoundKeeps, ReasonsAfterStop

LEMMA ReasonsAfterJudging ==
  ASSUME IInv, ReasonsInv, NEW conf \in Confidences, NEW should_expand \in BOOLEAN,
         JudgeRound(conf, should_expand)
  PROVE  ReasonsInv'
<1> DEFINE verdict == Verdict(conf, should_expand)
           round == Round(conf, verdict)
<1>1. /\ pc = "judge"
      /\ rounds' = Append(rounds, round)
      /\ round.verdict = verdict
      /\ UNCHANGED <<request, ranked, considered>>
      /\ request.strategy \in Adaptive
      /\ stop_reason = "confidence_met"
      /\ rounds \in Seq(ExpansionRound)
  BY DEF JudgeRound, Round, IInv, AdaptiveInv, ReasonsInv, TypeOK
<1>2. IInv'
  BY JudgeRoundKeeps
<1>3. \/ pc' = "visit" /\ stop_reason' = stop_reason
      \/ pc' = "finish" /\ verdict = "sufficient" /\ stop_reason' = stop_reason
      \/ pc' = "finish" /\ ~More /\ stop_reason' = "sources_exhausted"
  BY DEF JudgeRound, Stop, ReasonAfter
<1> HIDE DEF verdict, round
<1>4. CASE pc' = "visit" /\ stop_reason' = stop_reason
  BY <1>1, <1>2, <1>4, ReasonsAfterStop
<1>5. CASE pc' = "finish" /\ verdict = "sufficient" /\ stop_reason' = stop_reason
  <2>1. rounds' # <<>> /\ rounds'[Len(rounds')] = round
    BY <1>1
  <2>2. StopIsTrue'
    BY <1>1, <1>5, <2>1 DEF StopIsTrue
  <2> QED
    BY <1>1, <1>2, <1>5, <2>2, ReasonsAfterStop
<1>6. CASE pc' = "finish" /\ ~More /\ stop_reason' = "sources_exhausted"
  <2>1. Len(considered) = Len(ranked)
    BY <1>6 DEF More, Visited, IInv, PrefixInv, TypeOK
  <2>2. \A i \in DOMAIN considered' : IsContacted(i)'
    BY <1>1, <1>2, <1>6 DEF IInv, AdaptiveInv
  <2>3. StopIsTrue'
    BY <1>1, <1>6, <2>1, <2>2 DEF StopIsTrue
  <2> QED
    BY <1>1, <1>2, <1>6, <2>3, ReasonsAfterStop
<1> QED
  BY <1>3, <1>4, <1>5, <1>6

LEMMA ReasonsAfterReturn ==
  ASSUME IInv, ReasonsInv, ReturnAdaptive
  PROVE  ReasonsInv'
<1>1. /\ pc = "finish"
      /\ pc' = "done"
      /\ request.strategy \in Adaptive
      /\ StopIsTrue
      /\ UNCHANGED <<request, ranked, rounds, spent, stop_reason>>
  BY DEF ReturnAdaptive, IInv, AdaptiveInv, ReasonsInv
<1>2. /\ Len(considered') = Len(ranked)
      /\ considered' \in Seq(ShardScore)
  BY <1>1, ReturnAdaptiveKeeps DEF IInv, DoneInv, TypeOK
<1>3. \A i \in 1..Visited : considered[i].contacted
  BY <1>1, ReturnLists DEF IInv, AdaptiveInv, IsContacted
<1>4. \A i \in 1..Len(ranked) : i \in 1..Visited \/ i > Visited
  BY ReturnLists DEF IInv, TypeOK
<1>5. \A i \in DOMAIN considered' : \/ considered'[i].contacted
                                    \/ considered'[i].skip_reason = stop_reason
  <2>1. \A shard, reason : Skipped(shard, reason).skip_reason = reason
    BY DEF Skipped
  <2> QED
    BY <1>3, <1>4, <2>1, ReturnLists
<1>6. Len(considered) = Len(ranked) => \A i \in DOMAIN considered' : considered'[i].contacted
  BY <1>3, ReturnLists DEF Visited
<1>7. StopIsTrue'
  BY <1>1, <1>2, <1>6 DEF StopIsTrue, OverBudget, WouldOverrun, IsContacted
<1>8. request'.strategy # "top_n_neighbors"
  BY <1>1 DEF Adaptive
<1> QED
  BY <1>1, <1>5, <1>7, <1>8 DEF ReasonsInv, IsContacted

LEMMA ReasonsInvariant ==
  ASSUME IInv, RoundsInv, ReasonsInv, [Next]_vars
  PROVE  ReasonsInv'
<1>1. CASE RejectStrategy \/ SearchRaises
  BY <1>1 DEF RejectStrategy, SearchRaises, ReasonsInv, OmissionIsTrue, WouldOverrun, IsContacted
<1>2. CASE Rank
  <2>1. /\ considered' = <<>>
        /\ pc = "route"
        /\ pc' = "visit"
        /\ stop_reason' = stop_reason
    BY <1>2 DEF Rank, IInv, RankedInv
  <2> QED
    BY <2>1 DEF ReasonsInv
<1>3. CASE \E n \in 0..K : ContactFreely(n) \/ ContactUnderCap(n)
  BY <1>3, ReasonsAfterContact
<1>4. ASSUME NEW n \in 0..K, ContactAdaptively(n)
      PROVE  ReasonsInv'
  <2>1. /\ pc = "visit"
        /\ pc' = "judge"
        /\ UNCHANGED <<request, stop_reason>>
        /\ request.strategy \in Adaptive
    BY <1>4 DEF ContactAdaptively, At
  <2>2. stop_reason = "confidence_met"
    BY <2>1 DEF ReasonsInv
  <2> QED
    BY <1>4, <2>1, <2>2, ContactAdaptivelyKeeps, ReasonsAfterStop
<1>5. CASE \E n \in 0..K : RefuseRound(n)
  BY <1>5, ReasonsAfterRefusal
<1>6. CASE StopOverBudget
  <2>1. /\ pc' = "finish"
        /\ stop_reason' = "budget_exhausted"
        /\ UNCHANGED <<request, spent>>
        /\ OverBudget
        /\ request.strategy \in Adaptive
    BY <1>6 DEF StopOverBudget, At, Stop
  <2>2. StopIsTrue'
    BY <2>1 DEF StopIsTrue, OverBudget
  <2> QED
    BY <1>6, <2>1, <2>2, StopKeeps, ReasonsAfterStop
<1>7. CASE NothingToVisit
  <2>1. /\ pc = "visit"
        /\ pc' = "finish"
        /\ stop_reason' = "sources_exhausted"
        /\ UNCHANGED <<request, ranked, considered>>
        /\ ~More
        /\ request.strategy \in Adaptive
    BY <1>7 DEF NothingToVisit, At, Stop
  <2>2. Len(considered) = Len(ranked)
    BY <2>1 DEF More, Visited, IInv, PrefixInv, TypeOK
  <2>3. \A i \in DOMAIN considered : IsContacted(i)
    BY <2>1 DEF IInv, AdaptiveInv
  <2>4. StopIsTrue'
    BY <2>1, <2>2, <2>3 DEF StopIsTrue, IsContacted
  <2> QED
    BY <1>7, <2>1, <2>4, StopKeeps, ReasonsAfterStop
<1>8. CASE SkipOutsideTopN \/ SkipOverCap
  BY <1>8, ReasonsAfterSkip
<1>9. CASE \E conf \in Confidences, should_expand \in BOOLEAN : JudgeRound(conf, should_expand)
  BY <1>9, ReasonsAfterJudging
<1>10. CASE \E conf \in Confidences : ReturnJudged(conf)
  BY <1>10 DEF ReturnJudged, At, ReasonsInv, OmissionIsTrue, WouldOverrun, IsContacted
<1>11. CASE ReturnAdaptive
  BY <1>11, ReasonsAfterReturn
<1>12. CASE UNCHANGED vars
  BY <1>12 DEF vars, ReasonsInv, StopIsTrue, OmissionIsTrue, OverBudget, WouldOverrun, IsContacted
<1> QED
  BY <1>1, <1>2, <1>3, <1>4, <1>5, <1>6, <1>7, <1>8, <1>9, <1>10, <1>11, <1>12
     DEF Next, Terminated

LEMMA TraceInvariance == Spec => [](IInv /\ TraceInv /\ RoundsInv /\ ReasonsInv)
<1>1. ASSUME Init
      PROVE  TraceInv /\ RoundsInv /\ ReasonsInv
  <2>1. /\ considered = <<>>
        /\ searched = <<>>
        /\ rounds = <<>>
        /\ spent = incurred
        /\ confidence = 0
        /\ pc = "route"
        /\ stop_reason = "confidence_met"
    BY <1>1 DEF Init
  <2>2. ContactedIds = {} /\ SearchedIds = {}
    BY <2>1 DEF ContactedIds, SearchedIds
  <2>3. TraceInv
    BY <2>1, <2>2 DEF TraceInv, TraceIsCharged, TraceIsExact
  <2>4. RoundsInv
    BY <2>1 DEF RoundsInv, RoundsMatch, LastConfidence, Visited
  <2>5. ReasonsInv
    BY <2>1 DEF ReasonsInv
  <2> QED
    BY <2>3, <2>4, <2>5
<1>2. IInv /\ TraceInv /\ RoundsInv /\ ReasonsInv /\ [Next]_vars
        => (IInv /\ TraceInv /\ RoundsInv /\ ReasonsInv)'
  BY StepInvariant, TraceInvariant, RoundsInvariant, ReasonsInvariant
<1> QED
  BY <1>1, <1>2, InitInvariant, PTL DEF Spec

\* If the first m entries are the contacted ones, m shards are contacted.
LEMMA ContactedCount ==
  ASSUME IInv, NEW m \in Nat, m <= Visited,
         \A i \in DOMAIN considered : IsContacted(i) <=> i <= m
  PROVE  Cardinality(ContactedIds) = m
<1>1. /\ Visited \in Nat
      /\ DOMAIN considered = 1..Visited
      /\ DOMAIN ranked = 1..Len(ranked)
      /\ Visited <= Len(ranked)
      /\ Len(ranked) \in Nat
  BY DEF IInv, TypeOK, PrefixInv, Visited
<1>2. \A i \in 1..m : i \in DOMAIN considered /\ i \in 1..Len(ranked) /\ i <= m
  BY <1>1
<1>3. \A i \in DOMAIN considered : i <= m => i \in 1..m
  BY <1>1
<1>4. ContactedIds = {ranked[i] : i \in 1..m}
  <2>1. \A i \in DOMAIN considered : considered[i].shard_id = ranked[i]
    BY DEF IInv, PrefixInv
  <2> QED
    BY <1>2, <1>3, <2>1 DEF ContactedIds
<1>5. \A i, j \in 1..m : ranked[i] = ranked[j] => i = j
  <2>1. CASE m = 0
    BY <2>1
  <2>2. CASE m # 0
    <3>1. considered # <<>>
      BY <1>1, <2>2
    <3>2. ranked \in Rankings(request.scope)
      BY <3>1 DEF IInv, RankedInv
    <3> QED
      BY <1>1, <1>2, <3>2 DEF Rankings
  <2> QED
    BY <2>1, <2>2
<1> DEFINE f == [i \in 1..m |-> ranked[i]]
<1>6. f \in Bijection(1..m, ContactedIds)
  BY <1>4, <1>5 DEF Bijection, Injection, Surjection, IsInjective
<1>7. ExistsBijection(1..m, ContactedIds)
  BY <1>6 DEF ExistsBijection
<1>8. IsFiniteSet(1..m) /\ Cardinality(1..m) = m
  BY FS_Interval
<1> QED
  BY <1>7, <1>8, FS_Bijection

-----------------------------------------------------------------------------------
(* The theorems about the trace.                                           *)

\* The trace charges every search it lists and lists every search it was charged for; the
\* one search it may leave out is the round progressive_expansion refused.
THEOREM TracesAreCharged == Spec => []TraceIsCharged
<1>1. TraceInv => TraceIsCharged
  BY DEF TraceInv
<1> QED
  BY <1>1, TraceInvariance, PTL

\* Every skip reason in a returned trace is true of the call, for all six strategies.
THEOREM ReasonsAreTrue == Spec => []SkipReasonsAreTrue
<1>1. ASSUME IInv, ReasonsInv
      PROVE  SkipReasonsAreTrue
  <2> SUFFICES ASSUME pc = "done", NEW i \in DOMAIN considered, ~IsContacted(i)
               PROVE  LET reason == considered[i].skip_reason IN
                        \/ /\ reason = "confidence_met"
                           /\ rounds # <<>> /\ rounds[Len(rounds)].verdict = "sufficient"
                        \/ /\ reason = "budget_exhausted"
                           /\ \/ OverBudget
                              \/ WouldOverrun(considered[i].shard_id, K)
                              \/ /\ request.strategy \in Adaptive
                                 /\ WouldOverrun(ranked[Len(rounds) + 1], K)
                        \/ reason = "outside_top_n" /\ Cardinality(ContactedIds) = TopN
    BY DEF SkipReasonsAreTrue
  <2>1. CASE request.strategy \in Adaptive
    <3>1. StopIsTrue /\ considered[i].skip_reason = stop_reason
      BY <1>1, <2>1 DEF ReasonsInv
    <3> QED
      BY <2>1, <3>1 DEF StopIsTrue
  <2>2. CASE request.strategy \notin Adaptive
    <3>1. OmissionIsTrue(i)
      BY <1>1, <2>2 DEF ReasonsInv
    <3>2. CASE request.strategy = "top_n_neighbors"
      <4>1. considered[i].skip_reason = "outside_top_n" /\ i > TopN
        BY <3>1, <3>2 DEF OmissionIsTrue
      <4>2. \A j \in DOMAIN considered : IsContacted(j) => j <= TopN
        BY <1>1, <3>2 DEF ReasonsInv
      <4>3. \A j \in DOMAIN considered : IsContacted(j) \/ j > TopN
        BY <1>1, <2>2, <3>2 DEF ReasonsInv, OmissionIsTrue
      <4>4. TopN \in Nat /\ TopN <= Visited /\ DOMAIN considered \subseteq Nat
        BY <1>1, <4>1, RouterAssumption DEF RouterAssumption, IInv, TypeOK, Visited
      <4>5. \A j \in DOMAIN considered : IsContacted(j) <=> j <= TopN
        BY <4>2, <4>3, <4>4
      <4>6. Cardinality(ContactedIds) = TopN
        BY <1>1, <4>4, <4>5, ContactedCount
      <4> QED
        BY <4>1, <4>6
    <3>3. CASE request.strategy # "top_n_neighbors"
      BY <3>1, <3>3 DEF OmissionIsTrue
    <3> QED
      BY <3>2, <3>3
  <2> QED
    BY <2>1, <2>2
<1> QED
  BY <1>1, TraceInvariance, PTL

\* The rounds of a returned adaptive trace are the expansion, contact by contact.
THEOREM RoundsAreTheExpansion == Spec => []RoundsReplayExpansion
<1>1. ASSUME IInv, RoundsInv
      PROVE  RoundsReplayExpansion
  <2> SUFFICES ASSUME pc = "done", request.strategy \in Adaptive
               PROVE  /\ Len(rounds) = Cardinality(ContactedIds)
                      /\ \A i \in DOMAIN rounds :
                           /\ rounds[i].shard_id = ranked[i] /\ IsContacted(i)
                           /\ rounds[i].confidence_before =
                                (IF i = 1 THEN 0 ELSE rounds[i - 1].confidence_after)
                           /\ i < Len(rounds) => rounds[i].verdict = "expand"
                      /\ rounds # <<>> => confidence = rounds[Len(rounds)].confidence_after
    BY DEF RoundsReplayExpansion
  <2>1. RoundsMatch
    BY <1>1 DEF RoundsInv
  <2>2. /\ Len(rounds) \in Nat
        /\ DOMAIN rounds = 1..Len(rounds)
        /\ Visited \in Nat
        /\ DOMAIN considered = 1..Visited
    BY <1>1 DEF IInv, TypeOK, Visited
  <2>3. /\ Len(rounds) <= Visited
        /\ \A i \in DOMAIN considered : IsContacted(i) <=> i <= Len(rounds)
        /\ \A i \in DOMAIN rounds : RoundIsTrue(i)
        /\ confidence = LastConfidence
    BY <2>1 DEF RoundsMatch
  <2>4. Len(rounds) = Cardinality(ContactedIds)
    BY <1>1, <2>2, <2>3, ContactedCount
  <2>5. \A i \in DOMAIN rounds : IsContacted(i)
    BY <2>2, <2>3
  <2> QED
    BY <2>3, <2>4, <2>5 DEF RoundIsTrue, LastConfidence
<1> QED
  BY <1>1, TraceInvariance, PTL

-----------------------------------------------------------------------------------
(* Savings: the counterfactual is a sum over the ranking, so this takes an *)
(* induction over the naturals, made of the well-foundedness of < on them. *)

LEMMA LeastNatural ==
  ASSUME NEW T \in SUBSET Nat, T # {}
  PROVE  \E x \in T : \A y \in T : x <= y
<1> DEFINE R == OpToRel(<, Nat)
<1>1. IsWellFoundedOn(R, Nat)
  BY NatLessThanWellFounded
<1>2. \A i, j \in Nat : i < j => <<i, j>> \in R
  BY DEF OpToRel
<1> HIDE DEF R
<1>3. T \subseteq Nat
  OBVIOUS
<1>4. PICK x \in T : \A y \in T : ~(<<y, x>> \in R)
  BY <1>1, <1>3, WFMin
<1>5. ASSUME NEW y \in T
      PROVE  x <= y
  <2>1. x \in Nat /\ y \in Nat /\ ~(<<y, x>> \in R)
    BY <1>3, <1>4, <1>5
  <2>2. ~(y < x)
    BY <1>2, <2>1
  <2> QED
    BY <2>1, <2>2
<1> QED
  BY <1>5

LEMMA Induction ==
  ASSUME NEW S, 0 \in S, \A n \in Nat : n \in S => n + 1 \in S
  PROVE  \A n \in Nat : n \in S
<1> SUFFICES ASSUME Nat \ S # {}
             PROVE  FALSE
  OBVIOUS
<1>1. PICK x \in Nat \ S : \A y \in Nat \ S : x <= y
  BY LeastNatural
<1>2. x # 0 /\ x - 1 \in Nat /\ x - 1 \in S
  BY <1>1
<1> QED
  BY <1>1, <1>2

\* The sum query_all_cost makes, shard by shard.
NextTotal(g, i, profiles, k) ==
  IF i = 0 THEN ZeroCost ELSE AddCost(g[i - 1], CostFor(profiles[i], k))

Sums(g, n, profiles, k) == g = [i \in 0..n |-> NextTotal(g, i, profiles, k)]

Totals(profiles, k) == CHOOSE g : Sums(g, Len(profiles), profiles, k)

LEMMA SumsExist ==
  ASSUME NEW profiles \in Seq(CostProfile), NEW k \in Nat
  PROVE  \E g : Sums(g, Len(profiles), profiles, k)
<1> DEFINE N == Len(profiles)
           S == {m \in Nat : m <= N => \E g : Sums(g, m, profiles, k)}
<1>1. N \in Nat
  OBVIOUS
<1> HIDE DEF N
<1>2. 0 \in S
  <2> DEFINE g == [i \in 0..0 |-> ZeroCost]
  <2>1. \A i \in 0..0 : NextTotal(g, i, profiles, k) = ZeroCost
    BY DEF NextTotal
  <2>2. Sums(g, 0, profiles, k)
    BY <2>1 DEF Sums
  <2> QED
    BY <2>2
<1>3. ASSUME NEW m \in Nat, m \in S
      PROVE  m + 1 \in S
  <2> SUFFICES ASSUME m + 1 <= N
               PROVE  \E g : Sums(g, m + 1, profiles, k)
    OBVIOUS
  <2>1. m <= N
    BY <1>1
  <2>2. PICK g : Sums(g, m, profiles, k)
    BY <1>3, <2>1
  <2> DEFINE last == AddCost(g[m], CostFor(profiles[m + 1], k))
             h == [i \in 0..(m + 1) |-> IF i = m + 1 THEN last ELSE g[i]]
  <2>3. \A i \in 0..m : g[i] = NextTotal(g, i, profiles, k)
    BY <2>2 DEF Sums
  <2>4. ASSUME NEW i \in 0..(m + 1)
        PROVE  h[i] = NextTotal(h, i, profiles, k)
    <3>1. CASE i = m + 1
      <4>1. /\ i # 0
            /\ i - 1 = m
            /\ m \in 0..(m + 1)
            /\ m # m + 1
        BY <3>1
      <4>2. h[i] = last /\ h[i - 1] = g[m]
        BY <3>1, <4>1
      <4> QED
        BY <3>1, <4>1, <4>2 DEF NextTotal
    <3>2. CASE i # m + 1
      <4>1. /\ i \in 0..m
            /\ i # 0 => i - 1 \in 0..(m + 1) /\ i - 1 # m + 1
        BY <3>2
      <4>2. h[i] = g[i]
        BY <3>2
      <4>3. i # 0 => h[i - 1] = g[i - 1]
        BY <4>1
      <4> QED
        BY <2>3, <4>1, <4>2, <4>3 DEF NextTotal
    <3> QED
      BY <3>1, <3>2
  <2>5. h = [i \in 0..(m + 1) |-> h[i]]
    OBVIOUS
  <2> HIDE DEF h
  <2>6. Sums(h, m + 1, profiles, k)
    BY <2>4, <2>5 DEF Sums
  <2> QED
    BY <2>6
<1> HIDE DEF S
<1>4. N \in S
  BY <1>1, <1>2, <1>3, Induction
<1> QED
  BY <1>1, <1>4 DEF S, N

\* The sums are costs, each what the one before and the next shard's worst case make.
LEMMA TotalsAre ==
  ASSUME NEW profiles \in Seq(CostProfile), NEW k \in Nat
  PROVE  /\ Totals(profiles, k)[0] = ZeroCost
         /\ \A i \in 1..Len(profiles) :
              Totals(profiles, k)[i] = AddCost(Totals(profiles, k)[i - 1], CostFor(profiles[i], k))
         /\ \A i \in 0..Len(profiles) : Totals(profiles, k)[i] \in Cost
<1> DEFINE N == Len(profiles)
           T == Totals(profiles, k)
           S == {m \in Nat : m <= N => T[m] \in Cost}
<1>1. N \in Nat /\ DOMAIN profiles = 1..N
  OBVIOUS
<1>2. Sums(T, N, profiles, k)
  BY SumsExist DEF Totals
<1> HIDE DEF N, T
<1>3. \A i \in 0..N : T[i] = NextTotal(T, i, profiles, k)
  BY <1>2 DEF Sums
<1>4. T[0] = ZeroCost
  BY <1>1, <1>3 DEF NextTotal
<1>5. \A i \in 1..N : T[i] = AddCost(T[i - 1], CostFor(profiles[i], k))
  <2>1. \A i \in 1..N : i \in 0..N /\ i # 0
    BY <1>1
  <2> QED
    BY <1>3, <2>1 DEF NextTotal
<1>6. 0 \in S
  BY <1>4, CostsAreCosts
<1>7. ASSUME NEW m \in Nat, m \in S
      PROVE  m + 1 \in S
  <2> SUFFICES ASSUME m + 1 <= N
               PROVE  T[m + 1] \in Cost
    OBVIOUS
  <2>1. /\ m + 1 \in 1..N
        /\ m <= N
        /\ (m + 1) - 1 = m
    BY <1>1
  <2>2. T[m] \in Cost
    BY <1>7, <2>1
  <2>3. profiles[m + 1] \in CostProfile
    BY <1>1, <2>1
  <2>4. T[m + 1] = AddCost(T[m], CostFor(profiles[m + 1], k))
    BY <1>5, <2>1
  <2> QED
    BY <2>2, <2>3, <2>4, CostsAreCosts
<1> HIDE DEF S
<1>8. \A m \in Nat : m \in S
  BY <1>6, <1>7, Induction
<1>9. \A i \in 0..N : T[i] \in Cost
  BY <1>1, <1>8 DEF S
<1> QED
  BY <1>4, <1>5, <1>9 DEF N, T

\* No attribute of c is over that of d.
Below(c, d) == c.tokens <= d.tokens /\ c.latency_ms <= d.latency_ms /\ c.usd <= d.usd

LEMMA BelowAdds ==
  ASSUME NEW c \in Cost, NEW d \in Cost, NEW e \in Cost, Below(c, d)
  PROVE  Below(c, AddCost(d, e))
BY DEF Below, AddCost, Cost

\* A sum over more shards is no less.
LEMMA TotalsGrow ==
  ASSUME NEW profiles \in Seq(CostProfile), NEW k \in Nat, NEW i \in 0..Len(profiles),
         NEW c \in Cost, Below(c, Totals(profiles, k)[i])
  PROVE  \A j \in i..Len(profiles) : Below(c, Totals(profiles, k)[j])
<1> DEFINE N == Len(profiles)
           T == Totals(profiles, k)
           S == {m \in Nat : i + m <= N => Below(c, T[i + m])}
<1>1. N \in Nat /\ DOMAIN profiles = 1..N /\ i \in 0..N
  OBVIOUS
<1>2. /\ \A j \in 1..N : T[j] = AddCost(T[j - 1], CostFor(profiles[j], k))
      /\ \A j \in 0..N : T[j] \in Cost
  BY TotalsAre
<1>3. Below(c, T[i])
  OBVIOUS
<1> HIDE DEF N, T
<1>4. 0 \in S
  BY <1>1, <1>3
<1>5. ASSUME NEW m \in Nat, m \in S
      PROVE  m + 1 \in S
  <2> SUFFICES ASSUME i + (m + 1) <= N
               PROVE  Below(c, T[i + (m + 1)])
    OBVIOUS
  <2> DEFINE j == i + (m + 1)
  <2>1. /\ j \in 1..N
        /\ j - 1 = i + m
        /\ i + m \in 0..N
        /\ i + m <= N
    BY <1>1
  <2> HIDE DEF j
  <2>2. Below(c, T[i + m]) /\ T[i + m] \in Cost
    BY <1>2, <1>5, <2>1
  <2>3. CostFor(profiles[j], k) \in Cost
    BY <1>1, <2>1, CostsAreCosts
  <2>4. T[j] = AddCost(T[i + m], CostFor(profiles[j], k))
    BY <1>2, <2>1
  <2>5. Below(c, T[j])
    BY <2>2, <2>3, <2>4, BelowAdds
  <2> QED
    BY <2>5 DEF j
<1> HIDE DEF S
<1>6. \A m \in Nat : m \in S
  BY <1>4, <1>5, Induction
<1>7. ASSUME NEW j \in i..N
      PROVE  Below(c, T[j])
  <2>1. j - i \in Nat /\ i + (j - i) = j /\ j <= N
    BY <1>1
  <2>2. j - i \in S
    BY <1>6, <2>1
  <2> QED
    BY <2>1, <2>2 DEF S
<1> QED
  BY <1>7 DEF N, T

\* query_all_cost is the last of its sums.
LEMMA QueryAllIsTheTotal ==
  ASSUME NEW profiles, NEW k
  PROVE  QueryAllCost(profiles, k) = Totals(profiles, k)[Len(profiles)]
BY DEF QueryAllCost, Totals, Sums, NextTotal

\* A saving on a part of the baseline is a percentage.
LEMMA PercentOfAPart ==
  ASSUME NEW b \in Nat, NEW a \in 0..b
  PROVE  SavingsPct(a, b) \in 0..100
<1>1. CASE b = 0
  BY <1>1 DEF SavingsPct
<1>2. CASE b # 0
  <2> DEFINE x == (b - a) * 100
             q == x \div b
  <2>1. b > 0 /\ x \in Int /\ x >= 0 /\ x <= b * 100
    BY <1>2
  <2>2. q \in Int /\ b * q <= x /\ x < b * (q + 1)
    <3> HIDE DEF x
    <3> QED
      BY <2>1
  <2> HIDE DEF x
  <2>3. SavingsPct(a, b) = q
    BY <2>1 DEF SavingsPct, x
  <2> HIDE DEF q
  <2>4. ~(q > 100)
    <3> SUFFICES ASSUME q >= 101 PROVE FALSE
      BY <2>2
    <3>1. b * 101 <= b * q
      BY <2>1, <2>2
    <3> QED
      BY <2>1, <2>2, <3>1
  <2>5. ~(q < 0)
    <3> SUFFICES ASSUME q + 1 <= 0 PROVE FALSE
      BY <2>2
    <3>1. b * (q + 1) <= 0
      BY <2>1, <2>2
    <3> QED
      BY <2>1, <2>2, <3>1
  <2> QED
    BY <2>2, <2>3, <2>4, <2>5
<1> QED
  BY <1>1, <1>2

\* The profiles of a ranking, in its order.
ProfilesOf(r) == [i \in DOMAIN r |-> Profile[r[i]]]

LEMMA ProfilesOfRanking ==
  ASSUME NEW r \in Seq(Shards)
  PROVE  /\ ProfilesOf(r) \in Seq(CostProfile)
         /\ Len(ProfilesOf(r)) = Len(r)
         /\ \A i \in 1..Len(r) : ProfilesOf(r)[i] = Profile[r[i]]
<1> DEFINE n == Len(r)
           f == ProfilesOf(r)
<1>1. n \in Nat /\ DOMAIN r = 1..n /\ \A i \in 1..n : r[i] \in Shards
  OBVIOUS
<1>2. \A i \in 1..n : Profile[r[i]] \in CostProfile
  BY <1>1, RouterAssumption DEF RouterAssumption
<1>3. f \in [1..n -> CostProfile] /\ \A i \in 1..n : f[i] = Profile[r[i]]
  BY <1>1, <1>2 DEF ProfilesOf
<1> HIDE DEF n, f
<1>4. f \in Seq(CostProfile) /\ Len(f) = n
  BY <1>1, <1>3, FunctionIsSequence
<1> QED
  BY <1>3, <1>4 DEF n, f

\* What is spent is within the worst case of the shards already considered.
SpentInv == Below(spent, Totals(ProfilesOf(ranked), K)[Visited])

\* A shard listed without a charge.
LEMMA SpentAfterEntries ==
  ASSUME IInv, SpentInv, IInv', UNCHANGED <<ranked, spent>>, Visited <= Visited'
  PROVE  SpentInv'
<1> DEFINE P == ProfilesOf(ranked)
<1>1. P \in Seq(CostProfile) /\ Len(P) = Len(ranked)
  BY ProfilesOfRanking DEF IInv, TypeOK
<1>2. /\ Visited \in Nat
      /\ Visited' \in Nat
      /\ Visited <= Len(ranked)
      /\ Visited' <= Len(ranked)
      /\ Len(ranked) \in Nat
  BY DEF IInv, TypeOK, PrefixInv, Visited
<1>3. spent \in Cost /\ K \in Nat /\ Below(spent, Totals(P, K)[Visited])
  BY RouterAssumption DEF IInv, TypeOK, RouterAssumption, SpentInv
<1> HIDE DEF P
<1>4. \A j \in Visited..Len(P) : Below(spent, Totals(P, K)[j])
  <2>1. Visited \in 0..Len(P)
    BY <1>1, <1>2
  <2> QED
    BY <1>1, <1>3, <2>1, TotalsGrow
<1>5. Visited' \in Visited..Len(P)
  BY <1>1, <1>2
<1>6. Below(spent, Totals(P, K)[Visited'])
  BY <1>4, <1>5
<1> QED
  BY <1>6 DEF SpentInv, P

\* A search that returns at most k results costs no more than one that returns k.
LEMMA SpentAfterContact ==
  ASSUME IInv, SpentInv, pc = "visit", More, NEW n \in 0..K, Contact(Current, n),
         UNCHANGED ranked
  PROVE  SpentInv'
<1> DEFINE P == ProfilesOf(ranked)
           T == Totals(P, K)
           v == Visited
<1>1. /\ P \in Seq(CostProfile)
      /\ Len(P) = Len(ranked)
      /\ \A i \in 1..Len(ranked) : P[i] = Profile[ranked[i]]
  BY ProfilesOfRanking DEF IInv, TypeOK
<1>2. v \in Nat /\ v + 1 \in 1..Len(ranked) /\ Profile[Current] \in CostProfile
  BY CurrentIsPermitted DEF IInv
<1>3. spent \in Cost /\ K \in Nat /\ n \in Nat /\ Below(spent, T[v])
  BY RouterAssumption DEF IInv, TypeOK, RouterAssumption, SpentInv
<1>4. spent' = AddCost(spent, CostFor(Profile[Current], n)) /\ Visited' = v + 1
  BY DEF Contact, Visited, IInv, TypeOK
<1>5. Current = ranked[v + 1]
  BY DEF Current
<1> DEFINE p == Profile[Current]
<1> HIDE DEF P
<1>6. T[v + 1] = AddCost(T[v], CostFor(p, K)) /\ T[v] \in Cost
  <2>1. P[v + 1] = p
    BY <1>1, <1>2, <1>5
  <2>2. v + 1 \in 1..Len(P) /\ v \in 0..Len(P) /\ (v + 1) - 1 = v
    BY <1>1, <1>2
  <2> HIDE DEF p, v
  <2>3. T[v + 1] = AddCost(T[(v + 1) - 1], CostFor(P[v + 1], K)) /\ T[v] \in Cost
    BY <1>1, <1>3, <2>2, TotalsAre
  <2> QED
    BY <2>1, <2>2, <2>3
<1>7. Below(AddCost(spent, CostFor(p, n)), AddCost(T[v], CostFor(p, K)))
  <2>1. p.tokens_per_result \in Nat /\ p.latency_ms \in Nat /\ p.usd_per_query \in Nat
    BY <1>2 DEF CostProfile
  <2>2. p.tokens_per_result * n <= p.tokens_per_result * K
    BY <1>3, <2>1, TokensGrow
  <2> DEFINE d == T[v]
             x == p.tokens_per_result * n
             y == p.tokens_per_result * K
  <2>3. x \in Nat /\ y \in Nat /\ x <= y
    BY <1>3, <2>1, <2>2
  <2>4. /\ CostFor(p, n) = [latency_ms |-> p.latency_ms, usd |-> p.usd_per_query, tokens |-> x]
        /\ CostFor(p, K) = [latency_ms |-> p.latency_ms, usd |-> p.usd_per_query, tokens |-> y]
    BY DEF CostFor
  <2>5. d \in Cost /\ Below(spent, d)
    BY <1>3, <1>6
  <2>6. Below(AddCost(spent, CostFor(p, n)), AddCost(d, CostFor(p, K)))
    <3> HIDE DEF d, x, y, p
    <3>1. /\ AddCost(spent, CostFor(p, n)).tokens = spent.tokens + x
          /\ AddCost(spent, CostFor(p, n)).latency_ms = spent.latency_ms + p.latency_ms
          /\ AddCost(spent, CostFor(p, n)).usd = spent.usd + p.usd_per_query
      BY <2>4 DEF AddCost
    <3>2. /\ AddCost(d, CostFor(p, K)).tokens = d.tokens + y
          /\ AddCost(d, CostFor(p, K)).latency_ms = d.latency_ms + p.latency_ms
          /\ AddCost(d, CostFor(p, K)).usd = d.usd + p.usd_per_query
      BY <2>4 DEF AddCost
    <3>3. /\ spent.tokens \in Nat /\ spent.latency_ms \in Nat /\ spent.usd \in Nat
          /\ d.tokens \in Nat /\ d.latency_ms \in Nat /\ d.usd \in Nat
      BY <1>3, <2>5 DEF Cost
    <3>4. spent.tokens <= d.tokens /\ spent.latency_ms <= d.latency_ms /\ spent.usd <= d.usd
      BY <2>5 DEF Below
    <3> QED
      BY <2>1, <2>3, <3>1, <3>2, <3>3, <3>4 DEF Below
  <2> QED
    BY <2>6
<1>8. ProfilesOf(ranked)' = P
  BY DEF P
<1> HIDE DEF T
<1>9. Below(spent', T[v + 1])
  BY <1>4, <1>6, <1>7
<1>10. Totals(ProfilesOf(ranked), K)' = T
  BY <1>8 DEF T
<1> QED
  BY <1>4, <1>9, <1>10 DEF SpentInv

LEMMA SpentInvariant ==
  ASSUME IInv, SpentInv, [Next]_vars
  PROVE  SpentInv'
<1>1. IInv'
  BY StepInvariant
<1>2. Visited \in Nat
  BY DEF IInv, TypeOK, Visited
<1>3. CASE \E n \in 0..K : ContactFreely(n) \/ ContactUnderCap(n) \/ ContactAdaptively(n)
  BY <1>3, SpentAfterContact DEF ContactFreely, ContactUnderCap, ContactAdaptively, At
<1>4. CASE Rank
  <2>1. ranked' \in Seq(Shards)
    BY <1>1 DEF IInv, TypeOK
  <2>2. spent' = ZeroCost /\ Visited' = 0
    BY <1>4 DEF Rank, IInv, RankedInv, AdaptiveInv, Visited
  <2> DEFINE r == ranked'
  <2>3. r \in Seq(Shards)
    BY <2>1
  <2> HIDE DEF r
  <2>4. ProfilesOf(r) \in Seq(CostProfile) /\ K \in Nat
    BY <2>3, ProfilesOfRanking, RouterAssumption DEF RouterAssumption
  <2>5. Totals(ProfilesOf(r), K)[0] = ZeroCost
    BY <2>4, TotalsAre
  <2>6. Below(ZeroCost, ZeroCost)
    BY DEF Below, ZeroCost
  <2>7. ProfilesOf(ranked)' = ProfilesOf(r)
    BY DEF ProfilesOf, r
  <2>8. Totals(ProfilesOf(ranked), K)' = Totals(ProfilesOf(r), K)
    BY <2>7
  <2> QED
    BY <2>2, <2>5, <2>6, <2>8 DEF SpentInv
<1>5. CASE SkipOutsideTopN \/ SkipOverCap
  <2>1. /\ pc = "visit"
        /\ More
        /\ UNCHANGED <<ranked, spent>>
        /\ \E reason \in Reasons : considered' = Append(considered, Skipped(Current, reason))
    BY <1>5 DEF SkipOutsideTopN, SkipOverCap, Skip, At, Reasons
  <2>2. Visited <= Visited'
    BY <1>2, <2>1 DEF Visited, IInv, TypeOK
  <2> QED
    BY <1>1, <2>1, <2>2, SpentAfterEntries
<1>6. CASE ReturnAdaptive
  <2>1. pc' = "done" /\ UNCHANGED <<ranked, spent>>
    BY <1>6 DEF ReturnAdaptive
  <2>2. Visited' = Len(ranked)
    BY <1>1, <2>1 DEF IInv, DoneInv, Visited
  <2>3. Visited <= Visited'
    BY <2>2 DEF IInv, PrefixInv, Visited
  <2> QED
    BY <1>1, <2>1, <2>3, SpentAfterEntries
<1>7. ASSUME UNCHANGED <<ranked, considered, spent>>
      PROVE  SpentInv'
  <2>1. Visited <= Visited'
    BY <1>2, <1>7 DEF Visited
  <2> QED
    BY <1>1, <1>7, <2>1, SpentAfterEntries
<1>8. CASE RejectStrategy \/ StopOverBudget \/ NothingToVisit \/ SearchRaises
  BY <1>7, <1>8 DEF RejectStrategy, StopOverBudget, NothingToVisit, SearchRaises
<1>9. CASE \E n \in 0..K : RefuseRound(n)
  BY <1>7, <1>9 DEF RefuseRound
<1>10. CASE \E conf \in Confidences :
              (\E should_expand \in BOOLEAN : JudgeRound(conf, should_expand)) \/ ReturnJudged(conf)
  BY <1>7, <1>10 DEF JudgeRound, ReturnJudged
<1>11. CASE UNCHANGED vars
  BY <1>7, <1>11 DEF vars
<1> QED
  BY <1>3, <1>4, <1>5, <1>6, <1>8, <1>9, <1>10, <1>11 DEF Next, Terminated

\* A finished call has spent no more than contacting every permitted shard would have
\* cost, so every percentage /cost shows lies between 0 and 100.
THEOREM SavingsAreTrue == Spec => []SavingsAreReal
<1>1. ASSUME Init
      PROVE  SpentInv
  <2>1. ranked \in Seq(Shards) /\ spent = ZeroCost /\ Visited = 0
    BY <1>1 DEF Init, Visited
  <2>2. ProfilesOf(ranked) \in Seq(CostProfile) /\ K \in Nat
    BY <2>1, ProfilesOfRanking, RouterAssumption DEF RouterAssumption
  <2>3. Totals(ProfilesOf(ranked), K)[0] = ZeroCost
    BY <2>2, TotalsAre
  <2> QED
    BY <2>1, <2>3 DEF SpentInv, Below, ZeroCost
<1>2. IInv /\ SpentInv /\ [Next]_vars => (IInv /\ SpentInv)'
  BY StepInvariant, SpentInvariant
<1>3. ASSUME IInv, SpentInv
      PROVE  SavingsAreReal
  <2> SUFFICES ASSUME pc = "done"
               PROVE  /\ SavingsPct(spent.tokens, Baseline.tokens) \in 0..100
                      /\ SavingsPct(spent.latency_ms, Baseline.latency_ms) \in 0..100
                      /\ SavingsPct(spent.usd, Baseline.usd) \in 0..100
    BY DEF SavingsAreReal
  <2> DEFINE P == ProfilesOf(ranked)
             b == Totals(P, K)[Len(P)]
  <2>1. P \in Seq(CostProfile) /\ Len(P) = Len(ranked)
    BY <1>3, ProfilesOfRanking DEF IInv, TypeOK
  <2>2. Visited = Len(ranked)
    BY <1>3 DEF IInv, DoneInv, Visited
  <2>3. Baseline = QueryAllCost(P, K)
    BY DEF Baseline, ProfilesOf
  <2> HIDE DEF P
  <2>4. Baseline = b
    BY <2>3, QueryAllIsTheTotal
  <2>5. Below(spent, b)
    BY <1>3, <2>1, <2>2 DEF SpentInv, P
  <2>6. b \in Cost
    <3>1. K \in Nat /\ Len(P) \in 0..Len(P)
      BY <2>1, RouterAssumption DEF RouterAssumption
    <3> QED
      BY <2>1, <3>1, TotalsAre
  <2>7. spent \in Cost
    BY <1>3 DEF IInv, TypeOK
  <2> HIDE DEF b
  <2>8. /\ b.tokens \in Nat /\ spent.tokens \in 0..b.tokens
        /\ b.latency_ms \in Nat /\ spent.latency_ms \in 0..b.latency_ms
        /\ b.usd \in Nat /\ spent.usd \in 0..b.usd
    BY <2>5, <2>6, <2>7 DEF Cost, Below
  <2> QED
    BY <2>4, <2>8, PercentOfAPart
<1> QED
  BY <1>1, <1>2, <1>3, InitInvariant, PTL DEF Spec

===================================================================================
