------------------------------- MODULE MCAgentTurn --------------------------------
(***************************************************************************)
(* Two workers on one session, or one.  And what suggest_promotions makes  *)
(* of every permissions log of four records.                               *)
(***************************************************************************)
EXTENDS AgentTurn, TLC

CONSTANTS w1, w2

Symmetry == Permutations({w1, w2})

P == INSTANCE Promotions

Records == [tool : {"bash", "made_up"}, outcome : {"auto_denied", "approved", "denied"}]

\* The loop over the log finds the tools that have earned it and no others.
ASSUME PromotionsAreEarned ==
  \A records \in SeqOf(Records, 4), min_streak \in 1..3, mode \in AttentionModes :
    P!Suggestions(records, min_streak, mode) =
      {tool \in P!ToolsIn(records) : P!Earned(records, min_streak, mode, tool)}

==================================================================================
