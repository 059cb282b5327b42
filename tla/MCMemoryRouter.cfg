SPECIFICATION Spec
CONSTANTS
  episodic = episodic
  semantic = semantic
  remote = remote
  vault = vault
  unrestricted = unrestricted
  a = a
  b = b
  c = c
  Shards <- MCShards
  Profile <- MCProfile
  AllowedScopes <- MCAllowedScopes
  Unrestricted = unrestricted
  Scopes <- MCScopes
  Budgets <- MCBudgets
  K = 2
  TopN = 2
  Confidences = {0, 1, 2}
  Tau = 2
INVARIANTS TypeOK DeniedStaysOut HardCeiling ProgressiveCap TraceIsComplete TraceIsCharged SkipReasonsAreTrue RoundsReplayExpansion NeverLeftEmpty SavingsAreReal
PROPERTY OverrunIsOneShard
