SPECIFICATION Spec
CONSTANTS
  sonnet = sonnet
  opus = opus
  haiku = haiku
  Chain <- MCChain
  MaxDeltas = 2
  MaxCalls = 2
INVARIANTS FallsBackOnTransientErrors UsageEndsTheAnswer OnlyBrokenStreamsLeaveText
