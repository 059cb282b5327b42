SPECIFICATION Spec
CONSTANTS
  w1 = w1
  w2 = w2
  Workers = {w1, w2}
  MaxTurns = 3
  MaxCalls = 1
  MaxIterations = 1
  Modes = {"auto"}
  Tools = {"made_up"}
  NoUsage = NoUsage
  None = None
SYMMETRY Symmetry
INVARIANTS PairedUnlessMixed TurnsAreRecordedWhole RemembersTheAnswer
CHECK_DEADLOCK FALSE
