SPECIFICATION Spec
CONSTANTS
  w1 = w1
  w2 = w2
  Workers = {w1}
  MaxTurns = 1
  MaxCalls = 2
  MaxIterations = 2
  Modes = {"manual", "plan", "auto_edits", "auto"}
  Tools = {"read_file", "write_file", "bash", "made_up"}
  NoUsage = NoUsage
  None = None
INVARIANTS TypeOK EscalationsNeedAHuman UsageIsItsOwn
PROPERTIES TurnsEnd 
CHECK_DEADLOCK FALSE
