SPECIFICATION Spec
CONSTANTS
  t1 = t1
  t2 = t2
  Threads = {t1, t2}
  Levels = {0, 1}
  Half = 1
  Malformed = Malformed
  NoAnswer = NoAnswer
  MaxKeys = 2
  MaxRounds = 2
INVARIANTS FallsBackWhenUnreachable 
