SPECIFICATION Spec
CONSTANTS
  p1 = p1
  p2 = p2
  alice = alice
  bob = bob
  direct = direct
  detour = detour
  Procs = {p1, p2}
  SessionOf <- MCSessionOf
  Names = {direct}
  FileOf <- MCFileOf
  Modes = {"auto", "manual", "plan"}
  TTL = 2
  NoLock = NoLock
  Torn = Torn
  NoWrite = NoWrite
 
PROPERTIES  DeadSessionsBlockNothing
