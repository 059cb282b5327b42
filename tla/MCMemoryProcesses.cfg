SPECIFICATION Spec
CONSTANTS
  t1 = t1
  t2 = t2
  server = server
  other = other
  episodic = episodic
  alice = alice
  bob = bob
  Threads = {t1, t2}
  ProcOf <- MCTwoProcesses
  Types = {episodic}
  Scopes = {alice}
  MaxWrites = 3
  MaxStores = 2
  NoStore = NoStore
INVARIANTS ReadYourWrites AckedWritesPersist
