SPECIFICATION Spec
CONSTANTS
  t1 = t1
  t2 = t2
  server = server
  other = other
  episodic = episodic
  alice = alice
  bob = bob
  Threads = {t1, t2}
  ProcOf <- MCOneProcess
  Types = {episodic}
  Scopes = {alice, bob}
  MaxWrites = 2
  MaxStores = 4
  NoStore = NoStore
SYMMETRY SameServer
INVARIANTS TypeOK ScopesStayApart
PROPERTIES ImplementsScopedMemory
