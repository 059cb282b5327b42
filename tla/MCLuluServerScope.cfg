SPECIFICATION MCSpec
CONSTANTS
  r1 = r1
  r2 = r2
  s1 = s1
  s2 = s2
  alice = alice
  bob = bob
  Requests = {r1, r2}
  SessionIds = {s1}
  Scopes = {alice, bob}
  Profiles = {"default"}
  Default = "default"
  Personas = {"standard", "short"}
  DefaultPersona = "standard"
  Blank = ""
  ModeChoices = {"auto_edits"}
  ServerMode = "auto_edits"
  Providers = {"anthropic"}
  Provider = "anthropic"
  JudgeKey = "jev"
  Kinds = {"turn"}
  Mixes = {{"turn"}}
  MaxRequests = 3
  MaxIterations = 1
  None = None
SYMMETRY Symmetry
INVARIANTS TurnsKeepTheirScope
