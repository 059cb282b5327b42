SPECIFICATION MCSpec
CONSTANTS
  r1 = r1
  r2 = r2
  s1 = s1
  s2 = s2
  alice = alice
  bob = bob
  Requests = {r1, r2}
  SessionIds = {s1, s2}
  Scopes = {alice, bob}
  Profiles = {"default", "terse"}
  Default = "default"
  Personas = {"standard", "short"}
  DefaultPersona = "standard"
  Blank = ""
  ModeChoices = {"auto_edits", "plan"}
  ServerMode = "auto_edits"
  Providers = {"anthropic"}
  Provider = "anthropic"
  JudgeKey = "jev"
  Kinds = {"turn", "create", "mode", "profile", "new", "key", "cost"}
  Mixes = {{"turn", "mode", "profile", "cost"}, {"create", "mode", "profile", "cost", "key"}, {"create", "profile", "new"}}
  MaxRequests = 4
  MaxIterations = 1
  None = None
SYMMETRY Symmetry
INVARIANTS AloneTurnsKeepTheirScope SessionsDoNotMix SessionsAreIndependent ProfilesKeepTheirPersona 
