SPECIFICATION Spec
CONSTANTS
  Modes = {"auto_edits", "plan"}
  ServerMode = "auto_edits"
  MaxSessions = 2
  MaxClicks = 4
  None = None
INVARIANTS TraceIsOfTheSession  ModeIsInForce
