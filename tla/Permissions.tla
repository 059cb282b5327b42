------------------------------- MODULE Permissions --------------------------------
(***************************************************************************)
(* PermissionChecker.check (lulu/permissions.py) and the mode presets      *)
(* (lulu/attention.py), as operators: who may do what without asking.      *)
(***************************************************************************)

READ_ONLY_TOOLS == {"read_file", "glob", "grep"}
LOCKABLE_TOOLS == {"write_file", "edit_file"}
AttentionModes == {"manual", "plan", "auto_edits", "auto"}
Decisions == {"allow", "ask", "deny"}

\* MODE_PRESETS: side-effecting tools only.
PresetTools == LOCKABLE_TOOLS \cup {"bash"}
MODE_PRESETS == [mode \in AttentionModes |-> [tool \in PresetTools |->
  CASE mode = "manual" -> "ask"
    [] mode = "plan" -> "deny"
    [] mode = "auto_edits" -> IF tool = "bash" THEN "ask" ELSE "allow"
    [] mode = "auto" -> "allow"]]

\* assess_blast_radius: patterns over the command, any command may match one.
Flags(tool) == IF tool = "bash" THEN BOOLEAN ELSE {FALSE}

\* check_lock: the path of a write may be claimed by another session.
Contests(tool) == IF tool \in LOCKABLE_TOOLS THEN BOOLEAN ELSE {FALSE}

\* Mutant of Escalated: lock conflicts are left to the mode's preset.
EscalatedByBlastOnly(tool, flagged, contested) == tool = "bash" /\ flagged

\* The checks no mode skips: a flagged bash command (assess_blast_radius matched), or a
\* write to a file another session holds a live claim on.
Escalated(tool, flagged, contested) ==
  \/ tool = "bash" /\ flagged
  \/ tool \in LOCKABLE_TOOLS /\ contested

\* Mutant of Decide: the preset is consulted before the escalations.
DecidePresetFirst(mode, tool, flagged, contested) ==
  IF tool \in READ_ONLY_TOOLS THEN "allow"
  ELSE IF tool \in PresetTools THEN MODE_PRESETS[mode][tool]
  ELSE "ask"

\* check(): read-only, then the escalations, then the preset, then the fail-safe ASK.
Decide(mode, tool, flagged, contested) ==
  IF tool \in READ_ONLY_TOOLS THEN "allow"
  ELSE IF Escalated(tool, flagged, contested) THEN "ask"
  ELSE IF tool \in PresetTools THEN MODE_PRESETS[mode][tool]
  ELSE "ask"

==================================================================================
