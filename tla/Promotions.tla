-------------------------------- MODULE Promotions --------------------------------
(***************************************************************************)
(* suggest_promotions (lulu/attention.py): which tools have earned to go   *)
(* from ask to allow, from permissions.jsonl.  A log is the sequence of    *)
(* its records, of which the tool and the outcome are kept.                *)
(***************************************************************************)
EXTENDS Permissions, Naturals, SequencesExt

\* One record: "auto_allowed" and "auto_denied" are nobody's answer and count for nothing.
Counted(streaks, record) ==
  CASE record.outcome = "approved" -> [streaks EXCEPT ![record.tool] = @ + 1]
    [] record.outcome = "denied"   -> [streaks EXCEPT ![record.tool] = 0]
    [] OTHER                       -> streaks

ToolsIn(records) == {record.tool : record \in ToSet(records)}

Streaks(records) == FoldLeft(Counted, [tool \in ToolsIn(records) |-> 0], records)

\* What the mode's preset says of the tool now, or the fail-safe ASK.
CurrentDecision(mode, tool) == IF tool \in PresetTools THEN MODE_PRESETS[mode][tool] ELSE "ask"

Suggestions(records, min_streak, mode) ==
  {tool \in ToolsIn(records) : /\ Streaks(records)[tool] >= min_streak
                               /\ CurrentDecision(mode, tool) # "allow"}

-----------------------------------------------------------------------------------
\* What the docstring promises of one tool: a human was asked min_streak times or more, said
\* yes each of the last min_streak times, and the mode does not allow it already.
Answers(records, tool) ==
  SelectSeq(records, LAMBDA r : r.tool = tool /\ r.outcome \in {"approved", "denied"})

Earned(records, min_streak, mode, tool) ==
  LET answers == Answers(records, tool) IN
  /\ Len(answers) >= min_streak
  /\ \A i \in Len(answers) - min_streak + 1..Len(answers) : answers[i].outcome = "approved"
  /\ CurrentDecision(mode, tool) # "allow"

===================================================================================
