------------------------------- MODULE AuditedCalls -------------------------------
(***************************************************************************)
(* What permissions.jsonl promises of the tool calls, whatever the loop,   *)
(* the human and the tools do and wherever a process dies: a call gets one *)
(* record or none, a record stands, and a call is run once at most, after  *)
(* its record and only if that permits it.                                 *)
(***************************************************************************)

CONSTANT Calls

VARIABLES
  record,   \* call -> the outcome on record, or "none"
  ran       \* the calls handed to a tool

Permitting == {"auto_allowed", "approved"}
Outcomes == Permitting \cup {"auto_denied", "denied"}

Init == record = [c \in Calls |-> "none"] /\ ran = {}

Record(c, outcome) ==
  /\ record[c] = "none"
  /\ record' = [record EXCEPT ![c] = outcome]
  /\ UNCHANGED ran

Run(c) ==
  /\ record[c] \in Permitting /\ c \notin ran
  /\ ran' = ran \cup {c}
  /\ UNCHANGED record

Next == \E c \in Calls : Run(c) \/ \E outcome \in Outcomes : Record(c, outcome)

Spec == Init /\ [][Next]_<<record, ran>>

===================================================================================
