------------------------------ MODULE ScopedMemory --------------------------------
(***************************************************************************)
(* What lulu's memory promises, whatever it is made of: a write is asked   *)
(* for under a scope, kept for good if it is acknowledged, and told only   *)
(* to searches of that scope.  MemoryStore implements it.                  *)
(***************************************************************************)
EXTENDS Naturals

CONSTANTS Scopes, Writes

VARIABLES
  asked,  \* scope -> the writes asked for under it
  kept,   \* scope -> those on record
  acked,  \* those acknowledged
  told    \* scope -> those its searches were answered with

vars == <<asked, kept, acked, told>>

None == [s \in Scopes |-> {}]

Init == asked = None /\ kept = None /\ acked = {} /\ told = None

Ask(s, w) ==
  /\ \A r \in Scopes : w \notin asked[r]
  /\ asked' = [asked EXCEPT ![s] = @ \cup {w}]
  /\ UNCHANGED <<kept, acked, told>>

\* Threads of one process may put several writes on record at once.
Keep(s, ws) ==
  /\ ws \subseteq asked[s]
  /\ kept' = [kept EXCEPT ![s] = @ \cup ws]
  /\ UNCHANGED <<asked, acked, told>>

Ack(s, w) ==
  /\ w \in kept[s]
  /\ acked' = acked \cup {w}
  /\ UNCHANGED <<asked, kept, told>>

\* An answer may be dated, and may be ahead of the record: a write still being made.
Tell(s, ws) ==
  /\ ws \subseteq asked[s]
  /\ told' = [told EXCEPT ![s] = @ \cup ws]
  /\ UNCHANGED <<asked, kept, acked>>

Next ==
  \E s \in Scopes :
    \/ \E w \in Writes : Ask(s, w) \/ Ack(s, w)
    \/ \E ws \in SUBSET Writes : Keep(s, ws) \/ Tell(s, ws)

Spec == Init /\ [][Next]_vars

==================================================================================
