------------------------------- MODULE MCLuluServer -------------------------------
(***************************************************************************)
(* Two threads serving the requests of one or two sessions.  The requests  *)
(* of a behaviour are all of one mix of kinds: turns and what is set or    *)
(* read beside them; all that needs no turn; or all that makes, loads or   *)
(* switches profiles, with no file to begin with, where the others have    *)
(* one for each profile but the default.                                   *)
(***************************************************************************)
EXTENDS LuluServer, TLC

CONSTANTS r1, r2, s1, s2, alice, bob, Mixes

VARIABLE mix   \* the kinds of requests in this behaviour

Symmetry == Permutations({r1, r2}) \cup Permutations({s1, s2}) \cup Permutations({alice, bob})

MCInit ==
  /\ Init
  /\ mix \in Mixes
  /\ disk = [p \in Profiles |-> IF p = Default \/ "new" \in mix THEN None
                              ELSE CHOOSE text \in Personas : text # DefaultPersona]

MCNext ==
  /\ Next
  /\ \A r \in Requests : request'[r].kind \in mix \cup {None}
  /\ UNCHANGED mix

MCSpec == MCInit /\ [][MCNext]_<<vars, mix>>

==================================================================================
