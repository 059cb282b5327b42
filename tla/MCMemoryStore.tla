------------------------------ MODULE MCMemoryStore -------------------------------
(***************************************************************************)
(* Two threads of one server, or two processes with a thread each; one     *)
(* scope or two.                                                           *)
(***************************************************************************)
EXTENDS MemoryStore, TLC

CONSTANTS t1, t2, server, other, episodic, alice, bob

MCOneProcess == t1 :> server @@ t2 :> server
MCTwoProcesses == t1 :> server @@ t2 :> other

SameServer == Permutations({t1, t2}) \cup Permutations({alice, bob})

==================================================================================
