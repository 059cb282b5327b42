--------------------------------- MODULE MCJudges ---------------------------------
(***************************************************************************)
(* Two threads that search while a key is set.                             *)
(***************************************************************************)
EXTENDS Judges

CONSTANTS t1, t2

===================================================================================
