-------------------------------- MODULE MCInspector -------------------------------
(***************************************************************************)
(* A user with two or three sessions.                                      *)
(***************************************************************************)
EXTENDS Inspector

===================================================================================
