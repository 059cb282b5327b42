------------------------------- MODULE MCModelChain -------------------------------
(***************************************************************************)
(* A model with two fallbacks.                                             *)
(***************************************************************************)
EXTENDS ModelChain

CONSTANTS sonnet, opus, haiku

MCChain == <<sonnet, opus, haiku>>

===================================================================================
