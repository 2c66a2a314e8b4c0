----------------------------- MODULE MCVerbSet -----------------------------
(***************************************************************************)
(* All sets of the nine verbs.                                             *)
(***************************************************************************)
EXTENDS VerbSet

MCLast == 8
=============================================================================
