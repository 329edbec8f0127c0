---------------------------- MODULE MCSharedCalls ----------------------------
(***************************************************************************)
(* Finite instances of SharedCalls, with model values for callers and keys.*)
(***************************************************************************)
EXTENDS SharedCalls
=============================================================================
