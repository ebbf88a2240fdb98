------------------------------- MODULE MCFiles -------------------------------
(***************************************************************************)
(* Files for TLC: one built-in file, and a name without '/'.               *)
(***************************************************************************)
EXTENDS Files

MCBuiltins == <<[path |-> "/b", bytes |-> <<7, 8, 9>>]>>
=============================================================================
