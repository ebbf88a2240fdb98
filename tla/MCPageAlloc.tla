---------------------------- MODULE MCPageAlloc -----------------------------
(***************************************************************************)
(* The instance of the page allocator for TLC; its constants are numbers,  *)
(* given in the configuration.                                             *)
(***************************************************************************)
EXTENDS PageAlloc
=============================================================================
