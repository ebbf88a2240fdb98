------------------------------- MODULE MCSpinlock -------------------------------
(***************************************************************************)
(* Spinlock for TLC: one lock, three CPUs.                                 *)
(***************************************************************************)
EXTENDS Spinlock
=============================================================================
