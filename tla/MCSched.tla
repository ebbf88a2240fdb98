------------------------------ MODULE MCSched ------------------------------
(***************************************************************************)
(* Instances of the scheduler model for TLC: the workloads.                *)
(***************************************************************************)
EXTENDS SchedInv

\* User tasks the shell loads and unloads, that never block.
NoBlockOps == {"yield", "exit", "load", "kill"}

\* User tasks under init and kernel tasks that make, wait for, park and wake one another.
TaskOps == {"exit", "boot", "clone", "wait4", "sleep", "park", "kthread"}

\* User tasks that sleep.
SleepOps == {"load", "sleep", "exit"}
=============================================================================
