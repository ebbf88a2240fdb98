------------------------------ MODULE MCProcess ------------------------------
(***************************************************************************)
(* Process for TLC: a static program, one with an interpreter and a file   *)
(* that is none, and heap memory that was fresh or a struct process before,*)
(* which leaves no owned images behind.                                    *)
(***************************************************************************)
EXTENDS Process, TLC

GoodAndBad == {[main |-> "elf", interp |-> "none"], [main |-> "elf", interp |-> "ok"],
               [main |-> "bad", interp |-> "none"]}
Clean == {{}}
Sym == Permutations(Tasks) \cup Permutations(Procs) \cup Permutations(Bufs)
=============================================================================
