------------------------------- MODULE MCSync --------------------------------
\* Small pools: model values for the tasks, and their symmetry.
EXTENDS Sync, TLC

Sym == Permutations(Tasks)
=============================================================================
