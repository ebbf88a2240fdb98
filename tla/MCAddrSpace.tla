----------------------------- MODULE MCAddrSpace -----------------------------
(***************************************************************************)
(* AddrSpace for TLC: page 0 is writable file data, page 1 is read-only.   *)
(***************************************************************************)
EXTENDS AddrSpace, TLC

MCRegion == [va \in Vas |-> [w |-> va = 0, init |-> IF va = 0 THEN 7 ELSE 0]]
BothPages == <<0, 1>>
Sym == Permutations(Cpus) \cup Permutations(Mms)
=============================================================================
