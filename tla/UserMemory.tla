------------------------------ MODULE UserMemory ------------------------------
(***************************************************************************)
(* What the address spaces promise to programs: each has memory of its     *)
(* own, which only its own stores change; fork gives the child a copy, and *)
(* what is unmapped starts afresh.                                         *)
(***************************************************************************)
CONSTANTS
  Mms,       \* address spaces
  Vas,       \* virtual pages
  Vals,      \* what programs store
  Fresh(_),  \* what a page holds when it is first touched
  Gone       \* the memory of a space that does not exist

VARIABLE space

Init == space = [m \in Mms |-> Gone]

Store(m, va, v) ==
  /\ space[m] # Gone
  /\ space' = [space EXCEPT ![m][va] = v]

Fork(m, n) ==
  /\ space[m] # Gone /\ space[n] = Gone
  /\ space' = [space EXCEPT ![n] = space[m]]

Unmap(m, S) ==
  /\ space[m] # Gone
  /\ space' = [space EXCEPT ![m] = [va \in Vas |-> IF va \in S THEN Fresh(va) ELSE @[va]]]

Create(m) ==
  /\ space[m] = Gone
  /\ space' = [space EXCEPT ![m] = [va \in Vas |-> Fresh(va)]]

Exit(m) == space[m] # Gone /\ space' = [space EXCEPT ![m] = Gone]

Next ==
  \E m \in Mms :
    \/ \E va \in Vas, v \in Vals : Store(m, va, v)
    \/ \E n \in Mms : Fork(m, n)
    \/ \E S \in SUBSET Vas : Unmap(m, S)
    \/ Create(m) \/ Exit(m)

Spec == Init /\ [][Next]_space
=============================================================================
