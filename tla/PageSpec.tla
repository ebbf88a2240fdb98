------------------------------ MODULE PageSpec ------------------------------
(***************************************************************************)
(* What the page allocator promises its clients: a page is handed out only *)
(* when nobody has a reference to it, alone or in a run of pages, and it   *)
(* can be handed out again exactly when the last reference is dropped.     *)
(***************************************************************************)
EXTENDS Naturals

CONSTANT Page

VARIABLE refs   \* the references to each page that are outstanding

Init == refs = [p \in Page |-> 0]

\* The pages of S go from no reference to one, or back.
Take(S) == /\ \A p \in S : refs[p] = 0
           /\ refs' = [p \in Page |-> IF p \in S THEN 1 ELSE refs[p]]

Drop(S) == /\ \A p \in S : refs[p] = 1
           /\ refs' = [p \in Page |-> IF p \in S THEN 0 ELSE refs[p]]

Share(p) == refs[p] > 0 /\ refs' = [refs EXCEPT ![p] = @ + 1]
Unshare(p) == refs[p] > 1 /\ refs' = [refs EXCEPT ![p] = @ - 1]

Next == \/ \E S \in SUBSET Page : Take(S) \/ Drop(S)
        \/ \E p \in Page : Share(p) \/ Unshare(p)

Spec == Init /\ [][Next]_refs
=============================================================================
