------------------------------- MODULE LockSpec -------------------------------
(***************************************************************************)
(* What the kernel expects of a spinlock: one holder at a time.  The other *)
(* modules take a critical section as one step because of this.            *)
(***************************************************************************)
CONSTANT Holders

VARIABLE holder   \* the set of those who hold the lock

Init == holder = {}

Acquire(h) == holder = {} /\ holder' = {h}
Release(h) == holder = {h} /\ holder' = {}

Next == \E h \in Holders : Acquire(h) \/ Release(h)

Spec == Init /\ [][Next]_holder
=============================================================================
