------------------------------- MODULE Spinlock -------------------------------
(***************************************************************************)
(* A spinlock of src/src/kernel/spinlock.c, taken by threads and by the    *)
(* interrupt handler of several CPUs with spin_lock_irqsave().  The        *)
(* exclusive load and the exclusive store are steps of their own; a store  *)
(* succeeds only while the CPU's exclusive monitor is set, which every     *)
(* store to the lock clears, and may also fail for no reason.  A thread    *)
(* may be in a system call, where interrupts are masked already.           *)
(***************************************************************************)
EXTENDS Naturals, FiniteSets

CONSTANT Cpus

Contexts == {"thread", "irq"}
Users == Cpus \X Contexts
Places == {"out", "load", "store", "spin", "in", "restore"}

VARIABLES
  value,     \* lock->value
  monitor,   \* the CPUs whose exclusive monitor is set
  pc,        \* where the thread and the handler of each CPU are
  flags,     \* the contexts of each CPU that have saved "interrupts masked"
  masked,    \* the CPUs with interrupts masked
  preempt,   \* the CPU's count of sched_preempt_disable()
  handling,  \* the CPUs in their interrupt handler
  syscall    \* the CPUs whose thread is in a system call

vars == <<value, monitor, pc, flags, masked, preempt, handling, syscall>>

Init ==
  /\ value = 0
  /\ monitor = {}
  /\ pc = [c \in Cpus |-> [x \in Contexts |-> "out"]]
  /\ flags = [c \in Cpus |-> {}]
  /\ masked = {}
  /\ preempt = [c \in Cpus |-> 0]
  /\ handling = {} /\ syscall = {}

\* The context that CPU c executes.
Runs(c, x) == x = IF c \in handling THEN "irq" ELSE "thread"
Goto(c, x, to) == pc' = [pc EXCEPT ![c][x] = to]

-----------------------------------------------------------------------------
(* spin_lock_irqsave() and spin_unlock_irqrestore()                        *)

\* Mutant: interrupts are not masked.
IrqSaveUnmasked(c, x) ==
  /\ Runs(c, x) /\ pc[c][x] = "out"
  /\ flags' = [flags EXCEPT ![c] = IF c \in masked THEN @ \cup {x} ELSE @ \ {x}]
  /\ preempt' = [preempt EXCEPT ![c] = @ + 1]
  /\ Goto(c, x, "load")
  /\ UNCHANGED <<value, monitor, masked, handling, syscall>>

IrqSave(c, x) ==
  /\ Runs(c, x) /\ pc[c][x] = "out"
  /\ flags' = [flags EXCEPT ![c] = IF c \in masked THEN @ \cup {x} ELSE @ \ {x}]
  /\ masked' = masked \cup {c}
  /\ preempt' = [preempt EXCEPT ![c] = @ + 1]
  /\ Goto(c, x, "load")
  /\ UNCHANGED <<value, monitor, handling, syscall>>

\* Mutant: a plain load.
LoadPlain(c, x) ==
  /\ Runs(c, x) /\ pc[c][x] = "load"
  /\ Goto(c, x, IF value = 0 THEN "store" ELSE "spin")
  /\ UNCHANGED <<value, monitor, flags, masked, preempt, handling, syscall>>

\* spin_try_lock(): ldaxr,
LoadExclusive(c, x) ==
  /\ Runs(c, x) /\ pc[c][x] = "load"
  /\ monitor' = monitor \cup {c}
  /\ Goto(c, x, IF value = 0 THEN "store" ELSE "spin")
  /\ UNCHANGED <<value, flags, masked, preempt, handling, syscall>>

\* Mutant: a plain store.
StorePlain(c, x) ==
  /\ Runs(c, x) /\ pc[c][x] = "store"
  /\ value' = 1
  /\ monitor' = {}
  /\ Goto(c, x, "in")
  /\ UNCHANGED <<flags, masked, preempt, handling, syscall>>

\* stxr that succeeds,
StoreExclusive(c, x) ==
  /\ Runs(c, x) /\ pc[c][x] = "store" /\ c \in monitor
  /\ value' = 1
  /\ monitor' = {}
  /\ Goto(c, x, "in")
  /\ UNCHANGED <<flags, masked, preempt, handling, syscall>>

\* and stxr that fails.
StoreFails(c, x) ==
  /\ Runs(c, x) /\ pc[c][x] = "store"
  /\ monitor' = monitor \ {c}
  /\ Goto(c, x, "spin")
  /\ UNCHANGED <<value, flags, masked, preempt, handling, syscall>>

\* The inner loop of spin_lock() ends.
Spin(c, x) ==
  /\ Runs(c, x) /\ pc[c][x] = "spin" /\ value = 0
  /\ Goto(c, x, "load")
  /\ UNCHANGED <<value, monitor, flags, masked, preempt, handling, syscall>>

Unlock(c, x) ==
  /\ Runs(c, x) /\ pc[c][x] = "in"
  /\ value' = 0
  /\ monitor' = {}
  /\ Goto(c, x, "restore")
  /\ UNCHANGED <<flags, masked, preempt, handling, syscall>>

IrqRestore(c, x) ==
  /\ Runs(c, x) /\ pc[c][x] = "restore"
  /\ preempt' = [preempt EXCEPT ![c] = IF @ = 0 THEN 0 ELSE @ - 1]
  /\ masked' = IF x \in flags[c] THEN masked \cup {c} ELSE masked \ {c}
  /\ Goto(c, x, "out")
  /\ UNCHANGED <<value, monitor, flags, handling, syscall>>

-----------------------------------------------------------------------------
(* Exceptions                                                              *)

\* An interrupt is taken, with interrupts masked by the CPU, and returned from, which
\* clears the monitor.
Interrupt(c) ==
  /\ c \notin masked \cup handling
  /\ handling' = handling \cup {c}
  /\ masked' = masked \cup {c}
  /\ UNCHANGED <<value, monitor, pc, flags, preempt, syscall>>

InterruptReturn(c) ==
  /\ c \in handling /\ pc[c]["irq"] = "out"
  /\ handling' = handling \ {c}
  /\ masked' = masked \ {c}
  /\ monitor' = monitor \ {c}
  /\ UNCHANGED <<value, pc, flags, preempt, syscall>>

SyscallEntry(c) ==
  /\ c \notin handling \cup syscall /\ pc[c]["thread"] = "out"
  /\ syscall' = syscall \cup {c}
  /\ masked' = masked \cup {c}
  /\ UNCHANGED <<value, monitor, pc, flags, preempt, handling>>

SyscallReturn(c) ==
  /\ c \in syscall \ handling /\ pc[c]["thread"] = "out"
  /\ syscall' = syscall \ {c}
  /\ masked' = masked \ {c}
  /\ monitor' = monitor \ {c}
  /\ UNCHANGED <<value, pc, flags, preempt, handling>>

-----------------------------------------------------------------------------
(* The specification                                                       *)

Calls(c, x) ==
  \/ LoadExclusive(c, x) \/ StoreExclusive(c, x) \/ StoreFails(c, x) \/ Spin(c, x)
  \/ Unlock(c, x) \/ IrqRestore(c, x)

Next ==
  \E c \in Cpus :
    \/ \E x \in Contexts : IrqSave(c, x) \/ Calls(c, x)
    \/ Interrupt(c) \/ InterruptReturn(c) \/ SyscallEntry(c) \/ SyscallReturn(c)

Spec == Init /\ [][Next]_vars

\* A CPU executes, and an exclusive store that is tried again and again with the monitor
\* set succeeds at last.
FairSpec ==
  /\ Spec
  /\ \A c \in Cpus, x \in Contexts : WF_vars(Calls(c, x)) /\ SF_vars(StoreExclusive(c, x))
  /\ \A c \in Cpus : WF_vars(InterruptReturn(c))

-----------------------------------------------------------------------------
(* Properties                                                              *)

\* The lock, the monitors and the CPUs' state are well formed.
TypeOK ==
  /\ value \in {0, 1} /\ monitor \subseteq Cpus
  /\ pc \in [Cpus -> [Contexts -> Places]] /\ preempt \in [Cpus -> Nat]
  /\ flags \in [Cpus -> SUBSET Contexts] /\ masked \subseteq Cpus
  /\ handling \subseteq Cpus /\ syscall \subseteq Cpus

Inside == {u \in Users : pc[u[1]][u[2]] = "in"}

\* One thread or handler at most is between spin_lock() and spin_unlock(), on all CPUs
\* together, and the lock's word says whether there is one.
MutualExclusion ==
  /\ \A u, v \in Inside : u = v
  /\ value = IF Inside = {} THEN 0 ELSE 1

\* A handler never waits for its own CPU: what it interrupts is outside the lock's
\* functions, so that the holder can go on.
NoSelfWait ==
  \A c \in handling : pc[c]["thread"] = "out"

\* The saved flags are given back: interrupts stay masked in a system call and in a
\* handler when the lock is released there, and preemption is disabled exactly as often as
\* the CPU is in the lock's functions.
MaskKept ==
  /\ handling \cup syscall \subseteq masked
  /\ \A c \in Cpus :
       preempt[c] = Cardinality({x \in Contexts : pc[c][x] # "out"})

\* The lock is what the other modules take it for.
Lock == INSTANCE LockSpec WITH Holders <- Users, holder <- Inside
ImplementsLock == Lock!Spec

\* While somebody wants the lock, somebody gets it, again and again; who it is nobody says.
Progress == (\E c \in Cpus, x \in Contexts : pc[c][x] \in {"load", "store", "spin"}) ~> Inside # {}
=============================================================================
