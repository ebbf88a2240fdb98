----------------------------- MODULE SpinlockProofs -----------------------------
(***************************************************************************)
(* Mutual exclusion, no handler that waits for its own CPU, the interrupt  *)
(* mask given back, and the refinement of LockSpec, for any set of CPUs.   *)
(***************************************************************************)
EXTENDS Spinlock, FiniteSetTheorems, TLAPS

\* What makes mutual exclusion inductive: a monitor that is still set at the exclusive
\* store vouches for the value that was loaded, and a CPU in the lock's functions is masked,
\* so that only one of its two contexts is in them.
SpinInv ==
  /\ TypeOK
  /\ \A c, d \in Cpus, x, y \in Contexts :
       pc[c][x] = "in" /\ pc[d][y] = "in" => c = d /\ x = y
  /\ value = 1 <=> \E c \in Cpus, x \in Contexts : pc[c][x] = "in"
  /\ \A c \in Cpus, x \in Contexts : pc[c][x] = "store" /\ c \in monitor => value = 0
  /\ \A c \in Cpus, x \in Contexts : pc[c][x] # "out" => c \in masked /\ Runs(c, x)

\* The initial state, with the lock free and every CPU outside, satisfies the invariant.
LEMMA SpinInit == Init => SpinInv
BY DEF Init, SpinInv, TypeOK, Users, Contexts, Places

\* The exclusive load, the exclusive store in both outcomes, the inner loop and the
\* release keep the invariant.
LEMMA SpinCalls ==
  ASSUME SpinInv, NEW c \in Cpus, NEW x \in Contexts,
         LoadExclusive(c, x) \/ StoreExclusive(c, x) \/ StoreFails(c, x) \/ Spin(c, x)
           \/ Unlock(c, x)
  PROVE  SpinInv'
<1> USE DEF SpinInv, TypeOK, Users, Contexts, Places, Runs, Goto
<1>1. CASE LoadExclusive(c, x)
  BY <1>1 DEF LoadExclusive
<1>2. CASE StoreExclusive(c, x)
  BY <1>2 DEF StoreExclusive
<1>3. CASE StoreFails(c, x)
  BY <1>3 DEF StoreFails
<1>4. CASE Spin(c, x)
  BY <1>4 DEF Spin
<1>5. CASE Unlock(c, x)
  BY <1>5 DEF Unlock
<1> QED
  BY <1>1, <1>2, <1>3, <1>4, <1>5

\* Masking and unmasking, by the lock's functions and by exceptions, keep the invariant.
LEMMA SpinMasks ==
  ASSUME SpinInv, NEW c \in Cpus,
         \/ \E x \in Contexts : IrqSave(c, x) \/ IrqRestore(c, x)
         \/ Interrupt(c) \/ InterruptReturn(c) \/ SyscallEntry(c) \/ SyscallReturn(c)
  PROVE  SpinInv'
<1> USE DEF SpinInv, TypeOK, Users, Contexts, Places, Runs, Goto
<1>1. ASSUME NEW x \in Contexts, IrqSave(c, x) PROVE SpinInv'
  BY <1>1 DEF IrqSave
<1>2. ASSUME NEW x \in Contexts, IrqRestore(c, x) PROVE SpinInv'
  <2>1. /\ pc'[c][x] = "out" /\ pc[c][x] = "restore" /\ Runs(c, x)
        /\ \A d \in Cpus, y \in Contexts : d # c \/ y # x => pc'[d][y] = pc[d][y]
    BY <1>2 DEF IrqRestore
  <2>2. TypeOK'
    BY <1>2 DEF IrqRestore
  <2>3. /\ UNCHANGED <<value, monitor, handling>>
        /\ \A d \in Cpus : d # c /\ d \in masked => d \in masked'
    BY <1>2 DEF IrqRestore
  <2>4. \A y \in Contexts : y # x => pc[c][y] = "out"
    BY <2>1
  <2>5. \A d \in Cpus, y \in Contexts : pc'[d][y] # "out" => d \in masked' /\ Runs(d, y)'
    BY <2>1, <2>3, <2>4
  <2>6. \A d \in Cpus, y \in Contexts :
          (pc'[d][y] = "in" <=> pc[d][y] = "in") /\ (pc'[d][y] = "store" <=> pc[d][y] = "store")
    BY <2>1
  <2>7. value' = 1 <=> \E d \in Cpus, y \in Contexts : pc'[d][y] = "in"
    BY <2>3, <2>6
  <2>8. /\ \A b, d \in Cpus, y, z \in Contexts : pc'[b][y] = "in" /\ pc'[d][z] = "in" => b = d /\ y = z
        /\ \A d \in Cpus, y \in Contexts : pc'[d][y] = "store" /\ d \in monitor' => value' = 0
    BY <2>3, <2>6
  <2> QED
    BY <2>2, <2>5, <2>7, <2>8, Zenon
<1>3. CASE Interrupt(c)
  BY <1>3 DEF Interrupt
<1>4. CASE InterruptReturn(c)
  BY <1>4 DEF InterruptReturn
<1>5. CASE SyscallEntry(c)
  BY <1>5 DEF SyscallEntry
<1>6. CASE SyscallReturn(c)
  BY <1>6 DEF SyscallReturn
<1> QED
  BY <1>1, <1>2, <1>3, <1>4, <1>5, <1>6

\* Every step keeps the invariant.
LEMMA SpinStep == SpinInv /\ [Next]_vars => SpinInv'
<1> SUFFICES ASSUME SpinInv, [Next]_vars PROVE SpinInv'
  OBVIOUS
<1>1. CASE UNCHANGED vars
  BY <1>1 DEF vars, SpinInv, TypeOK, Runs
<1>2. ASSUME NEW c \in Cpus, NEW x \in Contexts, Calls(c, x) PROVE SpinInv'
  BY <1>2, SpinCalls, SpinMasks DEF Calls
<1>3. ASSUME NEW c \in Cpus, NEW x \in Contexts, IrqSave(c, x) PROVE SpinInv'
  BY <1>3, SpinMasks
<1>4. ASSUME NEW c \in Cpus,
             Interrupt(c) \/ InterruptReturn(c) \/ SyscallEntry(c) \/ SyscallReturn(c)
      PROVE  SpinInv'
  BY <1>4, SpinMasks
<1> QED
  BY <1>1, <1>2, <1>3, <1>4 DEF Next

\* The invariant holds in every reachable state.
LEMMA SpinAlways == Spec => []SpinInv
BY SpinInit, SpinStep, PTL DEF Spec

-----------------------------------------------------------------------------

\* For any set of CPUs, at most one thread or handler is between spin_lock() and
\* spin_unlock(), and lock->value tells whether there is one.
THEOREM SpinExcludes == Spec => []MutualExclusion
<1>1. SpinInv => MutualExclusion
  <2> SUFFICES ASSUME SpinInv PROVE MutualExclusion
    OBVIOUS
  <2>1. \A u \in Users : u[1] \in Cpus /\ u[2] \in Contexts /\ u = <<u[1], u[2]>>
    BY DEF Users
  <2>2. ASSUME NEW u \in Inside, NEW v \in Inside PROVE u = v
    BY <2>1 DEF SpinInv, Inside
  <2>3. CASE Inside = {}
    <3>1. \A c \in Cpus, x \in Contexts : <<c, x>> \in Users /\ <<c, x>> \notin Inside
      BY <2>3 DEF Users
    <3>2. \A c \in Cpus, x \in Contexts : pc[c][x] # "in"
      BY <3>1 DEF Inside
    <3> QED
      BY <2>2, <2>3, <3>2 DEF SpinInv, TypeOK, MutualExclusion
  <2>4. CASE Inside # {}
    <3>1. PICK u \in Inside : TRUE
      BY <2>4
    <3>2. u[1] \in Cpus /\ u[2] \in Contexts /\ pc[u[1]][u[2]] = "in"
      BY <2>1 DEF Inside
    <3> QED
      BY <2>2, <2>4, <3>2 DEF SpinInv, MutualExclusion
  <2> QED
    BY <2>3, <2>4
<1> QED
  BY <1>1, SpinAlways, PTL

\* For any set of CPUs, an interrupt handler that takes the lock has not interrupted a
\* thread that holds it or waits for it.
THEOREM SpinNoSelfWait == Spec => []NoSelfWait
<1>1. SpinInv => NoSelfWait
  BY DEF SpinInv, TypeOK, NoSelfWait, Runs, Contexts
<1> QED
  BY <1>1, SpinAlways, PTL

\* What gives the interrupt mask back: a context that has saved "not masked" is the thread
\* outside a system call, an interrupt is never taken in a system call, and preemption is
\* disabled once, by the one context of the CPU that is in the lock's functions.
MaskInv ==
  /\ handling \cup syscall \subseteq masked /\ handling \cap syscall = {}
  /\ \A c \in Cpus, x \in Contexts :
       pc[c][x] # "out" /\ x \notin flags[c] => c \notin handling \cup syscall
  /\ \A c \in Cpus : preempt[c] = IF \E x \in Contexts : pc[c][x] # "out" THEN 1 ELSE 0

LEMMA MaskInit == Init => MaskInv
BY DEF Init, MaskInv, Contexts

LEMMA MaskStep == SpinInv /\ MaskInv /\ [Next]_vars => MaskInv'
<1> SUFFICES ASSUME SpinInv, MaskInv, [Next]_vars PROVE MaskInv'
  OBVIOUS
<1> USE DEF MaskInv, SpinInv, TypeOK, Contexts, Places, Runs, Goto
<1>1. CASE UNCHANGED vars
  BY <1>1 DEF vars
<1>2. ASSUME NEW c \in Cpus, NEW x \in Contexts, IrqSave(c, x) PROVE MaskInv'
  BY <1>2 DEF IrqSave
<1>3. ASSUME NEW c \in Cpus, NEW x \in Contexts, IrqRestore(c, x) PROVE MaskInv'
  BY <1>3 DEF IrqRestore
<1>4. ASSUME NEW c \in Cpus, NEW x \in Contexts,
             \/ LoadExclusive(c, x) \/ StoreExclusive(c, x) \/ StoreFails(c, x) \/ Spin(c, x)
             \/ Unlock(c, x)
      PROVE  MaskInv'
  BY <1>4 DEF LoadExclusive, StoreExclusive, StoreFails, Spin, Unlock
<1>5. ASSUME NEW c \in Cpus, Interrupt(c) \/ InterruptReturn(c) PROVE MaskInv'
  BY <1>5 DEF Interrupt, InterruptReturn
<1>6. ASSUME NEW c \in Cpus, SyscallEntry(c) \/ SyscallReturn(c) PROVE MaskInv'
  BY <1>6 DEF SyscallEntry, SyscallReturn
<1> QED
  BY <1>1, <1>2, <1>3, <1>4, <1>5, <1>6 DEF Next, Calls

\* For any set of CPUs, spin_unlock_irqrestore() unmasks interrupts only where
\* spin_lock_irqsave() found them unmasked, never in a handler or a system call, and
\* enables preemption as often as it was disabled.
THEOREM SpinMaskKept == Spec => []MaskKept
<1>1. SpinInv /\ MaskInv => MaskKept
  <2> SUFFICES ASSUME SpinInv, MaskInv PROVE MaskKept
    OBVIOUS
  <2>1. ASSUME NEW c \in Cpus
        PROVE  preempt[c] = Cardinality({x \in Contexts : pc[c][x] # "out"})
    <3>1. PICK S : S = {x \in Contexts : pc[c][x] # "out"}
      OBVIOUS
    <3>2. CASE \E x \in Contexts : pc[c][x] # "out"
      <4>1. PICK x \in Contexts : pc[c][x] # "out"
        BY <3>2
      <4>2. S = {x}
        BY <3>1, <4>1 DEF SpinInv, Runs
      <4>3. Cardinality(S) = 1
        BY <4>2, FS_Singleton
      <4>4. QED BY <3>1, <3>2, <4>3 DEF MaskInv
    <3>3. CASE ~\E x \in Contexts : pc[c][x] # "out"
      <4>1. S = {}
        BY <3>1, <3>3
      <4>2. Cardinality(S) = 0
        BY <4>1, FS_EmptySet
      <4>3. QED BY <3>1, <3>3, <4>2 DEF MaskInv
    <3>4. QED BY <3>2, <3>3
  <2>2. QED BY <2>1 DEF MaskKept, MaskInv
<1>2. Spec => []MaskInv
  BY MaskInit, MaskStep, SpinAlways, PTL DEF Spec
<1>3. QED BY <1>1, <1>2, SpinAlways, PTL

\* For any set of CPUs, spinlock.c implements a lock that is taken and released in one step.
THEOREM SpinImplements == Spec => ImplementsLock
<1>1. Init => Lock!Init
  <2> SUFFICES ASSUME Init, NEW u \in Users PROVE u \notin Inside
    BY DEF Lock!Init, Inside
  <2>1. u[1] \in Cpus /\ u[2] \in Contexts
    BY DEF Users
  <2> QED
    BY <2>1 DEF Init, Inside
<1>2. SpinInv /\ [Next]_vars => [Lock!Next]_Inside
  <2> SUFFICES ASSUME SpinInv, [Next]_vars PROVE [Lock!Next]_Inside
    OBVIOUS
  <2> USE DEF SpinInv, TypeOK, Users, Inside
  <2>1. ASSUME NEW c \in Cpus, NEW x \in Contexts, StoreExclusive(c, x)
        PROVE  Lock!Acquire(<<c, x>>)
    BY <2>1 DEF StoreExclusive, Lock!Acquire, Goto
  <2>2. ASSUME NEW c \in Cpus, NEW x \in Contexts, Unlock(c, x)
        PROVE  Lock!Release(<<c, x>>)
    BY <2>2 DEF Unlock, Lock!Release, Goto
  <2>3. ASSUME NEW c \in Cpus, NEW x \in Contexts,
               \/ IrqSave(c, x) \/ LoadExclusive(c, x) \/ StoreFails(c, x) \/ Spin(c, x)
               \/ IrqRestore(c, x)
        PROVE  UNCHANGED Inside
    BY <2>3 DEF IrqSave, LoadExclusive, StoreFails, Spin, IrqRestore, Goto
  <2>4. ASSUME NEW c \in Cpus,
               Interrupt(c) \/ InterruptReturn(c) \/ SyscallEntry(c) \/ SyscallReturn(c)
        PROVE  UNCHANGED Inside
    BY <2>4 DEF Interrupt, InterruptReturn, SyscallEntry, SyscallReturn
  <2>5. CASE UNCHANGED vars
    BY <2>5 DEF vars
  <2> QED
    <3>1. \A c \in Cpus, x \in Contexts : <<c, x>> \in Users
      OBVIOUS
    <3> HIDE DEF SpinInv, TypeOK, Users, Inside
    <3> QED
      BY <2>1, <2>2, <2>3, <2>4, <2>5, <3>1 DEF Next, Calls, Lock!Next
<1> QED
  BY <1>1, <1>2, SpinAlways, PTL DEF Spec, ImplementsLock, Lock!Spec
=============================================================================
