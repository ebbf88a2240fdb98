------------------------------ MODULE CondPool -------------------------------
(***************************************************************************)
(* src/src/kernel/condvar.c: the pool of condition variables, composed with*)
(* the mutexes of module MutexPool that condvar_wait() releases and takes  *)
(* again.  The calls it makes to mutex_pool_unlock() and mutex_pool_lock() *)
(* are frames of MutexPool on top of its own; cond->lock stays held across *)
(* the first of them.                                                      *)
(*                                                                         *)
(* The tasks are a monitor: flag is protected by the mutex, a task waits   *)
(* while it is FALSE, and whoever sets it owes a broadcast.                *)
(***************************************************************************)
EXTENDS MutexPool

CONSTANTS
  CondGenMax, \* CONDVAR_HANDLE_GENERATION_MAX
  MaxConds    \* bound on the handles given out; no generation comes round again

ASSUME CondAssumption == CondGenMax \in Nat \ {0} /\ MaxConds \in Nat

\* One slot of condvar_pool[], and the generations of its handles.
CondHandles == 1 .. CondGenMax

VARIABLES
  cond,   \* condvar_pool[0], with its used and generation arrays
  cmade,  \* the handles condvar_pool_alloc() has returned
  flag,   \* what the tasks wait for
  owes    \* the tasks that have set flag and not broadcast yet

condVars == <<cond, cmade, flag, owes>>

CondRec == [used : BOOLEAN, g : 0 .. CondGenMax, waiters : Queue, ops : Nat,
            destroying : BOOLEAN, lock : TaskOrNone]

\* condvar_init() in a slot of generation g.
CondvarInit(g) == [used |-> TRUE, g |-> g, waiters |-> WaitQueueInit, ops |-> 0,
                   destroying |-> FALSE, lock |-> NoTask]

CondInit ==
  /\ cond = [CondvarInit(0) EXCEPT !.used = FALSE]
  /\ cmade = {}
  /\ flag = FALSE
  /\ owes = {}

\* A frame of a call on condition variable c; m is the mutex of condvar_wait().
CondFrame(at, c, m) == [at |-> at, c |-> c, m |-> m, x |-> NoTask]

CondAt == {"cwait", "cmutex", "crelease", "cpark", "crelock", "cunpin", "csignal",
           "cbroadcast", "cunpark", "cbunpark"}

\* t is inside a pinned call on a condition variable, at the bottom of whose
\* stack its frame is.
InCond(t) == stack[t] # <<>> /\ stack[t][Len(stack[t])].at \in CondAt

CondValid(c) == cond.used /\ cond.g = c /\ ~cond.destroying
CondPinned == [cond EXCEPT !.ops = @ + 1]
CondUnpinned(r) == [r EXCEPT !.ops = IF @ > 0 THEN @ - 1 ELSE @]
CondUnlocked == cond.lock = NoTask

\* condvar_pool_pin(), then on to "at"; the call fails where c is not valid.
CondPin(t, c, m, at) ==
  IF CondValid(c)
  THEN /\ cond' = CondPinned
       /\ stack' = [stack EXCEPT ![t] = <<CondFrame(at, c, m)>>]
  ELSE UNCHANGED <<cond, stack>>

-----------------------------------------------------------------------------

CondGeneration(g) == IF g + 1 > CondGenMax THEN 1 ELSE g + 1

\* condvar_pool_alloc()
CondAlloc(t) ==
  LET g == CondGeneration(cond.g)
  IN /\ Idle(t)
     /\ ~cond.used /\ g \notin cmade /\ Cardinality(cmade) < MaxConds
     /\ cond' = CondvarInit(g)
     /\ cmade' = cmade \cup {g}
     /\ UNCHANGED <<taskVars, poolVars, flag, owes>>

\* The monitor: flag is set with the mutex held.
SetFlag(t) ==
  /\ Idle(t) /\ holds[t] # {} /\ ~flag /\ cmade # {}
  /\ flag' = TRUE
  /\ owes' = owes \cup {t}
  /\ UNCHANGED <<taskVars, poolVars, cond, cmade>>

-----------------------------------------------------------------------------
(***************************************************************************)
(* condvar_pool_wait()                                                     *)
(***************************************************************************)
\* The monitor waits with the mutex held and flag not set; some task does not wait.
CondPoolWait(t) ==
  /\ Idle(t) /\ ~flag
  /\ \E u \in Tasks \ {t} : Live(u) /\ ~InCond(u)
  /\ \E m \in holds[t], c \in cmade : CondPin(t, c, m, "cwait")
  /\ UNCHANGED <<sched, wait_next, det, poolVars, cmade, flag, owes>>

\* The waiter is published under cond->lock, which stays held.
CondEnqueue(t) ==
  LET r == WaitQueueEnqueue(cond.waiters, wait_next, t)
  IN /\ At(t, "cwait") /\ CondUnlocked
     /\ IF r.ok
        THEN /\ cond' = [cond EXCEPT !.waiters = r.q, !.lock = t]
             /\ Goto(t, "cmutex")
        ELSE Goto(t, "cunpin") /\ UNCHANGED cond
     /\ wait_next' = r.next
     /\ UNCHANGED <<sched, det, poolVars, cmade, flag, owes>>

\* Mutant: the mutex is released first, and the waiter published after it.
CondMutexUnlockFirst(t) ==
  LET m == Top(t).m
      r == WaitQueueRemove(cond.waiters, wait_next, t)
  IN /\ At(t, "cmutex")
     /\ Valid(m)
     /\ mtx' = [mtx EXCEPT ![m.i] = Pinned(m.i)]
     /\ holds' = [holds EXCEPT ![t] = @ \ {m}]
     /\ stack' = [stack EXCEPT ![t] = <<Frame("unlock", m), [Top(t) EXCEPT !.at = "cwait"]>>]
     /\ cond' = [cond EXCEPT !.waiters = r.q, !.lock = NoTask]
     /\ wait_next' = r.next
     /\ UNCHANGED <<sched, det, made, cmade, flag, owes>>

\* mutex_pool_unlock(): its pin, or its refusal, which takes the waiter back out.
CondMutexUnlock(t) ==
  LET m == Top(t).m
      r == WaitQueueRemove(cond.waiters, wait_next, t)
  IN /\ At(t, "cmutex")
     /\ IF Valid(m)
        THEN /\ mtx' = [mtx EXCEPT ![m.i] = Pinned(m.i)]
             /\ holds' = [holds EXCEPT ![t] = @ \ {m}]
             /\ stack' = [stack EXCEPT ![t] = <<Frame("unlock", m), [Top(t) EXCEPT !.at = "crelease"]>>]
             /\ UNCHANGED <<wait_next, cond>>
        ELSE /\ cond' = [cond EXCEPT !.waiters = r.q, !.lock = NoTask]
             /\ wait_next' = r.next
             /\ Goto(t, "cunpin")
             /\ UNCHANGED <<mtx, holds>>
     /\ UNCHANGED <<sched, det, made, cmade, flag, owes>>

CondRelease(t) ==
  /\ At(t, "crelease")
  /\ cond' = [cond EXCEPT !.lock = NoTask]
  /\ Goto(t, "cpark")
  /\ UNCHANGED <<sched, wait_next, det, poolVars, cmade, flag, owes>>

CondPark(t) ==
  /\ At(t, "cpark")
  /\ sched' = [sched EXCEPT ![t] = Parked(@)]
  /\ Goto(t, "crelock")
  /\ UNCHANGED <<wait_next, det, poolVars, condVars>>

\* mutex_pool_lock() on the way back; it fails where the mutex is gone.
CondRelock(t) ==
  /\ At(t, "crelock")
  /\ IF Valid(Top(t).m)
     THEN /\ mtx' = [mtx EXCEPT ![Top(t).m.i] = Pinned(Top(t).m.i)]
          /\ stack' = [stack EXCEPT ![t] = <<Frame("lock", Top(t).m), [Top(t) EXCEPT !.at = "cunpin"]>>]
     ELSE Goto(t, "cunpin") /\ UNCHANGED mtx
  /\ UNCHANGED <<sched, wait_next, det, made, holds, condVars>>

CondUnpin(t) ==
  /\ At(t, "cunpin")
  /\ cond' = CondUnpinned(cond)
  /\ Return(t)
  /\ UNCHANGED <<sched, wait_next, det, poolVars, cmade, flag, owes>>

-----------------------------------------------------------------------------
(***************************************************************************)
(* condvar_pool_signal() and condvar_pool_broadcast()                      *)
(***************************************************************************)
CondPoolSignal(t) ==
  /\ "signal" \in Ops
  /\ Idle(t)
  /\ \E c \in cmade : CondPin(t, c, [i |-> 0, g |-> 1], "csignal")
  /\ UNCHANGED <<sched, wait_next, det, poolVars, cmade, flag, owes>>

\* The debt is paid by a broadcast on the handle in use.
CondPoolBroadcast(t) ==
  /\ Idle(t) /\ t \in owes
  /\ \E c \in cmade : CondPin(t, c, [i |-> 0, g |-> 1], "cbroadcast")
  /\ UNCHANGED <<sched, wait_next, det, poolVars, cmade, flag, owes>>

\* One section of cond->lock takes one waiter out; the unpark comes after it.
CondTake(t, at, next) ==
  LET r == WaitQueueDequeue(cond.waiters, wait_next)
  IN /\ At(t, at) /\ CondUnlocked
     /\ cond' = [cond EXCEPT !.waiters = r.q]
     /\ wait_next' = r.next
     /\ stack' = [stack EXCEPT ![t][1].x = r.task,
                               ![t][1].at = IF r.task = NoTask THEN "cunpin" ELSE next]
     /\ UNCHANGED <<sched, det, poolVars, cmade, flag>>

CondSignal(t) == CondTake(t, "csignal", "cunpark") /\ UNCHANGED owes

CondBroadcast(t) ==
  /\ CondTake(t, "cbroadcast", "cbunpark")
  /\ owes' = IF WaitQueueEmpty(cond.waiters) THEN owes \ {t} ELSE owes

CondUnpark(t) ==
  /\ At(t, "cunpark") \/ At(t, "cbunpark")
  /\ Unpark(Top(t).x)
  /\ stack' = [stack EXCEPT ![t][1].x = NoTask,
                            ![t][1].at = IF @ = "cunpark" THEN "cunpin" ELSE "cbroadcast"]
  /\ UNCHANGED <<wait_next, det, poolVars, condVars>>

-----------------------------------------------------------------------------
(***************************************************************************)
(* condvar_pool_free()                                                     *)
(***************************************************************************)

CondFree(t) ==
  /\ "cfree" \in Ops
  /\ Idle(t)
  /\ \E c \in cmade :
       IF CondValid(c) /\ cond.ops = 0
       THEN /\ cond' = [cond EXCEPT !.destroying = TRUE]
            /\ stack' = [stack EXCEPT ![t] = <<CondFrame("cfree", c, NoTask)>>]
       ELSE UNCHANGED <<cond, stack>>
  /\ UNCHANGED <<sched, wait_next, det, poolVars, cmade, flag, owes>>

CondFreeCheck(t) ==
  /\ At(t, "cfree") /\ CondUnlocked
  /\ Goto(t, IF WaitQueueEmpty(cond.waiters) THEN "cgone" ELSE "crefuse")
  /\ UNCHANGED <<sched, wait_next, det, poolVars, condVars>>

CondFreeDone(t) ==
  /\ At(t, "cgone") \/ At(t, "crefuse")
  /\ cond' = [cond EXCEPT !.destroying = FALSE,
                !.used = IF Top(t).at = "cgone" /\ @ /\ cond.g = Top(t).c THEN FALSE ELSE @]
  /\ Return(t)
  /\ UNCHANGED <<sched, wait_next, det, poolVars, cmade, flag, owes>>

-----------------------------------------------------------------------------
(***************************************************************************)
(* condvar_detach_task(), which the reaper of v calls after the mutexes'   *)
(***************************************************************************)
CondDetachPin(v) ==
  /\ det[v].at = "cond"
  /\ IF cond.used
     THEN cond' = CondPinned /\ det' = [det EXCEPT ![v].at = "cscan"]
     ELSE det' = [det EXCEPT ![v] = Detach("clear", 0)] /\ UNCHANGED cond
  /\ UNCHANGED <<sched, wait_next, stack, poolVars, cmade, flag, owes>>

CondDetachScan(v) ==
  LET r == WaitQueueRemove(cond.waiters, wait_next, v)
  IN /\ det[v].at = "cscan" /\ CondUnlocked
     /\ cond' = [cond EXCEPT !.waiters = r.q]
     /\ wait_next' = r.next
     /\ det' = [det EXCEPT ![v] = [@ EXCEPT !.at = "cunpin", !.detached = r.ok]]
     /\ UNCHANGED <<sched, stack, poolVars, cmade, flag, owes>>

CondDetachUnpin(v) ==
  /\ det[v].at = "cunpin"
  /\ cond' = IF det[v].detached THEN CondUnpinned(CondUnpinned(cond)) ELSE CondUnpinned(cond)
  /\ det' = [det EXCEPT ![v] = Detach("clear", 0)]
  /\ UNCHANGED <<sched, wait_next, stack, poolVars, cmade, flag, owes>>

-----------------------------------------------------------------------------
CondCallStep(t) ==
  \/ CondEnqueue(t) \/ CondMutexUnlock(t) \/ CondRelease(t) \/ CondPark(t) \/ CondRelock(t)
  \/ CondUnpin(t) \/ CondSignal(t) \/ CondBroadcast(t) \/ CondUnpark(t)
  \/ CondFreeCheck(t) \/ CondFreeDone(t)

CondDetachStep(v) == CondDetachPin(v) \/ CondDetachScan(v) \/ CondDetachUnpin(v)

-----------------------------------------------------------------------------
(***************************************************************************)
(* Properties                                                              *)
(***************************************************************************)
CondTypeOK ==
  /\ cond \in CondRec
  /\ cmade \subseteq CondHandles
  /\ owes \subseteq Tasks

\* The live tasks inside a pinned call.
CondCallers == {t \in Tasks : Live(t) /\ InCond(t)}

\* condvar_wait(): publishing the waiter and releasing the mutex cannot be seen
\* apart.  Once flag is set and the broadcast is over nobody is left in the queue.
NoLostWakeup == flag /\ owes = {} => WaitQueueEmpty(cond.waiters)

=============================================================================
