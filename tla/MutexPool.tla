------------------------------ MODULE MutexPool ------------------------------
(***************************************************************************)
(* src/src/kernel/mutex.c: the pool of mutexes behind the SYS_MUTEX_*      *)
(* system calls.  Each critical section of pool_lock, of a mutex's own lock*)
(* and of sched_lock is one action; a call is a frame of stack[t] that     *)
(* moves from section to section.  Tasks are programs that lock a mutex    *)
(* they do not hold, unlock what they hold, and keep every handle they were*)
(* ever given.                                                             *)
(***************************************************************************)
EXTENDS Parking

CONSTANTS
  PoolSize,  \* MAX_MUTEX_POOL
  GenMax,    \* MUTEX_HANDLE_GENERATION_MAX
  MaxAllocs, \* bound on mutex_pool_alloc calls that return a handle
  OpsMod     \* active_ops is an unsigned integer modulo this

ASSUME PoolAssumption ==
  /\ PoolSize \in Nat \ {0} /\ GenMax \in Nat \ {0} /\ MaxAllocs \in Nat
  /\ OpsMod \in Nat /\ OpsMod > 2 * Cardinality(Tasks)

Indices == 0 .. PoolSize - 1
Handles == [i : Indices, g : 1 .. GenMax]

VARIABLES
  mtx,    \* mutex_pool[], with mutex_pool_used[] and mutex_pool_generation[]
  made,   \* the handles mutex_pool_alloc() has returned
  holds   \* the handles each task's program believes it has locked

poolVars == <<mtx, made, holds>>

MutexRec == [used : BOOLEAN, g : 0 .. GenMax, locked : BOOLEAN, owner : TaskOrNone,
             waiters : Queue, ops : 0 .. OpsMod - 1, destroying : BOOLEAN]

\* mutex_init() in a slot of generation g.
MutexInit(g) ==
  [used |-> TRUE, g |-> g, locked |-> FALSE, owner |-> NoTask,
   waiters |-> WaitQueueInit, ops |-> 0, destroying |-> FALSE]

MutexesInit ==
  /\ mtx = [i \in Indices |-> [MutexInit(0) EXCEPT !.used = FALSE]]
  /\ made = {}
  /\ holds = [t \in Tasks |-> {}]

\* A frame of a call on handle h; x is a task it is about to unpark.
Frame(at, h) == [at |-> at, h |-> h, x |-> NoTask]
Slot(t) == mtx[Top(t).h.i]
SetSlot(t, m) == mtx' = [mtx EXCEPT ![Top(t).h.i] = m]

\* mutex_pool_pin() accepts h.
Valid(h) == mtx[h.i].used /\ mtx[h.i].g = h.g /\ ~mtx[h.i].destroying

Pinned(i) == [mtx[i] EXCEPT !.ops = (@ + 1) % OpsMod]
Unpinned(m) == [m EXCEPT !.ops = IF @ > 0 THEN @ - 1 ELSE @]

\* A call that starts by pinning h goes on at "at" with the slot pinned; it fails
\* at once when h is not valid.
Pin(t, h, at) ==
  IF Valid(h)
  THEN /\ mtx' = [mtx EXCEPT ![h.i] = Pinned(h.i)]
       /\ stack' = [stack EXCEPT ![t] = <<Frame(at, h)>> \o @]
  ELSE UNCHANGED <<mtx, stack>>

-----------------------------------------------------------------------------
(***************************************************************************)
(* Allocation                                                              *)
(***************************************************************************)

NextGeneration(g) == IF g + 1 > GenMax THEN 1 ELSE g + 1

\* mutex_pool_alloc(): the first free slot, in its next generation.
PoolAlloc(t) ==
  /\ "alloc" \in Ops
  /\ Idle(t)
  /\ Cardinality(made) < MaxAllocs
  /\ \E i \in Indices :
       LET g == NextGeneration(mtx[i].g)
       IN /\ ~mtx[i].used /\ \A j \in 0 .. i - 1 : mtx[j].used
          /\ mtx' = [mtx EXCEPT ![i] = MutexInit(g)]
          /\ made' = made \cup {[i |-> i, g |-> g]}
  /\ UNCHANGED <<taskVars, holds>>

-----------------------------------------------------------------------------
(***************************************************************************)
(* Lock                                                                    *)
(***************************************************************************)
PoolLock(t) ==
  /\ Idle(t)
  /\ \E h \in made \ holds[t] : Pin(t, h, "lock")
  /\ UNCHANGED <<sched, wait_next, det, made, holds>>

\* mutex_lock() up to the release of mutex->lock.
MutexLock(t) ==
  LET m == Slot(t)
      r == WaitQueueEnqueue(m.waiters, wait_next, t)
  IN /\ At(t, "lock")
     /\ IF ~m.locked
        THEN /\ SetSlot(t, [m EXCEPT !.locked = TRUE, !.owner = t])
             /\ Goto(t, "locked")
             /\ UNCHANGED wait_next
        ELSE /\ SetSlot(t, [m EXCEPT !.waiters = r.q])
             /\ wait_next' = r.next
             /\ Goto(t, IF r.ok THEN "park" ELSE "locked")
     /\ UNCHANGED <<sched, det, made, holds>>

\* sched_park_task(); mutex_lock() returns when the task runs again.
Park(t) ==
  /\ At(t, "park")
  /\ sched' = [sched EXCEPT ![t] = Parked(@)]
  /\ Goto(t, "locked")
  /\ UNCHANGED <<wait_next, det, poolVars>>

\* mutex_pool_unpin() and the return to the caller, which now has the mutex.
Locked(t) ==
  /\ At(t, "locked")
  /\ SetSlot(t, Unpinned(Slot(t)))
  /\ holds' = [holds EXCEPT ![t] = @ \cup {Top(t).h}]
  /\ Return(t)
  /\ UNCHANGED <<sched, wait_next, det, made>>

PoolTrylock(t) ==
  /\ "try" \in Ops
  /\ Idle(t)
  /\ \E h \in made \ holds[t] : Pin(t, h, "try")
  /\ UNCHANGED <<sched, wait_next, det, made, holds>>

MutexTrylock(t) ==
  /\ At(t, "try")
  /\ IF Slot(t).locked
     THEN Goto(t, "unpin") /\ UNCHANGED mtx
     ELSE SetSlot(t, [Slot(t) EXCEPT !.locked = TRUE, !.owner = t]) /\ Goto(t, "locked")
  /\ UNCHANGED <<sched, wait_next, det, made, holds>>

-----------------------------------------------------------------------------
(***************************************************************************)
(* Unlock                                                                  *)
(***************************************************************************)
\* A program unlocks a mutex it has locked; it still has it if the call is refused.
PoolUnlock(t) ==
  /\ Idle(t)
  /\ \E h \in holds[t] :
       /\ holds' = IF Valid(h) THEN [holds EXCEPT ![t] = @ \ {h}] ELSE holds
       /\ Pin(t, h, "unlock")
  /\ UNCHANGED <<sched, wait_next, det, made>>

\* Mutant: the mutex is released, and the waiter woken to find it free.
MutexUnlockBarging(t) ==
  LET m == Slot(t)
      r == WaitQueueDequeue(m.waiters, wait_next)
  IN /\ At(t, "unlock")
     /\ SetSlot(t, [m EXCEPT !.waiters = r.q, !.owner = NoTask, !.locked = FALSE])
     /\ wait_next' = r.next
     /\ stack' = [stack EXCEPT ![t][1].at = "unpark", ![t][1].x = r.task]
     /\ UNCHANGED <<sched, det, made, holds>>

\* mutex_unlock(): the first waiter becomes the owner and the mutex stays locked.
MutexUnlock(t) ==
  LET m == Slot(t)
      r == WaitQueueDequeue(m.waiters, wait_next)
  IN /\ At(t, "unlock")
     /\ SetSlot(t, [m EXCEPT !.waiters = r.q, !.owner = r.task,
                             !.locked = ~WaitQueueEmpty(m.waiters)])
     /\ wait_next' = r.next
     /\ stack' = [stack EXCEPT ![t][1].at = "unpark", ![t][1].x = r.task]
     /\ UNCHANGED <<sched, det, made, holds>>

UnlockUnpark(t) ==
  /\ At(t, "unpark")
  /\ Unpark(Top(t).x)
  /\ stack' = [stack EXCEPT ![t][1].at = "unpin", ![t][1].x = NoTask]
  /\ UNCHANGED <<wait_next, det, poolVars>>

\* mutex_pool_unpin() after an unlock or a failed trylock.
Unpin(t) ==
  /\ At(t, "unpin")
  /\ SetSlot(t, Unpinned(Slot(t)))
  /\ Return(t)
  /\ UNCHANGED <<sched, wait_next, det, made, holds>>

-----------------------------------------------------------------------------
(***************************************************************************)
(* Free                                                                    *)
(***************************************************************************)
\* Mutant: active_ops is not looked at.
PoolFreeBusy(t) ==
  /\ "free" \in Ops
  /\ Idle(t)
  /\ \E h \in made :
       /\ Valid(h)
       /\ mtx' = [mtx EXCEPT ![h.i].destroying = TRUE]
       /\ stack' = [stack EXCEPT ![t] = <<Frame("free", h)>>]
  /\ UNCHANGED <<sched, wait_next, det, made, holds>>

\* mutex_pool_free(), first section: refused unless the slot has no operation.
PoolFree(t) ==
  /\ "free" \in Ops
  /\ Idle(t)
  /\ \E h \in made :
       IF Valid(h) /\ mtx[h.i].ops = 0
       THEN /\ mtx' = [mtx EXCEPT ![h.i].destroying = TRUE]
            /\ stack' = [stack EXCEPT ![t] = <<Frame("free", h)>>]
       ELSE UNCHANGED <<mtx, stack>>
  /\ UNCHANGED <<sched, wait_next, det, made, holds>>

\* Second section, under mutex->lock.
FreeCheck(t) ==
  LET m == Slot(t)
  IN /\ At(t, "free")
     /\ Goto(t, IF m.locked \/ m.owner # NoTask \/ ~WaitQueueEmpty(m.waiters)
                THEN "refuse" ELSE "release")
     /\ UNCHANGED <<sched, wait_next, det, poolVars>>

\* Third section, under pool_lock again.
FreeDone(t) ==
  /\ At(t, "refuse") \/ At(t, "release")
  /\ SetSlot(t, [Slot(t) EXCEPT
       !.destroying = FALSE,
       !.used = IF Top(t).at = "release" /\ @ /\ Slot(t).g = Top(t).h.g THEN FALSE ELSE @])
  /\ Return(t)
  /\ UNCHANGED <<sched, wait_next, det, made, holds>>

-----------------------------------------------------------------------------
(***************************************************************************)
(* mutex_detach_task(), by the reaper of a dead task v                     *)
(***************************************************************************)
DetachFrom(i) == IF i = PoolSize THEN Detach("sem", 0) ELSE Detach("mutex", i)

\* Mutant: the scan does not pin the slot.
DetachPinless(v) ==
  /\ det[v].at = "mutex"
  /\ det' = [det EXCEPT ![v] = IF mtx[@.i].used THEN [@ EXCEPT !.at = "mscan"]
                               ELSE DetachFrom(@.i + 1)]
  /\ UNCHANGED <<sched, wait_next, stack, poolVars>>

DetachPin(v) ==
  LET i == det[v].i
  IN /\ det[v].at = "mutex"
     /\ IF mtx[i].used
        THEN /\ mtx' = [mtx EXCEPT ![i] = Pinned(i)]
             /\ det' = [det EXCEPT ![v].at = "mscan"]
        ELSE det' = [det EXCEPT ![v] = DetachFrom(i + 1)] /\ UNCHANGED mtx
     /\ UNCHANGED <<sched, wait_next, stack, made, holds>>

\* v leaves the queue; what v owned goes to the next waiter or is released.
DetachScan(v) ==
  LET i == det[v].i
      out == WaitQueueRemove(mtx[i].waiters, wait_next, v)
      next == WaitQueueDequeue(out.q, out.next)
      hand == mtx[i].owner = v
  IN /\ det[v].at = "mscan"
     /\ mtx' = [mtx EXCEPT ![i] = [@ EXCEPT
          !.waiters = IF hand THEN next.q ELSE out.q,
          !.owner = IF hand THEN next.task ELSE @,
          !.locked = IF hand THEN next.task # NoTask ELSE @]]
     /\ wait_next' = IF hand THEN next.next ELSE out.next
     /\ det' = [det EXCEPT ![v] = [@ EXCEPT !.at = "munpin", !.detached = out.ok,
                                            !.wake = IF hand THEN next.task ELSE NoTask]]
     /\ UNCHANGED <<sched, stack, made, holds>>

\* The scan's own pin goes, unguarded; so does the one a detached waiter left.
DetachUnpin(v) ==
  LET i == det[v].i
      ops == (mtx[i].ops + OpsMod - 1) % OpsMod
  IN /\ det[v].at = "munpin"
     /\ mtx' = [mtx EXCEPT ![i].ops = IF det[v].detached /\ ops > 0 THEN ops - 1 ELSE ops]
     /\ det' = [det EXCEPT ![v].at = "munpark"]
     /\ UNCHANGED <<sched, wait_next, stack, made, holds>>

DetachUnpark(v) ==
  /\ det[v].at = "munpark"
  /\ Unpark(det[v].wake)
  /\ det' = [det EXCEPT ![v] = DetachFrom(det[v].i + 1)]
  /\ UNCHANGED <<wait_next, stack, poolVars>>

-----------------------------------------------------------------------------
\* The steps of a call in progress and of a reaper, which the kernel completes.
MutexCallStep(t) ==
  \/ MutexLock(t) \/ Park(t) \/ Locked(t) \/ MutexTrylock(t) \/ MutexUnlock(t)
  \/ UnlockUnpark(t) \/ Unpin(t) \/ FreeCheck(t) \/ FreeDone(t)

MutexDetachStep(v) == DetachPin(v) \/ DetachScan(v) \/ DetachUnpin(v) \/ DetachUnpark(v)

-----------------------------------------------------------------------------
(***************************************************************************)
(* Properties                                                              *)
(***************************************************************************)
PinnedAt == {"lock", "park", "locked", "try", "unlock", "unpark", "unpin"}

MutexTypeOK ==
  /\ mtx \in [Indices -> MutexRec]
  /\ made \subseteq Handles
  /\ holds \in [Tasks -> SUBSET Handles]

\* The operations that have slot i pinned: calls of live tasks, and reapers.
Callers(i) == {t \in Tasks : Live(t) /\ In(t, PinnedAt) /\ Top(t).h.i = i}
Scans(i) == {v \in Tasks : det[v].at \in {"mscan", "munpin"} /\ det[v].i = i}

\* t is back from mutex_lock() or a successful mutex_trylock() on h, up to its
\* next unlock.
Owns(t, h) ==
  /\ Live(t)
  /\ h \in holds[t] \/ (At(t, "locked") /\ Top(t).h = h)

\* mutex_lock(): a task that comes back from the lock, from park or from
\* schedule() is the owner until it unlocks, so no two tasks are in a critical
\* section at once: neither a second locker, nor a trylock, nor an unlock that
\* hands the mutex over while the new owner has not parked yet.  A reaped task
\* owns nothing.
OwnerOnReturn ==
  /\ \A t \in Tasks, h \in made :
       Owns(t, h) => mtx[h.i].g = h.g /\ mtx[h.i].used
                     /\ mtx[h.i].locked /\ mtx[h.i].owner = t
  /\ \A i \in Indices : mtx[i].owner # NoTask => sched[mtx[i].owner].state # "FREE"

=============================================================================
