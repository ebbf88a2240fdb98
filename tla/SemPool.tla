------------------------------- MODULE SemPool -------------------------------
(***************************************************************************)
(* src/src/kernel/semaphore.c: the pool of counting semaphores behind the  *)
(* SYS_SEM_* system calls, at the granularity of module MutexPool.  The    *)
(* tasks share permits: they wait for one, post the ones they have, and a  *)
(* producer may post a new one.                                            *)
(***************************************************************************)
EXTENDS Parking, Functions

CONSTANTS
  SemPoolSize, \* MAX_SEMAPHORE_POOL
  SemGenMax,   \* SEM_HANDLE_GENERATION_MAX
  MaxSems,     \* bound on the handles given out; no generation comes round again
  Value,       \* the value semaphores are created with
  MaxPosts     \* bound on the permits producers add

ASSUME SemAssumption ==
  /\ SemPoolSize \in Nat \ {0} /\ SemGenMax \in Nat \ {0} /\ MaxSems \in Nat
  /\ Value \in Nat /\ MaxPosts \in Nat

SemIndices == 0 .. SemPoolSize - 1
SemHandles == [i : SemIndices, g : 1 .. SemGenMax]

VARIABLES
  sem,      \* semaphore_pool[], with its used and generation arrays
  smade,    \* the handles semaphore_pool_alloc() has returned
  has,      \* the permits each task's program has, by handle
  created   \* the permits that were ever created, by handle

semVars == <<sem, smade, has, created>>

SemRec == [used : BOOLEAN, g : 0 .. SemGenMax, value : Nat, waiters : Queue, ops : Nat,
           destroying : BOOLEAN]

SemInit(g) == [used |-> TRUE, g |-> g, value |-> Value, waiters |-> WaitQueueInit,
               ops |-> 0, destroying |-> FALSE]

SemPoolInit ==
  /\ sem = [i \in SemIndices |-> [SemInit(0) EXCEPT !.used = FALSE]]
  /\ smade = {}
  /\ has = [t \in Tasks |-> [h \in SemHandles |-> 0]]
  /\ created = [h \in SemHandles |-> 0]

SemFrame(at, h) == [at |-> at, h |-> h, x |-> NoTask]
SemSlot(t) == sem[Top(t).h.i]
SetSem(t, s) == sem' = [sem EXCEPT ![Top(t).h.i] = s]

\* semaphore_pool_pin() accepts h.
SemValid(h) == sem[h.i].used /\ sem[h.i].g = h.g /\ ~sem[h.i].destroying

SemUnpinned(s) == [s EXCEPT !.ops = IF @ > 0 THEN @ - 1 ELSE @]

\* semaphore_pool_pin(), then on to "at"; the call fails where h is not valid.
SemPin(t, h, at) ==
  IF SemValid(h)
  THEN /\ sem' = [sem EXCEPT ![h.i].ops = @ + 1]
       /\ stack' = [stack EXCEPT ![t] = <<SemFrame(at, h)>>]
  ELSE UNCHANGED <<sem, stack>>

-----------------------------------------------------------------------------

SemGeneration(g) == IF g + 1 > SemGenMax THEN 1 ELSE g + 1

\* semaphore_pool_alloc(): the first free slot, in its next generation.
SemPoolAlloc(t) ==
  /\ "salloc" \in Ops
  /\ Idle(t)
  /\ Cardinality(smade) < MaxSems
  /\ \E i \in SemIndices :
       LET h == [i |-> i, g |-> SemGeneration(sem[i].g)]
       IN /\ ~sem[i].used /\ \A j \in 0 .. i - 1 : sem[j].used
          /\ h \notin smade
          /\ sem' = [sem EXCEPT ![i] = SemInit(h.g)]
          /\ smade' = smade \cup {h}
          /\ created' = [created EXCEPT ![h] = Value]
  /\ UNCHANGED <<taskVars, has>>

\* A program waits for a permit it does not have.
SemPoolWait(t) ==
  /\ Idle(t)
  /\ \E h \in smade : has[t][h] = 0 /\ SemPin(t, h, "swait")
  /\ UNCHANGED <<sched, wait_next, det, smade, has, created>>

\* semaphore_wait() up to the release of sem->lock.
SemaphoreWait(t) ==
  LET s == SemSlot(t)
      r == WaitQueueEnqueue(s.waiters, wait_next, t)
  IN /\ At(t, "swait")
     /\ IF s.value > 0
        THEN /\ SetSem(t, [s EXCEPT !.value = @ - 1])
             /\ Goto(t, "swaited")
             /\ UNCHANGED wait_next
        ELSE /\ SetSem(t, [s EXCEPT !.waiters = r.q])
             /\ wait_next' = r.next
             /\ Goto(t, IF r.ok THEN "spark" ELSE "sunpin")
     /\ UNCHANGED <<sched, det, smade, has, created>>

SemPark(t) ==
  /\ At(t, "spark")
  /\ sched' = [sched EXCEPT ![t] = Parked(@)]
  /\ Goto(t, "swaited")
  /\ UNCHANGED <<wait_next, det, semVars>>

\* semaphore_pool_unpin(); the caller now has a permit.
SemWaited(t) ==
  /\ At(t, "swaited")
  /\ SetSem(t, SemUnpinned(SemSlot(t)))
  /\ has' = [has EXCEPT ![t][Top(t).h] = @ + 1]
  /\ Return(t)
  /\ UNCHANGED <<sched, wait_next, det, smade, created>>

SemPoolTrywait(t) ==
  /\ "stry" \in Ops
  /\ Idle(t)
  /\ \E h \in smade : has[t][h] = 0 /\ SemPin(t, h, "stry")
  /\ UNCHANGED <<sched, wait_next, det, smade, has, created>>

SemaphoreTrywait(t) ==
  /\ At(t, "stry")
  /\ IF SemSlot(t).value = 0
     THEN Goto(t, "sunpin") /\ UNCHANGED sem
     ELSE SetSem(t, [SemSlot(t) EXCEPT !.value = @ - 1]) /\ Goto(t, "swaited")
  /\ UNCHANGED <<sched, wait_next, det, smade, has, created>>

\* A program posts a permit it has, or a producer posts one more.
SemPoolPost(t) ==
  /\ Idle(t)
  /\ \E h \in smade :
       /\ \/ /\ has[t][h] > 0
             /\ has' = IF SemValid(h) THEN [has EXCEPT ![t][h] = @ - 1] ELSE has
             /\ UNCHANGED created
          \/ /\ has[t][h] = 0 /\ SemValid(h) /\ created[h] < Value + MaxPosts
             /\ created' = [created EXCEPT ![h] = @ + 1]
             /\ UNCHANGED has
       /\ SemPin(t, h, "spost")
  /\ UNCHANGED <<sched, wait_next, det, smade>>

\* Mutant: the value is raised although a waiter takes the permit.
SemaphorePostBoth(t) ==
  LET s == SemSlot(t)
      r == WaitQueueDequeue(s.waiters, wait_next)
  IN /\ At(t, "spost")
     /\ SetSem(t, [s EXCEPT !.waiters = r.q, !.value = @ + 1])
     /\ wait_next' = r.next
     /\ stack' = [stack EXCEPT ![t][1].at = "sunpark", ![t][1].x = r.task]
     /\ UNCHANGED <<sched, det, smade, has, created>>

\* semaphore_post(): the first waiter gets the permit, or the value rises.
SemaphorePost(t) ==
  LET s == SemSlot(t)
      r == WaitQueueDequeue(s.waiters, wait_next)
  IN /\ At(t, "spost")
     /\ SetSem(t, [s EXCEPT !.waiters = r.q,
                             !.value = IF r.task = NoTask THEN @ + 1 ELSE @])
     /\ wait_next' = r.next
     /\ stack' = [stack EXCEPT ![t][1].at = "sunpark", ![t][1].x = r.task]
     /\ UNCHANGED <<sched, det, smade, has, created>>

PostUnpark(t) ==
  /\ At(t, "sunpark")
  /\ Unpark(Top(t).x)
  /\ stack' = [stack EXCEPT ![t][1].at = "sunpin", ![t][1].x = NoTask]
  /\ UNCHANGED <<wait_next, det, semVars>>

SemUnpin(t) ==
  /\ At(t, "sunpin")
  /\ SetSem(t, SemUnpinned(SemSlot(t)))
  /\ Return(t)
  /\ UNCHANGED <<sched, wait_next, det, smade, has, created>>

-----------------------------------------------------------------------------

\* semaphore_pool_free(): pool section, semaphore section, pool section.
SemPoolFree(t) ==
  /\ "sfree" \in Ops
  /\ Idle(t)
  /\ \E h \in smade :
       IF SemValid(h) /\ sem[h.i].ops = 0
       THEN /\ sem' = [sem EXCEPT ![h.i].destroying = TRUE]
            /\ stack' = [stack EXCEPT ![t] = <<SemFrame("sfree", h)>>]
       ELSE UNCHANGED <<sem, stack>>
  /\ UNCHANGED <<sched, wait_next, det, smade, has, created>>

SemFreeCheck(t) ==
  /\ At(t, "sfree")
  /\ Goto(t, IF WaitQueueEmpty(SemSlot(t).waiters) THEN "srelease" ELSE "srefuse")
  /\ UNCHANGED <<sched, wait_next, det, semVars>>

SemFreeDone(t) ==
  /\ At(t, "srefuse") \/ At(t, "srelease")
  /\ SetSem(t, [SemSlot(t) EXCEPT
       !.destroying = FALSE,
       !.used = IF Top(t).at = "srelease" /\ @ /\ SemSlot(t).g = Top(t).h.g THEN FALSE ELSE @])
  /\ Return(t)
  /\ UNCHANGED <<sched, wait_next, det, smade, has, created>>

-----------------------------------------------------------------------------
\* semaphore_detach_task(), by the reaper of v.
SemDetachFrom(i) == IF i = SemPoolSize THEN Detach("cond", 0) ELSE Detach("sem", i)

SemDetachPin(v) ==
  LET i == det[v].i
  IN /\ det[v].at = "sem"
     /\ IF sem[i].used
        THEN /\ sem' = [sem EXCEPT ![i].ops = @ + 1]
             /\ det' = [det EXCEPT ![v].at = "sscan"]
        ELSE det' = [det EXCEPT ![v] = SemDetachFrom(i + 1)] /\ UNCHANGED sem
     /\ UNCHANGED <<sched, wait_next, stack, smade, has, created>>

SemDetachScan(v) ==
  LET i == det[v].i
      out == WaitQueueRemove(sem[i].waiters, wait_next, v)
  IN /\ det[v].at = "sscan"
     /\ sem' = [sem EXCEPT ![i].waiters = out.q]
     /\ wait_next' = out.next
     /\ det' = [det EXCEPT ![v] = [@ EXCEPT !.at = "sunpin", !.detached = out.ok]]
     /\ UNCHANGED <<sched, stack, smade, has, created>>

\* Both decrements are guarded here.
SemDetachUnpin(v) ==
  LET i == det[v].i
      once == SemUnpinned(sem[i])
  IN /\ det[v].at = "sunpin"
     /\ sem' = [sem EXCEPT ![i] = IF det[v].detached THEN SemUnpinned(once) ELSE once]
     /\ det' = [det EXCEPT ![v] = SemDetachFrom(i + 1)]
     /\ UNCHANGED <<sched, wait_next, stack, smade, has, created>>

-----------------------------------------------------------------------------
SemCallStep(t) ==
  \/ SemaphoreWait(t) \/ SemPark(t) \/ SemWaited(t) \/ SemaphoreTrywait(t) \/ SemaphorePost(t)
  \/ PostUnpark(t) \/ SemUnpin(t) \/ SemFreeCheck(t) \/ SemFreeDone(t)

SemDetachStep(v) == SemDetachPin(v) \/ SemDetachScan(v) \/ SemDetachUnpin(v)

-----------------------------------------------------------------------------
(***************************************************************************)
(* Properties                                                              *)
(***************************************************************************)
SemTypeOK ==
  /\ sem \in [SemIndices -> SemRec]
  /\ smade \subseteq SemHandles
  /\ has \in [Tasks -> [SemHandles -> Nat]]

\* The live tasks a permit of h is on its way to: taken from value or handed over
\* by semaphore_post(), and not returned with yet.
Receiving(h) ==
  {t \in Tasks : /\ Live(t)
                 /\ In(t, {"spark", "swaited"}) /\ Top(t).h = h
                 /\ ~WaitQueueContains(sem[h.i].waiters, wait_next, t)}

\* The posts of h that have not reached the semaphore.
Posting(h) == {t \in Tasks : Live(t) /\ In(t, {"spost"}) /\ Top(t).h = h}

Accounted(h) ==
  sem[h.i].value + SumFunction([t \in Tasks |-> IF Live(t) THEN has[t][h] ELSE 0])
  + Cardinality(Receiving(h)) + Cardinality(Posting(h))

\* A semaphore in use is of the generation of h.
Current(h) == sem[h.i].used /\ sem[h.i].g = h.g

\* semaphore_post()/semaphore_wait(): a permit is never lost and never doubled,
\* neither on the way from a post to a waiter that has not parked yet, nor between
\* waiters, tries and posts that race.  A permit may go with the task that dies with
\* it, but no reaper makes one up.
PermitsConserved ==
  \A h \in smade : Current(h) =>
    /\ Accounted(h) <= created[h]
    /\ (\A t \in Tasks : Live(t)) => Accounted(h) = created[h]

SemPinnedAt == {"swait", "spark", "swaited", "stry", "spost", "sunpark", "sunpin"}
=============================================================================
