-------------------------------- MODULE Sync ---------------------------------
(***************************************************************************)
(* Mutexes, condition variables, semaphores and channels together: tasks   *)
(* that use all of them, one at a time, and die in the middle of it.  The  *)
(* objects share the tasks' state, wake token and wait_next link, and the  *)
(* reaper visits their pools one after the other.                          *)
(***************************************************************************)
EXTENDS CondPool, SemPool, Ipc

vars == <<taskVars, poolVars, condVars, semVars, ipcVars>>

Init == ParkingInit /\ MutexesInit /\ CondInit /\ SemPoolInit /\ IpcInit

\* A program uses one object at a time: it begins nothing else while it has a mutex or a
\* permit, or owes a broadcast.
HasPermit(t) == \E h \in SemHandles : has[t][h] > 0
Unburdened(t) == holds[t] = {} /\ t \notin owes /\ ~HasPermit(t)

\* The system calls that a program may make now.
Begin(t) ==
  \/ /\ \/ PoolUnlock(t)
        \/ Unburdened(t) /\ (PoolAlloc(t) \/ PoolLock(t) \/ PoolTrylock(t) \/ PoolFree(t))
     /\ UNCHANGED <<condVars, semVars, ipcVars>>
  \/ /\ \/ SetFlag(t) \/ CondPoolBroadcast(t)
        \/ t \notin owes /\ CondPoolWait(t)
        \/ Unburdened(t) /\ (CondAlloc(t) \/ CondPoolSignal(t) \/ CondFree(t))
     /\ UNCHANGED <<semVars, ipcVars>>
  \/ /\ \/ HasPermit(t) /\ SemPoolPost(t)
        \/ /\ Unburdened(t)
           /\ SemPoolAlloc(t) \/ SemPoolWait(t) \/ SemPoolTrywait(t) \/ SemPoolPost(t) \/ SemPoolFree(t)
     /\ UNCHANGED <<poolVars, condVars, ipcVars>>
  \/ /\ Unburdened(t)
     /\ \E c \in Channels : \/ \E len \in Lengths : IpcSend(t, c, len)
                           \/ \E cap \in Caps : SysIpcRecv(t, c, cap)
     /\ UNCHANGED <<poolVars, condVars, semVars>>

\* The kernel goes on with the call of t,
CallStep(t) ==
  \/ MutexCallStep(t) /\ UNCHANGED <<condVars, semVars, ipcVars>>
  \/ CondCallStep(t) /\ UNCHANGED <<semVars, ipcVars>>
  \/ SemCallStep(t) /\ UNCHANGED <<poolVars, condVars, ipcVars>>
  \/ IpcCallStep(t) /\ UNCHANGED <<poolVars, condVars, semVars>>

\* and sched_reap_dead() with a dead task t.
ReapStep(t) ==
  \/ ReapVictim(t) /\ UNCHANGED <<poolVars, condVars, semVars, ipcVars>>
  \/ IpcDetach(t) /\ UNCHANGED <<poolVars, condVars, semVars>>
  \/ MutexDetachStep(t) /\ UNCHANGED <<condVars, semVars, ipcVars>>
  \/ SemDetachStep(t) /\ UNCHANGED <<poolVars, condVars, ipcVars>>
  \/ CondDetachStep(t) /\ UNCHANGED <<semVars, ipcVars>>
  \/ ReapClear(t) /\ UNCHANGED <<poolVars, condVars, semVars, ipcVars>>

Next == \E t \in Tasks :
  \/ Begin(t) \/ CallStep(t) \/ ReapStep(t)
  \/ TaskStep(t) /\ UNCHANGED <<poolVars, condVars, semVars, ipcVars>>

Spec == Init /\ [][Next]_vars

\* The scheduler dispatches READY tasks, a task in the kernel and a reaper go on, and a
\* program gives back what it has: it unlocks, broadcasts and posts.
FairSpec ==
  /\ Spec
  /\ \A t \in Tasks :
       /\ WF_vars(CallStep(t)) /\ WF_vars(ReapStep(t))
       /\ WF_vars(Dispatch(t) /\ UNCHANGED <<poolVars, condVars, semVars, ipcVars>>)
       /\ SF_vars(PoolUnlock(t) /\ UNCHANGED <<condVars, semVars, ipcVars>>)
       /\ SF_vars(CondPoolBroadcast(t) /\ UNCHANGED <<semVars, ipcVars>>)
       /\ SF_vars(SemPoolPost(t) /\ HasPermit(t) /\ UNCHANGED <<poolVars, condVars, ipcVars>>)

-----------------------------------------------------------------------------
(***************************************************************************)
(* Properties                                                              *)
(***************************************************************************)
\* The tasks, the links, the pools, their generations and the mailboxes are well formed.
TypeOK ==
  /\ sched \in [Tasks -> SchedRec]
  /\ wait_next \in Links
  /\ MutexTypeOK /\ CondTypeOK /\ SemTypeOK /\ IpcTypeOK

\* Everything that has a wait queue.
Objects ==
  ({"mutex"} \X Indices) \cup {<<"cond", 0>>} \cup ({"sem"} \X SemIndices) \cup ({"ipc"} \X Channels)
QueueOf(o) ==
  CASE o[1] = "mutex" -> mtx[o[2]].waiters
    [] o[1] = "cond" -> cond.waiters
    [] o[1] = "sem" -> sem[o[2]].waiters
    [] o[1] = "ipc" -> chan[o[2]].receivers
Waits(t, o) == ~WaitQueueEmpty(QueueOf(o)) /\ WaitQueueContains(QueueOf(o), wait_next, t)

\* The two ends of a queue belong together: the tail is the last task a walk from the head
\* meets.
EndsMeet(o) ==
  LET q == QueueOf(o)
  IN IF WaitQueueEmpty(q) THEN q.tail = NoTask
     ELSE Waits(q.tail, o) /\ wait_next[q.tail] = NoTask

\* The tasks have one wait_next link for all queues: no task is ever in the queues of two
\* objects, whatever it waited on before, whoever woke it and whoever reaps its neighbours,
\* the four detach functions take a reaped task out of all of them, and no
\* wait_queue_remove() leaves a tail behind at which an enqueue would be lost.
QueuesSound ==
  /\ \A t \in Tasks :
       Cardinality({o \in Objects : Waits(t, o)}) <= IF sched[t].state = "FREE" THEN 0 ELSE 1
  /\ \A o \in Objects : EndsMeet(o)

\* The operations that have a slot pinned: calls of live tasks, and reapers.
CondScans == {v \in Tasks : det[v].at \in {"cscan", "cunpin"}}
SemCallers(i) ==
  {t \in Tasks : Live(t) /\ In(t, SemPinnedAt) /\ Top(t).h.i = i}
SemScans(i) == {v \in Tasks : det[v].at \in {"sscan", "sunpin"} /\ det[v].i = i}

Pins(ops, callers, scans) == ops >= Cardinality(callers) + Cardinality(scans)
\* active_ops never falls below the calls and the reapers' scans that are inside an object,
\* although a call, the reaper of its task and a scan all take pins back: a pool's free
\* function cannot take the object from under one of them.
PinsCover ==
  /\ \A i \in Indices : mtx[i].used => Pins(mtx[i].ops, Callers(i), Scans(i))
  /\ cond.used => Pins(cond.ops, CondCallers, CondScans)
  /\ \A i \in SemIndices : sem[i].used => Pins(sem[i].ops, SemCallers(i), SemScans(i))

\* The pins and the generations do their work: while a call is between its pin and its
\* unpin, blocked in the queue included, the slot of its handle is neither freed nor given
\* out again.
SlotsStable ==
  \A t \in Tasks : Live(t) =>
    /\ In(t, PinnedAt) => mtx[Top(t).h.i].used /\ mtx[Top(t).h.i].g = Top(t).h.g
    /\ InCond(t) => cond.used /\ cond.g = stack[t][Len(stack[t])].c
    /\ In(t, SemPinnedAt) => Current(Top(t).h)

\* t is in a call that may block: for a mutex, for a permit, or in condvar_wait() although
\* the condition holds.
Blocked(t) ==
  \/ In(t, {"lock", "park", "locked"}) \/ In(t, {"swait", "spark", "swaited"})
  \/ flag /\ InCond(t)

\* Every call that blocks is served, as long as holders unlock, permits are posted and the
\* condition is set: mutex_pool_lock() and semaphore_pool_wait() return, condvar_wait()
\* returns with the mutex taken again, and a message is taken from the mailbox of a channel
\* with a receiver whose buffer can hold it.  In particular no unpark that comes before the
\* park is lost.
CallsServed ==
  /\ \A t \in Tasks : Blocked(t) ~> ~Blocked(t)
  /\ \A c \in Channels :
       (chan[c].msg # NoMsg /\ \E t \in Tasks : /\ In(t, {"irecv"}) /\ Top(t).c = c
                                               /\ Top(t).cap >= chan[c].msg.len)
       ~> chan[c].msg = NoMsg
=============================================================================
