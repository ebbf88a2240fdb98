--------------------------- MODULE SchedTheorems ---------------------------
(***************************************************************************)
(* What the scheduler guarantees about the end of a task.                  *)
(***************************************************************************)
EXTENDS SchedDeath, SchedSafety, FiniteSetTheorems

\* One reaper, because there is one and no two frames share a victim.
LEMMA OneReaper ==
  ASSUME SafeInv, ReapInv
  PROVE  ReapedOnce
<1> SUFFICES ASSUME NEW v \in Slots
             PROVE  Cardinality(Reapers(v)) =
                      IF task[v].used /\ task[v].state = "REAPING" THEN 1 ELSE 0
  BY DEF ReapedOnce
<1>1. Reapers(v) = {t \in Tasks : Live(t) /\ Has(Frames(t), ReapAt, v)}
  BY DEF Reapers, Live, ReapAt
<1>2. ASSUME NEW t \in Reapers(v)
      PROVE  /\ t \in Tasks /\ Live(t)
             /\ \E i \in 1 .. Len(Frames(t)) : ReapFrame(t, i) /\ Frames(t)[i].arg = v
  BY <1>1, <1>2 DEF Has, ReapFrame
<1>3. CASE Reaping(v)
  <2>1. PICK t \in Tasks : Live(t) /\ Has(Frames(t), ReapAt, v)
    BY <1>3 DEF ReapInv, ReaperThere
  <2>2. t \in Reapers(v)
    BY <1>1, <2>1
  <2>3. ASSUME NEW u \in Reapers(v) PROVE u = t
    BY <1>2, <2>2, <2>3 DEF SafeInv, ReapersOK
  <2>4. Reapers(v) = {t}
    BY <2>2, <2>3
  <2>5. QED BY <1>3, <2>4, FS_Singleton DEF Reaping
<1>4. CASE ~Reaping(v)
  <2>1. \A t \in Reapers(v) : FALSE
    BY <1>2, <1>4 DEF SafeInv, ReapersOK
  <2>2. Reapers(v) = {}
    BY <2>1
  <2>3. QED BY <1>4, <2>2, FS_EmptySet DEF Reaping
<1>5. QED BY <1>3, <1>4

\* No wake, park, sleep or switch revives a task that has exited or been killed
\* (task_exit, sched_kill_task, sched_reap_dead), on any number of CPUs, as long as
\* no task is on two of them.
THEOREM DeadIsFinal == Spec /\ []OneCpuPerTask => DeadStaysDead
<1>1. TypeInv /\ SafeInv /\ LeavingOK /\ [Next]_vars =>
        [\A t \in Slots :
           /\ task[t].used /\ task[t].state \in Gone
           /\ task'[t].used /\ task'[t].id = task[t].id
           => \/ task'[t].state = task[t].state
              \/ task[t].state = "ZOMBIE" /\ task'[t].state = "DEAD"
              \/ task[t].state = "DEAD" /\ task'[t].state = "REAPING"]_vars
  BY StepLater DEF Later
<1>2. QED BY <1>1, LeavingAlways, TypeInvAlways, SafeInvAlways, PTL DEF Spec, DeadStaysDead

\* The same without the hypothesis, where schedule() keeps every task on one CPU.
THEOREM DeadIsFinalAlone == ASSUME Unblocking PROVE Spec => DeadStaysDead
BY DeadIsFinal, OneCpu, PTL

\* sched_kill_task_sync() returns only when its target is gone from the table or
\* dead, on any number of CPUs, as long as no task is on two of them.
THEOREM KillIsFinal == Spec /\ []OneCpuPerTask => KillSyncFinal
<1>1. TypeInv /\ SafeInv /\ OneCpuPerTask /\ DeathInv /\ [Next]_vars =>
        [\A c \in Cpus :
           In(c, "killsync") /\ stack'[c] = Below(c)
           => \A t \in Slots : task[t].used /\ task[t].id = Top(c).arg
                               => task[t].state \in Gone]_vars
  BY KillReturns
<1>2. QED BY <1>1, DeathAlways, TypeInvAlways, SafeInvAlways, PTL DEF Spec, KillSyncFinal

\* The same without the hypothesis, where schedule() keeps every task on one CPU.
THEOREM KillIsFinalAlone == ASSUME Unblocking PROVE Spec => KillSyncFinal
BY KillIsFinal, OneCpu, PTL

\* sched_reap_dead() on any number of CPUs, where the tasks are user tasks and none is
\* on two CPUs: a slot in REAPING has exactly one reaper, any other slot has none.
THEOREM ReapersExact ==
  ASSUME "kthread" \notin Ops PROVE Spec /\ []OneCpuPerTask => []ReapedOnce
BY OneReaper, ReapAlways, SafeInvAlways, PTL

\* The same without the hypothesis, where schedule() keeps every task on one CPU.
THEOREM ReapersExactAlone ==
  ASSUME "kthread" \notin Ops, Unblocking PROVE Spec => []ReapedOnce
BY ReapersExact, OneCpu, PTL
=============================================================================
