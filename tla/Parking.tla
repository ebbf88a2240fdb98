------------------------------- MODULE Parking -------------------------------
(***************************************************************************)
(* The scheduler (sched.c) as the objects with wait queues see it: what a  *)
(* task's state and its wake token do when it parks, is unparked,          *)
(* dispatched, killed, exits or is reaped.  Run queues and CPUs are those  *)
(* of module Sched; here a RUNNING task has some CPU and a READY one waits *)
(* for one.                                                                *)
(*                                                                         *)
(* stack[t] holds the kernel calls task t is in, innermost first; it is    *)
(* empty while t runs its own program.  System calls run with IRQs masked, *)
(* so a task leaves its CPU inside one only where it calls schedule().     *)
(***************************************************************************)
EXTENDS WaitQueue

CONSTANTS
  Ops,       \* the calls the tasks of a workload make
  Env,       \* what may befall a task: "exit", "kill"
  MaxDeaths  \* bound on the tasks that die

VARIABLES
  sched,      \* struct task: state, wake_pending
  wait_next,  \* struct task: wait_next
  stack,      \* the kernel calls each task is in
  det         \* sched_reap_dead(): how far the reaper of a dead task is

taskVars == <<sched, wait_next, stack, det>>

Gone == {"DEAD", "REAPING", "FREE"}

SchedRec == [state : {"RUNNING", "READY", "BLOCKED"} \cup Gone, wake : BOOLEAN]

Fresh == [state |-> "RUNNING", wake |-> FALSE]

Live(t) == sched[t].state \notin Gone

\* t is executing, in its program or in the kernel call at.
Runs(t) == sched[t].state = "RUNNING"
Idle(t) == Runs(t) /\ stack[t] = <<>>
At(t, at) == Runs(t) /\ stack[t] # <<>> /\ Head(stack[t]).at = at
In(t, ats) == stack[t] # <<>> /\ Head(stack[t]).at \in ats
Top(t) == Head(stack[t])

Goto(t, at) == stack' = [stack EXCEPT ![t] = <<[@[1] EXCEPT !.at = at]>> \o Tail(@)]
Return(t) == stack' = [stack EXCEPT ![t] = Tail(@)]

\* sched_park_task(): a pending token is consumed instead of blocking.
Parked(r) ==
  IF r.state \in Gone THEN r
  ELSE IF r.wake THEN [r EXCEPT !.wake = FALSE]
  ELSE [r EXCEPT !.state = "BLOCKED"]

\* Mutant: a wake-up that comes before the park is dropped.
UnparkedNoToken(r) ==
  IF r.state = "BLOCKED" THEN [r EXCEPT !.state = "READY"] ELSE r

\* sched_unpark_task()
Unparked(r) ==
  IF r.state \in Gone THEN r
  ELSE IF r.state = "BLOCKED" THEN [r EXCEPT !.state = "READY"]
  ELSE [r EXCEPT !.wake = TRUE]

Unpark(t) == IF t = NoTask THEN UNCHANGED sched
             ELSE sched' = [sched EXCEPT ![t] = Unparked(@)]

\* The reaper of a dead task is in ipc_detach_task(), mutex_detach_task(),
\* semaphore_detach_task() and condvar_detach_task(), in this order: at object i of "ipc",
\* "mutex", "sem" or "cond", past the first section of its lock, or at "clear".
Detach(at, i) == [at |-> at, i |-> i, detached |-> FALSE, wake |-> NoTask]
NotReaping == Detach("none", 0)

ParkingInit ==
  /\ sched = [t \in Tasks |-> Fresh]
  /\ wait_next = [t \in Tasks |-> NoTask]
  /\ stack = [t \in Tasks |-> <<>>]
  /\ det = [t \in Tasks |-> NotReaping]

-----------------------------------------------------------------------------
\* schedule() gives a CPU to a READY task.
Dispatch(t) ==
  /\ sched[t].state = "READY"
  /\ sched' = [sched EXCEPT ![t].state = "RUNNING"]
  /\ UNCHANGED <<wait_next, stack, det>>

Mortal == Cardinality({u \in Tasks : ~Live(u)}) < MaxDeaths

\* task_exit(), and the parent's wait4 where there is one.
Exit(t) ==
  /\ "exit" \in Env
  /\ Idle(t) /\ Mortal
  /\ sched' = [sched EXCEPT ![t].state = "DEAD"]
  /\ UNCHANGED <<wait_next, stack, det>>

\* sched_kill_task(), by the shell, of a task that has no CPU.
Kill(t) ==
  /\ "kill" \in Env
  /\ Live(t) /\ ~Runs(t) /\ Mortal
  /\ sched' = [sched EXCEPT ![t] = [@ EXCEPT !.state = "DEAD", !.wake = FALSE]]
  /\ UNCHANGED <<wait_next, stack, det>>

\* sched_reap_dead() picks its victim,
ReapVictim(v) ==
  /\ sched[v].state = "DEAD"
  /\ sched' = [sched EXCEPT ![v].state = "REAPING"]
  /\ det' = [det EXCEPT ![v] = Detach("ipc", 0)]
  /\ UNCHANGED <<wait_next, stack>>

\* and clears its slot after the last detach function.
ReapClear(v) ==
  /\ det[v].at = "clear"
  /\ sched' = [sched EXCEPT ![v] = [Fresh EXCEPT !.state = "FREE"]]
  /\ wait_next' = [wait_next EXCEPT ![v] = NoTask]
  /\ stack' = [stack EXCEPT ![v] = <<>>]
  /\ det' = [det EXCEPT ![v] = NotReaping]

TaskStep(t) == Dispatch(t) \/ Exit(t) \/ Kill(t)
=============================================================================
