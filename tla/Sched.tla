------------------------------- MODULE Sched -------------------------------
(***************************************************************************)
(* The SMP scheduler (src/src/kernel/sched.c): the task table, the per-CPU *)
(* run queues, schedule() with its reaper, park/unpark, sleep, wait4, exit,*)
(* kill, and the task-creation paths of main.c, shell.c and process.c that *)
(* drive it.                                                               *)
(*                                                                         *)
(* Every critical section of sched_lock is one action.  What a CPU is      *)
(* executing is a stack of frames (stack[c], innermost first); the frames  *)
(* of a task that is switched out are in saved[t].  The C code between two *)
(* critical sections is the gap between two actions, in which any other    *)
(* CPU may step.  A frame is masked when it runs with IRQs disabled: system*)
(* calls of user tasks and interrupt handlers are, kernel tasks and the    *)
(* idle loops (idle0 also runs the shell) are not.                         *)
(***************************************************************************)
EXTENDS Integers, Sequences, FiniteSets

CONSTANTS
  NCpus,     \* SCHED_MAX_CPUS; slot c < NCpus of tasks[] is the idle task of c
  MaxTasks,  \* MAX_TASKS
  MaxId,     \* bound on next_task_id: no task is created from MaxId on
  MaxSleep,  \* bound on the seconds a task asks to sleep for
  Ops        \* the operations the tasks of this workload perform

ASSUME ConstantsOK ==
  /\ NCpus \in Nat \ {0}
  /\ MaxTasks \in Nat /\ NCpus < MaxTasks
  /\ MaxId \in Nat /\ MaxSleep \in Nat

Cpus == 0 .. NCpus - 1
Tasks == 0 .. MaxTasks - 1
Slots == NCpus .. MaxTasks - 1
NoCpu == -1
NoParent == -1
NoTick == -1

States == {"RUNNING", "READY", "BLOCKED", "DEAD", "ZOMBIE", "REAPING"}
Gone == {"DEAD", "ZOMBIE", "REAPING"}

VARIABLES
  task,          \* tasks[]: the struct task fields the scheduler reads
  rq,            \* run_queues[c]: the queued slots, head first
  need_resched,  \* run_queues[c].need_resched
  next_enqueue_cpu,
  next_task_id,
  init_task_id,
  cur,           \* tpidr_el1: the slot of the task CPU c is executing
  stack,         \* what CPU c is executing, innermost frame first
  saved,         \* struct task_context: the frames a switched-out task resumes
  published,     \* slots in a subsystem wait queue (ipc, mutex, semaphore, condvar)
  tickat         \* CPU 0 holds sched_lock inside sched_tick, at this slot

lockVars == <<task, rq, need_resched, next_enqueue_cpu>>
idVars == <<next_task_id, init_task_id>>
vars == <<lockVars, idVars, cur, stack, saved, published, tickat>>

TaskRec == [id : Nat, used : BOOLEAN, user : BOOLEAN, state : States,
            sleep : Nat, kill : BOOLEAN, wake : BOOLEAN,
            cpu : Cpus \cup {NoCpu}, rq_cpu : Cpus \cup {NoCpu},
            on_rq : BOOLEAN, parent : Nat \cup {NoParent}]

\* sched_clear_task(): the struct is zeroed, and zero is RUNNING, CPU 0, id 0.
Cleared == [id |-> 0, used |-> FALSE, user |-> FALSE, state |-> "RUNNING",
            sleep |-> 0, kill |-> FALSE, wake |-> FALSE, cpu |-> 0, rq_cpu |-> 0,
            on_rq |-> FALSE, parent |-> 0]

IdleTask(c) == [Cleared EXCEPT !.id = c, !.used = TRUE, !.cpu = c, !.rq_cpu = c]

(***************************************************************************)
(* The *_locked helpers, as functions on the state sched_lock protects.    *)
(***************************************************************************)
Now == [task |-> task, rq |-> rq, need |-> need_resched, nxt |-> next_enqueue_cpu]

SetSched(s) ==
  /\ task' = s.task
  /\ rq' = s.rq
  /\ need_resched' = s.need
  /\ next_enqueue_cpu' = s.nxt

RqEnqueue(s, t, c) ==
  IF s.task[t].id < NCpus \/ s.task[t].on_rq THEN s
  ELSE [s EXCEPT !.task[t] = [@ EXCEPT !.rq_cpu = c, !.on_rq = TRUE],
                 !.rq[c] = Append(@, t)]

\* The first n entries of rq[c] leave the queue (n calls of sched_rq_dequeue_locked).
RqDequeue(s, c, n) ==
  [s EXCEPT !.rq[c] = SubSeq(@, n + 1, Len(@)),
            !.task = [u \in Tasks |->
              IF \E j \in 1 .. n : s.rq[c][j] = u
              THEN [s.task[u] EXCEPT !.on_rq = FALSE] ELSE s.task[u]]]

CutAt(q, i) == [j \in 1 .. Len(q) - 1 |-> IF j < i THEN q[j] ELSE q[j + 1]]

\* Mutant: on_rq is cleared, the entry stays in the list.
RqRemoveFlagOnly(s, t) == [s EXCEPT !.task[t].on_rq = FALSE]

RqRemove(s, t) ==
  LET c == s.task[t].rq_cpu
  IN IF ~s.task[t].on_rq \/ c \notin Cpus THEN s
     ELSE IF \E i \in 1 .. Len(s.rq[c]) : s.rq[c][i] = t
     THEN [s EXCEPT !.task[t].on_rq = FALSE,
                    !.rq[c] = CutAt(@, CHOOSE i \in 1 .. Len(@) : @[i] = t)]
     ELSE [s EXCEPT !.task[t].on_rq = FALSE]

\* Distance of c from the rotating start of the search.
Rotation(s, c) == IF c >= s.nxt THEN c - s.nxt ELSE c - s.nxt + NCpus

\* The one CPU sched_least_loaded_cpu_locked() returns, as a singleton.
LeastLoaded(s) ==
  {c \in Cpus : \A d \in Cpus :
     \/ Len(s.rq[c]) < Len(s.rq[d])
     \/ Len(s.rq[c]) = Len(s.rq[d]) /\ Rotation(s, c) <= Rotation(s, d)}

\* sched_make_ready_locked(), c being the least loaded CPU.
MakeReady(s, t, c) ==
  IF s.task[t].id < NCpus THEN s
  ELSE [RqEnqueue([s EXCEPT !.task[t].state = "READY"], t, c)
          EXCEPT !.need[c] = TRUE, !.nxt = IF c + 1 = NCpus THEN 0 ELSE c + 1]

IsReady(s, c, i) == s.task[s.rq[c][i]].state = "READY"

AnyReady(s, c) == \E i \in 1 .. Len(s.rq[c]) : IsReady(s, c, i)

\* The index of the first READY entry, as a singleton.
FirstReady(s, c) ==
  {i \in 1 .. Len(s.rq[c]) : /\ IsReady(s, c, i)
                             /\ \A j \in 1 .. i - 1 : ~IsReady(s, c, j)}

Busiest(s, c) ==
  {b \in Cpus \ {c} :
     /\ Len(s.rq[b]) > 0
     /\ \A d \in Cpus : \/ Len(s.rq[d]) < Len(s.rq[b])
                        \/ Len(s.rq[d]) = Len(s.rq[b]) /\ b <= d}

\* The dequeue loop on rq[b]: entries are discarded up to the first READY one,
\* all of them when there is none, and the caller falls back to slot idle.
DequeueReady(s, b, idle) ==
  IF AnyReady(s, b)
  THEN {[next |-> s.rq[b][i], s |-> RqDequeue(s, b, i)] : i \in FirstReady(s, b)}
  ELSE {[next |-> idle, s |-> RqDequeue(s, b, Len(s.rq[b]))]}

\* A task stolen by CPU c changes queue.
Stolen(p, c) ==
  IF p.next = c THEN p
  ELSE [next |-> p.next, s |-> [p.s EXCEPT !.task[p.next].rq_cpu = c]]

\* sched_pick_next_locked() falling back to the idle task: the one outcome,
\* as a singleton of [next, s].
PickNext(s, c) ==
  IF AnyReady(s, c) THEN DequeueReady(s, c, c)
  ELSE LET drained == RqDequeue(s, c, Len(s.rq[c]))
       IN IF Busiest(drained, c) = {} THEN {[next |-> c, s |-> drained]}
          ELSE UNION {{Stolen(p, c) : p \in DequeueReady(drained, b, c)} :
                        b \in Busiest(drained, c)}

(***************************************************************************)
(* Frames.                                                                 *)
(***************************************************************************)
\* body: the task's own code.   boot: kernel_start_user_services.
\* reap, cleanup, clear, switch: inside schedule().   publish, parked: a subsystem
\* wait.   unpark: a producer that has dequeued arg.   wake, parent, register,
\* adopt: a creator that is setting up slot arg.   wait4, killsync: the loops
\* of sched_wait4 and sched_kill_task_sync.   exited: the end of task_exit.
At == {"body", "boot", "reap", "cleanup", "clear", "switch", "publish", "parked", "unpark",
       "wake", "parent", "register", "adopt", "wait4", "killsync", "exited"}
AnyPid == 0

Frame == [at : At, arg : Int, masked : BOOLEAN]

F(at, arg, m) == [at |-> at, arg |-> arg, masked |-> m]

Body == <<F("body", 0, FALSE)>>

Top(c) == Head(stack[c])
Below(c) == Tail(stack[c])
In(c, at) == Top(c).at = at

\* A frame entered from CPU c's task: a user task enters the kernel by an SVC
\* or an abort, with IRQs masked.
Enter(c, at, arg) == F(at, arg, Top(c).masked \/ task[cur[c]].user)

Goto(c, frames) == stack' = [stack EXCEPT ![c] = frames]
Call(c, at, arg) == Goto(c, <<Enter(c, at, arg)>> \o stack[c])
Return(c) == Goto(c, Below(c))
Become(c, at, arg) == Goto(c, <<F(at, arg, Top(c).masked)>> \o Below(c))

\* A task's code calls the kernel: only from its own frame, never from idle
\* unless the idle loop does it (idle0 runs the shell).
IsTask(c) == In(c, "body") /\ cur[c] \in Slots
IsUser(c) == IsTask(c) /\ task[cur[c]].user
IsKernel(c) == IsTask(c) /\ ~task[cur[c]].user
IsShell(c) == In(c, "body") /\ cur[c] = 0

Init ==
  /\ task = [t \in Tasks |-> IF t \in Cpus THEN IdleTask(t) ELSE Cleared]
  /\ rq = [c \in Cpus |-> <<>>]
  /\ need_resched = [c \in Cpus |-> FALSE]
  /\ next_enqueue_cpu = 0
  /\ next_task_id = NCpus
  /\ init_task_id = NoParent
  /\ cur = [c \in Cpus |-> c]
  /\ stack = [c \in Cpus |->
       IF c = 0 /\ "boot" \in Ops THEN <<F("boot", 0, FALSE)>> ELSE Body]
  /\ saved = [t \in Tasks |-> Body]
  /\ published = {}
  /\ tickat = NoTick

(***************************************************************************)
(* schedule(): reap, then switch.                                          *)
(***************************************************************************)
Yield(c) ==
  /\ In(c, "body")
  /\ cur[c] \in Cpus \/ "yield" \in Ops
  /\ Call(c, "reap", 0)
  /\ UNCHANGED <<lockVars, idVars, cur, saved, published, tickat>>

\* Mutant: current_cpu is not looked at.
ReapableOnCpu(t) == task[t].used /\ task[t].state = "DEAD"

Reapable(t) == task[t].used /\ task[t].state = "DEAD" /\ task[t].cpu = NoCpu

\* Mutant: the victim is not marked REAPING.
ReapVictimUnmarked(c) ==
  /\ In(c, "reap")
  /\ \E t \in Slots : /\ Reapable(t)
                      /\ SetSched(RqRemove(Now, t))
                      /\ Become(c, "cleanup", t)
  /\ UNCHANGED <<idVars, cur, saved, published, tickat>>

\* sched_reap_dead() up to its first unlock.  The order of the task list is
\* left open: any reapable task may be the first one found.
ReapVictim(c) ==
  /\ In(c, "reap")
  /\ \E t \in Slots :
       /\ Reapable(t)
       /\ SetSched([RqRemove(Now, t) EXCEPT !.task[t].state = "REAPING"])
       /\ Become(c, "cleanup", t)
  /\ UNCHANGED <<idVars, cur, saved, published, tickat>>

\* ipc_, mutex_, semaphore_ and condvar_detach_task(victim).
ReapDetach(c) ==
  /\ In(c, "cleanup")
  /\ published' = published \ {Top(c).arg}
  /\ Become(c, "clear", Top(c).arg)
  /\ UNCHANGED <<lockVars, idVars, cur, saved, tickat>>

ReapClear(c) ==
  /\ In(c, "clear")
  /\ task' = [task EXCEPT ![Top(c).arg] = Cleared]
  /\ Become(c, "reap", 0)
  /\ UNCHANGED <<rq, need_resched, next_enqueue_cpu, next_task_id, init_task_id, cur, saved, published, tickat>>

ReapDone(c) ==
  /\ In(c, "reap")
  /\ \A t \in Slots : ~Reapable(t)
  /\ Become(c, "switch", 0)
  /\ UNCHANGED <<lockVars, idVars, cur, saved, published, tickat>>

\* Mutants: the outgoing task keeps current_cpu; kill_pending is not consumed;
\* it is made READY but not queued; it is requeued whatever its state.
OutgoingKeepsCpu(s, t, c) ==
  LET dead == s.task[t].id >= NCpus /\ s.task[t].kill
      clear == [s EXCEPT !.need[c] = FALSE]
  IN IF dead THEN [clear EXCEPT !.task[t].kill = FALSE, !.task[t].state = "DEAD"]
     ELSE IF s.task[t].id < NCpus \/ s.task[t].state # "RUNNING" THEN clear
     ELSE RqEnqueue([clear EXCEPT !.task[t].state = "READY"], t, c)

OutgoingUnkilled(s, t, c) ==
  LET clear == [s EXCEPT !.need[c] = FALSE]
      queued == IF s.task[t].state = "RUNNING"
                THEN RqEnqueue([clear EXCEPT !.task[t].state = "READY"], t, c) ELSE clear
  IN IF s.task[t].id < NCpus THEN clear ELSE [queued EXCEPT !.task[t].cpu = NoCpu]

OutgoingUnqueued(s, t, c) ==
  LET dead == s.task[t].id >= NCpus /\ s.task[t].kill
      clear == [s EXCEPT !.need[c] = FALSE]
  IN IF s.task[t].id < NCpus THEN clear
     ELSE [clear EXCEPT !.task[t].cpu = NoCpu, !.task[t].kill = FALSE,
             !.task[t].state = IF dead THEN "DEAD" ELSE IF @ = "RUNNING" THEN "READY" ELSE @]

\* The outgoing task: kill_pending consumed, a RUNNING task requeued locally.
Outgoing(s, t, c) ==
  LET killed == IF s.task[t].id >= NCpus /\ s.task[t].kill
                THEN [s EXCEPT !.task[t] = [@ EXCEPT !.kill = FALSE, !.state = "DEAD"]]
                ELSE s
      clear == [killed EXCEPT !.need[c] = FALSE]
      queued == IF clear.task[t].state = "RUNNING"
                THEN RqEnqueue([clear EXCEPT !.task[t].state = "READY"], t, c)
                ELSE clear
  IN IF s.task[t].id < NCpus THEN clear
     ELSE [queued EXCEPT !.task[t].cpu = NoCpu]

\* schedule() from its lock to the unlock by whoever runs next.
Switch(c) ==
  LET prev == cur[c]
  IN /\ In(c, "switch")
     /\ \E p \in PickNext(Outgoing(Now, prev, c), c) :
          /\ SetSched([p.s EXCEPT !.task[p.next] = [@ EXCEPT !.state = "RUNNING", !.cpu = c]])
          /\ cur' = [cur EXCEPT ![c] = p.next]
          /\ IF p.next = prev THEN Return(c) /\ UNCHANGED saved
             ELSE /\ saved' = [saved EXCEPT ![prev] = Below(c)]
                  /\ Goto(c, saved[p.next])
     /\ UNCHANGED <<idVars, published, tickat>>

(***************************************************************************)
(* Interrupts.                                                             *)
(***************************************************************************)
\* sched_irq_exit() reschedules the interrupted task.
Preempt(c) == Goto(c, <<F("reap", 0, TRUE)>> \o stack[c])

\* An IPI, or any other interrupt, whose exit path finds need_resched set.
Irq(c) ==
  /\ ~Top(c).masked
  /\ need_resched[c]
  /\ Preempt(c)
  /\ UNCHANGED <<lockVars, idVars, cur, saved, published, tickat>>

\* Mutant: a sleeper with one tick left is passed over.
SleepersOffByOne(i) == {t \in Slots : t >= i /\ task[t].used /\ task[t].state = "BLOCKED"
                                             /\ task[t].sleep > 1}

\* The slots sched_tick() on CPU 0 still has to look at, from slot i on.
Sleepers(i) == {t \in Slots : t >= i /\ task[t].used /\ task[t].state = "BLOCKED"
                                     /\ task[t].sleep > 0}

\* A timer interrupt: CPU 0 first walks the sleepers, holding sched_lock.
Tick(c) ==
  /\ ~Top(c).masked
  /\ IF c = 0 /\ Sleepers(0) # {}
     THEN tickat' = 0 /\ UNCHANGED <<need_resched, stack>>
     ELSE /\ need_resched' = [need_resched EXCEPT ![c] = TRUE]
          /\ Preempt(c)
          /\ UNCHANGED tickat
  /\ UNCHANGED <<task, rq, next_enqueue_cpu, idVars, cur, saved, published>>

TickSlot ==
  /\ tickat # NoTick
  /\ \E t \in Sleepers(tickat) :
       /\ \A u \in Sleepers(tickat) : t <= u
       /\ LET s == [Now EXCEPT !.task[t].sleep = @ - 1]
          IN IF s.task[t].sleep = 0
             THEN \E d \in LeastLoaded(s) : SetSched(MakeReady(s, t, d))
             ELSE SetSched(s)
       /\ tickat' = t + 1
  /\ UNCHANGED <<idVars, cur, stack, saved, published>>

TickDone ==
  /\ tickat # NoTick
  /\ Sleepers(tickat) = {}
  /\ tickat' = NoTick
  /\ need_resched' = [need_resched EXCEPT ![0] = TRUE]
  /\ Preempt(0)
  /\ UNCHANGED <<task, rq, next_enqueue_cpu, idVars, cur, saved, published>>

(***************************************************************************)
(* Task creation.                                                          *)
(***************************************************************************)
\* sched_allocate_task_slot(): the first free slot, as a singleton.
FreeSlot == {t \in Slots : ~task[t].used /\ \A u \in Slots : u < t => task[u].used}

\* What task_create and task_create_user assign; the other fields are the slot's.
Created(t, user) ==
  [task[t] EXCEPT !.id = next_task_id, !.used = TRUE, !.user = user,
                  !.cpu = NoCpu, !.rq_cpu = NoCpu, !.on_rq = FALSE,
                  !.parent = NoParent]

NewContext(t) ==
  /\ next_task_id < MaxId
  /\ next_task_id' = next_task_id + 1
  /\ saved' = [saved EXCEPT ![t] = Body]

\* task_create(): a kernel task, by the shell or by another kernel task.
TaskCreate(c) ==
  /\ "kthread" \in Ops
  /\ IsKernel(c) \/ IsShell(c)
  /\ \E t \in FreeSlot :
       LET s == [Now EXCEPT !.task[t] = Created(t, FALSE)]
       IN /\ NewContext(t)
          /\ \E d \in LeastLoaded(s) : SetSched(MakeReady(s, t, d))
  /\ UNCHANGED <<init_task_id, cur, stack, published, tickat>>

\* task_create_user() called by a creator that goes on at frame "at".
TaskCreateUser(c, at) ==
  /\ \E t \in FreeSlot :
       /\ NewContext(t)
       /\ task' = [task EXCEPT ![t] = [Created(t, TRUE) EXCEPT !.state = "BLOCKED"]]
       /\ Call(c, at, t)
  /\ UNCHANGED <<rq, need_resched, next_enqueue_cpu, init_task_id, cur, published, tickat>>

BootInit(c) == In(c, "boot") /\ init_task_id = NoParent /\ TaskCreateUser(c, "register")
BootService(c) == In(c, "boot") /\ init_task_id # NoParent /\ TaskCreateUser(c, "adopt")
ShellLoad(c) == "load" \in Ops /\ IsShell(c) /\ TaskCreateUser(c, "wake")
Clone(c) == "clone" \in Ops /\ IsUser(c) /\ TaskCreateUser(c, "parent")

BootDone(c) ==
  /\ In(c, "boot")
  /\ Goto(c, Body)
  /\ UNCHANGED <<lockVars, idVars, cur, saved, published, tickat>>

RegisterInit(c) ==
  /\ In(c, "register")
  /\ init_task_id' = task[Top(c).arg].id
  /\ task' = [task EXCEPT ![Top(c).arg].parent = NoParent]
  /\ Become(c, "wake", Top(c).arg)
  /\ UNCHANGED <<rq, need_resched, next_enqueue_cpu, next_task_id, cur, saved, published, tickat>>

AdoptTask(c) ==
  /\ In(c, "adopt")
  /\ task' = [task EXCEPT ![Top(c).arg].parent = init_task_id]
  /\ Become(c, "wake", Top(c).arg)
  /\ UNCHANGED <<rq, need_resched, next_enqueue_cpu, idVars, cur, saved, published, tickat>>

\* process_clone / process_thread_create: the store to child_task->parent_id,
\* outside sched_lock.
CloneParent(c) ==
  /\ In(c, "parent")
  /\ task' = [task EXCEPT ![Top(c).arg].parent = task[cur[c]].id]
  /\ Become(c, "wake", Top(c).arg)
  /\ UNCHANGED <<rq, need_resched, next_enqueue_cpu, idVars, cur, saved, published, tickat>>

WakeTask(c) ==
  LET t == Top(c).arg
  IN /\ In(c, "wake")
     /\ IF task[t].state = "BLOCKED" /\ ~task[t].kill
        THEN \E d \in LeastLoaded(Now) : SetSched(MakeReady(Now, t, d))
        ELSE UNCHANGED lockVars
     /\ Return(c)
     /\ UNCHANGED <<idVars, cur, saved, published, tickat>>

(***************************************************************************)
(* Waiting and waking.                                                     *)
(***************************************************************************)
\* A subsystem publishes the caller in its wait queue, under its own lock.
Publish(c) ==
  /\ "park" \in Ops
  /\ IsTask(c)
  /\ published' = published \cup {cur[c]}
  /\ Call(c, "publish", 0)
  /\ UNCHANGED <<lockVars, idVars, cur, saved, tickat>>

\* Mutant: the wake token is not looked at.
ParkTaskNoToken(c) ==
  LET me == task[cur[c]]
      m == Top(c).masked
  IN /\ In(c, "publish")
     /\ IF me.id < NCpus \/ me.state \in Gone \/ me.kill
        THEN UNCHANGED task /\ Return(c)
        ELSE /\ task' = [task EXCEPT ![cur[c]].state = "BLOCKED"]
             /\ Goto(c, <<F("reap", 0, m), F("parked", 0, m)>> \o Below(c))
     /\ UNCHANGED <<rq, need_resched, next_enqueue_cpu, idVars, cur, saved, published, tickat>>

ParkTask(c) ==
  LET me == task[cur[c]]
      m == Top(c).masked
  IN /\ In(c, "publish")
     /\ IF me.id < NCpus \/ me.state \in Gone \/ me.kill
        THEN UNCHANGED task /\ Return(c)
        ELSE IF me.wake
        THEN task' = [task EXCEPT ![cur[c]].wake = FALSE] /\ Return(c)
        ELSE /\ task' = [task EXCEPT ![cur[c]].state = "BLOCKED"]
             /\ Goto(c, <<F("reap", 0, m), F("parked", 0, m)>> \o Below(c))
     /\ UNCHANGED <<rq, need_resched, next_enqueue_cpu, idVars, cur, saved, published, tickat>>

\* schedule() has returned to the subsystem, and the subsystem to its caller.
ParkReturn(c) ==
  /\ In(c, "parked")
  /\ Return(c)
  /\ UNCHANGED <<lockVars, idVars, cur, saved, published, tickat>>

\* A producer takes a waiter off the queue, under the subsystem's lock.
Dequeue(c) ==
  /\ "park" \in Ops
  /\ IsTask(c)
  /\ \E t \in published : published' = published \ {t} /\ Call(c, "unpark", t)
  /\ UNCHANGED <<lockVars, idVars, cur, saved, tickat>>

\* Mutant: a dead task is made ready like a blocked one.
UnparkTaskDead(c) ==
  LET t == Top(c).arg
  IN /\ In(c, "unpark")
     /\ IF task[t].state \in {"BLOCKED", "DEAD"}
        THEN \E d \in LeastLoaded(Now) : SetSched(MakeReady(Now, t, d))
        ELSE SetSched([Now EXCEPT !.task[t].wake = TRUE])
     /\ Return(c)
     /\ UNCHANGED <<idVars, cur, saved, published, tickat>>

UnparkTask(c) ==
  LET t == Top(c).arg
  IN /\ In(c, "unpark")
     /\ IF task[t].state \in Gone \/ task[t].kill THEN UNCHANGED lockVars
        ELSE IF task[t].state = "BLOCKED"
        THEN \E d \in LeastLoaded(Now) : SetSched(MakeReady(Now, t, d))
        ELSE SetSched([Now EXCEPT !.task[t].wake = TRUE])
     /\ Return(c)
     /\ UNCHANGED <<idVars, cur, saved, published, tickat>>

\* sys_nanosleep: sched_sleep_current for two ticks a second, then schedule().
SleepCurrent(c) ==
  LET me == task[cur[c]]
  IN /\ "sleep" \in Ops
     /\ IsUser(c)
     /\ me.state \notin Gone /\ ~me.kill
     /\ \E seconds \in 0 .. MaxSleep :
          LET s == [Now EXCEPT !.task[cur[c]].sleep = 2 * seconds]
          IN IF seconds = 0
             THEN \E d \in LeastLoaded(s) : SetSched(MakeReady(s, cur[c], d))
             ELSE SetSched([RqRemove(s, cur[c]) EXCEPT !.task[cur[c]].state = "BLOCKED"])
     /\ Call(c, "reap", 0)
     /\ UNCHANGED <<idVars, cur, saved, published, tickat>>

(***************************************************************************)
(* Exit, wait4 and kill.                                                   *)
(***************************************************************************)
\* task_exit(): children go to init, the final state is published, a parent
\* that is BLOCKED for whatever reason is made ready.
TaskExit(c) ==
  LET t == cur[c]
      me == task[t]
      parents == {p \in Tasks : task[p].used /\ task[p].id = me.parent}
      last == IF parents = {} \/ me.id = init_task_id THEN "DEAD" ELSE "ZOMBIE"
      s == [Now EXCEPT !.task = [u \in Tasks |->
             IF u = t THEN [me EXCEPT !.state = last]
             ELSE IF task[u].used /\ task[u].parent = me.id
             THEN [task[u] EXCEPT !.parent = init_task_id]
             ELSE task[u]]]
      blocked == {p \in parents : s.task[p].state = "BLOCKED"}
  IN /\ "exit" \in Ops
     /\ IsTask(c)
     /\ IF blocked = {} THEN SetSched(s)
        ELSE \E p \in blocked, d \in LeastLoaded(s) : SetSched(MakeReady(s, p, d))
     /\ Goto(c, <<Enter(c, "reap", 0), Enter(c, "exited", 0)>>)
     /\ UNCHANGED <<idVars, cur, saved, published, tickat>>

Wait4(c) ==
  /\ "wait4" \in Ops
  /\ IsUser(c)
  /\ \E pid \in {AnyPid} \cup NCpus .. next_task_id - 1 : Call(c, "wait4", pid)
  /\ UNCHANGED <<lockVars, idVars, cur, saved, published, tickat>>

\* The children wait4(pid) looks at, in whatever state they are.
Children(id, pid) ==
  {t \in Tasks : task[t].used /\ task[t].parent = id
                              /\ (pid = AnyPid \/ task[t].id = pid)}

\* One round of the loop in sched_wait4().
Wait4Scan(c) ==
  LET kids == Children(task[cur[c]].id, Top(c).arg)
      zombies == {t \in kids : task[t].state = "ZOMBIE"}
  IN /\ In(c, "wait4")
     /\ \/ /\ \E t \in zombies : /\ \A u \in zombies : t <= u
                                 /\ task' = [task EXCEPT ![t].state = "DEAD"]
           /\ Return(c)
        \/ kids = {} /\ UNCHANGED task /\ Return(c)
        \/ /\ kids # {} /\ zombies = {}
           /\ task' = [task EXCEPT ![cur[c]].state = "BLOCKED"]
           /\ Call(c, "reap", 0)
     /\ UNCHANGED <<rq, need_resched, next_enqueue_cpu, idVars, cur, saved, published, tickat>>

\* sched_kill_task() finds slot t killable.
Killable(c, t) ==
  task[t].used /\ t # cur[c] /\ task[t].id >= NCpus /\ task[t].state \notin Gone

\* sched_kill_task(): only marks a task that is RUNNING on a CPU.
Killed(t) ==
  IF task[t].state = "RUNNING" /\ task[t].cpu # NoCpu
  THEN [task[t] EXCEPT !.kill = TRUE]
  ELSE [task[t] EXCEPT !.state = "DEAD", !.sleep = 0, !.wake = FALSE]

KillTask(c) ==
  /\ "kill" \in Ops
  /\ IsKernel(c) \/ IsShell(c)
  /\ \E t \in Slots : /\ Killable(c, t)
                      /\ task' = [task EXCEPT ![t] = Killed(t)]
                      /\ Call(c, "killsync", task[t].id)
  /\ UNCHANGED <<rq, need_resched, next_enqueue_cpu, idVars, cur, saved, published, tickat>>

\* sched_kill_task_sync() accepts the snapshot of task id as an acknowledgement.
Stopped(id) ==
  \A t \in Tasks : task[t].used /\ task[t].id = id
                   => task[t].state \in Gone \/ task[t].cpu = NoCpu

KillSyncPoll(c) ==
  /\ In(c, "killsync")
  /\ IF Stopped(Top(c).arg) THEN Return(c) ELSE Call(c, "reap", 0)
  /\ UNCHANGED <<lockVars, idVars, cur, saved, published, tickat>>

-----------------------------------------------------------------------------
CpuStep(c) ==
  \/ Yield(c) \/ ReapVictim(c) \/ ReapDetach(c) \/ ReapClear(c) \/ ReapDone(c)
  \/ Switch(c) \/ BootInit(c) \/ BootService(c) \/ BootDone(c) \/ RegisterInit(c)
  \/ AdoptTask(c) \/ TaskCreate(c) \/ ShellLoad(c) \/ Clone(c) \/ CloneParent(c)
  \/ WakeTask(c) \/ Publish(c) \/ ParkTask(c) \/ ParkReturn(c) \/ Dequeue(c)
  \/ UnparkTask(c) \/ SleepCurrent(c) \/ TaskExit(c) \/ Wait4(c) \/ Wait4Scan(c)
  \/ KillTask(c) \/ KillSyncPoll(c)

Next ==
  \/ tickat = NoTick /\ \E c \in Cpus : CpuStep(c) \/ Irq(c) \/ Tick(c)
  \/ TickSlot \/ TickDone

Spec == Init /\ [][Next]_vars

(***************************************************************************)
(* Properties.                                                             *)
(***************************************************************************)
\* Every variable has its type, and a CPU always has a frame to execute.
TypeOK ==
  /\ task \in [Tasks -> TaskRec]
  /\ rq \in [Cpus -> Seq(Slots)]
  /\ need_resched \in [Cpus -> BOOLEAN]
  /\ next_enqueue_cpu \in Cpus
  /\ next_task_id \in Nat
  /\ init_task_id \in Nat \cup {NoParent}
  /\ cur \in [Cpus -> Tasks]
  /\ stack \in [Cpus -> Seq(Frame) \ {<<>>}]
  /\ saved \in [Tasks -> Seq(Frame) \ {<<>>}]
  /\ published \subseteq Slots
  /\ tickat \in Nat \cup {NoTick}

QueuesAgree(s) ==
  /\ \A c \in Cpus : \A i, j \in 1 .. Len(s.rq[c]) : s.rq[c][i] = s.rq[c][j] => i = j
  /\ \A c \in Cpus : \A i \in 1 .. Len(s.rq[c]) :
       s.task[s.rq[c][i]].on_rq /\ s.task[s.rq[c][i]].rq_cpu = c
  /\ \A t \in Slots : s.task[t].on_rq =>
       \E c \in Cpus : \E i \in 1 .. Len(s.rq[c]) : s.rq[c][i] = t
  /\ \A t \in Slots : ~s.task[t].used \/ s.task[t].state = "REAPING" => ~s.task[t].on_rq

ReadyQueued(s) == \A t \in Slots : s.task[t].state = "READY" => s.task[t].on_rq

\* The run queues and the task table agree (sched_rq_enqueue_locked and its
\* siblings): a slot is queued at most once, exactly where on_rq and rq_cpu say;
\* a slot being reaped or free is never left queued for a CPU to dispatch after
\* it is reused; and a READY task is never lost from the queues.
RunQueuesOK == QueuesAgree(Now) /\ ReadyQueued(Now)

\* A task executes on at most one CPU, and that is the CPU current_cpu names
\* (schedule() sets it on dispatch and clears it on the way out).
OneCpuPerTask ==
  /\ \A c, d \in Cpus : cur[c] = cur[d] => c = d
  /\ \A c \in Cpus, t \in Slots :
       task[t].used => (cur[c] = t <=> task[t].cpu = c)

\* sched_reap_dead(): no CPU is executing on the kernel stack of a task that is
\* being reaped or has been (its stack pages are freed).
ActiveStackAlive ==
  \A c \in Cpus : task[cur[c]].used /\ task[cur[c]].state # "REAPING"

Current(t) == \E c \in Cpus : cur[c] = t

\* The frames task t is executing, or resumes.
Frames(t) == IF Current(t) THEN stack[CHOOSE c \in Cpus : cur[c] = t] ELSE saved[t]

Has(q, ats, arg) == \E i \in 1 .. Len(q) : q[i].at \in ats /\ q[i].arg = arg

\* The tasks that are in sched_reap_dead() with slot v as their victim.
Reapers(v) ==
  {t \in Tasks : /\ task[t].used /\ task[t].state # "REAPING"
                 /\ Has(Frames(t), {"cleanup", "clear"}, v)}

\* sched_reap_dead(): a slot in REAPING has exactly one reaper, which will free
\* its stack and clear it, and no other slot has one: no double free, no leak.
ReapedOnce ==
  \A v \in Slots :
    Cardinality(Reapers(v)) =
      IF task[v].used /\ task[v].state = "REAPING" THEN 1 ELSE 0

\* A task that has exited or been killed is on a one-way street, ZOMBIE to DEAD
\* to REAPING to a cleared slot: no wake, park, sleep or switch revives it.
DeadStaysDead ==
  [][\A t \in Slots :
       /\ task[t].used /\ task[t].state \in Gone
       /\ task'[t].used /\ task'[t].id = task[t].id
       => \/ task'[t].state = task[t].state
          \/ task[t].state = "ZOMBIE" /\ task'[t].state = "DEAD"
          \/ task[t].state = "DEAD" /\ task'[t].state = "REAPING"]_vars

\* sched_kill_task_sync() returns only when its target can never run its own
\* code again: it is gone from the table, or dead.
KillSyncFinal ==
  [][\A c \in Cpus :
       In(c, "killsync") /\ stack'[c] = Below(c)
       => \A t \in Slots : task[t].used /\ task[t].id = Top(c).arg
                           => task[t].state \in Gone]_vars

\* The park/unpark handshake loses no wakeup: a task that parked itself on a
\* wait queue and is BLOCKED is still published there, or the producer that
\* took it off is on its way to sched_unpark_task().
NoLostWake ==
  \A t \in Slots :
    /\ task[t].used /\ task[t].state = "BLOCKED"
    /\ Has(Frames(t), {"parked"}, 0)
    => \/ t \in published
       \/ \E u \in Tasks : task[u].used /\ Has(Frames(u), {"unpark"}, t)

(***************************************************************************)
(* Liveness.  A CPU keeps executing kernel code and the idle loop; user and *)
(* kernel task bodies need not call anything.  The timer interrupt stays    *)
(* pending while IRQs are masked, hence strong fairness.                    *)
(***************************************************************************)
KernelStep(c) ==
  /\ tickat = NoTick
  /\ ~In(c, "body") \/ cur[c] \in Cpus
  /\ \/ cur[c] \in Cpus /\ Yield(c)
     \/ ReapVictim(c) \/ ReapDetach(c) \/ ReapClear(c) \/ ReapDone(c) \/ Switch(c)
     \/ BootDone(c) \/ RegisterInit(c) \/ AdoptTask(c) \/ CloneParent(c)
     \/ WakeTask(c) \/ ParkTask(c) \/ ParkReturn(c) \/ UnparkTask(c)
     \/ Wait4Scan(c) \/ KillSyncPoll(c)

Fairness ==
  /\ \A c \in Cpus : WF_vars(KernelStep(c)) /\ SF_vars(tickat = NoTick /\ Tick(c))
  /\ WF_vars(TickSlot) /\ WF_vars(TickDone)

FairSpec == Spec /\ Fairness

IsIn(t, st) == task[t].used /\ task[t].state = st

\* A READY task is not starved by schedule() and work stealing: it is dispatched
\* (or killed).
ReadyRuns == \A t \in Slots : IsIn(t, "READY") ~> ~IsIn(t, "READY")

\* sched_kill_task() takes effect: a task marked kill_pending is stopped by the next
\* schedule() of its CPU, and a task that is DEAD is taken by some sched_reap_dead().
KilledReaped ==
  \A t \in Slots : (task[t].kill ~> ~task[t].kill) /\ (IsIn(t, "DEAD") ~> ~IsIn(t, "DEAD"))

\* sched_tick() wakes a sleeping task.
SleeperWakes ==
  \A t \in Slots : IsIn(t, "BLOCKED") /\ task[t].sleep > 0 ~> ~IsIn(t, "BLOCKED")

=============================================================================
