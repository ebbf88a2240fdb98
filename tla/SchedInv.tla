----------------------------- MODULE SchedInv ------------------------------
(***************************************************************************)
(* The inductive invariants of the scheduler.                              *)
(***************************************************************************)
EXTENDS Sched

\* The state sched_lock protects.
SchedState == [task : [Tasks -> TaskRec], rq : [Cpus -> Seq(Slots)],
               need : [Cpus -> BOOLEAN], nxt : Cpus]

\* Typed, and an idle task keeps its id, the one sched_rq_enqueue_locked() and
\* sched_make_ready_locked() recognise it by.
SchedTyped(s) == s \in SchedState /\ \A c \in Cpus : s.task[c].id = c

\* From s to z no task is created, cleared, moved to or from a CPU, or changes state.
SameLife(s, z) ==
  \A u \in Tasks : /\ z.task[u].id = s.task[u].id /\ z.task[u].used = s.task[u].used
                   /\ z.task[u].state = s.task[u].state /\ z.task[u].cpu = s.task[u].cpu

\* The frames a call chain starts in, and those whose arg is a slot.
BaseAt == {"body", "boot", "exited"}
SlotAt == {"cleanup", "clear", "unpark", "wake", "parent", "register", "adopt"}

\* A frame is a base frame exactly when it is the outermost one, so that every
\* return finds a frame to return to.
FramesOK(q) ==
  /\ q \in Seq(Frame) /\ q # <<>>
  /\ \A i \in 1 .. Len(q) : /\ q[i].at \in BaseAt <=> i = Len(q)
                            /\ q[i].at \in SlotAt => q[i].arg \in Slots

IdsTyped ==
  /\ next_task_id \in Nat
  /\ init_task_id \in Nat \cup {NoParent}

StacksOK == stack \in [Cpus -> Seq(Frame)] /\ \A c \in Cpus : FramesOK(stack[c])
SavedOK == saved \in [Tasks -> Seq(Frame)] /\ \A t \in Tasks : FramesOK(saved[t])

\* The inductive form of TypeOK.
TypeInv ==
  /\ SchedTyped(Now)
  /\ IdsTyped
  /\ cur \in [Cpus -> Tasks]
  /\ StacksOK
  /\ SavedOK
  /\ published \subseteq Slots
  /\ tickat \in Nat \cup {NoTick}

(***************************************************************************)
(* What schedule(), the reaper and the queues preserve as long as no task  *)
(* is on two CPUs.                                                         *)
(***************************************************************************)
\* A used slot has the id of a task, a free one is zeroed.
TableOK ==
  /\ next_task_id >= NCpus
  /\ \A c \in Cpus : task[c].used /\ task[c].state # "REAPING"
  /\ \A t \in Slots : /\ task[t].used => task[t].id >= NCpus
                      /\ ~task[t].used => task[t].id < NCpus /\ task[t].state = "RUNNING"

\* The frames of sched_reap_dead() that own a victim.
ReapAt == {"cleanup", "clear"}

Reaping(v) == task[v].used /\ task[v].state = "REAPING"

\* Task t may still execute its frames.
Live(t) == task[t].used /\ task[t].state # "REAPING"

ReapFrame(t, i) == Frames(t)[i].at \in ReapAt

\* A reaper's victim is REAPING, and no two frames of live tasks share a victim.
ReapersOK ==
  /\ \A t \in Tasks : Live(t) => \A i \in 1 .. Len(Frames(t)) :
       ReapFrame(t, i) => Reaping(Frames(t)[i].arg)
  /\ \A t, u \in Tasks : Live(t) /\ Live(u) =>
       \A i \in 1 .. Len(Frames(t)), j \in 1 .. Len(Frames(u)) :
         /\ ReapFrame(t, i) /\ ReapFrame(u, j)
         /\ Frames(t)[i].arg = Frames(u)[j].arg
         => t = u /\ i = j

SafeInv == TableOK /\ RunQueuesOK /\ ActiveStackAlive /\ ReapersOK

(***************************************************************************)
(* Where the protocol keeps a task on one CPU: on a single CPU, and on any *)
(* number of them as long as no task blocks itself.                        *)
(***************************************************************************)
Unblocking == NCpus = 1 \/ Ops \cap {"sleep", "park", "wait4"} = {}

\* The frames in which a task marks itself BLOCKED.
WaitAt == {"publish", "wait4"}

NoWait(q) == \A i \in 1 .. Len(q) : q[i].at \notin WaitAt

\* A task another CPU may dispatch, READY or about to be, has left its own CPU.
OffCpu(t) == task[t].used /\ task[t].state \in {"READY", "BLOCKED"} => task[t].cpu = NoCpu

CpuInv ==
  /\ OneCpuPerTask
  /\ \A c \in Cpus : cur[c] \in Cpus => cur[c] = c
  /\ NCpus = 1 \/ /\ \A t \in Slots : OffCpu(t)
                  /\ \A c \in Cpus : NoWait(stack[c])
                  /\ \A t \in Tasks : NoWait(saved[t])

(***************************************************************************)
(* What a task that is leaving its CPU, dying or being killed satisfies.   *)
(***************************************************************************)
\* The frames of schedule().
SchedAt == {"reap", "cleanup", "clear", "switch"}

\* A task that is not RUNNING any more and still has its CPU is in schedule().
LeavingOK ==
  \A c \in Cpus : cur[c] \in Slots /\ task[cur[c]].state # "RUNNING" => Top(c).at \in SchedAt

\* The ids of the tasks are distinct and have all been handed out.
IdsOK ==
  /\ \A t \in Slots : task[t].used => task[t].id < next_task_id
  /\ \A t, u \in Slots : task[t].used /\ task[u].used /\ task[t].id = task[u].id => t = u

\* kill_pending is set and schedule() has not seen it yet.
Held(r) == r.kill /\ r.cpu # NoCpu

\* sched_kill_task(id) has been called: the task is gone, dead, or about to be.
Marked(id) ==
  /\ id < next_task_id
  /\ \A t \in Slots : task[t].used /\ task[t].id = id => task[t].state \in Gone \/ Held(task[t])

MarksOK(q) == \A i \in 1 .. Len(q) : q[i].at = "killsync" => Marked(q[i].arg)

\* Every sched_kill_task_sync() in progress waits for a task that is marked.
KillsOK ==
  /\ \A c \in Cpus : MarksOK(stack[c])
  /\ \A t \in Tasks : MarksOK(saved[t])

DeathInv == LeavingOK /\ IdsOK /\ KillsOK

(***************************************************************************)
(* Why a task being reaped keeps its reaper where there are no kernel      *)
(* tasks: a user task is masked in the kernel, so it is never preempted in *)
(* sched_reap_dead(); an idle task may be, and never dies.                 *)
(***************************************************************************)
Masked(q) == \A i \in 1 .. Len(q) - 1 : q[i].masked

NoReap(q) == \A i \in 1 .. Len(q) : q[i].at \notin ReapAt

UsersOK ==
  /\ \A t \in Slots : task[t].used => task[t].user
  /\ \A c \in Cpus : cur[c] \in Slots => Masked(stack[c]) /\ NoReap(Below(c))
  /\ \A t \in Slots : Masked(saved[t]) /\ NoReap(saved[t])
  /\ tickat # NoTick => ~Top(0).masked

ReaperThere(v) == \E t \in Tasks : Live(t) /\ Has(Frames(t), ReapAt, v)

ReapInv == UsersOK /\ \A v \in Slots : Reaping(v) => ReaperThere(v)

\* The frames a task enters from its body and no other frame.
CallAt == {"publish", "parked", "unpark", "wait4"}
=============================================================================
