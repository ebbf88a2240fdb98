---------------------------- MODULE SchedSafety ----------------------------
(***************************************************************************)
(* The safety of the scheduler as long as no task executes on two CPUs,    *)
(* and that none does on a uniprocessor and where no task blocks itself.   *)
(***************************************************************************)
EXTENDS SchedProofs

(***************************************************************************)
(* Frames.                                                                 *)
(***************************************************************************)
\* Reap frame f of a task was its frame g.
Victim(f, g) == g.at \in ReapAt /\ f.arg = g.arg

\* Every reap frame of z was one of q, at a fixed distance.
Inherits(q, z) ==
  \E k \in Int : \A i \in 1 .. Len(z) :
    z[i].at \in ReapAt => i + k \in 1 .. Len(q) /\ Victim(z[i], q[i + k])

LEMMA InheritsPush ==
  ASSUME NEW q, FramesOK(q), NEW f \in Frame, f.at \notin BaseAt,
         f.at \in SlotAt => f.arg \in Slots, f.at \notin ReapAt
  PROVE  Inherits(q, <<f>> \o q)
<1> DEFINE z == <<f>> \o q
<1>1. Len(z) = Len(q) + 1 /\ z[1] = f /\ \A i \in 1 .. Len(q) : z[i + 1] = q[i]
  BY Zenon, PushOK
<1>2. Len(q) \in Nat
  BY Zenon, SeqFacts DEF FramesOK
<1> HIDE DEF z
<1>3. \A i \in 1 .. Len(z) : z[i].at \in ReapAt => i + (-1) \in 1 .. Len(q) /\ Victim(z[i], q[i + (-1)])
  <2>1. TAKE i \in 1 .. Len(z)
  <2>2. HAVE z[i].at \in ReapAt
  <2>3. i # 1
    BY Zenon, <1>1, <2>2
  <2>4. i - 1 \in 1 .. Len(q) /\ (i - 1) + 1 = i /\ i + (-1) = i - 1
    BY <1>1, <1>2, <2>3
  <2>5. z[(i - 1) + 1] = q[i - 1]
    BY Zenon, <1>1, <2>4
  <2>6. QED BY Zenon, <2>2, <2>4, <2>5 DEF Victim
<1>4. QED BY <1>3 DEF Inherits, z

LEMMA InheritsPop ==
  ASSUME NEW q, FramesOK(q), Head(q).at \notin BaseAt
  PROVE  Inherits(q, Tail(q))
<1>1. Len(q) \in Nat /\ Len(Tail(q)) = Len(q) - 1 /\ \A i \in 1 .. Len(q) - 1 : Tail(q)[i] = q[i + 1]
  BY Zenon, PopOK
<1>2. \A i \in 1 .. Len(Tail(q)) : i + 1 \in 1 .. Len(q) /\ Tail(q)[i] = q[i + 1]
  BY <1>1
<1>3. \E k \in Int : \A i \in 1 .. Len(Tail(q)) :
        Tail(q)[i].at \in ReapAt => i + k \in 1 .. Len(q) /\ Victim(Tail(q)[i], q[i + k])
  <2> WITNESS 1 \in Int
  <2> QED BY Zenon, <1>2 DEF Victim
<1>4. QED BY Zenon, <1>3 DEF Inherits

LEMMA InheritsSame ==
  ASSUME NEW q, FramesOK(q) PROVE Inherits(q, q)
<1>1. Len(q) \in Nat
  BY Zenon, SeqFacts DEF FramesOK
<1>2. \A i \in 1 .. Len(q) : i + 0 = i
  BY <1>1
<1>3. QED BY <1>2 DEF Inherits, Victim

LEMMA InheritsTrans ==
  ASSUME NEW q, NEW y, NEW z, Inherits(q, y), Inherits(y, z)
  PROVE  Inherits(q, z)
<1>1. PICK k \in Int : \A i \in 1 .. Len(y) :
        y[i].at \in ReapAt => i + k \in 1 .. Len(q) /\ Victim(y[i], q[i + k])
  BY Zenon DEF Inherits
<1>2. PICK m \in Int : \A i \in 1 .. Len(z) :
        z[i].at \in ReapAt => i + m \in 1 .. Len(y) /\ Victim(z[i], y[i + m])
  BY Zenon DEF Inherits
<1>3. \A i \in 1 .. Len(z) :
        z[i].at \in ReapAt => i + (m + k) \in 1 .. Len(q) /\ Victim(z[i], q[i + (m + k)])
  <2>1. TAKE i \in 1 .. Len(z)
  <2>2. HAVE z[i].at \in ReapAt
  <2>3. i + m \in 1 .. Len(y) /\ Victim(z[i], y[i + m]) /\ y[i + m].at \in ReapAt
    BY Zenon, <1>2, <2>2 DEF Victim
  <2>4. (i + m) + k \in 1 .. Len(q) /\ Victim(y[i + m], q[(i + m) + k])
    BY Zenon, <1>1, <2>3
  <2>5. (i + m) + k = i + (m + k)
    BY <1>1, <1>2
  <2>6. QED BY Zenon, <2>3, <2>4, <2>5 DEF Victim
<1>4. m + k \in Int
  OBVIOUS
<1>5. QED BY Zenon, <1>3, <1>4 DEF Inherits

LEMMA InheritsNone ==
  ASSUME NEW q, NEW z, \A i \in 1 .. Len(z) : z[i].at \notin ReapAt
  PROVE  Inherits(q, z)
<1>1. \E k \in Int : \A i \in 1 .. Len(z) :
        z[i].at \in ReapAt => i + k \in 1 .. Len(q) /\ Victim(z[i], q[i + k])
  <2> WITNESS 0 \in Int
  <2> QED BY Zenon
<1>2. QED BY Zenon, <1>1 DEF Inherits

LEMMA InheritsCall ==
  ASSUME TypeInv, NEW c \in Cpus, NEW at \in At \ BaseAt, at \notin ReapAt,
         NEW arg \in Int, at \in SlotAt => arg \in Slots
  PROVE  Inherits(stack[c], <<Enter(c, at, arg)>> \o stack[c])
<1> DEFINE m == Top(c).masked \/ task[cur[c]].user
<1>1. m \in BOOLEAN
  BY Zenon, TopFacts, TaskTyped DEF Frame, TaskRec
<1>2. Enter(c, at, arg) = F(at, arg, m)
  BY Zenon DEF Enter
<1> HIDE DEF m
<1>3. Inherits(stack[c], <<F(at, arg, m)>> \o stack[c])
  BY <1>1, FrameTyped, TopFacts, InheritsPush
<1>4. QED BY Zenon, <1>2, <1>3

LEMMA InheritsReturn ==
  ASSUME TypeInv, NEW c \in Cpus, Top(c).at \notin BaseAt
  PROVE  Inherits(stack[c], Below(c)) /\ FramesOK(Below(c))
BY Zenon, TopFacts, InheritsPop DEF Top, Below

LEMMA InheritsBecome ==
  ASSUME TypeInv, NEW c \in Cpus, Top(c).at \notin BaseAt,
         NEW at \in At \ BaseAt, at \notin ReapAt,
         NEW arg \in Int, at \in SlotAt => arg \in Slots
  PROVE  Inherits(stack[c], <<F(at, arg, Top(c).masked)>> \o Below(c))
<1> DEFINE m == Top(c).masked
<1>1. m \in BOOLEAN
  BY Zenon, TopFacts DEF Frame
<1> HIDE DEF m
<1>2. Inherits(Below(c), <<F(at, arg, m)>> \o Below(c))
  BY <1>1, FrameTyped, InheritsReturn, InheritsPush
<1>3. QED BY Zenon, <1>2, InheritsReturn, InheritsTrans DEF m

(***************************************************************************)
(* The reapers.                                                            *)
(***************************************************************************)
NoReapers(q) == \A i \in 1 .. Len(q) : q[i].at \notin ReapAt

\* Every reap frame of z is in q, and different ones at different places.
Copies(q, z) ==
  /\ \A i \in 1 .. Len(z) : z[i].at \in ReapAt => \E x \in 1 .. Len(q) : Victim(z[i], q[x])
  /\ \A i, j \in 1 .. Len(z) :
       /\ z[i].at \in ReapAt /\ z[j].at \in ReapAt /\ i # j
       => \E x, y \in 1 .. Len(q) : Victim(z[i], q[x]) /\ Victim(z[j], q[y]) /\ x # y

LEMMA SameFrame ==
  ASSUME NEW q, NEW z, NoReapers(z) \/ Inherits(q, z)
  PROVE  Copies(q, z)
<1>1. CASE NoReapers(z)
  BY Zenon, <1>1 DEF NoReapers, Copies
<1>2. CASE Inherits(q, z)
  <2>1. PICK k \in Int : \A x \in 1 .. Len(z) : z[x].at \in ReapAt =>
               x + k \in 1 .. Len(q) /\ Victim(z[x], q[x + k])
    BY Zenon, <1>2 DEF Inherits
  <2>2. \A i \in 1 .. Len(z) : z[i].at \in ReapAt => \E x \in 1 .. Len(q) : Victim(z[i], q[x])
    BY Zenon, <2>1
  <2>3. ASSUME NEW i \in 1 .. Len(z), NEW j \in 1 .. Len(z),
               z[i].at \in ReapAt, z[j].at \in ReapAt, i # j
        PROVE  \E x, y \in 1 .. Len(q) : Victim(z[i], q[x]) /\ Victim(z[j], q[y]) /\ x # y
    <3>1. i + k \in 1 .. Len(q) /\ j + k \in 1 .. Len(q) /\ i + k # j + k
      BY <2>1, <2>3
    <3>2. QED BY Zenon, <2>1, <2>3, <3>1
  <2>4. QED BY Zenon, <2>2, <2>3 DEF Copies
<1>3. QED BY Zenon, <1>1, <1>2

\* No task gains a reap frame, and a victim that still has one is still REAPING.
LEMMA ReapersKept ==
  ASSUME ReapersOK,
         \A t \in Tasks : Live(t)' => \/ NoReapers(Frames(t)')
                                      \/ Live(t) /\ Inherits(Frames(t), Frames(t)'),
         \A t \in Tasks : Live(t)' => \A i \in 1 .. Len(Frames(t)') : \A v :
           Frames(t)'[i].at \in ReapAt /\ Frames(t)'[i].arg = v /\ Reaping(v)
           => Reaping(v)'
  PROVE  ReapersOK'
<1>0. PICK old, new, Still : /\ old = [t \in Tasks |-> Frames(t)]
                             /\ new = [t \in Tasks |-> Frames(t)']
                             /\ Still = {t \in Tasks : Live(t)'}
  BY Zenon
<1>1. \A t \in Tasks : old[t] = Frames(t) /\ new[t] = Frames(t)'
  BY Zenon, <1>0
<1>2. \A t \in Tasks : Live(t)' <=> t \in Still
  BY Zenon, <1>0
<1>3. \A t \in Still : NoReapers(new[t]) \/ Inherits(old[t], new[t])
  BY Zenon, <1>0, <1>1
<1>4. \A t \in Still : \A i \in 1 .. Len(new[t]) : new[t][i].at \in ReapAt => Live(t)
  BY Zenon, <1>0, <1>1 DEF NoReapers
<1>5. \A t \in Still : Copies(old[t], new[t])
  BY Zenon, <1>3, SameFrame
<1>6. ASSUME NEW t \in Tasks, Live(t)', NEW i \in 1 .. Len(Frames(t)'), ReapFrame(t, i)'
      PROVE  Reaping(Frames(t)[i].arg)'
  <2>1. t \in Still /\ i \in 1 .. Len(new[t]) /\ new[t][i].at \in ReapAt
    BY Zenon, <1>1, <1>2, <1>6 DEF ReapFrame
  <2>2. PICK x \in 1 .. Len(old[t]) : Victim(new[t][i], old[t][x])
    BY Zenon, <1>5, <2>1 DEF Copies
  <2>3. Reaping(old[t][x].arg)
    BY Zenon, <1>1, <1>4, <2>1, <2>2 DEF ReapersOK, ReapFrame, Victim
  <2>4. PICK v : v = old[t][x].arg
    BY Zenon
  <2>5. Frames(t)'[i].arg = v
    BY Zenon, <1>1, <2>2, <2>4 DEF Victim
  <2>6. Reaping(v)'
    BY Zenon, <1>1, <1>6, <2>1, <2>3, <2>4, <2>5
  <2>7. QED BY Zenon, <2>5, <2>6 DEF Reaping
<1>7. ASSUME NEW t \in Tasks, NEW u \in Tasks, Live(t)', Live(u)',
             NEW i \in 1 .. Len(Frames(t)'), NEW j \in 1 .. Len(Frames(u)'),
             ReapFrame(t, i)', ReapFrame(u, j)', (Frames(t)[i].arg = Frames(u)[j].arg)'
      PROVE  t = u /\ i = j
  <2>1. /\ t \in Still /\ i \in 1 .. Len(new[t]) /\ new[t][i].at \in ReapAt
        /\ u \in Still /\ j \in 1 .. Len(new[u]) /\ new[u][j].at \in ReapAt
        /\ new[t][i].arg = new[u][j].arg
    BY Zenon, <1>1, <1>2, <1>7 DEF ReapFrame
  <2>2. \A x \in 1 .. Len(old[t]), y \in 1 .. Len(old[u]) :
          Victim(new[t][i], old[t][x]) /\ Victim(new[u][j], old[u][y]) => t = u /\ x = y
    <3> TAKE x \in 1 .. Len(old[t]), y \in 1 .. Len(old[u])
    <3> HAVE Victim(new[t][i], old[t][x]) /\ Victim(new[u][j], old[u][y])
    <3>1. Live(t) /\ Live(u)
      BY Zenon, <1>4, <2>1
    <3>2. x \in 1 .. Len(Frames(t)) /\ y \in 1 .. Len(Frames(u))
      BY Zenon, <1>1
    <3>3. ReapFrame(t, x) /\ ReapFrame(u, y) /\ Frames(t)[x].arg = Frames(u)[y].arg
      BY Zenon, <1>1, <2>1 DEF ReapFrame, Victim
    <3>4. QED BY Zenon, <3>1, <3>2, <3>3 DEF ReapersOK
  <2>3. t = u
    <3>1. PICK x \in 1 .. Len(old[t]) : Victim(new[t][i], old[t][x])
      BY Zenon, <1>5, <2>1 DEF Copies
    <3>2. PICK y \in 1 .. Len(old[u]) : Victim(new[u][j], old[u][y])
      BY Zenon, <1>5, <2>1 DEF Copies
    <3>3. QED BY Zenon, <2>2, <3>1, <3>2
  <2>4. i = j
    <3> SUFFICES ASSUME i # j PROVE FALSE
      BY Zenon
    <3>0. /\ t \in Still /\ i \in 1 .. Len(new[t]) /\ j \in 1 .. Len(new[t])
          /\ new[t][i].at \in ReapAt /\ new[t][j].at \in ReapAt
      BY Zenon, <2>1, <2>3
    <3>1. PICK x, y \in 1 .. Len(old[t]) : Victim(new[t][i], old[t][x]) /\ Victim(new[t][j], old[t][y]) /\ x # y
      BY Zenon, <1>5, <3>0 DEF Copies
    <3>2. QED BY Zenon, <2>2, <2>3, <3>1
  <2>5. QED BY Zenon, <2>3, <2>4
<1>8. QED BY Zenon, <1>6, <1>7 DEF ReapersOK

(***************************************************************************)
(* Steps that create, reap and dispatch no task.                           *)
(***************************************************************************)
\* No task of tk is created, cleared, or starts or stops being reaped in tp.
Mild(tk, tp) ==
  \A u \in Tasks : /\ tp[u].id = tk[u].id /\ (tp[u].used <=> tk[u].used)
                   /\ tp[u].state = "REAPING" <=> tk[u].state = "REAPING"
                   /\ ~tk[u].used => tp[u].state = tk[u].state

LEMMA MildTable ==
  ASSUME TypeInv, TableOK, ActiveStackAlive, Mild(task, task'),
         UNCHANGED <<next_task_id, cur>>
  PROVE  /\ TableOK' /\ ActiveStackAlive'
         /\ \A t \in Tasks : (Live(t) <=> Live(t)') /\ (Reaping(t) <=> Reaping(t)')
<1>1. TableOK'
  BY Zenon, SlotFacts DEF TableOK, Mild
<1>2. \A c \in Cpus : cur[c] \in Tasks
  BY Zenon, TopFacts
<1>3. ActiveStackAlive'
  BY Zenon, <1>2 DEF ActiveStackAlive, Mild
<1>4. QED BY Zenon, <1>1, <1>3 DEF Live, Reaping, Mild

LEMMA MildStep ==
  ASSUME TypeInv, SafeInv, OneCpuPerTask, NEW c \in Cpus, NEW q, Goto(c, q),
         Inherits(stack[c], q), UNCHANGED <<next_task_id, cur, saved>>,
         Mild(task, task'), RunQueuesOK'
  PROVE  SafeInv'
<1>1. /\ TableOK' /\ ActiveStackAlive'
      /\ \A t \in Tasks : (Live(t) <=> Live(t)') /\ (Reaping(t) <=> Reaping(t)')
  BY Zenon, MildTable DEF SafeInv
<1>2. \A t \in Tasks : Inherits(Frames(t), Frames(t)')
  <2> TAKE t \in Tasks
  <2>1. CASE t = cur[c]
    BY Zenon, <2>1, FramesStep, FramesCurrent
  <2>2. CASE t # cur[c]
    BY Zenon, <2>2, FramesStep, FramesTyped, InheritsSame
  <2>3. QED BY Zenon, <2>1, <2>2
<1>3. \A t \in Tasks : Live(t)' => \A i \in 1 .. Len(Frames(t)') : \A v :
        Frames(t)'[i].at \in ReapAt /\ Frames(t)'[i].arg = v /\ Reaping(v) => Reaping(v)'
  <2> TAKE t \in Tasks
  <2> HAVE Live(t)'
  <2> TAKE i \in 1 .. Len(Frames(t)')
  <2> TAKE v
  <2> HAVE Frames(t)'[i].at \in ReapAt /\ Frames(t)'[i].arg = v /\ Reaping(v)
  <2>1. PICK j \in 1 .. Len(Frames(t)) : Victim(Frames(t)'[i], Frames(t)[j])
    <3>1. Copies(Frames(t), Frames(t)')
      BY Zenon, <1>2, SameFrame
    <3>2. QED BY Zenon, <3>1 DEF Copies
  <2>2. Frames(t)[j].at \in SlotAt
    BY Zenon, <2>1 DEF ReapAt, SlotAt, Victim
  <2>3. v \in Slots
    BY Zenon, <2>1, <2>2, FramesTyped DEF FramesOK, Victim
  <2>4. QED BY Zenon, <1>1, <2>3, SlotFacts
<1>4. ReapersOK'
  BY SMTT(30), <1>1, <1>2, <1>3, ReapersKept DEF SafeInv
<1>5. QED BY Zenon, <1>1, <1>4 DEF SafeInv

\* RunQueuesOK after a step that sets the state under sched_lock to z.
LEMMA SetSchedQueues ==
  ASSUME NEW z, SetSched(z), QueuesAgree(z), ReadyQueued(z)
  PROVE  RunQueuesOK'
BY DEF SetSched, QueuesAgree, ReadyQueued, RunQueuesOK, Now

\* Only task records change: no queue link moves, no task becomes READY.
LEMMA TaskOnlyQueues ==
  ASSUME TypeInv, RunQueuesOK, UNCHANGED rq,
         \A u \in Tasks : task'[u].on_rq = task[u].on_rq /\ task'[u].rq_cpu = task[u].rq_cpu,
         \A u \in Slots : task'[u].state = "READY" => task[u].state = "READY",
         Mild(task, task')
  PROVE  RunQueuesOK'
<1>1. QueuesAgree(Now)'
  <2>1. PICK z : z = [task |-> task', rq |-> rq', need |-> need_resched', nxt |-> next_enqueue_cpu']
    BY Zenon
  <2>2. z.task = task' /\ z.rq = rq
    BY Zenon, <2>1
  <2>3. QueuesAgree(z)
    <3>1. /\ SchedTyped(Now) /\ QueuesAgree(Now) /\ z.rq = Now.rq
          /\ \A u \in Tasks : /\ z.task[u].on_rq = Now.task[u].on_rq
                              /\ Now.task[u].on_rq => z.task[u].rq_cpu = Now.task[u].rq_cpu
      BY Zenon, <2>2 DEF TypeInv, RunQueuesOK, Now
    <3>2. \A u \in Slots : /\ ~z.task[u].used \/ z.task[u].state = "REAPING"
                           /\ z.task[u].on_rq
                           => ~Now.task[u].used \/ Now.task[u].state = "REAPING"
      BY Zenon, <2>2, SlotFacts DEF Mild, Now
    <3>3. QED BY Zenon, <3>1, <3>2, QueuesSame
  <2>4. QED BY Zenon, <2>1, <2>3 DEF Now
<1>2. ReadyQueued(Now)'
  BY Zenon, SlotFacts DEF ReadyQueued, RunQueuesOK, Now
<1>3. QED BY Zenon, <1>1, <1>2 DEF RunQueuesOK

LEMMA SameQueues ==
  ASSUME RunQueuesOK, UNCHANGED <<task, rq>>
  PROVE  RunQueuesOK' /\ Mild(task, task')
<1>1. RunQueuesOK'
  BY DEF QueuesAgree, ReadyQueued, RunQueuesOK, Now
<1>2. Mild(task, task')
  BY Zenon DEF Mild
<1>3. QED BY SMTT(30), <1>1, <1>2

LEMMA InheritsDetach ==
  ASSUME TypeInv, NEW c \in Cpus, In(c, "cleanup")
  PROVE  Inherits(stack[c], <<F("clear", Top(c).arg, Top(c).masked)>> \o Below(c))
<1> DEFINE q == stack[c]
           f == F("clear", Top(c).arg, Top(c).masked)
           z == <<f>> \o Tail(q)
<1>1. FramesOK(q) /\ Head(q).at \notin BaseAt /\ Head(q) = q[1] /\ Head(q).at \in ReapAt
  BY Zenon, TopFacts DEF In, BaseAt, ReapAt, Top
<1>2. /\ FramesOK(Tail(q)) /\ Len(q) \in Nat /\ Len(Tail(q)) = Len(q) - 1
      /\ \A i \in 1 .. Len(q) - 1 : Tail(q)[i] = q[i + 1]
  BY Zenon, <1>1, PopOK
<1>3. f \in Frame /\ f.at = "clear" /\ f.arg = q[1].arg /\ f.arg \in Slots
  <2>1. Top(c).masked \in BOOLEAN /\ Top(c).arg \in Int /\ Top(c).arg \in Slots
    BY Zenon, TopFacts DEF In, SlotAt, Frame
  <2>2. QED BY Zenon, <1>1, <2>1 DEF F, Frame, At, Top
<1>4. Len(z) = Len(q) /\ z[1] = f /\ \A i \in 1 .. Len(q) - 1 : z[i + 1] = Tail(q)[i]
  <2>1. f.at \notin BaseAt /\ f.arg \in Slots
    BY Zenon, <1>3 DEF BaseAt
  <2> HIDE DEF f
  <2>2. /\ Len(z) = Len(Tail(q)) + 1 /\ z[1] = f
        /\ \A i \in 1 .. Len(Tail(q)) : z[i + 1] = Tail(q)[i]
    BY Zenon, <1>2, <1>3, <2>1, PushOK
  <2>3. QED BY <1>2, <2>2
<1> HIDE DEF f, z, q
<1>5. \A i \in 1 .. Len(z) : z[i].at \in ReapAt => i + 0 \in 1 .. Len(q) /\ Victim(z[i], q[i + 0])
  <2>1. TAKE i \in 1 .. Len(z)
  <2>2. HAVE z[i].at \in ReapAt
  <2>3. CASE i = 1
    BY <1>1, <1>2, <1>3, <1>4, <2>3 DEF Victim
  <2>4. CASE i # 1
    <3>1. i - 1 \in 1 .. Len(q) - 1 /\ (i - 1) + 1 = i /\ i + 0 = i /\ i \in 1 .. Len(q)
      BY <1>2, <1>4, <2>4
    <3>2. z[(i - 1) + 1] = Tail(q)[i - 1] /\ Tail(q)[i - 1] = q[(i - 1) + 1]
      BY Zenon, <1>2, <1>4, <3>1
    <3>3. z[i] = q[i]
      BY Zenon, <3>1, <3>2
    <3>4. QED BY Zenon, <2>2, <3>1, <3>3 DEF Victim
  <2>5. QED BY Zenon, <2>3, <2>4
<1>6. Inherits(q, z)
  BY <1>5 DEF Inherits
<1>7. QED BY Zenon, <1>6 DEF f, z, q, Below

LEMMA QuietSafe ==
  ASSUME TypeInv, SafeInv, OneCpuPerTask, NEW c \in Cpus, NEW q, Goto(c, q),
         Inherits(stack[c], q), UNCHANGED <<task, rq, next_task_id, cur, saved>>
  PROVE  SafeInv'
BY Zenon, SameQueues, MildStep DEF SafeInv

LEMMA CallSafe ==
  ASSUME TypeInv, SafeInv, OneCpuPerTask, NEW c \in Cpus, NEW at \in At \ BaseAt,
         at \notin ReapAt, NEW arg \in Int, at \in SlotAt => arg \in Slots, Call(c, at, arg),
         UNCHANGED <<task, rq, next_task_id, cur, saved>>
  PROVE  SafeInv'
BY Zenon, InheritsCall, QuietSafe DEF Call

LEMMA ReturnSafe ==
  ASSUME TypeInv, SafeInv, OneCpuPerTask, NEW c \in Cpus, Top(c).at \notin BaseAt, Return(c),
         UNCHANGED <<task, rq, next_task_id, cur, saved>>
  PROVE  SafeInv'
BY Zenon, InheritsReturn, QuietSafe DEF Return

LEMMA PreemptSafe ==
  ASSUME TypeInv, SafeInv, OneCpuPerTask, NEW c \in Cpus, Preempt(c),
         UNCHANGED <<task, rq, next_task_id, cur, saved>>
  PROVE  SafeInv'
<1>1. F("reap", 0, TRUE) \in Frame /\ F("reap", 0, TRUE).at = "reap"
  BY DEF F, Frame, At
<1>2. Inherits(stack[c], <<F("reap", 0, TRUE)>> \o stack[c])
  BY ZenonT(60), <1>1, TopFacts, InheritsPush DEF BaseAt, SlotAt, ReapAt
<1>3. QED BY Zenon, <1>2, QuietSafe DEF Preempt

LEMMA StackSafe ==
  ASSUME TypeInv, SafeInv, OneCpuPerTask, UNCHANGED <<task, rq, next_task_id, cur, stack, saved>>
  PROVE  SafeInv'
<1>1. 0 \in Cpus /\ FramesOK(stack[0]) /\ stack \in [Cpus -> Seq(Frame)]
  BY Zenon, TopFacts, SlotFacts DEF TypeInv, StacksOK
<1>2. Goto(0, stack[0]) /\ Inherits(stack[0], stack[0])
  BY Zenon, <1>1, InheritsSame DEF Goto
<1>3. QED BY Zenon, <1>1, <1>2, QuietSafe

LEMMA ControlSafe ==
  ASSUME TypeInv, SafeInv, OneCpuPerTask, NEW c \in Cpus,
         \/ Yield(c) \/ ReapDetach(c) \/ ReapDone(c) \/ Irq(c) \/ Tick(c) \/ BootDone(c)
         \/ Publish(c) \/ ParkReturn(c) \/ Dequeue(c) \/ Wait4(c) \/ KillSyncPoll(c)
  PROVE  SafeInv'
<1>1. CASE Yield(c)
  BY <1>1, CallSafe DEF Yield, At, BaseAt, SlotAt, ReapAt, lockVars, idVars
<1>2. CASE ReapDetach(c)
  BY Zenon, <1>2, InheritsDetach, QuietSafe DEF ReapDetach, Become, lockVars, idVars
<1>3. CASE ReapDone(c)
  <2>1. Inherits(stack[c], <<F("switch", 0, Top(c).masked)>> \o Below(c))
    BY <1>3, InheritsBecome DEF ReapDone, In, At, BaseAt, SlotAt, ReapAt
  <2>2. QED BY Zenon, <1>3, <2>1, QuietSafe DEF ReapDone, Become, lockVars, idVars
<1>4. CASE Irq(c)
  BY Zenon, <1>4, PreemptSafe DEF Irq, lockVars, idVars
<1>5. CASE Tick(c)
  <2>1. CASE c = 0 /\ Sleepers(0) # {}
    BY Zenon, <1>5, <2>1, StackSafe DEF Tick, idVars
  <2>2. CASE ~(c = 0 /\ Sleepers(0) # {})
    BY Zenon, <1>5, <2>2, PreemptSafe DEF Tick, idVars
  <2>3. QED BY Zenon, <2>1, <2>2
<1>6. CASE BootDone(c)
  <2>1. Len(Body) = 1 /\ Body[1].at = "body"
    BY Zenon DEF Body, F
  <2>2. \A i \in 1 .. Len(Body) : Body[i].at \notin ReapAt
    BY <2>1 DEF ReapAt
  <2>3. Inherits(stack[c], Body)
    BY Zenon, <2>2, InheritsNone
  <2>4. QED BY Zenon, <1>6, <2>3, QuietSafe DEF BootDone, lockVars, idVars
<1>7. CASE Publish(c)
  BY <1>7, CallSafe DEF Publish, At, BaseAt, SlotAt, ReapAt, lockVars, idVars
<1>8. CASE ParkReturn(c)
  BY Zenon, <1>8, ReturnSafe DEF ParkReturn, In, BaseAt, lockVars, idVars
<1>9. CASE Dequeue(c)
  <2>1. PICK t \in published : Call(c, "unpark", t)
    BY Zenon, <1>9 DEF Dequeue
  <2>2. t \in Slots /\ t \in Int
    BY SlotFacts DEF TypeInv
  <2>3. QED BY Zenon, <1>9, <2>1, <2>2, CallSafe DEF Dequeue, At, BaseAt, SlotAt, ReapAt, lockVars, idVars
<1>10. CASE Wait4(c)
  <2>1. PICK pid \in {AnyPid} \cup NCpus .. next_task_id - 1 : Call(c, "wait4", pid)
    BY Zenon, <1>10 DEF Wait4
  <2>2. pid \in Int
    BY ConstantsOK DEF AnyPid, TypeInv, IdsTyped
  <2>3. QED BY Zenon, <1>10, <2>1, <2>2, CallSafe DEF Wait4, At, BaseAt, SlotAt, ReapAt, lockVars, idVars
<1>11. CASE KillSyncPoll(c)
  <2>1. CASE Return(c)
    BY Zenon, <1>11, <2>1, ReturnSafe DEF KillSyncPoll, In, BaseAt, lockVars, idVars
  <2>2. CASE Call(c, "reap", 0)
    BY <1>11, <2>2, CallSafe DEF KillSyncPoll, At, BaseAt, SlotAt, ReapAt, lockVars, idVars
  <2>3. QED BY Zenon, <1>11, <2>1, <2>2 DEF KillSyncPoll
<1>12. QED
  BY Zenon, <1>1, <1>2, <1>3, <1>4, <1>5, <1>6, <1>7, <1>8, <1>9, <1>10, <1>11

(***************************************************************************)
(* Steps that change task records, or make a task ready.                   *)
(***************************************************************************)
\* Record r replaces record o of a task that is not being reaped.
Gentle(o, r) ==
  /\ r.id = o.id /\ r.used = o.used /\ r.on_rq = o.on_rq /\ r.rq_cpu = o.rq_cpu
  /\ \/ r.state = o.state
     \/ o.used /\ o.state # "REAPING" /\ r.state \notin {"REAPING", "READY"}

LEMMA RecordSafe ==
  ASSUME TypeInv, SafeInv, OneCpuPerTask, NEW c \in Cpus, NEW q, Goto(c, q),
         Inherits(stack[c], q), NEW t \in Tasks, NEW r, Gentle(task[t], r),
         task' = [task EXCEPT ![t] = r], UNCHANGED <<rq, next_task_id, cur, saved>>
  PROVE  SafeInv'
<1>1. task \in [Tasks -> TaskRec]
  BY Zenon, TaskTyped
<1>2. task'[t] = r /\ \A u \in Tasks : u # t => task'[u] = task[u]
  BY Zenon, <1>1
<1>3. Mild(task, task')
  BY Zenon, <1>2 DEF Mild, Gentle
<1>4. RunQueuesOK'
  <2>1. \A u \in Tasks : task'[u].on_rq = task[u].on_rq /\ task'[u].rq_cpu = task[u].rq_cpu
    BY Zenon, <1>2 DEF Gentle
  <2>2. \A u \in Slots : task'[u].state = "READY" => task[u].state = "READY"
    BY Zenon, <1>2, SlotFacts DEF Gentle
  <2>3. QED BY Zenon, <1>3, <2>1, <2>2, TaskOnlyQueues DEF SafeInv
<1>5. QED BY Zenon, <1>3, <1>4, MildStep

LEMMA ParentSafe ==
  ASSUME TypeInv, SafeInv, OneCpuPerTask, NEW c \in Cpus, Top(c).at \in SlotAt,
         NEW p, task' = [task EXCEPT ![Top(c).arg].parent = p],
         Top(c).at \notin BaseAt, Become(c, "wake", Top(c).arg),
         UNCHANGED <<rq, next_task_id, cur, saved>>
  PROVE  SafeInv'
<1> DEFINE t == Top(c).arg
           r == [task[t] EXCEPT !.parent = p]
<1>1. t \in Slots /\ t \in Tasks /\ t \in Int
  BY Zenon, TopFacts
<1>2. task' = [task EXCEPT ![t] = r]
  BY Zenon, <1>1, TaskTyped
<1>3. task[t] \in TaskRec
  BY Zenon, <1>1, TaskTyped
<1>4. Gentle(task[t], r)
  BY Zenon, <1>3 DEF Gentle, TaskRec
<1>5. Inherits(stack[c], <<F("wake", t, Top(c).masked)>> \o Below(c))
  BY Zenon, <1>1, InheritsBecome DEF At, BaseAt, SlotAt, ReapAt
<1>6. Goto(c, <<F("wake", t, Top(c).masked)>> \o Below(c))
  BY Zenon DEF Become
<1> HIDE DEF r, t
<1>7. QED BY Zenon, <1>1, <1>2, <1>4, <1>5, <1>6, RecordSafe

LEMMA RecordsSafe ==
  ASSUME TypeInv, SafeInv, OneCpuPerTask, NEW c \in Cpus,
         \/ RegisterInit(c) \/ AdoptTask(c) \/ CloneParent(c)
         \/ ParkTask(c) \/ Wait4Scan(c) \/ KillTask(c)
  PROVE  SafeInv'
<1>1. CASE RegisterInit(c)
  BY Zenon, <1>1, ParentSafe DEF RegisterInit, In, SlotAt, BaseAt
<1>2. CASE AdoptTask(c)
  BY Zenon, <1>2, ParentSafe DEF AdoptTask, In, SlotAt, BaseAt, idVars
<1>3. CASE CloneParent(c)
  BY Zenon, <1>3, ParentSafe DEF CloneParent, In, SlotAt, BaseAt, idVars
<1>4. CASE ParkTask(c)
  <2> DEFINE t == cur[c]
             m == Top(c).masked
  <2>1. Top(c).at = "publish" /\ UNCHANGED <<rq, next_task_id, cur, saved>>
    BY Zenon, <1>4 DEF ParkTask, In, idVars
  <2>2. t \in Tasks /\ task[t].used /\ task[t].state # "REAPING" /\ task[t] \in TaskRec
    BY Zenon, CurrentFacts
  <2>3. CASE UNCHANGED task /\ Return(c)
    BY Zenon, <2>1, <2>3, ReturnSafe DEF BaseAt
  <2>4. CASE task' = [task EXCEPT ![t].wake = FALSE] /\ Return(c)
    <3> DEFINE r == [task[t] EXCEPT !.wake = FALSE]
    <3>1. Gentle(task[t], r)
      BY ZenonT(60), <2>2 DEF Gentle, TaskRec
    <3>2. task' = [task EXCEPT ![t] = r]
      BY Zenon, <2>2, <2>4, TaskTyped
    <3>3. Goto(c, Below(c)) /\ Inherits(stack[c], Below(c))
      BY Zenon, <2>1, <2>4, InheritsReturn DEF Return, BaseAt
    <3> HIDE DEF r
    <3>4. QED BY Zenon, <2>1, <2>2, <3>1, <3>2, <3>3, RecordSafe
  <2>5. CASE /\ task' = [task EXCEPT ![t].state = "BLOCKED"]
             /\ Goto(c, <<F("reap", 0, m), F("parked", 0, m)>> \o Below(c))
    <3> DEFINE r == [task[t] EXCEPT !.state = "BLOCKED"]
               q == <<F("reap", 0, m), F("parked", 0, m)>> \o Below(c)
    <3>1. Gentle(task[t], r)
      BY Zenon, <2>2 DEF Gentle, TaskRec
    <3>2. task' = [task EXCEPT ![t] = r]
      BY Zenon, <2>2, <2>5, TaskTyped
    <3>3. Inherits(stack[c], q)
      <4>0. m \in BOOLEAN
        BY Zenon, TopFacts DEF Frame
      <4> HIDE DEF m
      <4>1. Inherits(stack[c], <<F("parked", 0, m)>> \o Below(c))
        BY <2>1, InheritsBecome DEF At, BaseAt, SlotAt, ReapAt, m
      <4>2. FramesOK(Below(c))
        BY Zenon, <2>1, InheritsReturn DEF BaseAt
      <4> PICK f, g : f = F("parked", 0, m) /\ g = F("reap", 0, m)
        BY Zenon
      <4>f. f \in Frame /\ f.at = "parked" /\ g \in Frame /\ g.at = "reap"
        BY <4>0, FrameTyped DEF At
      <4>3. FramesOK(<<f>> \o Below(c))
        BY Zenon, <4>2, <4>f, PushOK DEF BaseAt, SlotAt
      <4>4. Inherits(<<f>> \o Below(c), <<g>> \o (<<f>> \o Below(c)))
        BY Zenon, <4>3, <4>f, InheritsPush DEF BaseAt, SlotAt, ReapAt
      <4>5. q = <<F("reap", 0, m)>> \o (<<F("parked", 0, m)>> \o Below(c))
        <5>1. F("reap", 0, m) \in Frame /\ F("parked", 0, m) \in Frame /\ Below(c) \in Seq(Frame)
          BY <4>0, <4>2, FrameTyped DEF At, FramesOK
        <5>2. QED BY <5>1, PairConcat
      <4>6. QED BY Zenon, <4>1, <4>4, <4>5, InheritsTrans
    <3>4. Goto(c, q)
      BY Zenon, <2>5
    <3> HIDE DEF r, q
    <3>5. QED BY Zenon, <2>1, <2>2, <3>1, <3>2, <3>3, <3>4, RecordSafe
  <2>6. QED BY Zenon, <1>4, <2>3, <2>4, <2>5 DEF ParkTask
<1>5. CASE Wait4Scan(c)
  <2> DEFINE kids == Children(task[cur[c]].id, Top(c).arg)
             zombies == {t \in kids : task[t].state = "ZOMBIE"}
  <2>1. Top(c).at = "wait4" /\ UNCHANGED <<rq, next_task_id, cur, saved>>
    BY Zenon, <1>5 DEF Wait4Scan, In, idVars
  <2>2. CASE (\E t \in zombies : task' = [task EXCEPT ![t].state = "DEAD"]) /\ Return(c)
    <3>1. PICK t \in zombies : task' = [task EXCEPT ![t].state = "DEAD"]
      BY Zenon, <2>2
    <3>2. t \in Tasks /\ task[t].used /\ task[t].state = "ZOMBIE"
      BY Zenon DEF Children
    <3>3. task[t] \in TaskRec
      BY Zenon, <3>2, TaskTyped
    <3> DEFINE r == [task[t] EXCEPT !.state = "DEAD"]
    <3>4. Gentle(task[t], r)
      BY Zenon, <3>2, <3>3 DEF Gentle, TaskRec
    <3>5. task' = [task EXCEPT ![t] = r]
      BY Zenon, <3>1, <3>2, TaskTyped
    <3>6. Goto(c, Below(c)) /\ Inherits(stack[c], Below(c))
      BY Zenon, <2>1, <2>2, InheritsReturn DEF Return, BaseAt
    <3> HIDE DEF r, zombies
    <3>7. QED BY Zenon, <2>1, <3>2, <3>4, <3>5, <3>6, RecordSafe
  <2>3. CASE UNCHANGED task /\ Return(c)
    BY Zenon, <2>1, <2>3, ReturnSafe DEF BaseAt
  <2>4. CASE task' = [task EXCEPT ![cur[c]].state = "BLOCKED"] /\ Call(c, "reap", 0)
    <3> DEFINE t == cur[c]
               r == [task[t] EXCEPT !.state = "BLOCKED"]
               q == <<Enter(c, "reap", 0)>> \o stack[c]
    <3>1. t \in Tasks /\ task[t].used /\ task[t].state # "REAPING" /\ task[t] \in TaskRec
      BY Zenon, CurrentFacts
    <3>2. Gentle(task[t], r)
      BY Zenon, <3>1 DEF Gentle, TaskRec
    <3>3. task' = [task EXCEPT ![t] = r]
      BY Zenon, <2>4, <3>1, TaskTyped
    <3>4. Goto(c, q) /\ Inherits(stack[c], q)
      BY <2>4, InheritsCall DEF Call, At, BaseAt, SlotAt, ReapAt
    <3> HIDE DEF r, q, t
    <3>5. QED BY Zenon, <2>1, <3>1, <3>2, <3>3, <3>4, RecordSafe
  <2>5. QED BY SMTT(30), <1>5, <2>2, <2>3, <2>4 DEF Wait4Scan
<1>6. CASE KillTask(c)
  <2>1. PICK t \in Slots : /\ Killable(c, t) /\ task' = [task EXCEPT ![t] = Killed(t)]
                           /\ Call(c, "killsync", task[t].id)
    BY Zenon, <1>6 DEF KillTask
  <2>2. t \in Tasks /\ task[t] \in TaskRec
    BY Zenon, SlotFacts, TaskTyped
  <2>3. task[t].id \in Int
    BY <2>2 DEF TaskRec
  <2>4. Gentle(task[t], Killed(t))
    BY Zenon, <2>1, <2>2 DEF Gentle, Killed, Killable, Gone, TaskRec
  <2> DEFINE q == <<Enter(c, "killsync", task[t].id)>> \o stack[c]
  <2>5. Goto(c, q) /\ Inherits(stack[c], q)
    BY Zenon, <2>1, <2>3, InheritsCall DEF Call, At, BaseAt, SlotAt, ReapAt
  <2>6. UNCHANGED <<rq, next_task_id, cur, saved>>
    BY Zenon, <1>6 DEF KillTask, idVars
  <2> HIDE DEF q
  <2>7. QED BY Zenon, <2>1, <2>2, <2>4, <2>5, <2>6, RecordSafe
<1>7. QED BY Zenon, <1>1, <1>2, <1>3, <1>4, <1>5, <1>6

\* A task of s is made ready, s differing only mildly from the current state.
LEMMA ReadySafe ==
  ASSUME TypeInv, SafeInv, OneCpuPerTask, NEW c \in Cpus, NEW q, Goto(c, q),
         Inherits(stack[c], q), UNCHANGED <<next_task_id, cur, saved>>,
         NEW s, SchedTyped(s), QueuesAgree(s), ReadyQueued(s), Mild(task, s.task),
         NEW t \in Tasks, NEW d \in Cpus, s.task[t].used, s.task[t].state # "REAPING",
         SetSched(MakeReady(s, t, d))
  PROVE  SafeInv'
<1> DEFINE z == MakeReady(s, t, d)
<1>1. /\ QueuesAgree(z)
      /\ s.task[t].id >= NCpus => z.task[t].on_rq
      /\ \A u \in Tasks : /\ z.task[u].id = s.task[u].id
                          /\ z.task[u].used = s.task[u].used
                          /\ z.task[u].cpu = s.task[u].cpu
      /\ \A u \in Tasks : u # t => /\ z.task[u].on_rq = s.task[u].on_rq
                                   /\ z.task[u].state = s.task[u].state
      /\ z.task[t].state = IF s.task[t].id < NCpus THEN s.task[t].state ELSE "READY"
  BY Zenon, MakeReadyEffect
<1>2. SetSched(z)
  BY SMTT(30)
<1> HIDE DEF z
<1>3. t \in Slots => s.task[t].id >= NCpus
  BY SMTT(30) DEF SafeInv, TableOK, Mild
<1>4. ReadyQueued(z)
  BY SMTT(30), <1>1, <1>3, SlotFacts DEF ReadyQueued
<1>6. Mild(task, z.task)
  <2>1. \A u \in Tasks : u # t =>
          /\ z.task[u].id = task[u].id /\ (z.task[u].used <=> task[u].used)
          /\ z.task[u].state = "REAPING" <=> task[u].state = "REAPING"
          /\ ~task[u].used => z.task[u].state = task[u].state
    BY SMTT(30), <1>1 DEF Mild
  <2>2. /\ z.task[t].id = task[t].id /\ z.task[t].used /\ task[t].used
        /\ z.task[t].state # "REAPING" /\ task[t].state # "REAPING"
    BY SMTT(30), <1>1 DEF Mild
  <2>3. QED BY SMTT(30), <2>1, <2>2 DEF Mild
<1>7. RunQueuesOK' /\ Mild(task, task')
  BY SMTT(30), <1>1, <1>2, <1>4, <1>6, SetSchedQueues DEF SetSched
<1>8. QED BY Zenon, <1>7, MildStep

LEMMA NowReady ==
  ASSUME TypeInv, SafeInv
  PROVE  /\ SchedTyped(Now) /\ QueuesAgree(Now) /\ ReadyQueued(Now) /\ Mild(task, Now.task)
         /\ Now.task = task
BY Zenon DEF TypeInv, SafeInv, RunQueuesOK, Mild, Now

\* One record of the current state changes, gently.
LEMMA OneRecord ==
  ASSUME TypeInv, SafeInv, NEW t \in Tasks, NEW r \in TaskRec, Gentle(task[t], r)
  PROVE  LET s == [Now EXCEPT !.task[t] = r]
         IN /\ SchedTyped(s) /\ QueuesAgree(s) /\ ReadyQueued(s) /\ Mild(task, s.task)
            /\ s.task[t] = r
<1> DEFINE s == [Now EXCEPT !.task[t] = r]
<1>1. task \in [Tasks -> TaskRec] /\ Now.task = task
  BY Zenon, TaskTyped DEF Now
<1>2. s.task = [task EXCEPT ![t] = r] /\ s.rq = rq
  BY Zenon DEF Now
<1>3. s.task[t] = r /\ \A u \in Tasks : u # t => s.task[u] = task[u]
  BY Zenon, <1>1, <1>2
<1>4. SchedTyped(s)
  BY Zenon, UpdateTyped, <1>1 DEF TypeInv, Gentle
<1> HIDE DEF s
<1>5. Mild(task, s.task)
  BY SMTT(30), <1>3 DEF Mild, Gentle
<1>6. QueuesAgree(s)
  <2>1. \A u \in Tasks : /\ s.task[u].on_rq = Now.task[u].on_rq
                         /\ Now.task[u].on_rq => s.task[u].rq_cpu = Now.task[u].rq_cpu
    BY Zenon, <1>1, <1>3 DEF Gentle
  <2>2. \A u \in Slots : /\ ~s.task[u].used \/ s.task[u].state = "REAPING"
                         /\ s.task[u].on_rq
                         => ~Now.task[u].used \/ Now.task[u].state = "REAPING"
    BY Zenon, <1>1, <1>5, SlotFacts DEF Mild
  <2>3. s.rq = Now.rq
    BY Zenon, <1>2 DEF Now
  <2>4. QED BY SMTT(30), <2>1, <2>2, <2>3, NowReady, QueuesSame
<1>7. ReadyQueued(s)
  <2>1. \A u \in Slots : Now.task[u].state = "READY" => Now.task[u].on_rq
    BY Zenon, NowReady DEF ReadyQueued
  <2>2. task[t].state = r.state \/ r.state # "READY"
    BY Zenon DEF Gentle
  <2>3. r.on_rq = task[t].on_rq
    BY Zenon DEF Gentle
  <2>4. Slots \subseteq Tasks
    BY Zenon, SlotFacts
  <2>5. \A u \in Slots : s.task[u].state = "READY" => s.task[u].on_rq
    BY <1>1, <1>3, <2>1, <2>2, <2>3, <2>4
  <2>6. QED BY Zenon, <2>5 DEF ReadyQueued
<1>8. QED BY SMTT(30), <1>3, <1>4, <1>5, <1>6, <1>7 DEF s

LEMMA WakeSafe ==
  ASSUME TypeInv, SafeInv, OneCpuPerTask, NEW c \in Cpus, WakeTask(c) \/ UnparkTask(c)
  PROVE  SafeInv'
<1> DEFINE t == Top(c).arg
<1>1. /\ Top(c).at \in SlotAt /\ Top(c).at \notin BaseAt /\ Return(c)
      /\ UNCHANGED <<next_task_id, cur, saved>>
  BY Zenon DEF WakeTask, UnparkTask, In, SlotAt, BaseAt, idVars
<1>2. t \in Slots /\ t \in Tasks
  BY Zenon, <1>1, TopFacts
<1>3. Goto(c, Below(c)) /\ Inherits(stack[c], Below(c))
  BY Zenon, <1>1, InheritsReturn DEF Return
<1>4. \/ UNCHANGED lockVars
      \/ task[t].state = "BLOCKED" /\ \E d \in LeastLoaded(Now) : SetSched(MakeReady(Now, t, d))
      \/ SetSched([Now EXCEPT !.task[t].wake = TRUE])
  BY Zenon DEF WakeTask, UnparkTask
<1>5. CASE UNCHANGED lockVars
  BY SMTT(30), <1>1, <1>5, ReturnSafe DEF lockVars
<1>6. CASE task[t].state = "BLOCKED" /\ \E d \in LeastLoaded(Now) : SetSched(MakeReady(Now, t, d))
  <2>1. PICK d \in LeastLoaded(Now) : SetSched(MakeReady(Now, t, d))
    BY Zenon, <1>6
  <2>2. d \in Cpus
    BY SMTT(30) DEF LeastLoaded
  <2>3. Now.task[t].used /\ Now.task[t].state # "REAPING"
    BY Zenon, <1>2, <1>6, NowReady DEF SafeInv, TableOK
  <2> HIDE DEF t
  <2>4. QED BY SMTT(30), <1>1, <1>2, <1>3, <2>1, <2>2, <2>3, NowReady, ReadySafe
<1>7. CASE SetSched([Now EXCEPT !.task[t].wake = TRUE])
  <2> DEFINE r == [task[t] EXCEPT !.wake = TRUE]
  <2>1. task[t] \in TaskRec
    BY Zenon, <1>2, TaskTyped
  <2>2. Gentle(task[t], r)
    BY Zenon, <2>1 DEF Gentle, TaskRec
  <2>3. task' = [task EXCEPT ![t] = r] /\ UNCHANGED rq
    BY Zenon, <1>2, <1>7, TaskTyped DEF SetSched, Now
  <2> HIDE DEF r, t
  <2>4. QED BY Zenon, <1>1, <1>2, <1>3, <2>2, <2>3, RecordSafe
<1>8. QED BY Zenon, <1>4, <1>5, <1>6, <1>7

LEMMA TickSafe ==
  ASSUME TypeInv, SafeInv, OneCpuPerTask, TickSlot \/ TickDone
  PROVE  SafeInv'
<1>1. CASE TickSlot
  <2>1. UNCHANGED <<next_task_id, cur, stack, saved>>
    BY Zenon, <1>1 DEF TickSlot, idVars
  <2>2. 0 \in Cpus /\ FramesOK(stack[0]) /\ stack \in [Cpus -> Seq(Frame)]
    BY Zenon, TopFacts, SlotFacts DEF TypeInv, StacksOK
  <2>3. Goto(0, stack[0]) /\ Inherits(stack[0], stack[0])
    BY Zenon, <2>1, <2>2, InheritsSame DEF Goto
  <2>4. PICK t \in Sleepers(tickat) :
          LET s == [Now EXCEPT !.task[t].sleep = @ - 1]
          IN IF s.task[t].sleep = 0
             THEN \E d \in LeastLoaded(s) : SetSched(MakeReady(s, t, d))
             ELSE SetSched(s)
    BY Zenon, <1>1 DEF TickSlot
  <2>5. t \in Slots /\ t \in Tasks /\ task[t].used /\ task[t].state = "BLOCKED" /\ task[t].sleep > 0
    BY Zenon, SlotFacts DEF Sleepers
  <2>6. task[t] \in TaskRec
    BY Zenon, <2>5, TaskTyped
  <2> DEFINE r == [task[t] EXCEPT !.sleep = @ - 1]
             s == [Now EXCEPT !.task[t] = r]
  <2>7. [Now EXCEPT !.task[t].sleep = @ - 1] = s
    BY Zenon DEF Now
  <2>8. r \in TaskRec /\ Gentle(task[t], r) /\ r.used /\ r.state = "BLOCKED"
    <3>1. task[t].sleep \in Nat /\ task[t].sleep - 1 \in Nat
      BY <2>5, <2>6 DEF TaskRec
    <3>2. PICK n \in Nat : n = task[t].sleep - 1
      BY Zenon, <3>1
    <3>3. [task[t] EXCEPT !.sleep = n] \in TaskRec
      BY Zenon, <2>6 DEF TaskRec
    <3>4. Gentle(task[t], [task[t] EXCEPT !.sleep = n])
      BY Zenon, <2>6 DEF Gentle, TaskRec
    <3>5. r = [task[t] EXCEPT !.sleep = n] /\ r.used = task[t].used /\ r.state = task[t].state
      BY Zenon, <2>6, <3>2 DEF TaskRec
    <3>6. QED BY Zenon, <2>5, <3>3, <3>4, <3>5
  <2> HIDE DEF r
  <2>9. /\ SchedTyped(s) /\ QueuesAgree(s) /\ ReadyQueued(s) /\ Mild(task, s.task)
        /\ s.task[t] = r
    BY Zenon, <2>5, <2>8, OneRecord
  <2>10. \/ \E d \in LeastLoaded(s) : SetSched(MakeReady(s, t, d))
         \/ SetSched(s)
    BY SMTT(30), <2>4, <2>7
  <2> HIDE DEF s
  <2>11. CASE \E d \in LeastLoaded(s) : SetSched(MakeReady(s, t, d))
    <3>1. PICK d \in LeastLoaded(s) : SetSched(MakeReady(s, t, d))
      BY Zenon, <2>11
    <3>2. d \in Cpus
      BY Zenon DEF LeastLoaded
    <3>3. s.task[t].used /\ s.task[t].state # "REAPING"
      BY Zenon, <2>8, <2>9
    <3>4. QED BY SMTT(30), <2>1, <2>2, <2>3, <2>5, <2>9, <3>1, <3>2, <3>3, ReadySafe
  <2>12. CASE SetSched(s)
    <3>1. RunQueuesOK' /\ Mild(task, task')
      BY Zenon, <2>9, <2>12, SetSchedQueues DEF SetSched
    <3>2. QED BY SMTT(30), <2>1, <2>2, <2>3, <3>1, MildStep
  <2>13. QED BY Zenon, <2>10, <2>11, <2>12
<1>2. CASE TickDone
  BY Zenon, <1>2, PreemptSafe, SlotFacts DEF TickDone, idVars
<1>3. QED BY Zenon, <1>1, <1>2

\* A task leaves its queue and changes state.
LEMMA RemoveState ==
  ASSUME NEW s, SchedTyped(s), QueuesAgree(s), NEW t \in Slots, NEW st \in States,
         st # "REAPING" \/ s.task[t].used
  PROVE  LET z == [RqRemove(s, t) EXCEPT !.task[t].state = st]
         IN /\ SchedTyped(z) /\ QueuesAgree(z) /\ z.task[t].state = st
            /\ \A u \in Tasks : z.task[u].id = s.task[u].id /\ z.task[u].used = s.task[u].used
            /\ \A u \in Tasks : u # t => /\ z.task[u].state = s.task[u].state
                                         /\ z.task[u].on_rq = s.task[u].on_rq
<1> DEFINE y == RqRemove(s, t)
           z == [y EXCEPT !.task[t].state = st]
           r == [y.task[t] EXCEPT !.state = st]
<1>1. /\ QueuesAgree(y) /\ SameLife(s, y) /\ ~y.task[t].on_rq
      /\ \A u \in Tasks : u # t => y.task[u].on_rq = s.task[u].on_rq
  BY SMTT(30), RemoveEffect
<1>2. SchedTyped(y) /\ t \in Tasks
  BY ZenonT(60), RqRemoveTyped, SlotFacts
<1> HIDE DEF y
<1>3. SchedTyped(z)
  BY Zenon, <1>2, ReadyTyped
<1>4. y.task \in [Tasks -> TaskRec]
  BY Zenon, <1>2, StateFields DEF SchedTyped
<1>5. z.task = [y.task EXCEPT ![t] = r] /\ z.rq = y.rq
  BY Zenon, <1>2 DEF SchedTyped, SchedState
<1>6. y.task[t] \in TaskRec
  BY Zenon, <1>2, <1>4
<1>7. /\ r.id = y.task[t].id /\ r.used = y.task[t].used /\ r.state = st
      /\ r.on_rq = y.task[t].on_rq /\ r.rq_cpu = y.task[t].rq_cpu
  BY Zenon, <1>6 DEF TaskRec
<1> HIDE DEF z, r
<1>8. z.task[t] = r /\ \A u \in Tasks : u # t => z.task[u] = y.task[u]
  BY Zenon, <1>2, <1>4, <1>5
<1>9. QueuesAgree(z)
  <2>1. \A u \in Tasks : /\ z.task[u].on_rq = y.task[u].on_rq
                         /\ y.task[u].on_rq => z.task[u].rq_cpu = y.task[u].rq_cpu
    BY Zenon, <1>7, <1>8
  <2>2. \A u \in Slots : /\ ~z.task[u].used \/ z.task[u].state = "REAPING"
                         /\ z.task[u].on_rq
                         => ~y.task[u].used \/ y.task[u].state = "REAPING"
    BY Zenon, <1>1, <1>7, <1>8, SlotFacts
  <2>3. QED BY Zenon, <1>1, <1>2, <1>5, <2>1, <2>2, QueuesSame
<1>10. z.task[t].state = st
  BY Zenon, <1>7, <1>8
<1>11. \A u \in Tasks : z.task[u].id = s.task[u].id /\ z.task[u].used = s.task[u].used
  BY SMTT(30), <1>1, <1>7, <1>8 DEF SameLife
<1>12. \A u \in Tasks : u # t => /\ z.task[u].state = s.task[u].state
                                 /\ z.task[u].on_rq = s.task[u].on_rq
  BY Zenon, <1>1, <1>8 DEF SameLife
<1>13. QED BY SMTT(30), <1>3, <1>9, <1>10, <1>11, <1>12 DEF y, z

LEMMA SleepSafe ==
  ASSUME TypeInv, SafeInv, OneCpuPerTask, NEW c \in Cpus, SleepCurrent(c)
  PROVE  SafeInv'
<1> DEFINE t == cur[c]
           q == <<Enter(c, "reap", 0)>> \o stack[c]
<1>1. UNCHANGED <<next_task_id, cur, saved>> /\ t \in Slots /\ Call(c, "reap", 0)
  BY Zenon DEF SleepCurrent, IsUser, IsTask, idVars
<1>2. t \in Tasks /\ task[t].used /\ task[t].state # "REAPING" /\ task[t] \in TaskRec
  BY SMTT(30), CurrentFacts
<1>3. Goto(c, q) /\ Inherits(stack[c], q)
  BY SMTT(30), <1>1, InheritsCall DEF Call, At, BaseAt, SlotAt, ReapAt
<1>4. PICK seconds \in 0 .. MaxSleep :
        LET s == [Now EXCEPT !.task[t].sleep = 2 * seconds]
        IN IF seconds = 0
           THEN \E d \in LeastLoaded(s) : SetSched(MakeReady(s, t, d))
           ELSE SetSched([RqRemove(s, t) EXCEPT !.task[t].state = "BLOCKED"])
  BY Zenon DEF SleepCurrent
<1>5. PICK n \in Nat : n = 2 * seconds
  BY ConstantsOK
<1> DEFINE r == [task[t] EXCEPT !.sleep = n]
           s == [Now EXCEPT !.task[t] = r]
<1>6. [Now EXCEPT !.task[t].sleep = 2 * seconds] = s
  BY Zenon, <1>5 DEF Now
<1>7. r \in TaskRec
  BY Zenon, <1>2 DEF TaskRec
<1>8. Gentle(task[t], r) /\ r.used = task[t].used /\ r.state = task[t].state
  BY Zenon, <1>2 DEF Gentle, TaskRec
<1> HIDE DEF r
<1>9. /\ SchedTyped(s) /\ QueuesAgree(s) /\ ReadyQueued(s) /\ Mild(task, s.task)
      /\ s.task[t] = r
  BY Zenon, <1>2, <1>7, <1>8, OneRecord
<1>10. \/ \E d \in LeastLoaded(s) : SetSched(MakeReady(s, t, d))
       \/ SetSched([RqRemove(s, t) EXCEPT !.task[t].state = "BLOCKED"])
  BY Zenon, <1>4, <1>6
<1>11. s.task[t].used /\ s.task[t].state # "REAPING"
  BY ZenonT(60), <1>2, <1>8, <1>9
<1> HIDE DEF s, q, t
<1>12. CASE \E d \in LeastLoaded(s) : SetSched(MakeReady(s, t, d))
  <2>1. PICK d \in LeastLoaded(s) : SetSched(MakeReady(s, t, d))
    BY Zenon, <1>12
  <2>2. d \in Cpus
    BY Zenon DEF LeastLoaded
  <2>3. QED BY Zenon, <1>1, <1>2, <1>3, <1>9, <1>11, <2>1, <2>2, ReadySafe
<1>13. CASE SetSched([RqRemove(s, t) EXCEPT !.task[t].state = "BLOCKED"])
  <2> DEFINE z == [RqRemove(s, t) EXCEPT !.task[t].state = "BLOCKED"]
  <2>1. "BLOCKED" \in States
    BY Zenon DEF States
  <2>2. /\ SchedTyped(z) /\ QueuesAgree(z) /\ z.task[t].state = "BLOCKED"
        /\ \A u \in Tasks : z.task[u].id = s.task[u].id /\ z.task[u].used = s.task[u].used
        /\ \A u \in Tasks : u # t => /\ z.task[u].state = s.task[u].state
                                     /\ z.task[u].on_rq = s.task[u].on_rq
    BY SMTT(60), <1>1, <1>9, <1>11, <2>1, RemoveState
  <2>3. SetSched(z)
    BY SMTT(30), <1>13
  <2> HIDE DEF z
  <2>4. ReadyQueued(z)
    BY SMTT(30), <1>9, <2>2, SlotFacts DEF ReadyQueued
  <2>5. Mild(task, z.task)
    <3>1. \A u \in Tasks : u # t =>
            /\ z.task[u].id = task[u].id /\ (z.task[u].used <=> task[u].used)
            /\ z.task[u].state = "REAPING" <=> task[u].state = "REAPING"
            /\ ~task[u].used => z.task[u].state = task[u].state
      BY SMTT(30), <1>9, <2>2 DEF Mild
    <3>2. z.task[t].id = task[t].id /\ z.task[t].used /\ z.task[t].state # "REAPING"
      BY SMTT(30), <1>2, <1>9, <1>11, <2>2 DEF Mild
    <3>3. QED BY SMTT(30), <1>2, <3>1, <3>2 DEF Mild
  <2>6. RunQueuesOK' /\ Mild(task, task')
    BY SMTT(30), <2>2, <2>3, <2>4, <2>5, SetSchedQueues DEF SetSched
  <2>7. QED BY Zenon, <1>1, <1>3, <2>6, MildStep
<1>14. QED BY SMTT(30), <1>10, <1>12, <1>13

LEMMA ExitSafe ==
  ASSUME TypeInv, SafeInv, OneCpuPerTask, NEW c \in Cpus, TaskExit(c)
  PROVE  SafeInv'
<1> DEFINE t == cur[c]
           me == task[t]
           parents == {p \in Tasks : task[p].used /\ task[p].id = me.parent}
           last == IF parents = {} \/ me.id = init_task_id THEN "DEAD" ELSE "ZOMBIE"
           tk == [u \in Tasks |->
                   IF u = t THEN [me EXCEPT !.state = last]
                   ELSE IF task[u].used /\ task[u].parent = me.id
                   THEN [task[u] EXCEPT !.parent = init_task_id]
                   ELSE task[u]]
           s == [Now EXCEPT !.task = tk]
           blocked == {p \in parents : s.task[p].state = "BLOCKED"}
           q == <<Enter(c, "reap", 0), Enter(c, "exited", 0)>>
<1>1. IF blocked = {} THEN SetSched(s)
      ELSE \E p \in blocked, d \in LeastLoaded(s) : SetSched(MakeReady(s, p, d))
  BY Zenon DEF TaskExit
<1>2. UNCHANGED <<next_task_id, cur, saved>> /\ Goto(c, q)
  BY Zenon DEF TaskExit, idVars
<1>3. Inherits(stack[c], q)
  <2>1. Len(q) = 2 /\ q[1].at = "reap" /\ q[2].at = "exited"
    BY Zenon DEF Enter, F
  <2> HIDE DEF q
  <2>2. \A i \in 1 .. Len(q) : q[i].at \notin ReapAt
    BY <2>1 DEF ReapAt
  <2>3. QED BY SMTT(30), <2>2, InheritsNone
<1>4. t \in Tasks /\ task[t].used /\ task[t].state # "REAPING"
  BY Zenon, CurrentFacts
<1>5. \A u \in Tasks : /\ tk[u] \in TaskRec /\ Gentle(task[u], tk[u])
                       /\ tk[u].used = task[u].used
                       /\ tk[u].state # "BLOCKED" \/ tk[u].state = task[u].state
  <2>1. last \in {"DEAD", "ZOMBIE"}
    BY Zenon
  <2>2. init_task_id \in Nat \cup {NoParent}
    BY Zenon DEF TypeInv, IdsTyped
  <2>3. \A u \in Tasks : task[u] \in TaskRec
    BY Zenon, TaskTyped
  <2> HIDE DEF last
  <2>4. \A u \in Tasks : LET r == [task[u] EXCEPT !.parent = init_task_id]
                         IN r \in TaskRec /\ Gentle(task[u], r) /\ r.used = task[u].used
                            /\ r.state = task[u].state
    <3> TAKE u \in Tasks
    <3>1. task[u] \in TaskRec
      BY Zenon, <2>3
    <3>2. QED BY Zenon, <2>2, <3>1 DEF TaskRec, Gentle
  <2>5. LET r == [task[t] EXCEPT !.state = last]
        IN r \in TaskRec /\ Gentle(task[t], r) /\ r.used = task[t].used /\ r.state # "BLOCKED"
    <3>1. task[t] \in TaskRec
      BY Zenon, <1>4, <2>3
    <3>2. QED BY Zenon, <1>4, <2>1, <3>1 DEF TaskRec, Gentle, States
  <2>6. \A u \in Tasks : Gentle(task[u], task[u])
    BY Zenon, <2>3 DEF Gentle, TaskRec
  <2>7. QED BY Zenon, <2>3, <2>4, <2>5, <2>6
<1>6. /\ SchedTyped(s) /\ QueuesAgree(s) /\ ReadyQueued(s) /\ Mild(task, s.task) /\ s.task = tk
  <2>1. tk \in [Tasks -> TaskRec]
    <3> DEFINE e(u) == IF u = t THEN [me EXCEPT !.state = last]
                       ELSE IF task[u].used /\ task[u].parent = me.id
                       THEN [task[u] EXCEPT !.parent = init_task_id]
                       ELSE task[u]
    <3>1. \A u \in Tasks : e(u) \in TaskRec
      BY Zenon, <1>5
    <3> HIDE DEF e
    <3>2. [u \in Tasks |-> e(u)] \in [Tasks -> TaskRec]
      BY Zenon, <3>1
    <3>3. QED BY Zenon, <3>2 DEF e
  <2> HIDE DEF tk
  <2>2. s.task = tk /\ s.rq = Now.rq /\ Now.task = task
    BY Zenon DEF Now
  <2>3. SchedTyped(s)
    BY Zenon, <1>5, <2>1, TaskTyped, SlotFacts DEF Now, SchedTyped, SchedState, Gentle
  <2> HIDE DEF s
  <2>4. Mild(task, s.task)
    BY SMTT(30), <1>5, <2>2 DEF Mild, Gentle
  <2>5. QueuesAgree(s)
    <3>1. \A u \in Tasks : /\ s.task[u].on_rq = Now.task[u].on_rq
                           /\ Now.task[u].on_rq => s.task[u].rq_cpu = Now.task[u].rq_cpu
      BY Zenon, <1>5, <2>2 DEF Gentle
    <3>2. \A u \in Slots : /\ ~s.task[u].used \/ s.task[u].state = "REAPING"
                           /\ s.task[u].on_rq
                           => ~Now.task[u].used \/ Now.task[u].state = "REAPING"
      BY SMTT(30), <2>2, <2>4, SlotFacts DEF Mild
    <3>3. QED BY SMTT(30), <2>2, <3>1, <3>2, NowReady, QueuesSame
  <2>6. ReadyQueued(s)
    <3>1. \A u \in Slots : Now.task[u].state = "READY" => Now.task[u].on_rq
      BY Zenon, NowReady DEF ReadyQueued
    <3>2. QED BY Zenon, <1>5, <2>2, <3>1, SlotFacts DEF ReadyQueued, Gentle
  <2>7. QED BY Zenon, <2>2, <2>3, <2>4, <2>5, <2>6
<1>7. \A p \in blocked : p \in Tasks /\ s.task[p].used /\ s.task[p].state # "REAPING"
  <2>1. \A p \in blocked : p \in Tasks /\ task[p].used /\ s.task[p].state = "BLOCKED"
    BY Zenon
  <2> HIDE DEF s, tk, blocked
  <2>2. QED BY Zenon, <1>6, <2>1 DEF Mild
<1> HIDE DEF s, tk, blocked, q
<1>8. CASE SetSched(s)
  <2>1. RunQueuesOK' /\ Mild(task, task')
    BY SMTT(30), <1>6, <1>8, SetSchedQueues DEF SetSched
  <2>2. QED BY Zenon, <1>2, <1>3, <2>1, MildStep
<1>9. CASE \E p \in blocked, d \in LeastLoaded(s) : SetSched(MakeReady(s, p, d))
  <2>1. PICK p \in blocked, d \in LeastLoaded(s) : SetSched(MakeReady(s, p, d))
    BY Zenon, <1>9
  <2>2. d \in Cpus
    BY Zenon DEF LeastLoaded
  <2>3. QED BY SMTT(30), <1>2, <1>3, <1>6, <1>7, <2>1, <2>2, ReadySafe
<1>10. QED BY Zenon, <1>1, <1>8, <1>9

(***************************************************************************)
(* The reaper.                                                             *)
(***************************************************************************)
\* Only the top frame of CPU c's task changes.
LEMMA TopOnly ==
  ASSUME TypeInv, OneCpuPerTask, NEW c \in Cpus, Top(c).at \notin BaseAt,
         NEW at \in At \ BaseAt, NEW arg \in Int, at \in SlotAt => arg \in Slots,
         Become(c, at, arg), UNCHANGED <<cur, saved>>
  PROVE  /\ \A u \in Tasks : Len(Frames(u)') = Len(Frames(u))
         /\ \A u \in Tasks : \A i \in 1 .. Len(Frames(u)) :
              u # cur[c] \/ i # 1 => Frames(u)'[i] = Frames(u)[i]
         /\ Frames(cur[c])'[1].at = at /\ Frames(cur[c])'[1].arg = arg
<1> DEFINE q == stack[c]
           f == F(at, arg, Top(c).masked)
           z == <<f>> \o Tail(q)
<1>1. FramesOK(q) /\ Head(q).at \notin BaseAt /\ Top(c).masked \in BOOLEAN
  BY Zenon, TopFacts DEF Top, Frame
<1>2. /\ FramesOK(Tail(q)) /\ Len(q) \in Nat /\ Len(Tail(q)) = Len(q) - 1
      /\ \A i \in 1 .. Len(q) - 1 : Tail(q)[i] = q[i + 1]
  BY Zenon, <1>1, PopOK
<1>3. f \in Frame /\ f.at = at /\ f.arg = arg
  BY <1>1, FrameTyped
<1> HIDE DEF f
<1>4. /\ Len(z) = Len(Tail(q)) + 1 /\ z[1] = f
      /\ \A i \in 1 .. Len(Tail(q)) : z[i + 1] = Tail(q)[i]
  BY Zenon, <1>2, <1>3, PushOK
<1>5. Goto(c, z)
  BY Zenon DEF Become, Below, f
<1> HIDE DEF z
<1>6. Frames(cur[c])' = z /\ \A u \in Tasks : u # cur[c] => Frames(u)' = Frames(u)
  BY Zenon, <1>5, FramesStep
<1>7. Frames(cur[c]) = q /\ cur' = cur
  BY Zenon, FramesCurrent
<1> HIDE DEF q
<1>8. Len(z) = Len(q) /\ \A i \in 1 .. Len(q) : i # 1 => z[i] = q[i]
  <2>1. Len(z) = Len(q)
    BY <1>2, <1>4
  <2>2. ASSUME NEW i \in 1 .. Len(q), i # 1 PROVE z[i] = q[i]
    <3>1. i - 1 \in 1 .. Len(q) - 1 /\ (i - 1) + 1 = i
      BY <1>2, <2>2
    <3>2. z[(i - 1) + 1] = Tail(q)[i - 1] /\ Tail(q)[i - 1] = q[(i - 1) + 1]
      BY SMTT(30), <1>2, <1>4, <3>1
    <3>3. QED BY Zenon, <3>1, <3>2
  <2>3. QED BY Zenon, <2>1, <2>2
<1>9. QED
  <2>1. \A u \in Tasks : u = cur[c] => Frames(u)' = z /\ Frames(u) = q
    BY Zenon, <1>6, <1>7
  <2>2. QED BY Zenon, <1>3, <1>4, <1>6, <1>8, <2>1

\* What ReapersOK says of the current state, with the typing of the frames.
LEMMA ReapersNow ==
  ASSUME TypeInv, SafeInv, OneCpuPerTask
  PROVE  /\ \A t \in Tasks : Live(t) => \A i \in 1 .. Len(Frames(t)) :
              Frames(t)[i].at \in ReapAt =>
                Frames(t)[i].arg \in Slots /\ Reaping(Frames(t)[i].arg)
         /\ \A t \in Tasks : Len(Frames(t)) \in Nat
<1>1. \A t \in Tasks : FramesOK(Frames(t))
  BY Zenon, FramesTyped
<1>2. \A t \in Tasks : \A i \in 1 .. Len(Frames(t)) :
        Frames(t)[i].at \in ReapAt => Frames(t)[i].arg \in Slots
  BY Zenon, <1>1 DEF FramesOK, ReapAt, SlotAt
<1>3. \A t \in Tasks : Len(Frames(t)) \in Nat
  BY Zenon, <1>1, SeqFacts DEF FramesOK
<1>4. QED BY Zenon, <1>2, <1>3 DEF SafeInv, ReapersOK, ReapFrame

LEMMA VictimSafe ==
  ASSUME TypeInv, SafeInv, OneCpuPerTask, NEW c \in Cpus, ReapVictim(c)
  PROVE  SafeInv'
<1>1. PICK t \in Slots : /\ Reapable(t)
                         /\ SetSched([RqRemove(Now, t) EXCEPT !.task[t].state = "REAPING"])
                         /\ Become(c, "cleanup", t)
  BY Zenon DEF ReapVictim
<1>2. Top(c).at = "reap" /\ UNCHANGED <<next_task_id, cur, saved>>
  BY Zenon DEF ReapVictim, In, idVars
<1>3. t \in Tasks /\ t \in Int /\ task[t].used /\ task[t].state = "DEAD" /\ task[t].cpu = NoCpu
  BY <1>1, SlotFacts DEF Reapable
<1> DEFINE z == [RqRemove(Now, t) EXCEPT !.task[t].state = "REAPING"]
<1>4. /\ SchedTyped(z) /\ QueuesAgree(z) /\ z.task[t].state = "REAPING"
      /\ \A u \in Tasks : z.task[u].id = task[u].id /\ z.task[u].used = task[u].used
      /\ \A u \in Tasks : u # t => /\ z.task[u].state = task[u].state
                                   /\ z.task[u].on_rq = task[u].on_rq
  <2>1. Now.task = task /\ "REAPING" \in States /\ Now.task[t].used
    BY Zenon, <1>3 DEF Now, States
  <2>2. /\ SchedTyped(z) /\ QueuesAgree(z) /\ z.task[t].state = "REAPING"
        /\ \A u \in Tasks : z.task[u].id = Now.task[u].id /\ z.task[u].used = Now.task[u].used
        /\ \A u \in Tasks : u # t => /\ z.task[u].state = Now.task[u].state
                                     /\ z.task[u].on_rq = Now.task[u].on_rq
    BY SMTT(60), <2>1, NowReady, RemoveState
  <2> HIDE DEF z
  <2>3. QED BY Zenon, <2>1, <2>2
<1>5. task' = z.task /\ SetSched(z)
  BY Zenon, <1>1 DEF SetSched
<1> HIDE DEF z
<1>6. ReadyQueued(z)
  <2>1. \A u \in Slots : task[u].state = "READY" => task[u].on_rq
    BY Zenon, NowReady DEF ReadyQueued
  <2>2. QED BY Zenon, <1>4, <2>1, SlotFacts DEF ReadyQueued
<1>7. RunQueuesOK'
  BY Zenon, <1>4, <1>5, <1>6, SetSchedQueues
<1>8. \A u \in Tasks : /\ task'[u].id = task[u].id /\ task'[u].used = task[u].used
                       /\ u # t => task'[u].state = task[u].state
  BY Zenon, <1>4, <1>5
<1>9. task'[t].state = "REAPING"
  BY Zenon, <1>4, <1>5
<1>10. TableOK'
  BY Zenon, <1>2, <1>3, <1>8, SlotFacts DEF SafeInv, TableOK
<1>11. ActiveStackAlive'
  <2>1. \A d \in Cpus : cur[d] # t /\ cur[d] \in Tasks
    BY <1>3, SlotFacts, TopFacts DEF OneCpuPerTask
  <2>2. QED BY Zenon, <1>2, <1>8, <2>1 DEF SafeInv, ActiveStackAlive
<1>12. /\ \A u \in Tasks : Live(u)' => Live(u) /\ u # t
       /\ \A v \in Slots : Reaping(v) => v # t /\ Reaping(v)'
       /\ Reaping(t)'
  BY Zenon, <1>3, <1>8, <1>9, SlotFacts DEF Live, Reaping
<1>13. /\ \A u \in Tasks : Len(Frames(u)') = Len(Frames(u))
       /\ \A u \in Tasks : \A i \in 1 .. Len(Frames(u)) :
            u # cur[c] \/ i # 1 => Frames(u)'[i] = Frames(u)[i]
       /\ Frames(cur[c])'[1].at = "cleanup" /\ Frames(cur[c])'[1].arg = t
  BY Zenon, <1>1, <1>2, <1>3, TopOnly DEF At, BaseAt, SlotAt
<1>14. ReapersOK'
  <2>1. ASSUME NEW u \in Tasks, Live(u)', NEW i \in 1 .. Len(Frames(u)'), ReapFrame(u, i)'
        PROVE  /\ u = cur[c] /\ i = 1 => Frames(u)'[i].arg = t
               /\ ~(u = cur[c] /\ i = 1) =>
                    /\ Live(u) /\ i \in 1 .. Len(Frames(u)) /\ ReapFrame(u, i)
                    /\ Frames(u)'[i] = Frames(u)[i]
                    /\ Frames(u)[i].arg \in Slots /\ Reaping(Frames(u)[i].arg)
    <3>1. Live(u) /\ i \in 1 .. Len(Frames(u)) /\ Frames(u)'[i].at \in ReapAt
      BY Zenon, <1>12, <1>13, <2>1 DEF ReapFrame
    <3>2. CASE u = cur[c] /\ i = 1
      BY Zenon, <1>2, <1>13, <3>2
    <3>3. CASE ~(u = cur[c] /\ i = 1)
      <4>1. Frames(u)'[i] = Frames(u)[i]
        BY Zenon, <1>13, <3>1, <3>3
      <4>2. ReapFrame(u, i)
        BY Zenon, <3>1, <4>1 DEF ReapFrame
      <4>3. QED BY Zenon, <3>1, <3>3, <4>1, <4>2, ReapersNow DEF ReapFrame
    <3>4. QED BY Zenon, <3>2, <3>3
  <2>2. ASSUME NEW u \in Tasks, Live(u)', NEW i \in 1 .. Len(Frames(u)'), ReapFrame(u, i)'
        PROVE  Reaping(Frames(u)[i].arg)'
    <3>1. PICK v : v = Frames(u)'[i].arg
      BY Zenon
    <3>2. Reaping(v)'
      <4>1. CASE u = cur[c] /\ i = 1
        BY Zenon, <1>12, <2>1, <2>2, <3>1, <4>1
      <4>2. CASE ~(u = cur[c] /\ i = 1)
        BY Zenon, <1>12, <2>1, <2>2, <3>1, <4>2
      <4>3. QED BY Zenon, <4>1, <4>2
    <3>3. QED BY Zenon, <3>1, <3>2 DEF Reaping
  <2>3. ASSUME NEW u \in Tasks, NEW w \in Tasks, Live(u)', Live(w)',
               NEW i \in 1 .. Len(Frames(u)'), NEW j \in 1 .. Len(Frames(w)'),
               ReapFrame(u, i)', ReapFrame(w, j)', (Frames(u)[i].arg = Frames(w)[j].arg)'
        PROVE  u = w /\ i = j
    <3>1. CASE (u = cur[c] /\ i = 1) /\ (w = cur[c] /\ j = 1)
      BY Zenon, <3>1
    <3>2. CASE (u = cur[c] /\ i = 1) /\ ~(w = cur[c] /\ j = 1)
      <4>1. Frames(u)'[i].arg = t
        BY Zenon, <2>1, <2>3, <3>2
      <4>2. Reaping(Frames(w)'[j].arg) /\ Frames(w)'[j].arg \in Slots
        BY Zenon, <2>1, <2>3, <3>2
      <4>3. QED BY Zenon, <1>12, <2>3, <4>1, <4>2
    <3>3. CASE ~(u = cur[c] /\ i = 1) /\ (w = cur[c] /\ j = 1)
      <4>1. Frames(w)'[j].arg = t
        BY Zenon, <2>1, <2>3, <3>3
      <4>2. Reaping(Frames(u)'[i].arg) /\ Frames(u)'[i].arg \in Slots
        BY Zenon, <2>1, <2>3, <3>3
      <4>3. QED BY Zenon, <1>12, <2>3, <4>1, <4>2
    <3>4. CASE ~(u = cur[c] /\ i = 1) /\ ~(w = cur[c] /\ j = 1)
      <4>1. Live(u) /\ i \in 1 .. Len(Frames(u)) /\ ReapFrame(u, i) /\ Frames(u)'[i] = Frames(u)[i]
        BY Zenon, <2>1, <2>3, <3>4
      <4>2. Live(w) /\ j \in 1 .. Len(Frames(w)) /\ ReapFrame(w, j) /\ Frames(w)'[j] = Frames(w)[j]
        BY Zenon, <2>1, <2>3, <3>4
      <4>3. Frames(u)[i].arg = Frames(w)[j].arg
        BY Zenon, <2>3, <4>1, <4>2
      <4>4. QED BY Zenon, <4>1, <4>2, <4>3 DEF SafeInv, ReapersOK
    <3>5. QED BY Zenon, <3>1, <3>2, <3>3, <3>4
  <2>4. QED BY Zenon, <2>2, <2>3 DEF ReapersOK
<1>15. QED BY Zenon, <1>7, <1>10, <1>11, <1>14 DEF SafeInv

LEMMA ClearSafe ==
  ASSUME TypeInv, SafeInv, OneCpuPerTask, NEW c \in Cpus, ReapClear(c)
  PROVE  SafeInv'
<1>0. PICK v, t : v = Top(c).arg /\ t = cur[c]
  BY Zenon
<1>1. /\ Top(c).at = "clear" /\ task' = [task EXCEPT ![v] = Cleared] /\ Become(c, "reap", 0)
      /\ UNCHANGED <<rq, next_task_id, cur, saved>>
  BY Zenon, <1>0 DEF ReapClear, In
<1>2. v \in Slots /\ v \in Tasks /\ t \in Tasks /\ Top(c) = stack[c][1] /\ FramesOK(stack[c])
  BY Zenon, <1>0, <1>1, TopFacts DEF SlotAt
<1>3. Live(t) /\ Frames(t) = stack[c] /\ 1 \in 1 .. Len(Frames(t)) /\ Frames(t)[1] = Top(c)
  <2>1. Live(t)
    BY Zenon, <1>0, CurrentFacts DEF Live
  <2>2. Frames(t) = stack[c]
    BY Zenon, <1>0, FramesCurrent
  <2>3. 1 \in 1 .. Len(stack[c])
    BY <1>2, NoSeq DEF FramesOK
  <2>4. QED BY Zenon, <1>2, <2>1, <2>2, <2>3
<1>4. ReapFrame(t, 1) /\ Reaping(v)
  BY Zenon, <1>0, <1>1, <1>2, <1>3, ReapersNow DEF ReapFrame, ReapAt
<1>5. task'[v] = Cleared /\ \A u \in Tasks : u # v => task'[u] = task[u]
  BY Zenon, <1>1, <1>2, TaskTyped
<1>6. TableOK'
  BY SMTT(30), <1>1, <1>2, <1>5, SlotFacts DEF SafeInv, TableOK, Cleared
<1>7. ActiveStackAlive'
  <2>1. \A d \in Cpus : cur[d] # v /\ cur[d] \in Tasks
    BY Zenon, <1>4, CurrentFacts DEF Reaping
  <2>2. QED BY <1>1, <1>5, <2>1 DEF SafeInv, ActiveStackAlive
<1>8. RunQueuesOK'
  <2>1. ~task[v].on_rq
    BY Zenon, <1>2, <1>4, NowReady DEF QueuesAgree, Reaping
  <2>2. PICK z : z = [task |-> task', rq |-> rq', need |-> need_resched', nxt |-> next_enqueue_cpu']
    BY Zenon
  <2>3. z.task = task' /\ z.rq = rq
    BY Zenon, <1>1, <2>2
  <2>4. QueuesAgree(z)
    <3>1. \A u \in Tasks : z.task[u].on_rq <=> task[u].on_rq
      BY <1>5, <2>1, <2>3 DEF Cleared
    <3>2. \A u \in Tasks : task[u].on_rq => z.task[u] = task[u]
      BY Zenon, <1>5, <2>1, <2>3
    <3>3. /\ \A d \in Cpus : \A i, j \in 1 .. Len(rq[d]) : rq[d][i] = rq[d][j] => i = j
          /\ \A d \in Cpus : \A i \in 1 .. Len(rq[d]) :
               task[rq[d][i]].on_rq /\ task[rq[d][i]].rq_cpu = d
          /\ \A u \in Slots : task[u].on_rq =>
               \E d \in Cpus : \E i \in 1 .. Len(rq[d]) : rq[d][i] = u
          /\ \A u \in Slots : ~task[u].used \/ task[u].state = "REAPING" => ~task[u].on_rq
      BY NowReady DEF QueuesAgree, Now
    <3>4. \A d \in Cpus : \A i \in 1 .. Len(rq[d]) : rq[d][i] \in Tasks
      BY NowReady, QueueEntries DEF Now
    <3>5. \A u \in Slots : ~z.task[u].used \/ z.task[u].state = "REAPING" => ~z.task[u].on_rq
      BY SMTT(30), <3>1, <3>2, <3>3, SlotFacts
    <3>6. \A d \in Cpus : \A i \in 1 .. Len(rq[d]) :
               z.task[rq[d][i]].on_rq /\ z.task[rq[d][i]].rq_cpu = d
      BY <3>1, <3>2, <3>3, <3>4
    <3>7. \A u \in Slots : z.task[u].on_rq =>
               \E d \in Cpus : \E i \in 1 .. Len(rq[d]) : rq[d][i] = u
      BY Zenon, <3>1, <3>3, SlotFacts
    <3>8. QED BY <2>3, <3>3, <3>5, <3>6, <3>7 DEF QueuesAgree
  <2>5. \A u \in Slots : task[u].state = "READY" => task[u].on_rq
    BY Zenon, NowReady DEF ReadyQueued
  <2>6. ReadyQueued(z)
    BY <1>5, <2>3, <2>5, SlotFacts DEF ReadyQueued, Cleared
  <2>7. QueuesAgree(Now)' /\ ReadyQueued(Now)'
    BY Zenon, <2>2, <2>4, <2>6 DEF Now
  <2>8. QED BY Zenon, <2>7 DEF RunQueuesOK
<1>9. /\ \A u \in Tasks : Live(u)' => Live(u) /\ u # v
      /\ \A w \in Slots : w # v => (Reaping(w) <=> Reaping(w)')
  <2>1. ~task'[v].used
    BY <1>5 DEF Cleared
  <2>2. QED BY Zenon, <1>5, <2>1, SlotFacts DEF Live, Reaping
<1>10. /\ \A u \in Tasks : Len(Frames(u)') = Len(Frames(u))
       /\ \A u \in Tasks : \A i \in 1 .. Len(Frames(u)) :
            u # t \/ i # 1 => Frames(u)'[i] = Frames(u)[i]
       /\ Frames(t)'[1].at = "reap"
  <2>1. /\ \A u \in Tasks : Len(Frames(u)') = Len(Frames(u))
        /\ \A u \in Tasks : \A i \in 1 .. Len(Frames(u)) :
             u # cur[c] \/ i # 1 => Frames(u)'[i] = Frames(u)[i]
        /\ Frames(cur[c])'[1].at = "reap"
    <3>1. "reap" \in At \ BaseAt /\ "reap" \notin SlotAt /\ Top(c).at \notin BaseAt /\ 0 \in Int
      BY <1>1 DEF At, BaseAt, SlotAt
    <3>2. Become(c, "reap", 0) /\ UNCHANGED <<cur, saved>>
      BY Zenon, <1>1
    <3>3. QED BY Zenon, <3>1, <3>2, TopOnly
  <2>2. cur' = cur
    BY Zenon, <1>1
  <2>3. QED BY Zenon, <1>0, <2>1, <2>2
<1>11. ReapersOK'
  <2>1. ASSUME NEW u \in Tasks, Live(u)', NEW i \in 1 .. Len(Frames(u)'), ReapFrame(u, i)'
        PROVE  /\ Live(u) /\ i \in 1 .. Len(Frames(u)) /\ ReapFrame(u, i)
               /\ Frames(u)'[i] = Frames(u)[i]
               /\ Frames(u)[i].arg \in Slots /\ Reaping(Frames(u)[i].arg)
               /\ Frames(u)[i].arg # v
    <3>1. Live(u) /\ i \in 1 .. Len(Frames(u)) /\ Frames(u)'[i].at \in ReapAt
      BY Zenon, <1>9, <1>10, <2>1 DEF ReapFrame
    <3>2. ~(u = t /\ i = 1)
      BY Zenon, <1>10, <3>1 DEF ReapAt
    <3>3. Frames(u)'[i] = Frames(u)[i]
      BY Zenon, <1>10, <3>1, <3>2
    <3>4. ReapFrame(u, i)
      BY Zenon, <3>1, <3>3 DEF ReapFrame
    <3>5. Frames(u)[i].arg \in Slots /\ Reaping(Frames(u)[i].arg)
      BY Zenon, <3>1, <3>4, ReapersNow DEF ReapFrame
    <3>6. Frames(u)[i].arg # v
      <4>1. Frames(t)[1].arg = v
        BY Zenon, <1>0, <1>3
      <4>2. Frames(u)[i].arg = Frames(t)[1].arg => u = t /\ i = 1
        BY Zenon, <1>2, <1>3, <1>4, <3>1, <3>4 DEF SafeInv, ReapersOK
      <4>3. QED BY Zenon, <3>2, <4>1, <4>2
    <3>7. QED BY SMTT(30), <3>1, <3>3, <3>4, <3>5, <3>6
  <2>2. ASSUME NEW u \in Tasks, Live(u)', NEW i \in 1 .. Len(Frames(u)'), ReapFrame(u, i)'
        PROVE  Reaping(Frames(u)[i].arg)'
    <3>1. PICK w : w = Frames(u)'[i].arg
      BY Zenon
    <3>2. Reaping(w)'
      BY Zenon, <1>9, <2>1, <2>2, <3>1
    <3>3. QED BY Zenon, <3>1, <3>2 DEF Reaping
  <2>3. ASSUME NEW u \in Tasks, NEW w \in Tasks, Live(u)', Live(w)',
               NEW i \in 1 .. Len(Frames(u)'), NEW j \in 1 .. Len(Frames(w)'),
               ReapFrame(u, i)', ReapFrame(w, j)', (Frames(u)[i].arg = Frames(w)[j].arg)'
        PROVE  u = w /\ i = j
    <3>1. Live(u) /\ i \in 1 .. Len(Frames(u)) /\ ReapFrame(u, i) /\ Frames(u)'[i] = Frames(u)[i]
      BY Zenon, <2>1, <2>3
    <3>2. Live(w) /\ j \in 1 .. Len(Frames(w)) /\ ReapFrame(w, j) /\ Frames(w)'[j] = Frames(w)[j]
      BY Zenon, <2>1, <2>3
    <3>3. Frames(u)[i].arg = Frames(w)[j].arg
      BY Zenon, <2>3, <3>1, <3>2
    <3>4. QED BY Zenon, <3>1, <3>2, <3>3 DEF SafeInv, ReapersOK
  <2>4. QED BY Zenon, <2>2, <2>3 DEF ReapersOK
<1>12. QED BY Zenon, <1>6, <1>7, <1>8, <1>11 DEF SafeInv

(***************************************************************************)
(* Creation.                                                               *)
(***************************************************************************)
LEMMA CreateSafe ==
  ASSUME TypeInv, SafeInv, OneCpuPerTask, NEW c \in Cpus, NEW q, Goto(c, q),
         Inherits(stack[c], q), UNCHANGED cur, NEW t \in FreeSlot, NewContext(t),
         \A u \in Tasks : u # t => /\ task'[u].id = task[u].id
                                   /\ task'[u].used = task[u].used
                                   /\ task'[u].state = task[u].state,
         task'[t].used, task'[t].id = next_task_id, task'[t].state # "REAPING", RunQueuesOK'
  PROVE  SafeInv'
<1>1. t \in Slots /\ t \in Tasks /\ ~task[t].used
  BY Zenon, CreatedTyped
<1>2. TableOK'
  BY <1>1, SlotFacts, ConstantsOK DEF SafeInv, TableOK, NewContext, TypeInv, IdsTyped
<1>3. \A d \in Cpus : cur[d] # t /\ cur[d] \in Tasks
  BY Zenon, <1>1, CurrentFacts
<1>4. ActiveStackAlive'
  BY Zenon, <1>3 DEF SafeInv, ActiveStackAlive
<1>5. /\ \A u \in Tasks : u # t => (Live(u)' <=> Live(u))
      /\ \A v \in Slots : Reaping(v) => Reaping(v)'
  BY Zenon, <1>1, SlotFacts DEF Live, Reaping
<1>6. Frames(t)' = Body /\ \A u \in Tasks : u # t => Inherits(Frames(u), Frames(u)')
  <2>1. saved' = [saved EXCEPT ![t] = Body] /\ saved \in [Tasks -> Seq(Frame)]
    BY Zenon DEF NewContext, TypeInv, SavedOK
  <2>2. stack' = [stack EXCEPT ![c] = q] /\ stack \in [Cpus -> Seq(Frame)]
    BY Zenon DEF Goto, TypeInv, StacksOK
  <2>3. \A u : Current(u)' <=> Current(u)
    BY Zenon DEF Current
  <2>4. \A u : Frames(u)' = IF Current(u) THEN stack'[CHOOSE d \in Cpus : cur[d] = u] ELSE saved'[u]
    BY <2>3 DEF Frames
  <2>5. \A d \in Cpus : (CHOOSE e \in Cpus : cur[e] = cur[d]) = d /\ Current(cur[d])
    BY Zenon DEF OneCpuPerTask, Current
  <2>6. ASSUME NEW u \in Tasks, u # t PROVE Inherits(Frames(u), Frames(u)')
    <3>1. CASE Current(u)
      <4>1. PICK d \in Cpus : cur[d] = u
        BY Zenon, <3>1 DEF Current
      <4>2. Frames(u)' = stack'[d] /\ Frames(u) = stack[d]
        BY SMTT(30), <2>4, <2>5, <4>1, FramesCurrent
      <4>3. stack'[d] = IF d = c THEN q ELSE stack[d]
        BY Zenon, <2>2
      <4>4. FramesOK(stack[d])
        BY Zenon, TopFacts
      <4>5. QED BY SMTT(30), <4>2, <4>3, <4>4, InheritsSame
    <3>2. CASE ~Current(u)
      <4>1. Frames(u)' = saved[u] /\ Frames(u) = saved[u]
        BY Zenon, <2>1, <2>4, <2>6, <3>2 DEF Frames
      <4>2. QED BY SMTT(30), <4>1, FramesTyped, InheritsSame
    <3>3. QED BY Zenon, <3>1, <3>2
  <2>7. ~Current(t)
    BY Zenon, <1>3 DEF Current
  <2>8. Frames(t)' = Body
    <3> HIDE DEF Body
    <3> QED BY Zenon, <1>1, <2>1, <2>4, <2>7
  <2>9. QED BY Zenon, <2>6, <2>8
<1>7. NoReapers(Body)
  <2>1. Len(Body) = 1 /\ Body[1].at = "body"
    BY Zenon DEF Body, F
  <2>2. QED BY <2>1 DEF NoReapers, ReapAt
<1>8. \A u \in Tasks : Live(u)' => \/ NoReapers(Frames(u)')
                                   \/ Live(u) /\ Inherits(Frames(u), Frames(u)')
  BY Zenon, <1>5, <1>6, <1>7
<1>9. \A u \in Tasks : Live(u)' => \A i \in 1 .. Len(Frames(u)') : \A v :
        Frames(u)'[i].at \in ReapAt /\ Frames(u)'[i].arg = v /\ Reaping(v) => Reaping(v)'
  <2> TAKE u \in Tasks
  <2> HAVE Live(u)'
  <2> TAKE i \in 1 .. Len(Frames(u)')
  <2> TAKE v
  <2> HAVE Frames(u)'[i].at \in ReapAt /\ Frames(u)'[i].arg = v /\ Reaping(v)
  <2>1. PICK j \in 1 .. Len(Frames(u)) : Victim(Frames(u)'[i], Frames(u)[j])
    <3>1. Copies(Frames(u), Frames(u)')
      BY SMTT(30), <1>8, SameFrame
    <3>2. QED BY Zenon, <3>1 DEF Copies
  <2>2. Frames(u)[j].at \in SlotAt
    BY Zenon, <2>1 DEF ReapAt, SlotAt, Victim
  <2>3. v \in Slots
    BY SMTT(30), <2>1, <2>2, FramesTyped DEF FramesOK, Victim
  <2>4. QED BY Zenon, <1>5, <2>3
<1>10. ReapersOK'
  BY Zenon, <1>8, <1>9, ReapersKept DEF SafeInv
<1>11. QED BY Zenon, <1>2, <1>4, <1>10 DEF SafeInv

\* A free slot gets the record of a new task.
LEMMA CreatedQueues ==
  ASSUME TypeInv, SafeInv, NEW t \in FreeSlot, NEW r \in TaskRec, ~r.on_rq,
         r.state \notin {"REAPING", "READY"}, r.used
  PROVE  LET s == [Now EXCEPT !.task[t] = r]
         IN /\ SchedTyped(s) /\ QueuesAgree(s) /\ ReadyQueued(s) /\ s.task[t] = r
            /\ \A u \in Tasks : u # t => s.task[u] = task[u]
<1> DEFINE s == [Now EXCEPT !.task[t] = r]
<1>1. t \in Slots /\ t \in Tasks /\ ~task[t].used /\ task \in [Tasks -> TaskRec] /\ Now.task = task
  BY ZenonT(60), CreatedTyped, TaskTyped DEF Now
<1>2. s.task = [task EXCEPT ![t] = r] /\ s.rq = rq /\ Now.rq = rq
  BY Zenon DEF Now
<1>3. s.task[t] = r /\ \A u \in Tasks : u # t => s.task[u] = task[u]
  BY Zenon, <1>1, <1>2
<1>4. SchedTyped(s)
  <2>1. [task EXCEPT ![t] = r] \in [Tasks -> TaskRec]
    BY Zenon, <1>1
  <2>2. \A d \in Cpus : s.task[d].id = d
    BY Zenon, <1>1, <1>3, TaskTyped, SlotFacts
  <2>3. QED BY Zenon, <1>2, <2>1, <2>2, TaskTyped DEF Now, SchedTyped, SchedState
<1> HIDE DEF s
<1>5. ~task[t].on_rq
  BY Zenon, <1>1, NowReady DEF QueuesAgree
<1>6. QueuesAgree(s)
  <2>1. \A u \in Tasks : s.task[u].on_rq <=> task[u].on_rq
    BY Zenon, <1>3, <1>5
  <2>2. \A u \in Tasks : task[u].on_rq => s.task[u] = task[u]
    BY SMTT(30), <1>3, <1>5
  <2>3. /\ \A d \in Cpus : \A i, j \in 1 .. Len(rq[d]) : rq[d][i] = rq[d][j] => i = j
        /\ \A d \in Cpus : \A i \in 1 .. Len(rq[d]) :
             task[rq[d][i]].on_rq /\ task[rq[d][i]].rq_cpu = d
        /\ \A u \in Slots : task[u].on_rq =>
             \E d \in Cpus : \E i \in 1 .. Len(rq[d]) : rq[d][i] = u
        /\ \A u \in Slots : ~task[u].used \/ task[u].state = "REAPING" => ~task[u].on_rq
    BY SMTT(30), NowReady DEF QueuesAgree, Now
  <2>4. \A d \in Cpus : \A i \in 1 .. Len(rq[d]) : rq[d][i] \in Tasks
    BY SMTT(30), NowReady, QueueEntries DEF Now
  <2>5. \A u \in Slots : ~s.task[u].used \/ s.task[u].state = "REAPING" => ~s.task[u].on_rq
    BY SMTT(30), <2>1, <2>2, <2>3, SlotFacts
  <2>6. \A d \in Cpus : \A i \in 1 .. Len(rq[d]) :
             s.task[rq[d][i]].on_rq /\ s.task[rq[d][i]].rq_cpu = d
    BY SMTT(30), <2>1, <2>2, <2>3, <2>4
  <2>7. \A u \in Slots : s.task[u].on_rq =>
             \E d \in Cpus : \E i \in 1 .. Len(rq[d]) : rq[d][i] = u
    BY Zenon, <2>1, <2>3, SlotFacts
  <2>8. QED BY SMTT(30), <1>2, <2>3, <2>5, <2>6, <2>7 DEF QueuesAgree
<1>7. ReadyQueued(s)
  <2>1. \A u \in Slots : task[u].state = "READY" => task[u].on_rq
    BY Zenon, <1>1, NowReady DEF ReadyQueued
  <2>2. QED BY Zenon, <1>3, <2>1, SlotFacts DEF ReadyQueued
<1>8. QED BY Zenon, <1>3, <1>4, <1>6, <1>7 DEF s

LEMMA TaskCreateSafe ==
  ASSUME TypeInv, SafeInv, OneCpuPerTask, NEW c \in Cpus, TaskCreate(c)
  PROVE  SafeInv'
<1> DEFINE s(t) == [Now EXCEPT !.task[t] = Created(t, FALSE)]
<1>1. PICK t \in FreeSlot :
        NewContext(t) /\ \E d \in LeastLoaded(s(t)) : SetSched(MakeReady(s(t), t, d))
  BY Zenon DEF TaskCreate
<1>2. UNCHANGED <<cur, stack>>
  BY Zenon DEF TaskCreate
<1>3. t \in Slots /\ t \in Tasks /\ ~task[t].used /\ Created(t, FALSE) \in TaskRec
  BY Zenon, CreatedTyped
<1> DEFINE r == Created(t, FALSE)
           y == [Now EXCEPT !.task[t] = r]
<1>4. r \in TaskRec /\ ~r.on_rq /\ r.used /\ r.state = "RUNNING" /\ r.id = next_task_id
  <2>1. task[t] \in TaskRec /\ task[t].state = "RUNNING"
    BY Zenon, <1>3, TaskTyped DEF SafeInv, TableOK
  <2>2. QED BY Zenon, <1>3, <2>1 DEF Created, TaskRec
<1>5. PICK d \in LeastLoaded(y) : SetSched(MakeReady(y, t, d))
  BY Zenon, <1>1
<1> HIDE DEF r
<1>6. /\ SchedTyped(y) /\ QueuesAgree(y) /\ ReadyQueued(y) /\ y.task[t] = r
      /\ \A u \in Tasks : u # t => y.task[u] = task[u]
  <2>1. r.state \notin {"REAPING", "READY"}
    BY Zenon, <1>4
  <2>2. QED BY SMTT(30), <1>4, <2>1, CreatedQueues
<1> HIDE DEF y
<1>7. d \in Cpus
  BY SMTT(30) DEF LeastLoaded
<1> DEFINE z == MakeReady(y, t, d)
<1>8. /\ QueuesAgree(z)
      /\ y.task[t].id >= NCpus => z.task[t].on_rq
      /\ \A u \in Tasks : /\ z.task[u].id = y.task[u].id
                          /\ z.task[u].used = y.task[u].used
                          /\ z.task[u].cpu = y.task[u].cpu
      /\ \A u \in Tasks : u # t => /\ z.task[u].on_rq = y.task[u].on_rq
                                   /\ z.task[u].state = y.task[u].state
      /\ z.task[t].state = IF y.task[t].id < NCpus THEN y.task[t].state ELSE "READY"
  <2>1. y.task[t].used /\ y.task[t].state # "REAPING"
    BY Zenon, <1>4, <1>6
  <2>2. QED BY SMTT(30), <1>3, <1>6, <1>7, <2>1, MakeReadyEffect
<1> HIDE DEF z
<1>9. SetSched(z)
  BY Zenon, <1>5 DEF z
<1>10. ReadyQueued(z)
  <2>1. y.task[t].id >= NCpus
    BY SMTT(30), <1>4, <1>6 DEF SafeInv, TableOK
  <2>2. QED BY SMTT(30), <1>6, <1>8, <2>1, SlotFacts DEF ReadyQueued
<1>11. RunQueuesOK' /\ task' = z.task
  BY SMTT(30), <1>8, <1>9, <1>10, SetSchedQueues DEF SetSched
<1>12. /\ task'[t].used /\ task'[t].id = next_task_id /\ task'[t].state # "REAPING"
       /\ \A u \in Tasks : u # t => /\ task'[u].id = task[u].id
                                    /\ task'[u].used = task[u].used
                                    /\ task'[u].state = task[u].state
  BY SMTT(30), <1>3, <1>4, <1>6, <1>8, <1>11
<1>13. Goto(c, stack[c]) /\ Inherits(stack[c], stack[c])
  BY Zenon, <1>2, TopFacts, InheritsSame DEF Goto, TypeInv, StacksOK
<1>14. QED BY Zenon, <1>1, <1>2, <1>11, <1>12, <1>13, CreateSafe

LEMMA CreateUserSafe ==
  ASSUME TypeInv, SafeInv, OneCpuPerTask, NEW c \in Cpus,
         NEW at \in {"register", "adopt", "wake", "parent"}, TaskCreateUser(c, at)
  PROVE  SafeInv'
<1>1. PICK t \in FreeSlot :
        /\ NewContext(t)
        /\ task' = [task EXCEPT ![t] = [Created(t, TRUE) EXCEPT !.state = "BLOCKED"]]
        /\ Call(c, at, t)
  BY Zenon DEF TaskCreateUser
<1> DEFINE r == [Created(t, TRUE) EXCEPT !.state = "BLOCKED"]
           s == [Now EXCEPT !.task[t] = r]
<1>2. t \in Slots /\ t \in Tasks /\ t \in Int /\ ~task[t].used /\ r \in TaskRec
  BY Zenon, CreatedTyped
<1>3. ~r.on_rq /\ r.used /\ r.state = "BLOCKED" /\ r.id = next_task_id
  <2>1. task[t] \in TaskRec
    BY Zenon, <1>2, TaskTyped
  <2>2. QED BY Zenon, <1>2, <2>1 DEF Created, TaskRec
<1>4. task' = [task EXCEPT ![t] = r] /\ UNCHANGED <<rq, need_resched, next_enqueue_cpu, cur>>
  BY Zenon, <1>1 DEF TaskCreateUser
<1> HIDE DEF r
<1>5. /\ SchedTyped(s) /\ QueuesAgree(s) /\ ReadyQueued(s) /\ s.task[t] = r
      /\ \A u \in Tasks : u # t => s.task[u] = task[u]
  <2>1. r.state \notin {"REAPING", "READY"}
    BY Zenon, <1>3
  <2>2. QED BY SMTT(30), <1>2, <1>3, <2>1, CreatedQueues
<1>6. SetSched(s)
  BY Zenon, <1>4 DEF SetSched, Now
<1> HIDE DEF s
<1>7. RunQueuesOK' /\ task' = s.task
  BY Zenon, <1>5, <1>6, SetSchedQueues DEF SetSched
<1>8. /\ task'[t].used /\ task'[t].id = next_task_id /\ task'[t].state # "REAPING"
      /\ \A u \in Tasks : u # t => /\ task'[u].id = task[u].id
                                   /\ task'[u].used = task[u].used
                                   /\ task'[u].state = task[u].state
  BY Zenon, <1>3, <1>5, <1>7
<1> DEFINE q == <<Enter(c, at, t)>> \o stack[c]
<1>9. Goto(c, q) /\ Inherits(stack[c], q)
  BY SMTT(30), <1>1, <1>2, InheritsCall DEF Call, At, BaseAt, SlotAt, ReapAt
<1> HIDE DEF q
<1>10. QED BY Zenon, <1>1, <1>4, <1>7, <1>8, <1>9, CreateSafe

(***************************************************************************)
(* The switch.                                                             *)
(***************************************************************************)
\* What schedule() does to the task table: p is the pick after the outgoing
\* task prev has been dealt with, z the state the next task starts from.
LEMMA SwitchEffect ==
  ASSUME TypeInv, SafeInv, NEW c \in Cpus, NEW p \in PickNext(Outgoing(Now, cur[c], c), c)
  PROVE  LET z == [p.s EXCEPT !.task[p.next] = [@ EXCEPT !.state = "RUNNING", !.cpu = c]]
         IN /\ QueuesAgree(z) /\ ReadyQueued(z) /\ Mild(task, z.task)
            /\ p.next \in Tasks /\ task[p.next].used /\ task[p.next].state # "REAPING"
<1> DEFINE prev == cur[c]
           y == Outgoing(Now, prev, c)
<1>1. prev \in Tasks /\ task[prev].used /\ task[prev].state # "REAPING" /\ Now.task = task
  BY Zenon, CurrentFacts DEF Now
<1>4. /\ SchedTyped(y) /\ QueuesAgree(y) /\ ReadyQueued(y)
      /\ \A u \in Tasks : y.task[u].id = task[u].id /\ y.task[u].used = task[u].used
      /\ \A u \in Tasks : u # prev => y.task[u].state = task[u].state
      /\ y.task[prev].state # "REAPING"
  BY Zenon, OutgoingNow
<1> HIDE DEF y
<1>6. p \in PickNext(y, c)
  BY SMTT(30) DEF y
<1>7. /\ SchedTyped(p.s) /\ QueuesAgree(p.s) /\ SameLife(y, p.s)
      /\ \/ p.next = c
         \/ /\ p.next \in Slots /\ y.task[p.next].state = "READY"
            /\ ~p.s.task[p.next].on_rq
      /\ \A u \in Slots : u # p.next /\ y.task[u].state = "READY" => p.s.task[u].on_rq
  BY SMTT(30), <1>4, <1>6, PickNextEffect
<1> DEFINE n == p.next
<1>8. n \in Tasks
  <2>1. Slots \subseteq Tasks /\ Cpus \subseteq Tasks
    BY Zenon, SlotFacts
  <2>2. n = c \/ n \in Slots
    BY Zenon, <1>7
  <2>3. QED BY Zenon, <2>1, <2>2
<1>9. \A u \in Tasks : /\ p.s.task[u].id = task[u].id
                       /\ (p.s.task[u].used <=> task[u].used)
                       /\ p.s.task[u].state = "REAPING" <=> task[u].state = "REAPING"
                       /\ ~task[u].used => p.s.task[u].state = task[u].state
  <2>1. \A u \in Tasks : /\ p.s.task[u].id = y.task[u].id /\ p.s.task[u].used = y.task[u].used
                         /\ p.s.task[u].state = y.task[u].state
    BY SMTT(30), <1>7 DEF SameLife
  <2> HIDE DEF prev
  <2>2. QED BY SMTT(30), <1>1, <1>4, <2>1
<1>10. task[n].used /\ task[n].state # "REAPING"
  <2>1. CASE n = c
    BY Zenon, <2>1 DEF SafeInv, TableOK
  <2>2. CASE n \in Slots /\ y.task[n].state = "READY"
    <3>1. CASE n = prev
      BY SMTT(30), <1>1, <3>1
    <3>2. CASE n # prev
      <4>1. task[n].state = "READY"
        BY SMTT(30), <1>1, <1>4, <1>8, <2>2, <3>2
      <4>2. QED BY SMTT(30), <2>2, <4>1 DEF SafeInv, TableOK
    <3>3. QED BY Zenon, <3>1, <3>2
  <2>3. QED BY SMTT(30), <1>7, <2>1, <2>2
<1> DEFINE r == [p.s.task[n] EXCEPT !.state = "RUNNING", !.cpu = c]
           z == [p.s EXCEPT !.task[n] = r]
<1>11. p.s.task[n] \in TaskRec
  BY SMTT(30), <1>7, <1>8, TypedTask
<1>12. r \in TaskRec
  BY Zenon, <1>11, SlotFacts DEF TaskRec, States
<1>13. /\ r.id = p.s.task[n].id /\ r.used = p.s.task[n].used /\ r.on_rq = p.s.task[n].on_rq
       /\ r.rq_cpu = p.s.task[n].rq_cpu /\ r.state = "RUNNING"
  BY Zenon, <1>11 DEF TaskRec
<1>14. z = [p.s EXCEPT !.task[p.next] = [@ EXCEPT !.state = "RUNNING", !.cpu = c]]
  BY Zenon
<1> HIDE DEF r, n
<1>15. /\ QueuesAgree(z) /\ z.task[n] = r
       /\ \A u \in Tasks : u # n => z.task[u] = p.s.task[u]
  <2>1. r.used \/ ~p.s.task[n].used
    BY Zenon, <1>13
  <2>2. r.state # "REAPING"
    BY SMTT(30), <1>13
  <2>3. QED BY SMTT(60), <1>7, <1>8, <1>12, <1>13, <2>1, <2>2, UpdateEffect
<1> HIDE DEF z
<1>16. ReadyQueued(z)
  <2>1. \A u \in Slots : p.s.task[u].state = y.task[u].state
    BY Zenon, <1>7, SlotFacts DEF SameLife
  <2>2. QED BY SMTT(30), <1>7, <1>13, <1>15, <2>1, SlotFacts DEF ReadyQueued, n
<1>17. Mild(task, z.task)
  <2>1. \A u \in Tasks : u # n =>
          /\ z.task[u].id = task[u].id /\ (z.task[u].used <=> task[u].used)
          /\ z.task[u].state = "REAPING" <=> task[u].state = "REAPING"
          /\ ~task[u].used => z.task[u].state = task[u].state
    BY SMTT(30), <1>9, <1>15
  <2>2. z.task[n].id = task[n].id /\ z.task[n].used /\ z.task[n].state # "REAPING"
    BY SMTT(30), <1>8, <1>9, <1>10, <1>13, <1>15
  <2>3. QED BY SMTT(30), <1>10, <2>1, <2>2 DEF Mild
<1>18. QED BY SMTT(30), <1>8, <1>10, <1>14, <1>15, <1>16, <1>17 DEF n

LEMMA SwitchSafe ==
  ASSUME TypeInv, SafeInv, OneCpuPerTask, OneCpuPerTask', NEW c \in Cpus, Switch(c)
  PROVE  SafeInv'
<1>1. PICK p \in PickNext(Outgoing(Now, cur[c], c), c) :
        /\ SetSched([p.s EXCEPT !.task[p.next] = [@ EXCEPT !.state = "RUNNING", !.cpu = c]])
        /\ cur' = [cur EXCEPT ![c] = p.next]
        /\ IF p.next = cur[c] THEN Return(c) /\ UNCHANGED saved
           ELSE /\ saved' = [saved EXCEPT ![cur[c]] = Below(c)]
                /\ Goto(c, saved[p.next])
  BY Zenon DEF Switch
<1>2. Top(c).at = "switch" /\ UNCHANGED next_task_id
  BY Zenon DEF Switch, In, idVars
<1>3. PICK n, prev, z : /\ n = p.next /\ prev = cur[c]
        /\ z = [p.s EXCEPT !.task[p.next] = [@ EXCEPT !.state = "RUNNING", !.cpu = c]]
  BY Zenon
<1>4. /\ QueuesAgree(z) /\ ReadyQueued(z) /\ Mild(task, z.task)
      /\ n \in Tasks /\ task[n].used /\ task[n].state # "REAPING"
  BY Zenon, <1>3, SwitchEffect
<1>5. SetSched(z)
  BY Zenon, <1>1, <1>3
<1>6. RunQueuesOK' /\ Mild(task, task')
  BY Zenon, <1>4, <1>5, SetSchedQueues DEF SetSched
<1>7. cur \in [Cpus -> Tasks] /\ cur' = [cur EXCEPT ![c] = n] /\ prev \in Tasks
  BY SMTT(30), <1>1, <1>3, TopFacts DEF TypeInv
<1>8. TableOK'
  BY SMTT(30), <1>2, <1>6, SlotFacts DEF SafeInv, TableOK, Mild
<1>9. ActiveStackAlive'
  BY SMTT(30), <1>4, <1>6, <1>7 DEF SafeInv, ActiveStackAlive, Mild
<1>10. \A t \in Tasks : (Live(t) <=> Live(t)') /\ (Reaping(t) <=> Reaping(t)')
  BY Zenon, <1>6 DEF Live, Reaping, Mild
<1>11. /\ cur'[c] = n /\ \A d \in Cpus : d # c => cur'[d] = cur[d]
       /\ \A d \in Cpus : d # c => cur[d] # n /\ cur[d] # prev
  <2>1. cur'[c] = n /\ \A d \in Cpus : d # c => cur'[d] = cur[d]
    BY Zenon, <1>7
  <2>2. \A d \in Cpus : cur'[d] = cur'[c] => d = c
    BY Zenon DEF OneCpuPerTask
  <2>3. \A d \in Cpus : cur[d] = cur[c] => d = c
    BY Zenon DEF OneCpuPerTask
  <2>4. QED BY Zenon, <1>3, <2>1, <2>2, <2>3
<1>12. stack \in [Cpus -> Seq(Frame)] /\ saved \in [Tasks -> Seq(Frame)]
  BY Zenon DEF TypeInv, StacksOK, SavedOK
<1>13. \A d \in Cpus : Frames(cur[d])' = stack'[d]
  <2>1. \A d, e \in Cpus : cur'[e] = cur'[d] => e = d
    BY Zenon DEF OneCpuPerTask
  <2>2. \A d \in Cpus : (CHOOSE e \in Cpus : cur'[e] = cur'[d]) = d
    BY Zenon, <2>1
  <2>3. QED BY Zenon, <2>2 DEF Frames, Current
<1>14. \A t \in Tasks : (\A d \in Cpus : cur'[d] # t) => Frames(t)' = saved'[t]
  BY Zenon DEF Frames, Current
<1>15. Inherits(stack[c], Below(c)) /\ Frames(prev) = stack[c]
  BY Zenon, <1>2, <1>3, InheritsReturn, FramesCurrent DEF BaseAt
<1>16. \A t \in Tasks : Inherits(Frames(t), Frames(t)')
  <2> TAKE t \in Tasks
  <2>1. CASE n = prev
    <3>1. stack' = [stack EXCEPT ![c] = Below(c)] /\ saved' = saved /\ cur' = cur
      BY Zenon, <1>1, <1>3, <1>7, <2>1 DEF Return, Goto
    <3>2. Goto(c, Below(c)) /\ UNCHANGED <<cur, saved>>
      BY Zenon, <3>1 DEF Goto
    <3>3. t = cur[c] => Frames(t)' = Below(c)
      BY Zenon, <3>2, FramesStep
    <3>4. t # cur[c] => Frames(t)' = Frames(t)
      BY Zenon, <3>2, FramesStep
    <3>5. QED BY SMTT(30), <1>3, <1>15, <3>3, <3>4, FramesTyped, InheritsSame
  <2>2. CASE n # prev
    <3>1. stack' = [stack EXCEPT ![c] = saved[n]] /\ saved' = [saved EXCEPT ![prev] = Below(c)]
      BY Zenon, <1>1, <1>3, <2>2 DEF Goto
    <3>2. CASE t = n
      <4>1. \A d \in Cpus : cur[d] # t
        BY SMTT(30), <1>3, <1>11, <2>2, <3>2
      <4>2. Frames(t) = saved[t]
        BY Zenon, <4>1, FramesSaved
      <4>3. Frames(t)' = stack'[c]
        BY Zenon, <1>11, <1>13, <3>2
      <4>4. Frames(t)' = Frames(t)
        BY SMTT(30), <1>12, <3>1, <3>2, <4>2, <4>3
      <4>5. QED BY Zenon, <4>4, FramesTyped, InheritsSame
    <3>3. CASE t = prev
      <4>1. \A d \in Cpus : cur'[d] # t
        BY SMTT(30), <1>11, <2>2, <3>3
      <4>2. Frames(t)' = Below(c)
        BY SMTT(30), <1>7, <1>12, <1>14, <3>1, <3>3, <4>1
      <4>3. QED BY SMTT(30), <1>15, <3>3, <4>2
    <3>4. CASE t # n /\ t # prev
      <4>1. CASE \E d \in Cpus : cur[d] = t
        <5>1. PICK d \in Cpus : cur[d] = t
          BY Zenon, <4>1
        <5>2. d # c /\ cur'[d] = t
          BY SMTT(30), <1>3, <1>11, <3>4, <5>1
        <5>3. Frames(t) = stack[d] /\ Frames(t)' = stack'[d] /\ stack'[d] = stack[d]
          BY SMTT(30), <1>12, <1>13, <3>1, <5>1, <5>2, FramesCurrent
        <5>4. QED BY Zenon, <5>3, FramesTyped, InheritsSame
      <4>2. CASE \A d \in Cpus : cur[d] # t
        <5>1. \A d \in Cpus : cur'[d] # t
          BY SMTT(30), <1>11, <3>4, <4>2
        <5>2. Frames(t)' = Frames(t)
          BY SMTT(30), <1>12, <1>14, <3>1, <3>4, <4>2, <5>1, FramesSaved
        <5>3. QED BY Zenon, <5>2, FramesTyped, InheritsSame
      <4>3. QED BY SMTT(30), <4>1, <4>2
    <3>5. QED BY Zenon, <3>2, <3>3, <3>4
  <2>3. QED BY Zenon, <2>1, <2>2
<1>17. \A t \in Tasks : Live(t)' => \A i \in 1 .. Len(Frames(t)') : \A v :
         Frames(t)'[i].at \in ReapAt /\ Frames(t)'[i].arg = v /\ Reaping(v) => Reaping(v)'
  <2> TAKE t \in Tasks
  <2> HAVE Live(t)'
  <2> TAKE i \in 1 .. Len(Frames(t)')
  <2> TAKE v
  <2> HAVE Frames(t)'[i].at \in ReapAt /\ Frames(t)'[i].arg = v /\ Reaping(v)
  <2>1. PICK j \in 1 .. Len(Frames(t)) : Victim(Frames(t)'[i], Frames(t)[j])
    <3>1. Copies(Frames(t), Frames(t)')
      BY SMTT(30), <1>16, SameFrame
    <3>2. QED BY Zenon, <3>1 DEF Copies
  <2>2. Frames(t)[j].at \in SlotAt
    BY Zenon, <2>1 DEF ReapAt, SlotAt, Victim
  <2>3. v \in Slots
    BY SMTT(30), <2>1, <2>2, FramesTyped DEF FramesOK, Victim
  <2>4. QED BY SMTT(30), <1>10, <2>3, SlotFacts
<1>18. ReapersOK'
  BY Zenon, <1>10, <1>16, <1>17, ReapersKept DEF SafeInv
<1>19. QED BY Zenon, <1>6, <1>8, <1>9, <1>18 DEF SafeInv

(***************************************************************************)
(* Safety.                                                                 *)
(***************************************************************************)
LEMMA SafeInvInit == Init => SafeInv
<1> SUFFICES ASSUME Init PROVE SafeInv
  BY Zenon
<1>1. task = [t \in Tasks |-> IF t \in Cpus THEN IdleTask(t) ELSE Cleared]
  BY Zenon DEF Init
<1>2. /\ \A t \in Cpus : task[t] = IdleTask(t) /\ t \in Tasks
      /\ \A t \in Slots : task[t] = Cleared
  BY Zenon, <1>1, SlotFacts
<1>3. /\ \A t \in Cpus : task[t].used /\ task[t].state = "RUNNING" /\ task[t].id = t
      /\ \A t \in Slots : /\ ~task[t].used /\ task[t].state = "RUNNING" /\ task[t].id = 0
                          /\ ~task[t].on_rq
  <2>1. \A t : IdleTask(t).used /\ IdleTask(t).state = "RUNNING" /\ IdleTask(t).id = t
    BY Zenon DEF IdleTask, Cleared
  <2>2. ~Cleared.used /\ Cleared.state = "RUNNING" /\ Cleared.id = 0 /\ ~Cleared.on_rq
    BY Zenon DEF Cleared
  <2>3. QED BY Zenon, <1>2, <2>1, <2>2
<1>4. TableOK
  <2>1. next_task_id = NCpus /\ NCpus \in Nat /\ 0 < NCpus
    BY ConstantsOK DEF Init
  <2>2. \A c \in Cpus : task[c].used /\ task[c].state # "REAPING"
    BY SMTT(30), <1>3
  <2>3. QED BY <1>3, <2>1, <2>2 DEF TableOK
<1>5. RunQueuesOK
  <2>1. \A c \in Cpus : rq[c] = <<>> /\ Len(rq[c]) = 0
    BY Zenon DEF Init
  <2>2. QED BY <1>3, <2>1 DEF RunQueuesOK, QueuesAgree, ReadyQueued, Now
<1>6. ActiveStackAlive
  BY Zenon, <1>3 DEF Init, ActiveStackAlive
<1>7. ReapersOK
  <2>1. NoReapers(Body)
    <3>1. Len(Body) = 1 /\ Body[1].at = "body"
      BY Zenon DEF Body, F
    <3>2. QED BY <3>1 DEF NoReapers, ReapAt
  <2>2. NoReapers(<<F("boot", 0, FALSE)>>)
    <3>1. Len(<<F("boot", 0, FALSE)>>) = 1 /\ <<F("boot", 0, FALSE)>>[1].at = "boot"
      BY Zenon DEF F
    <3> DEFINE b == <<F("boot", 0, FALSE)>>
    <3>2. Len(b) = 1 /\ b[1].at = "boot"
      BY Zenon, <3>1
    <3> HIDE DEF b
    <3>3. NoReapers(b)
      BY <3>2 DEF NoReapers, ReapAt
    <3>4. QED BY Zenon, <3>3 DEF b
  <2>3. /\ \A c \in Cpus : stack[c] \in {Body, <<F("boot", 0, FALSE)>>}
        /\ \A t \in Tasks : saved[t] = Body
    BY Zenon DEF Init
  <2>4. \A t \in Tasks : NoReapers(Frames(t))
    <3> HIDE DEF Body
    <3> QED BY Zenon, <2>1, <2>2, <2>3 DEF Frames, Current
  <2>5. QED BY Zenon, <2>4 DEF ReapersOK, ReapFrame, NoReapers
<1>8. QED BY Zenon, <1>4, <1>5, <1>6, <1>7 DEF SafeInv

LEMMA SafeInvStep ==
  TypeInv /\ SafeInv /\ OneCpuPerTask /\ OneCpuPerTask' /\ [Next]_vars => SafeInv'
<1> SUFFICES ASSUME TypeInv, SafeInv, OneCpuPerTask, OneCpuPerTask', [Next]_vars
             PROVE  SafeInv'
  BY Zenon
<1>1. CASE UNCHANGED vars
  BY Zenon, <1>1, StackSafe DEF vars, lockVars, idVars
<1>2. ASSUME NEW c \in Cpus, CpuStep(c) PROVE SafeInv'
  <2>1. CASE BootInit(c) \/ BootService(c) \/ ShellLoad(c) \/ Clone(c)
    BY SMTT(30), <2>1, CreateUserSafe DEF BootInit, BootService, ShellLoad, Clone
  <2>2. CASE ~(BootInit(c) \/ BootService(c) \/ ShellLoad(c) \/ Clone(c))
    BY SMTT(30), <1>2, <2>2, ControlSafe, RecordsSafe, WakeSafe, SleepSafe, ExitSafe, VictimSafe,
       ClearSafe, TaskCreateSafe, SwitchSafe DEF CpuStep
  <2>3. QED BY Zenon, <2>1, <2>2
<1>3. ASSUME NEW c \in Cpus, Irq(c) \/ Tick(c) PROVE SafeInv'
  BY Zenon, <1>3, ControlSafe
<1>4. QED BY Zenon, <1>1, <1>2, <1>3, TickSafe DEF Next

LEMMA SafeInvAlways == Spec /\ []OneCpuPerTask => []SafeInv
BY SafeInvInit, SafeInvStep, TypeInvAlways, PTL DEF Spec

\* Whatever the workload, the run queues agree with the task table for as long as
\* no task is on two CPUs: the one-CPU rule is all that schedule(), the reaper and
\* the wake paths need of each other.
THEOREM QueuesSafe == Spec /\ []OneCpuPerTask => []RunQueuesOK
<1>1. SafeInv => RunQueuesOK
  BY Zenon DEF SafeInv
<1>2. QED BY <1>1, SafeInvAlways, PTL

\* Likewise no CPU executes on the kernel stack of a task that sched_reap_dead()
\* is reaping or has freed.
THEOREM StacksSafe == Spec /\ []OneCpuPerTask => []ActiveStackAlive
<1>1. SafeInv => ActiveStackAlive
  BY Zenon DEF SafeInv
<1>2. QED BY <1>1, SafeInvAlways, PTL

(***************************************************************************)
(* The frames in which a task would block itself.                          *)
(***************************************************************************)
Quiet == /\ \A c \in Cpus : NoWait(stack[c])
         /\ \A t \in Tasks : NoWait(saved[t])

LEMMA NoWaitPush ==
  ASSUME NEW q, FramesOK(q), NoWait(q), NEW f \in Frame, f.at \notin BaseAt,
         f.at \in SlotAt => f.arg \in Slots, f.at \notin WaitAt
  PROVE  NoWait(<<f>> \o q)
<1> DEFINE z == <<f>> \o q
<1>1. Len(z) = Len(q) + 1 /\ z[1] = f /\ \A i \in 1 .. Len(q) : z[i + 1] = q[i]
  BY Zenon, PushOK
<1>2. Len(q) \in Nat
  BY Zenon, SeqFacts DEF FramesOK
<1> HIDE DEF z
<1>3. \A i \in 1 .. Len(z) : z[i].at \notin WaitAt
  <2> TAKE i \in 1 .. Len(z)
  <2>1. CASE i = 1
    BY Zenon, <1>1, <2>1
  <2>2. CASE i # 1
    <3>1. i - 1 \in 1 .. Len(q) /\ z[i] = q[i - 1]
      <4>1. i - 1 \in 1 .. Len(q) /\ (i - 1) + 1 = i
        BY <1>1, <1>2, <2>2
      <4>2. QED BY Zenon, <1>1, <4>1
    <3>2. QED BY Zenon, <3>1 DEF NoWait
  <2>3. QED BY Zenon, <2>1, <2>2
<1>4. QED BY Zenon, <1>3 DEF NoWait, z

LEMMA NoWaitPop ==
  ASSUME NEW q, FramesOK(q), NoWait(q), Head(q).at \notin BaseAt
  PROVE  NoWait(Tail(q))
<1>1. /\ Len(q) \in Nat /\ Len(Tail(q)) = Len(q) - 1
      /\ \A i \in 1 .. Len(q) - 1 : Tail(q)[i] = q[i + 1]
  BY Zenon, PopOK
<1>2. \A i \in 1 .. Len(q) - 1 : i + 1 \in 1 .. Len(q)
  BY <1>1
<1>3. QED BY Zenon, <1>1, <1>2 DEF NoWait

LEMMA NoWaitCall ==
  ASSUME TypeInv, Quiet, NEW c \in Cpus, NEW at \in At \ BaseAt, at \notin WaitAt,
         NEW arg \in Int, at \in SlotAt => arg \in Slots
  PROVE  NoWait(<<Enter(c, at, arg)>> \o stack[c])
<1>1. Enter(c, at, arg) \in Frame
  <2>1. (Top(c).masked \/ task[cur[c]].user) \in BOOLEAN
    BY Zenon, TopFacts, TaskTyped DEF Frame, TaskRec
  <2>2. QED BY Zenon, <2>1 DEF Enter, F, Frame
<1>2. Enter(c, at, arg).at = at /\ Enter(c, at, arg).arg = arg
  BY Zenon DEF Enter, F
<1>3. FramesOK(stack[c]) /\ NoWait(stack[c])
  BY Zenon, TopFacts DEF Quiet
<1>4. QED BY Zenon, <1>1, <1>2, <1>3, NoWaitPush

LEMMA NoWaitReturn ==
  ASSUME TypeInv, Quiet, NEW c \in Cpus, Top(c).at \notin BaseAt
  PROVE  NoWait(Below(c))
BY Zenon, TopFacts, NoWaitPop DEF Top, Below, Quiet

LEMMA NoWaitBecome ==
  ASSUME TypeInv, Quiet, NEW c \in Cpus, Top(c).at \notin BaseAt,
         NEW at \in At \ BaseAt, at \notin WaitAt, NEW arg \in Int, at \in SlotAt => arg \in Slots
  PROVE  NoWait(<<F(at, arg, Top(c).masked)>> \o Below(c))
<1> DEFINE f == F(at, arg, Top(c).masked)
<1>1. f \in Frame /\ f.at = at /\ f.arg = arg
  BY Zenon, TopFacts DEF F, Frame
<1>2. FramesOK(Below(c)) /\ NoWait(Below(c))
  BY Zenon, TopFacts, NoWaitReturn
<1> HIDE DEF f
<1>3. NoWait(<<f>> \o Below(c))
  BY Zenon, <1>1, <1>2, NoWaitPush
<1>4. QED BY Zenon, <1>3 DEF f

LEMMA GotoQuiet ==
  ASSUME TypeInv, Quiet, NEW c \in Cpus, NEW q, NoWait(q), Goto(c, q), UNCHANGED saved
  PROVE  Quiet'
<1>1. stack \in [Cpus -> Seq(Frame)] /\ stack' = [stack EXCEPT ![c] = q]
  BY Zenon DEF TypeInv, StacksOK, Goto
<1>2. \A d \in Cpus : stack'[d] = q \/ stack'[d] = stack[d]
  BY Zenon, <1>1
<1>3. \A d \in Cpus : NoWait(stack'[d])
  BY Zenon, <1>2 DEF Quiet
<1>4. QED BY Zenon, <1>3 DEF Quiet, NoWait

LEMMA BodyQuiet == NoWait(Body)
<1>1. Len(Body) = 1 /\ Body[1].at = "body"
  BY Zenon DEF Body, F
<1>2. QED BY <1>1 DEF NoWait, WaitAt

\* A new task starts in its body.
LEMMA ContextQuiet ==
  ASSUME TypeInv, Quiet, NEW t \in Tasks, NewContext(t), \A d \in Cpus : NoWait(stack'[d])
  PROVE  Quiet'
<1>1. saved \in [Tasks -> Seq(Frame)] /\ saved' = [saved EXCEPT ![t] = Body]
  BY Zenon DEF TypeInv, SavedOK, NewContext
<1>2. \A u \in Tasks : saved'[u] = Body \/ saved'[u] = saved[u]
  BY Zenon, <1>1
<1>3. \A u \in Tasks : NoWait(saved'[u])
  BY Zenon, <1>2, BodyQuiet DEF Quiet
<1>4. QED BY Zenon, <1>3 DEF Quiet, NoWait

LEMMA CallQuiet ==
  ASSUME TypeInv, Quiet, NEW c \in Cpus, NEW at \in At \ BaseAt, at \notin WaitAt,
         NEW arg \in Int, at \in SlotAt => arg \in Slots, Call(c, at, arg), UNCHANGED saved
  PROVE  Quiet'
BY Zenon, NoWaitCall, GotoQuiet DEF Call

LEMMA ReturnQuiet ==
  ASSUME TypeInv, Quiet, NEW c \in Cpus, Top(c).at \notin BaseAt, Return(c), UNCHANGED saved
  PROVE  Quiet'
BY Zenon, NoWaitReturn, GotoQuiet DEF Return

LEMMA BecomeQuiet ==
  ASSUME TypeInv, Quiet, NEW c \in Cpus, Top(c).at \notin BaseAt,
         NEW at \in At \ BaseAt, at \notin WaitAt, NEW arg \in Int, at \in SlotAt => arg \in Slots,
         Become(c, at, arg), UNCHANGED saved
  PROVE  Quiet'
BY Zenon, NoWaitBecome, GotoQuiet DEF Become

LEMMA PreemptQuiet ==
  ASSUME TypeInv, Quiet, NEW c \in Cpus, Preempt(c), UNCHANGED saved
  PROVE  Quiet'
<1> DEFINE f == F("reap", 0, TRUE)
<1>1. f \in Frame /\ f.at = "reap"
  BY DEF F, Frame, At
<1>2. FramesOK(stack[c]) /\ NoWait(stack[c])
  BY Zenon, TopFacts DEF Quiet
<1>3. Goto(c, <<f>> \o stack[c])
  BY Zenon DEF Preempt
<1> HIDE DEF f
<1>4. NoWait(<<f>> \o stack[c])
  BY Zenon, <1>1, <1>2, NoWaitPush DEF BaseAt, SlotAt, WaitAt
<1>5. QED BY Zenon, <1>3, <1>4, GotoQuiet

LEMMA CreateUserQuiet ==
  ASSUME TypeInv, Quiet, NEW c \in Cpus,
         NEW at \in {"register", "adopt", "wake", "parent"}, TaskCreateUser(c, at)
  PROVE  Quiet'
<1>1. PICK t \in FreeSlot : NewContext(t) /\ Call(c, at, t)
  BY Zenon DEF TaskCreateUser
<1>2. t \in Slots /\ t \in Tasks /\ t \in Int
  BY Zenon, CreatedTyped
<1> DEFINE q == <<Enter(c, at, t)>> \o stack[c]
<1>3. NoWait(q)
  BY Zenon, <1>2, NoWaitCall DEF At, BaseAt, WaitAt
<1>4. stack \in [Cpus -> Seq(Frame)] /\ stack' = [stack EXCEPT ![c] = q]
  BY Zenon, <1>1 DEF TypeInv, StacksOK, Goto, Call
<1> HIDE DEF q
<1>5. \A d \in Cpus : NoWait(stack'[d])
  BY Zenon, <1>3, <1>4 DEF Quiet
<1>6. QED BY Zenon, <1>1, <1>2, <1>5, ContextQuiet

LEMMA KernelQuiet ==
  ASSUME TypeInv, Quiet, Ops \cap {"sleep", "park", "wait4"} = {}, NEW c \in Cpus,
         CpuStep(c) \/ Irq(c) \/ Tick(c), ~Switch(c)
  PROVE  Quiet'
<1>1. Top(c).at \notin WaitAt
  <2>1. NoWait(stack[c]) /\ Top(c) = stack[c][1] /\ 1 \in 1 .. Len(stack[c])
    <3>1. FramesOK(stack[c])
      BY Zenon, TopFacts
    <3>2. stack[c] \in Seq(Frame) /\ stack[c] # <<>>
      BY Zenon, <3>1 DEF FramesOK
    <3>3. Len(stack[c]) \in Nat \ {0}
      BY Zenon, <3>2, NoSeq
    <3>4. QED BY <3>3, TopFacts DEF Quiet
  <2>2. QED BY Zenon, <2>1 DEF NoWait
<1>2. CASE Yield(c) \/ KillTask(c)
  <2>1. CASE Yield(c)
    BY <2>1, CallQuiet DEF Yield, At, BaseAt, SlotAt, WaitAt
  <2>2. CASE KillTask(c)
    <3>1. PICK t \in Slots : Call(c, "killsync", task[t].id)
      BY Zenon, <2>2 DEF KillTask
    <3>2. task[t].id \in Int /\ UNCHANGED saved
      BY <2>2, TaskTyped, SlotFacts DEF TaskRec, KillTask
    <3>3. QED BY Zenon, <3>1, <3>2, CallQuiet DEF At, BaseAt, SlotAt, WaitAt
  <2>3. QED BY Zenon, <1>2, <2>1, <2>2
<1>3. CASE ReapVictim(c)
  <2>1. PICK t \in Slots : Become(c, "cleanup", t)
    BY Zenon, <1>3 DEF ReapVictim
  <2>2. t \in Int /\ Top(c).at = "reap" /\ UNCHANGED saved
    BY <1>3, SlotFacts DEF ReapVictim, In, idVars
  <2>3. QED BY Zenon, <2>1, <2>2, BecomeQuiet DEF At, BaseAt, SlotAt, WaitAt
<1>4. CASE ReapDetach(c) \/ RegisterInit(c) \/ AdoptTask(c) \/ CloneParent(c)
  <2>1. /\ Top(c).at \in SlotAt /\ Top(c).at \notin BaseAt /\ UNCHANGED saved
        /\ Become(c, "clear", Top(c).arg) \/ Become(c, "wake", Top(c).arg)
    BY Zenon, <1>4 DEF ReapDetach, RegisterInit, AdoptTask, CloneParent, In, SlotAt, BaseAt
  <2>2. Top(c).arg \in Slots /\ Top(c).arg \in Int
    BY Zenon, <2>1, TopFacts
  <2>3. QED BY Zenon, <2>1, <2>2, BecomeQuiet DEF At, BaseAt, SlotAt, WaitAt
<1>5. CASE ReapClear(c) \/ ReapDone(c)
  <2>1. /\ Top(c).at \notin BaseAt /\ UNCHANGED saved
        /\ Become(c, "reap", 0) \/ Become(c, "switch", 0)
    BY Zenon, <1>5 DEF ReapClear, ReapDone, In, BaseAt
  <2>2. QED BY <2>1, BecomeQuiet DEF At, BaseAt, SlotAt, WaitAt
<1>6. CASE BootInit(c) \/ BootService(c) \/ ShellLoad(c) \/ Clone(c)
  BY Zenon, <1>6, CreateUserQuiet DEF BootInit, BootService, ShellLoad, Clone
<1>7. CASE BootDone(c)
  BY Zenon, <1>7, BodyQuiet, GotoQuiet DEF BootDone
<1>8. CASE TaskCreate(c)
  <2>1. PICK t \in FreeSlot : NewContext(t)
    BY <1>8, Zenon DEF TaskCreate
  <2>2. t \in Tasks
    BY Zenon, CreatedTyped
  <2>3. \A d \in Cpus : NoWait(stack'[d])
    BY Zenon, <1>8 DEF TaskCreate, Quiet
  <2>4. QED BY Zenon, <2>1, <2>2, <2>3, ContextQuiet
<1>9. CASE WakeTask(c) \/ ParkReturn(c) \/ UnparkTask(c)
  <2>1. Top(c).at \notin BaseAt /\ UNCHANGED saved /\ Return(c)
    BY Zenon, <1>9 DEF WakeTask, ParkReturn, UnparkTask, In, BaseAt
  <2>2. QED BY Zenon, <2>1, ReturnQuiet
<1>10. CASE TaskExit(c)
  <2> DEFINE q == <<Enter(c, "reap", 0), Enter(c, "exited", 0)>>
  <2>1. Len(q) = 2 /\ q[1].at = "reap" /\ q[2].at = "exited"
    BY SMTT(30) DEF Enter, F
  <2>2. Goto(c, q) /\ UNCHANGED saved
    BY Zenon, <1>10 DEF TaskExit
  <2> HIDE DEF q
  <2>3. NoWait(q)
    BY <2>1 DEF NoWait, WaitAt
  <2>4. QED BY Zenon, <2>2, <2>3, GotoQuiet
<1>11. CASE KillSyncPoll(c)
  <2>1. Top(c).at \notin BaseAt /\ UNCHANGED saved /\ (Return(c) \/ Call(c, "reap", 0))
    BY Zenon, <1>11 DEF KillSyncPoll, In, BaseAt
  <2>2. QED BY <2>1, ReturnQuiet, CallQuiet DEF At, BaseAt, SlotAt, WaitAt
<1>12. CASE Irq(c) \/ Tick(c)
  <2>1. UNCHANGED saved /\ (Preempt(c) \/ UNCHANGED stack)
    BY Zenon, <1>12 DEF Irq, Tick
  <2>2. CASE UNCHANGED stack
    BY SMTT(30), <2>1, <2>2 DEF Quiet
  <2>3. QED BY Zenon, <2>1, <2>2, PreemptQuiet
<1>13. ~Publish(c) /\ ~Dequeue(c) /\ ~SleepCurrent(c) /\ ~Wait4(c)
  BY Zenon DEF Publish, Dequeue, SleepCurrent, Wait4
<1>14. ~ParkTask(c) /\ ~Wait4Scan(c)
  BY Zenon, <1>1 DEF ParkTask, Wait4Scan, In, WaitAt
<1>15. QED BY SMTT(30), <1>2, <1>3, <1>4, <1>5, <1>6, <1>7, <1>8, <1>9, <1>10, <1>11, <1>12, <1>13, <1>14
              DEF CpuStep

(***************************************************************************)
(* The CPU of a task.                                                      *)
(***************************************************************************)
Waits(o) == o.state \in {"READY", "BLOCKED"}

\* A task keeps its CPU, a new one has none, and on several CPUs none starts to
\* wait while it holds one.
Stays(o, r) ==
  r.used => /\ r.cpu = IF o.used THEN o.cpu ELSE NoCpu
            /\ Waits(r) => NCpus = 1 \/ r.cpu = NoCpu \/ Waits(o)

LEMMA StaysSame == ASSUME NEW o, o.used \in BOOLEAN PROVE o.used => Stays(o, o)
BY Zenon DEF Stays

\* The table after a step that switches no CPU.
LEMMA StaysStep ==
  ASSUME TypeInv, SafeInv, CpuInv, UNCHANGED cur, NCpus = 1 \/ Quiet',
         \A u \in Slots : Stays(task[u], task'[u])
  PROVE  CpuInv'
<1>1. /\ OneCpuPerTask
      /\ \A c \in Cpus : cur[c] \in Cpus => cur[c] = c
      /\ NCpus = 1 \/ \A t \in Slots : OffCpu(t)
  BY Zenon DEF CpuInv
<1>2. \A c \in Cpus, t \in Slots : task'[t].used => (cur[c] = t <=> task'[t].cpu = c)
  <2> TAKE c \in Cpus
  <2> TAKE t \in Slots
  <2> HAVE task'[t].used
  <2>1. CASE task[t].used
    BY <1>1, <2>1 DEF OneCpuPerTask, Stays
  <2>2. CASE ~task[t].used
    <3>1. cur[c] # t
      BY Zenon, <2>2 DEF SafeInv, ActiveStackAlive
    <3>2. task'[t].cpu = NoCpu
      BY Zenon, <2>2 DEF Stays
    <3>3. QED BY Zenon, <3>1, <3>2, SlotFacts
  <2>3. QED BY Zenon, <2>1, <2>2
<1>3. OneCpuPerTask'
  BY Zenon, <1>1, <1>2 DEF OneCpuPerTask
<1>4. NCpus # 1 => \A t \in Slots : OffCpu(t)'
  <2> SUFFICES ASSUME NCpus # 1, NEW t \in Slots, task'[t].used, Waits(task'[t])
               PROVE  task'[t].cpu = NoCpu
    BY Zenon DEF OffCpu, Waits
  <2>1. CASE task[t].used
    <3>1. Waits(task[t]) => task[t].cpu = NoCpu
      BY Zenon, <1>1, <2>1 DEF OffCpu, Waits
    <3>2. Stays(task[t], task'[t])
      BY Zenon
    <3>3. QED BY Zenon, <2>1, <3>1, <3>2 DEF Stays
  <2>2. CASE ~task[t].used
    BY Zenon, <2>2 DEF Stays
  <2>3. QED BY Zenon, <2>1, <2>2
<1>5. NCpus = 1 \/ Quiet'
  BY Zenon
<1>6. QED BY Zenon, <1>1, <1>3, <1>4, <1>5 DEF CpuInv, Quiet

\* One record changes.
LEMMA StaysRecord ==
  ASSUME TypeInv, NEW t \in Tasks, NEW r, task' = [task EXCEPT ![t] = r], Stays(task[t], r)
  PROVE  \A u \in Slots : Stays(task[u], task'[u])
<1>1. task \in [Tasks -> TaskRec]
  BY Zenon, TaskTyped
<1>2. \A u \in Tasks : u # t => task'[u] = task[u]
  BY Zenon, <1>1
<1>3. task'[t] = r
  BY Zenon, <1>1
<1>4. \A u \in Tasks : Stays(task[u], task[u])
  BY Zenon, <1>1 DEF Stays, TaskRec
<1>5. QED BY Zenon, <1>2, <1>3, <1>4, SlotFacts

\* What the queue helpers leave alone.
SameCpus(s, z) ==
  \A u \in Tasks : z.task[u].used = s.task[u].used /\ z.task[u].cpu = s.task[u].cpu

LEMMA RemoveCpus ==
  ASSUME NEW s, SchedTyped(s), NEW t \in Tasks, NEW st \in States
  PROVE  LET z == [RqRemove(s, t) EXCEPT !.task[t].state = st]
         IN /\ SameCpus(s, z) /\ z.task[t].state = st
            /\ \A u \in Tasks : u # t => z.task[u].state = s.task[u].state
<1> DEFINE y == RqRemove(s, t)
           off == [s.task[t] EXCEPT !.on_rq = FALSE]
           z == [y EXCEPT !.task[t].state = st]
<1>1. s.task \in [Tasks -> TaskRec]
  BY Zenon, StateFields DEF SchedTyped
<1>2. s.task[t] \in TaskRec
  BY Zenon, <1>1
<1>3. off.used = s.task[t].used /\ off.cpu = s.task[t].cpu
  BY Zenon, <1>2 DEF TaskRec
<1>4. y.task = s.task \/ y.task = [s.task EXCEPT ![t] = off]
  BY Zenon, <1>1 DEF RqRemove, SchedTyped, SchedState
<1>5. SchedTyped(y)
  BY Zenon, RqRemoveTyped
<1> HIDE DEF y, off
<1>6. /\ y.task[t].used = s.task[t].used /\ y.task[t].cpu = s.task[t].cpu
      /\ \A u \in Tasks : u # t => y.task[u] = s.task[u]
  BY Zenon, <1>1, <1>3, <1>4
<1>7. y.task \in [Tasks -> TaskRec]
  BY Zenon, <1>5, StateFields DEF SchedTyped
<1> DEFINE r == [y.task[t] EXCEPT !.state = st]
<1>8. z.task = [y.task EXCEPT ![t] = r]
  BY Zenon, <1>5 DEF SchedTyped, SchedState
<1>9. y.task[t] \in TaskRec
  BY Zenon, <1>7
<1>10. r.used = y.task[t].used /\ r.cpu = y.task[t].cpu /\ r.state = st
  BY Zenon, <1>9 DEF TaskRec
<1> HIDE DEF z, r
<1>11. z.task[t] = r /\ \A u \in Tasks : u # t => z.task[u] = y.task[u]
  BY Zenon, <1>7, <1>8
<1>12. SameCpus(s, z) /\ z.task[t].state = st
  BY Zenon, <1>6, <1>10, <1>11 DEF SameCpus
<1>13. QED BY Zenon, <1>6, <1>11, <1>12 DEF z, y

LEMMA MakeReadyCpus ==
  ASSUME NEW s, SchedTyped(s), NEW t \in Tasks, NEW d \in Cpus
  PROVE  LET z == MakeReady(s, t, d)
         IN /\ SameCpus(s, z)
            /\ \A u \in Tasks : u # t => z.task[u].state = s.task[u].state
<1> DEFINE a == [s.task[t] EXCEPT !.state = "READY"]
           b == [a EXCEPT !.rq_cpu = d, !.on_rq = TRUE]
           z == MakeReady(s, t, d)
<1>1. s.task \in [Tasks -> TaskRec]
  BY Zenon, StateFields DEF SchedTyped
<1>2. s.task[t] \in TaskRec
  BY Zenon, <1>1
<1>3. a.used = s.task[t].used /\ a.cpu = s.task[t].cpu /\ a \in TaskRec
  BY Zenon, <1>2 DEF TaskRec, States
<1>4. b.used = a.used /\ b.cpu = a.cpu
  BY Zenon, <1>3 DEF TaskRec
<1>5. z.task = s.task \/ z.task = [s.task EXCEPT ![t] = a] \/ z.task = [s.task EXCEPT ![t] = b]
  <2> DEFINE s1 == [s EXCEPT !.task[t].state = "READY"]
             s2 == RqEnqueue(s1, t, d)
  <2>1. SchedTyped(s1) /\ s1.task = [s.task EXCEPT ![t] = a]
    <3>1. "READY" \in States
      BY Zenon DEF States
    <3>2. SchedTyped(s1)
      BY Zenon, <3>1, ReadyTyped
    <3>3. s1.task = [s.task EXCEPT ![t] = a]
      BY Zenon DEF SchedTyped, SchedState
    <3>4. QED BY Zenon, <3>2, <3>3
  <2>2. s1.task[t] = a
    BY Zenon, <1>1, <2>1
  <2> HIDE DEF s1, a
  <2>3. s2.task = s1.task \/ s2.task = [s1.task EXCEPT ![t] = b]
    BY Zenon, <2>1, <2>2 DEF RqEnqueue, SchedTyped, SchedState
  <2>4. SchedTyped(s2)
    BY Zenon, <2>1, RqEnqueueTyped
  <2>5. z = s \/ z = [s2 EXCEPT !.need[d] = TRUE, !.nxt = IF d + 1 = NCpus THEN 0 ELSE d + 1]
    BY Zenon DEF MakeReady, s1
  <2> HIDE DEF s2, z, b
  <2>6. z.task = s.task \/ z.task = s2.task
    BY Zenon, <2>4, <2>5 DEF SchedTyped, SchedState
  <2>7. [s1.task EXCEPT ![t] = b] = [s.task EXCEPT ![t] = b]
    BY Zenon, <1>1, <2>1
  <2>8. QED BY Zenon, <2>1, <2>3, <2>6, <2>7
<1> HIDE DEF a, b, z
<1>6. \A u \in Tasks : u # t => z.task[u] = s.task[u]
  BY Zenon, <1>1, <1>5
<1>7. z.task[t].used = s.task[t].used /\ z.task[t].cpu = s.task[t].cpu
  BY SMTT(30), <1>1, <1>3, <1>4, <1>5
<1>8. SameCpus(s, z) /\ \A u \in Tasks : u # t => z.task[u].state = s.task[u].state
  BY Zenon, <1>6, <1>7 DEF SameCpus
<1>9. QED BY Zenon, <1>8 DEF z

\* A task that waits already, or has no CPU, is made ready.
LEMMA StaysReady ==
  ASSUME TypeInv, NEW s, SchedTyped(s), \A u \in Slots : Stays(task[u], s.task[u]),
         NEW t \in Tasks, NEW d \in Cpus, SetSched(MakeReady(s, t, d)),
         NCpus = 1 \/ s.task[t].cpu = NoCpu \/ Waits(task[t])
  PROVE  \A u \in Slots : Stays(task[u], task'[u])
<1> DEFINE z == MakeReady(s, t, d)
<1>1. SameCpus(s, z) /\ \A u \in Tasks : u # t => z.task[u].state = s.task[u].state
  BY Zenon, MakeReadyCpus
<1>2. task' = z.task
  BY Zenon DEF SetSched
<1> HIDE DEF z
<1>3. QED BY Zenon, <1>1, <1>2, SlotFacts DEF SameCpus, Stays, Waits

LEMMA StaysAll ==
  ASSUME TypeInv
  PROVE  \A u \in Slots : Stays(task[u], task[u])
BY Zenon, TaskTyped, SlotFacts DEF Stays, TaskRec

LEMMA NowStays ==
  ASSUME TypeInv
  PROVE  SchedTyped(Now) /\ Now.task = task /\ \A u \in Slots : Stays(task[u], Now.task[u])
BY Zenon, StaysAll DEF TypeInv, Now

\* The state in which one record has changed.
LEMMA OneStays ==
  ASSUME TypeInv, NEW t \in Tasks, NEW r \in TaskRec, r.id = task[t].id, Stays(task[t], r)
  PROVE  LET s == [Now EXCEPT !.task[t] = r]
         IN /\ SchedTyped(s) /\ s.task[t] = r /\ s.task = [task EXCEPT ![t] = r]
            /\ \A u \in Slots : Stays(task[u], s.task[u])
<1> DEFINE s == [Now EXCEPT !.task[t] = r]
<1>1. SchedTyped(Now) /\ Now.task = task /\ task \in [Tasks -> TaskRec]
  BY Zenon, TaskTyped, NowStays
<1>2. SchedTyped(s)
  BY Zenon, <1>1, UpdateTyped
<1>3. s.task = [task EXCEPT ![t] = r]
  BY Zenon DEF Now
<1> HIDE DEF s
<1>4. s.task[t] = r /\ \A u \in Tasks : u # t => s.task[u] = task[u]
  BY Zenon, <1>1, <1>3
<1>5. \A u \in Slots : Stays(task[u], s.task[u])
  BY Zenon, <1>4, StaysAll, SlotFacts
<1>6. QED BY Zenon, <1>2, <1>3, <1>4, <1>5 DEF s

LEMMA ParentStays ==
  ASSUME TypeInv, NEW c \in Cpus, RegisterInit(c) \/ AdoptTask(c) \/ CloneParent(c)
  PROVE  \A u \in Slots : Stays(task[u], task'[u])
<1> DEFINE t == Top(c).arg
<1>1. /\ Top(c).at \in SlotAt
      /\ \E p : task' = [task EXCEPT ![t].parent = p]
  <2>1. CASE RegisterInit(c)
    BY Zenon, <2>1 DEF RegisterInit, In, SlotAt
  <2>2. CASE AdoptTask(c)
    BY Zenon, <2>2 DEF AdoptTask, In, SlotAt
  <2>3. CASE CloneParent(c)
    BY Zenon, <2>3 DEF CloneParent, In, SlotAt
  <2>4. QED BY Zenon, <2>1, <2>2, <2>3
<1>2. t \in Tasks /\ task[t] \in TaskRec
  BY Zenon, <1>1, TopFacts, TaskTyped
<1>3. PICK p : task' = [task EXCEPT ![t].parent = p]
  BY Zenon, <1>1
<1> DEFINE r == [task[t] EXCEPT !.parent = p]
<1>4. task' = [task EXCEPT ![t] = r]
  BY Zenon, <1>3
<1>5. Stays(task[t], r)
  BY Zenon, <1>2 DEF TaskRec, Stays, Waits
<1> HIDE DEF r, t
<1>6. QED BY Zenon, <1>2, <1>4, <1>5, StaysRecord

\* The records that sched_park_task(), sched_wait4() and sched_kill_task() change.
LEMMA RecordStays ==
  ASSUME TypeInv, CpuInv, NEW c \in Cpus, NCpus = 1 \/ Top(c).at \notin WaitAt,
         ParkTask(c) \/ Wait4Scan(c) \/ KillTask(c)
  PROVE  \A u \in Slots : Stays(task[u], task'[u])
<1>1. task \in [Tasks -> TaskRec] /\ cur[c] \in Tasks
  BY Zenon, TaskTyped, TopFacts
<1>2. CASE ParkTask(c) \/ Wait4Scan(c)
  <2>1. NCpus = 1
    BY Zenon, <1>2 DEF ParkTask, Wait4Scan, In, WaitAt
  <2>2. \/ UNCHANGED task
        \/ \E t \in Tasks : \/ task' = [task EXCEPT ![t].wake = FALSE]
                            \/ task' = [task EXCEPT ![t].state = "BLOCKED"]
                            \/ task' = [task EXCEPT ![t].state = "DEAD"]
    <3>1. CASE ParkTask(c)
      BY SMTT(30), <1>1, <3>1 DEF ParkTask
    <3>2. CASE Wait4Scan(c)
      BY Zenon, <1>1, <3>2 DEF Wait4Scan, Children
    <3>3. QED BY Zenon, <1>2, <3>1, <3>2
  <2>3. CASE UNCHANGED task
    BY Zenon, <2>3, StaysAll
  <2>4. ASSUME NEW t \in Tasks, NEW r, task' = [task EXCEPT ![t] = r],
               r.used = task[t].used, r.cpu = task[t].cpu
        PROVE  \A u \in Slots : Stays(task[u], task'[u])
    <3>1. Stays(task[t], r)
      BY Zenon, <1>1, <2>1, <2>4 DEF Stays, TaskRec
    <3>2. QED BY Zenon, <2>4, <3>1, StaysRecord
  <2>5. CASE ~UNCHANGED task
    <3>1. PICK t \in Tasks : \/ task' = [task EXCEPT ![t].wake = FALSE]
                             \/ task' = [task EXCEPT ![t].state = "BLOCKED"]
                             \/ task' = [task EXCEPT ![t].state = "DEAD"]
      BY Zenon, <2>2, <2>5
    <3>2. task[t] \in TaskRec
      BY Zenon, <1>1
    <3>3. \E r : task' = [task EXCEPT ![t] = r] /\ r.used = task[t].used /\ r.cpu = task[t].cpu
      <4>1. CASE task' = [task EXCEPT ![t].wake = FALSE]
        <5> WITNESS [task[t] EXCEPT !.wake = FALSE]
        <5> QED BY Zenon, <3>2, <4>1 DEF TaskRec
      <4>2. CASE task' = [task EXCEPT ![t].state = "BLOCKED"]
        <5> WITNESS [task[t] EXCEPT !.state = "BLOCKED"]
        <5> QED BY Zenon, <3>2, <4>2 DEF TaskRec
      <4>3. CASE task' = [task EXCEPT ![t].state = "DEAD"]
        <5> WITNESS [task[t] EXCEPT !.state = "DEAD"]
        <5> QED BY Zenon, <3>2, <4>3 DEF TaskRec
      <4>4. QED BY Zenon, <3>1, <4>1, <4>2, <4>3
    <3>4. QED BY Zenon, <2>4, <3>3
  <2>6. QED BY SMTT(30), <2>3, <2>5
<1>3. CASE KillTask(c)
  <2>1. PICK t \in Slots : Killable(c, t) /\ task' = [task EXCEPT ![t] = Killed(t)]
    BY Zenon, <1>3 DEF KillTask
  <2>2. t \in Tasks /\ task[t] \in TaskRec
    BY Zenon, <1>1, SlotFacts
  <2>3. Stays(task[t], Killed(t))
    BY Zenon, <2>1, <2>2 DEF Killable, Killed, Stays, Waits, TaskRec
  <2>4. QED BY Zenon, <2>1, <2>2, <2>3, StaysRecord
<1>4. QED BY Zenon, <1>2, <1>3

LEMMA ReapStays ==
  ASSUME TypeInv, NEW c \in Cpus, ReapVictim(c) \/ ReapClear(c)
  PROVE  \A u \in Slots : Stays(task[u], task'[u])
<1>1. CASE ReapVictim(c)
  <2>1. PICK t \in Slots : /\ Reapable(t)
                           /\ SetSched([RqRemove(Now, t) EXCEPT !.task[t].state = "REAPING"])
    BY Zenon, <1>1 DEF ReapVictim
  <2> DEFINE z == [RqRemove(Now, t) EXCEPT !.task[t].state = "REAPING"]
  <2>2. t \in Tasks /\ "REAPING" \in States
    BY Zenon, SlotFacts DEF States
  <2>3. /\ SameCpus(Now, z) /\ z.task[t].state = "REAPING"
        /\ \A u \in Tasks : u # t => z.task[u].state = Now.task[u].state
    BY Zenon, <2>2, NowStays, RemoveCpus
  <2>4. task' = z.task /\ Now.task = task
    BY Zenon, <2>1, NowStays DEF SetSched
  <2> HIDE DEF z
  <2>5. \A u \in Tasks : task[u].used \in BOOLEAN
    BY Zenon, TaskTyped DEF TaskRec
  <2>6. QED BY Zenon, <2>3, <2>4, <2>5, SlotFacts DEF SameCpus, Stays, Waits
<1>2. CASE ReapClear(c)
  <2>1. Top(c).arg \in Tasks /\ task' = [task EXCEPT ![Top(c).arg] = Cleared]
    BY Zenon, <1>2, TopFacts DEF ReapClear, In, SlotAt
  <2>2. ~Cleared.used
    BY Zenon DEF Cleared
  <2>3. Stays(task[Top(c).arg], Cleared)
    BY Zenon, <2>2 DEF Stays
  <2>4. QED BY Zenon, <2>1, <2>3, StaysRecord
<1>3. QED BY Zenon, <1>1, <1>2

LEMMA WakeStays ==
  ASSUME TypeInv, NEW c \in Cpus, WakeTask(c) \/ UnparkTask(c)
  PROVE  \A u \in Slots : Stays(task[u], task'[u])
<1> DEFINE t == Top(c).arg
<1>1. Top(c).at \in SlotAt
  BY Zenon DEF WakeTask, UnparkTask, In, SlotAt
<1>2. t \in Tasks /\ task[t] \in TaskRec /\ task \in [Tasks -> TaskRec]
  BY Zenon, <1>1, TopFacts, TaskTyped
<1>3. \/ UNCHANGED lockVars
      \/ task[t].state = "BLOCKED" /\ \E d \in LeastLoaded(Now) : SetSched(MakeReady(Now, t, d))
      \/ SetSched([Now EXCEPT !.task[t].wake = TRUE])
  BY Zenon DEF WakeTask, UnparkTask
<1>4. CASE UNCHANGED lockVars
  BY Zenon, <1>4, StaysAll DEF lockVars
<1>5. CASE task[t].state = "BLOCKED" /\ \E d \in LeastLoaded(Now) : SetSched(MakeReady(Now, t, d))
  <2>1. PICK d \in LeastLoaded(Now) : SetSched(MakeReady(Now, t, d))
    BY Zenon, <1>5
  <2>2. d \in Cpus
    BY Zenon DEF LeastLoaded
  <2>3. Waits(task[t])
    BY Zenon, <1>5 DEF Waits
  <2> HIDE DEF t
  <2>4. QED BY Zenon, <1>2, <2>1, <2>2, <2>3, NowStays, StaysReady
<1>6. CASE SetSched([Now EXCEPT !.task[t].wake = TRUE])
  <2> DEFINE r == [task[t] EXCEPT !.wake = TRUE]
  <2>1. task' = [task EXCEPT ![t] = r]
    BY Zenon, <1>2, <1>6 DEF SetSched, Now
  <2>2. Stays(task[t], r)
    BY Zenon, <1>2 DEF TaskRec, Stays, Waits
  <2> HIDE DEF r, t
  <2>3. QED BY Zenon, <1>2, <2>1, <2>2, StaysRecord
<1>7. QED BY Zenon, <1>3, <1>4, <1>5, <1>6

LEMMA TickStays ==
  ASSUME TypeInv, TickSlot
  PROVE  \A u \in Slots : Stays(task[u], task'[u])
<1>1. PICK t \in Sleepers(tickat) :
        LET s == [Now EXCEPT !.task[t].sleep = @ - 1]
        IN IF s.task[t].sleep = 0
           THEN \E d \in LeastLoaded(s) : SetSched(MakeReady(s, t, d))
           ELSE SetSched(s)
  BY Zenon DEF TickSlot
<1>2. t \in Tasks /\ task[t].used /\ task[t].state = "BLOCKED" /\ task[t].sleep > 0
  BY Zenon, SlotFacts DEF Sleepers
<1>3. task[t] \in TaskRec
  BY Zenon, <1>2, TaskTyped
<1>4. PICK n \in Nat : n = task[t].sleep - 1
  BY <1>2, <1>3 DEF TaskRec
<1> DEFINE r == [task[t] EXCEPT !.sleep = n]
           s == [Now EXCEPT !.task[t] = r]
<1>5. [Now EXCEPT !.task[t].sleep = @ - 1] = s
  BY Zenon, <1>4 DEF Now
<1>6. r \in TaskRec /\ r.id = task[t].id
  BY Zenon, <1>3 DEF TaskRec
<1>7. Stays(task[t], r)
  BY Zenon, <1>3 DEF TaskRec, Stays, Waits
<1>8. (\E d \in LeastLoaded(s) : SetSched(MakeReady(s, t, d))) \/ SetSched(s)
  BY Zenon, <1>1, <1>5
<1> HIDE DEF r
<1>9. /\ SchedTyped(s) /\ s.task[t] = r /\ s.task = [task EXCEPT ![t] = r]
      /\ \A u \in Slots : Stays(task[u], s.task[u])
  BY Zenon, <1>2, <1>6, <1>7, OneStays
<1> HIDE DEF s
<1>10. CASE \E d \in LeastLoaded(s) : SetSched(MakeReady(s, t, d))
  <2>1. PICK d \in LeastLoaded(s) : SetSched(MakeReady(s, t, d))
    BY Zenon, <1>10
  <2>2. d \in Cpus /\ Waits(task[t])
    BY Zenon, <1>2 DEF LeastLoaded, Waits
  <2>3. QED BY Zenon, <1>2, <1>9, <2>1, <2>2, StaysReady
<1>11. CASE SetSched(s)
  BY Zenon, <1>9, <1>11 DEF SetSched
<1>12. QED BY Zenon, <1>8, <1>10, <1>11

\* On one CPU a task may block itself.
LEMMA SleepStays ==
  ASSUME TypeInv, NCpus = 1, NEW c \in Cpus, SleepCurrent(c)
  PROVE  \A u \in Slots : Stays(task[u], task'[u])
<1> DEFINE t == cur[c]
<1>1. t \in Tasks /\ task[t] \in TaskRec
  BY SMTT(30), TopFacts, TaskTyped
<1>2. PICK seconds \in 0 .. MaxSleep :
        LET s == [Now EXCEPT !.task[t].sleep = 2 * seconds]
        IN IF seconds = 0
           THEN \E d \in LeastLoaded(s) : SetSched(MakeReady(s, t, d))
           ELSE SetSched([RqRemove(s, t) EXCEPT !.task[t].state = "BLOCKED"])
  BY Zenon DEF SleepCurrent
<1>3. PICK n \in Nat : n = 2 * seconds
  BY ConstantsOK
<1> DEFINE r == [task[t] EXCEPT !.sleep = n]
           s == [Now EXCEPT !.task[t] = r]
<1>4. [Now EXCEPT !.task[t].sleep = 2 * seconds] = s
  BY Zenon, <1>3 DEF Now
<1>5. r \in TaskRec /\ r.id = task[t].id
  BY Zenon, <1>1 DEF TaskRec
<1>6. Stays(task[t], r)
  BY SMTT(30), <1>1 DEF TaskRec, Stays, Waits
<1>7. \/ \E d \in LeastLoaded(s) : SetSched(MakeReady(s, t, d))
      \/ SetSched([RqRemove(s, t) EXCEPT !.task[t].state = "BLOCKED"])
  BY Zenon, <1>2, <1>4
<1> HIDE DEF r, t
<1>8. SchedTyped(s) /\ \A u \in Slots : Stays(task[u], s.task[u])
  BY Zenon, <1>1, <1>5, <1>6, OneStays
<1> HIDE DEF s
<1>9. CASE \E d \in LeastLoaded(s) : SetSched(MakeReady(s, t, d))
  <2>1. PICK d \in LeastLoaded(s) : SetSched(MakeReady(s, t, d))
    BY Zenon, <1>9
  <2>2. d \in Cpus
    BY Zenon DEF LeastLoaded
  <2>3. QED BY Zenon, <1>1, <1>8, <2>1, <2>2, StaysReady
<1>10. CASE SetSched([RqRemove(s, t) EXCEPT !.task[t].state = "BLOCKED"])
  <2> DEFINE z == [RqRemove(s, t) EXCEPT !.task[t].state = "BLOCKED"]
  <2>1. "BLOCKED" \in States
    BY Zenon DEF States
  <2>2. SameCpus(s, z)
    BY Zenon, <1>1, <1>8, <2>1, RemoveCpus
  <2>3. task' = z.task
    BY Zenon, <1>10 DEF SetSched
  <2> HIDE DEF z
  <2>4. QED BY Zenon, <1>8, <2>2, <2>3, SlotFacts DEF SameCpus, Stays
<1>11. QED BY SMTT(30), <1>7, <1>9, <1>10

LEMMA ExitStays ==
  ASSUME TypeInv, SafeInv, NEW c \in Cpus, TaskExit(c)
  PROVE  \A u \in Slots : Stays(task[u], task'[u])
<1> DEFINE t == cur[c]
           me == task[t]
           parents == {p \in Tasks : task[p].used /\ task[p].id = me.parent}
           last == IF parents = {} \/ me.id = init_task_id THEN "DEAD" ELSE "ZOMBIE"
           e(u) == IF u = t THEN [me EXCEPT !.state = last]
                   ELSE IF task[u].used /\ task[u].parent = me.id
                   THEN [task[u] EXCEPT !.parent = init_task_id]
                   ELSE task[u]
           tk == [u \in Tasks |-> e(u)]
           s == [Now EXCEPT !.task = tk]
           blocked == {p \in parents : s.task[p].state = "BLOCKED"}
<1>1. IF blocked = {} THEN SetSched(s)
      ELSE \E p \in blocked, d \in LeastLoaded(s) : SetSched(MakeReady(s, p, d))
  BY Zenon DEF TaskExit
<1>2. t \in Tasks /\ \A u \in Tasks : task[u] \in TaskRec
  BY Zenon, TopFacts, TaskTyped
<1>3. last \in {"DEAD", "ZOMBIE"} /\ init_task_id \in Nat \cup {NoParent}
  BY Zenon DEF TypeInv, IdsTyped
<1> HIDE DEF last
<1>4. LET r == [task[t] EXCEPT !.state = last]
      IN r \in TaskRec /\ r.id = task[t].id /\ Stays(task[t], r) /\ r.state # "BLOCKED"
  <2>1. task[t] \in TaskRec
    BY Zenon, <1>2
  <2>2. QED BY Zenon, <1>3, <2>1 DEF TaskRec, States, Stays, Waits
<1>5. \A u \in Tasks : LET r == [task[u] EXCEPT !.parent = init_task_id]
                       IN /\ r \in TaskRec /\ r.id = task[u].id /\ Stays(task[u], r)
                          /\ r.state = task[u].state
  <2> TAKE u \in Tasks
  <2>1. task[u] \in TaskRec
    BY Zenon, <1>2
  <2>2. QED BY Zenon, <1>3, <2>1 DEF TaskRec, Stays, Waits
<1>6. \A u \in Tasks : Stays(task[u], task[u])
  BY Zenon, <1>2 DEF TaskRec, Stays
<1>7. \A u \in Tasks : /\ e(u) \in TaskRec /\ e(u).id = task[u].id /\ Stays(task[u], e(u))
                       /\ e(u).state = "BLOCKED" => task[u].state = "BLOCKED"
  BY SMTT(30), <1>2, <1>4, <1>5, <1>6
<1> HIDE DEF e
<1>8. tk \in [Tasks -> TaskRec] /\ \A u \in Tasks : tk[u] = e(u)
  BY Zenon, <1>7
<1> HIDE DEF tk
<1>9. s.task = tk
  BY Zenon DEF Now
<1>10. SchedTyped(s)
  BY Zenon, <1>7, <1>8, TaskTyped, SlotFacts DEF Now, SchedTyped, SchedState
<1>11. \A p \in blocked : p \in Tasks /\ Waits(task[p])
  <2>1. \A p \in blocked : p \in Tasks /\ s.task[p].state = "BLOCKED"
    BY Zenon
  <2> HIDE DEF s, blocked
  <2>2. QED BY SMTT(30), <1>7, <1>8, <1>9, <2>1 DEF Waits
<1> HIDE DEF s, blocked
<1>12. \A u \in Slots : Stays(task[u], s.task[u])
  BY SMTT(30), <1>7, <1>8, <1>9, SlotFacts
<1>13. CASE SetSched(s)
  BY SMTT(30), <1>12, <1>13 DEF SetSched
<1>14. CASE \E p \in blocked, d \in LeastLoaded(s) : SetSched(MakeReady(s, p, d))
  <2>1. PICK p \in blocked, d \in LeastLoaded(s) : SetSched(MakeReady(s, p, d))
    BY Zenon, <1>14
  <2>2. d \in Cpus
    BY Zenon DEF LeastLoaded
  <2>3. QED BY SMTT(30), <1>10, <1>11, <1>12, <2>1, <2>2, StaysReady
<1>15. QED BY Zenon, <1>1, <1>13, <1>14

LEMMA CreateStays ==
  ASSUME TypeInv, NEW c \in Cpus,
         TaskCreate(c) \/ \E at \in At : TaskCreateUser(c, at)
  PROVE  \A u \in Slots : Stays(task[u], task'[u])
<1>1. CASE TaskCreate(c)
  <2> DEFINE y(t) == [Now EXCEPT !.task[t] = Created(t, FALSE)]
  <2>1. PICK t \in FreeSlot : \E d \in LeastLoaded(y(t)) : SetSched(MakeReady(y(t), t, d))
    BY <1>1, Zenon DEF TaskCreate
  <2> DEFINE r == Created(t, FALSE)
             s == [Now EXCEPT !.task[t] = r]
  <2>2. t \in Slots /\ t \in Tasks /\ ~task[t].used /\ r \in TaskRec
    BY Zenon, CreatedTyped
  <2>3. r.cpu = NoCpu
    <3>1. task[t] \in TaskRec
      BY Zenon, <2>2, TaskTyped
    <3>2. QED BY Zenon, <3>1 DEF Created, TaskRec
  <2>4. Stays(task[t], r)
    BY Zenon, <2>2, <2>3 DEF Stays
  <2>5. PICK d \in LeastLoaded(s) : SetSched(MakeReady(s, t, d))
    BY Zenon, <2>1
  <2> HIDE DEF r
  <2>6. SchedTyped(s)
    <3>1. task \in [Tasks -> TaskRec] /\ s.task = [task EXCEPT ![t] = r]
      BY Zenon, TaskTyped DEF Now
    <3>2. s.task \in [Tasks -> TaskRec]
      BY Zenon, <2>2, <3>1
    <3>3. \A e \in Cpus : s.task[e].id = e
      <4>1. \A e \in Cpus : e \in Tasks /\ e # t /\ task[e].id = e
        BY Zenon, <2>2, TaskTyped, SlotFacts
      <4>2. \A u \in Tasks : u # t => s.task[u] = task[u]
        BY Zenon, <3>1
      <4>3. QED BY Zenon, <4>1, <4>2
    <3>4. QED BY Zenon, <3>1, <3>2, <3>3, TaskTyped DEF Now, SchedTyped, SchedState
  <2>7. s.task[t] = r /\ \A u \in Tasks : u # t => s.task[u] = task[u]
    BY Zenon, <2>2, TaskTyped DEF Now
  <2> HIDE DEF s
  <2>8. \A u \in Slots : Stays(task[u], s.task[u])
    BY Zenon, <2>4, <2>7, StaysAll, SlotFacts
  <2>9. d \in Cpus
    BY Zenon DEF LeastLoaded
  <2>10. s.task[t].cpu = NoCpu
    BY Zenon, <2>3, <2>7
  <2>11. QED BY Zenon, <2>2, <2>5, <2>6, <2>8, <2>9, <2>10, StaysReady
<1>2. CASE \E at \in At : TaskCreateUser(c, at)
  <2>1. PICK t \in FreeSlot :
          task' = [task EXCEPT ![t] = [Created(t, TRUE) EXCEPT !.state = "BLOCKED"]]
    BY <1>2, Zenon DEF TaskCreateUser
  <2> DEFINE r == [Created(t, TRUE) EXCEPT !.state = "BLOCKED"]
  <2>2. t \in Tasks /\ ~task[t].used
    BY Zenon, CreatedTyped
  <2>3. r.cpu = NoCpu
    <3>1. task[t] \in TaskRec
      BY Zenon, <2>2, TaskTyped
    <3>2. QED BY Zenon, <3>1 DEF Created, TaskRec
  <2>4. Stays(task[t], r) /\ task' = [task EXCEPT ![t] = r]
    <3>1. task' = [task EXCEPT ![t] = r]
      BY Zenon, <2>1
    <3> HIDE DEF r
    <3>2. Stays(task[t], r)
      BY SMTT(30), <2>2, <2>3 DEF Stays
    <3>3. QED BY Zenon, <3>1, <3>2
  <2> HIDE DEF r
  <2>5. QED BY Zenon, <2>2, <2>4, StaysRecord
<1>3. QED BY Zenon, <1>1, <1>2

LEMMA SwitchCpu ==
  ASSUME TypeInv, SafeInv, CpuInv, NEW c \in Cpus, Switch(c)
  PROVE  CpuInv'
<1>1. PICK p \in PickNext(Outgoing(Now, cur[c], c), c) :
        /\ SetSched([p.s EXCEPT !.task[p.next] = [@ EXCEPT !.state = "RUNNING", !.cpu = c]])
        /\ cur' = [cur EXCEPT ![c] = p.next]
        /\ IF p.next = cur[c] THEN Return(c) /\ UNCHANGED saved
           ELSE /\ saved' = [saved EXCEPT ![cur[c]] = Below(c)]
                /\ Goto(c, saved[p.next])
  BY Zenon DEF Switch
<1>2. PICK n, prev, y : n = p.next /\ prev = cur[c] /\ y = Outgoing(Now, cur[c], c)
  BY Zenon
<1>3. /\ cur' = [cur EXCEPT ![c] = n] /\ cur \in [Cpus -> Tasks] /\ prev \in Tasks
      /\ stack \in [Cpus -> Seq(Frame)] /\ saved \in [Tasks -> Seq(Frame)]
  BY SMTT(30), <1>1, <1>2, TopFacts DEF TypeInv, StacksOK, SavedOK
<1>4. /\ OneCpuPerTask
      /\ \A d \in Cpus : cur[d] \in Cpus => cur[d] = d
      /\ NCpus = 1 \/ \A t \in Slots : OffCpu(t)
      /\ NCpus = 1 \/ Quiet
  BY Zenon DEF CpuInv, Quiet
<1>5. /\ n \in Tasks /\ (n = c \/ n \in Slots)
      /\ \A u \in Slots : /\ u # n => /\ task'[u].used = task[u].used
                                      /\ u # prev => /\ task'[u].cpu = task[u].cpu
                                                     /\ task'[u].state = task[u].state
                                      /\ u = prev => task'[u].cpu = NoCpu
                          /\ u = n => task'[u].cpu = c /\ task'[u].state = "RUNNING"
      /\ n \in Slots /\ n # prev => task[n].state = "READY" /\ task[n].used
  <2>3. /\ SchedTyped(y) /\ QueuesAgree(y) /\ ReadyQueued(y)
        /\ \A u \in Tasks : y.task[u].used = task[u].used
        /\ \A u \in Tasks : u # prev => y.task[u].cpu = task[u].cpu /\ y.task[u].state = task[u].state
        /\ prev \in Slots => y.task[prev].cpu = NoCpu
    BY Zenon, <1>2, OutgoingNow
  <2>4. /\ SchedTyped(p.s) /\ SameLife(y, p.s)
        /\ p.next = c \/ (p.next \in Slots /\ y.task[p.next].state = "READY")
    BY SMTT(30), <1>2, <2>3, PickNextEffect
  <2>5. n \in Tasks /\ (n = c \/ (n \in Slots /\ y.task[n].state = "READY"))
    BY Zenon, <1>2, <2>4, SlotFacts
  <2> DEFINE r == [p.s.task[n] EXCEPT !.state = "RUNNING", !.cpu = c]
  <2>6. p.s.task[n] \in TaskRec /\ p.s.task \in [Tasks -> TaskRec]
    BY Zenon, <2>4, <2>5, StateFields DEF SchedTyped
  <2>7. task' = [p.s.task EXCEPT ![n] = r]
    BY Zenon, <1>1, <1>2, <2>4 DEF SetSched, SchedTyped, SchedState
  <2>8. r.state = "RUNNING" /\ r.cpu = c
    BY Zenon, <2>6 DEF TaskRec
  <2> HIDE DEF r
  <2>9. task'[n] = r /\ \A u \in Tasks : u # n => task'[u] = p.s.task[u]
    BY SMTT(30), <2>5, <2>6, <2>7
  <2>10. \A u \in Tasks : u # n => /\ task'[u].used = y.task[u].used /\ task'[u].cpu = y.task[u].cpu
                                   /\ task'[u].state = y.task[u].state
    BY SMTT(30), <2>4, <2>9 DEF SameLife
  <2>11. n \in Slots /\ n # prev => task[n].state = "READY" /\ task[n].used
    <3>1. n \in Slots /\ n # prev => task[n].state = "READY"
      BY SMTT(30), <2>3, <2>5, SlotFacts
    <3>2. QED BY Zenon, <3>1 DEF SafeInv, TableOK
  <2>12. QED BY SMTT(30), <2>3, <2>5, <2>8, <2>9, <2>10, <2>11, SlotFacts
<1>6. cur'[c] = n /\ \A d \in Cpus : d # c => cur'[d] = cur[d]
  BY Zenon, <1>3
<1>7. \A d \in Cpus : d # c => cur[d] # n
  <2> SUFFICES ASSUME NEW d \in Cpus, d # c, cur[d] = n PROVE FALSE
    BY Zenon
  <2>1. n # prev
    BY Zenon, <1>2, <1>4 DEF OneCpuPerTask
  <2>2. n # c
    BY SMTT(30), <1>4
  <2>3. n \in Slots /\ task[n].state = "READY" /\ task[n].used
    BY SMTT(30), <1>5, <2>1, <2>2
  <2>4. NCpus # 1
    BY SMTT(30), ConstantsOK DEF Cpus
  <2>5. task[n].cpu = NoCpu
    BY SMTT(30), <1>4, <2>3, <2>4 DEF OffCpu
  <2>6. task[n].cpu = d
    BY SMTT(30), <1>4, <2>3 DEF OneCpuPerTask
  <2>7. QED BY SMTT(30), <2>5, <2>6, SlotFacts
<1>8. \A d \in Cpus : d # c => cur[d] # prev
  BY SMTT(30), <1>2, <1>4 DEF OneCpuPerTask
<1>9. \A d, e \in Cpus : cur'[d] = cur'[e] => d = e
  BY SMTT(30), <1>4, <1>6, <1>7 DEF OneCpuPerTask
<1>10. \A d \in Cpus, t \in Slots : task'[t].used => (cur'[d] = t <=> task'[t].cpu = d)
  <2> TAKE d \in Cpus
  <2> TAKE t \in Slots
  <2> HAVE task'[t].used
  <2>1. CASE t = n
    BY SMTT(30), <1>5, <1>6, <1>7, <2>1
  <2>2. CASE t # n /\ t = prev
    BY SMTT(30), <1>5, <1>6, <1>8, <2>2, SlotFacts
  <2>3. CASE t # n /\ t # prev
    <3>1. task[t].used /\ task'[t].cpu = task[t].cpu
      BY SMTT(30), <1>5, <2>3
    <3>2. cur[d] = t <=> task[t].cpu = d
      BY SMTT(30), <1>4, <3>1 DEF OneCpuPerTask
    <3>3. cur'[d] = t <=> cur[d] = t
      BY SMTT(30), <1>2, <1>6, <2>3
    <3>4. QED BY SMTT(30), <3>1, <3>2, <3>3
  <2>4. QED BY SMTT(30), <2>1, <2>2, <2>3
<1>11. \A d \in Cpus : cur'[d] \in Cpus => cur'[d] = d
  BY SMTT(30), <1>4, <1>5, <1>6, SlotFacts
<1>12. NCpus = 1 \/ \A t \in Slots : OffCpu(t)'
  BY SMTT(30), <1>4, <1>5 DEF OffCpu
<1>13. NCpus = 1 \/ Quiet'
  <2> SUFFICES ASSUME NCpus # 1 PROVE Quiet'
    BY Zenon
  <2>1. Top(c).at \notin BaseAt
    BY Zenon DEF Switch, In, BaseAt
  <2>2. NoWait(Below(c))
    BY SMTT(30), <1>4, <2>1, NoWaitReturn
  <2>3. \A d \in Cpus : NoWait(stack'[d])
    <3>1. \A d \in Cpus : stack'[d] \in {stack[d], Below(c), saved[n]}
      BY SMTT(30), <1>1, <1>2, <1>3 DEF Return, Goto
    <3>2. QED BY SMTT(30), <1>4, <1>5, <2>2, <3>1 DEF Quiet
  <2>4. \A t \in Tasks : NoWait(saved'[t])
    <3>1. \A t \in Tasks : saved'[t] \in {saved[t], Below(c)}
      BY Zenon, <1>1, <1>3
    <3>2. QED BY SMTT(30), <1>4, <2>2, <3>1 DEF Quiet
  <2>5. QED BY Zenon, <2>3, <2>4 DEF Quiet, NoWait
<1>14. OneCpuPerTask'
  BY SMTT(30), <1>9, <1>10 DEF OneCpuPerTask
<1>15. QED BY SMTT(30), <1>11, <1>12, <1>13, <1>14 DEF CpuInv, Quiet

(***************************************************************************)
(* The invariant, and the theorems.                                        *)
(***************************************************************************)
LEMMA CpuInvInit == Init => CpuInv
<1> SUFFICES ASSUME Init PROVE CpuInv
  BY Zenon
<1>1. \A c \in Cpus : cur[c] = c
  BY Zenon DEF Init
<1>2. \A t \in Slots : ~task[t].used
  <2>1. task = [t \in Tasks |-> IF t \in Cpus THEN IdleTask(t) ELSE Cleared]
    BY Zenon DEF Init
  <2>2. \A t \in Slots : task[t] = Cleared
    BY Zenon, <2>1, SlotFacts
  <2>3. QED BY <2>2 DEF Cleared
<1>3. NoWait(<<F("boot", 0, FALSE)>>)
  <2> DEFINE b == <<F("boot", 0, FALSE)>>
  <2>1. Len(b) = 1 /\ b[1].at = "boot"
    BY Zenon DEF F
  <2> HIDE DEF b
  <2>2. NoWait(b)
    BY <2>1 DEF NoWait, WaitAt
  <2>3. QED BY Zenon, <2>2 DEF b
<1>4. /\ \A c \in Cpus : stack[c] \in {Body, <<F("boot", 0, FALSE)>>}
      /\ \A t \in Tasks : saved[t] = Body
  BY Zenon DEF Init
<1>5. Quiet
  <2> HIDE DEF Body
  <2> QED BY Zenon, <1>3, <1>4, BodyQuiet DEF Quiet
<1>6. QED BY Zenon, <1>1, <1>2, <1>5 DEF CpuInv, OneCpuPerTask, OffCpu, Quiet

LEMMA CpuInvStep ==
  Unblocking /\ TypeInv /\ SafeInv /\ CpuInv /\ [Next]_vars => CpuInv'
<1> SUFFICES ASSUME Unblocking, TypeInv, SafeInv, CpuInv, [Next]_vars PROVE CpuInv'
  BY Zenon
<1>1. NCpus = 1 \/ (Quiet /\ Ops \cap {"sleep", "park", "wait4"} = {})
  BY Zenon DEF Unblocking, CpuInv, Quiet
<1>2. CASE UNCHANGED vars
  <2>1. UNCHANGED <<task, cur, stack, saved>>
    BY Zenon, <1>2 DEF vars, lockVars
  <2>2. (NCpus = 1 \/ Quiet') /\ \A u \in Slots : Stays(task[u], task'[u])
    BY Zenon, <1>1, <2>1, StaysAll DEF Quiet
  <2>3. QED BY Zenon, <2>1, <2>2, StaysStep
<1>3. ASSUME NEW c \in Cpus, CpuStep(c) \/ Irq(c) \/ Tick(c), ~Switch(c) PROVE CpuInv'
  <2>1. NCpus = 1 \/ Quiet'
    BY SMTT(30), <1>1, <1>3, KernelQuiet
  <2>2. UNCHANGED cur
    BY ZenonT(60), <1>3 DEF CpuStep, Irq, Tick, Yield, ReapVictim, ReapDetach, ReapClear, ReapDone, BootInit,
       BootService, BootDone, RegisterInit, AdoptTask, TaskCreate, ShellLoad, Clone, CloneParent,
       WakeTask, Publish, ParkTask, ParkReturn, Dequeue, UnparkTask, SleepCurrent, TaskExit, Wait4,
       Wait4Scan, KillTask, KillSyncPoll, TaskCreateUser
  <2>3. \A u \in Slots : Stays(task[u], task'[u])
    <3>1. CASE UNCHANGED task
      BY Zenon, <3>1, StaysAll
    <3>2. CASE ParkTask(c) \/ Wait4Scan(c) \/ KillTask(c)
      <4>1. NCpus = 1 \/ Top(c).at \notin WaitAt
        <5> SUFFICES ASSUME NCpus # 1 PROVE Top(c).at \notin WaitAt
          BY Zenon
        <5>1. stack[c] \in Seq(Frame) /\ stack[c] # <<>> /\ Top(c) = stack[c][1]
          BY Zenon, TopFacts DEF FramesOK
        <5>2. 1 \in 1 .. Len(stack[c])
          BY <5>1, NoSeq
        <5>3. QED BY Zenon, <1>1, <5>1, <5>2 DEF Quiet, NoWait
      <4>2. QED BY SMTT(30), <3>2, <4>1, RecordStays
    <3>3. CASE SleepCurrent(c)
      <4>1. NCpus = 1
        BY Zenon, <1>1, <3>3 DEF SleepCurrent
      <4>2. QED BY SMTT(30), <3>3, <4>1, SleepStays
    <3>4. CASE BootInit(c) \/ BootService(c) \/ ShellLoad(c) \/ Clone(c) \/ TaskCreate(c)
      BY Zenon, <3>4, CreateStays DEF BootInit, BootService, ShellLoad, Clone, At
    <3>5. CASE \/ Yield(c) \/ ReapDetach(c) \/ ReapDone(c) \/ BootDone(c) \/ Publish(c)
               \/ ParkReturn(c) \/ Dequeue(c) \/ Wait4(c) \/ KillSyncPoll(c) \/ Irq(c) \/ Tick(c)
      <4>1. UNCHANGED task
        BY Zenon, <3>5 DEF Yield, ReapDetach, ReapDone, BootDone, Publish, ParkReturn, Dequeue, Wait4,
                    KillSyncPoll, Irq, Tick, lockVars
      <4>2. QED BY SMTT(30), <3>1, <4>1
    <3>6. QED BY ZenonT(60), <1>3, <3>2, <3>3, <3>4, <3>5, ParentStays, ReapStays, WakeStays, ExitStays
              DEF CpuStep
  <2>4. QED BY Zenon, <2>1, <2>2, <2>3, StaysStep
<1>4. CASE TickSlot
  <2>1. UNCHANGED <<cur, stack, saved>>
    BY Zenon, <1>4 DEF TickSlot
  <2>2. NCpus = 1 \/ Quiet'
    BY Zenon, <1>1, <2>1 DEF Quiet
  <2>3. QED BY SMTT(30), <1>4, <2>1, <2>2, TickStays, StaysStep
<1>5. CASE TickDone
  <2>1. UNCHANGED <<task, cur, saved>> /\ Preempt(0)
    BY Zenon, <1>5 DEF TickDone
  <2>2. NCpus = 1 \/ Quiet'
    BY SMTT(30), <1>1, <2>1, SlotFacts, PreemptQuiet
  <2>3. \A u \in Slots : Stays(task[u], task'[u])
    BY Zenon, <2>1, StaysAll
  <2>4. QED BY SMTT(30), <2>1, <2>2, <2>3, StaysStep
<1>6. QED BY Zenon, <1>2, <1>3, <1>4, <1>5, SwitchCpu DEF Next

LEMMA SafeInvAlone ==
  Unblocking /\ TypeInv /\ SafeInv /\ CpuInv /\ [Next]_vars => SafeInv'
<1> SUFFICES ASSUME Unblocking, TypeInv, SafeInv, CpuInv, [Next]_vars PROVE SafeInv'
  BY Zenon
<1>1. OneCpuPerTask
  BY Zenon DEF CpuInv
<1>2. CpuInv'
  BY Zenon, CpuInvStep
<1>3. OneCpuPerTask'
  BY Zenon, <1>2 DEF CpuInv
<1>4. QED BY Zenon, <1>1, <1>3, SafeInvStep

LEMMA AllInvAlways == ASSUME Unblocking PROVE Spec => [](SafeInv /\ CpuInv)
BY TypeInvAlways, SafeInvInit, CpuInvInit, SafeInvAlone, CpuInvStep, PTL DEF Spec

\* A task executes on at most one CPU, the one current_cpu names: schedule() and
\* its run queues guarantee it on one CPU, and on any number of CPUs as long as no
\* task marks itself BLOCKED or READY while it still runs (sched_sleep_current,
\* sched_park_task and sched_wait4 do: there the two_cpus run refutes it).
THEOREM OneCpu == ASSUME Unblocking PROVE Spec => []OneCpuPerTask
<1>1. CpuInv => OneCpuPerTask
  BY Zenon DEF CpuInv
<1>2. QED BY <1>1, AllInvAlways, PTL

\* In the same workloads the run queues agree with the task table
\* (sched_rq_enqueue_locked and its siblings).
THEOREM QueuesAlways == ASSUME Unblocking PROVE Spec => []RunQueuesOK
<1>1. SafeInv => RunQueuesOK
  BY Zenon DEF SafeInv
<1>2. QED BY <1>1, AllInvAlways, PTL

\* In the same workloads no CPU executes on the stack of a task that
\* sched_reap_dead() is reaping or has freed.
THEOREM StacksAlways == ASSUME Unblocking PROVE Spec => []ActiveStackAlive
<1>1. SafeInv => ActiveStackAlive
  BY Zenon DEF SafeInv
<1>2. QED BY <1>1, AllInvAlways, PTL
=============================================================================
