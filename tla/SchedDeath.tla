---------------------------- MODULE SchedDeath -----------------------------
(***************************************************************************)
(* What a step of the scheduler may do to the task table and to the frames *)
(* of the CPU that takes it, and how tasks end: the invariants behind a    *)
(* dead task staying dead, sched_kill_task_sync() returning only when its  *)
(* target is gone, and every task being reaped having one reaper, as long  *)
(* as no task is on two CPUs.                                              *)
(***************************************************************************)
EXTENDS SchedProofs

(***************************************************************************)
(* What the queue helpers do to a task, apart from its queue fields.       *)
(***************************************************************************)
\* The fields of o other than its state, its queue, its parent and its sleep.
Same(o, r) ==
  /\ r.id = o.id /\ r.used = o.used /\ r.user = o.user
  /\ r.kill = o.kill /\ r.wake = o.wake /\ r.cpu = o.cpu

SameCore(s, z) == \A u \in Tasks : Same(s.task[u], z.task[u]) /\ z.task[u].state = s.task[u].state

LEMMA CoreRecord ==
  ASSUME NEW s, NEW z, SchedTyped(s), NEW t \in Tasks, NEW r,
         z.task = [s.task EXCEPT ![t] = r], Same(s.task[t], r), r.state = s.task[t].state
  PROVE  SameCore(s, z)
<1>1. s.task \in [Tasks -> TaskRec]
  BY Zenon, StateFields DEF SchedTyped
<1>2. z.task[t] = r /\ \A u \in Tasks : u # t => z.task[u] = s.task[u]
  BY Zenon, <1>1
<1>3. QED BY Zenon, <1>2 DEF SameCore, Same

LEMMA CoreTrans ==
  ASSUME NEW s, NEW y, NEW z, SameCore(s, y), SameCore(y, z)
  PROVE  SameCore(s, z)
BY Zenon DEF SameCore, Same

LEMMA RemoveCore ==
  ASSUME NEW s, SchedTyped(s), NEW t \in Tasks
  PROVE  SameCore(s, RqRemove(s, t))
<1> DEFINE y == RqRemove(s, t)
           off == [s.task[t] EXCEPT !.on_rq = FALSE]
<1>1. s.task[t] \in TaskRec
  BY Zenon, TypedTask
<1>2. Same(s.task[t], off) /\ off.state = s.task[t].state
  BY Zenon, <1>1 DEF TaskRec, Same
<1>3. y.task = s.task \/ y.task = [s.task EXCEPT ![t] = off]
  BY Zenon DEF RqRemove, SchedTyped, SchedState
<1> HIDE DEF y, off
<1>4. CASE y.task = s.task
  BY Zenon, <1>4 DEF SameCore, Same, y
<1>5. CASE y.task = [s.task EXCEPT ![t] = off]
  BY Zenon, <1>2, <1>5, CoreRecord DEF y
<1>6. QED BY Zenon, <1>3, <1>4, <1>5

LEMMA EnqueueCore ==
  ASSUME NEW s, SchedTyped(s), NEW t \in Tasks, NEW c \in Cpus
  PROVE  SameCore(s, RqEnqueue(s, t, c))
<1> DEFINE y == RqEnqueue(s, t, c)
           r == [s.task[t] EXCEPT !.rq_cpu = c, !.on_rq = TRUE]
<1>1. s.task[t] \in TaskRec
  BY Zenon, TypedTask
<1>2. Same(s.task[t], r) /\ r.state = s.task[t].state
  BY Zenon, <1>1 DEF TaskRec, Same
<1>3. y.task = s.task \/ y.task = [s.task EXCEPT ![t] = r]
  BY Zenon DEF RqEnqueue, SchedTyped, SchedState
<1> HIDE DEF y, r
<1>4. CASE y.task = s.task
  BY Zenon, <1>4 DEF SameCore, Same, y
<1>5. CASE y.task = [s.task EXCEPT ![t] = r]
  BY Zenon, <1>2, <1>5, CoreRecord DEF y
<1>6. QED BY Zenon, <1>3, <1>4, <1>5

LEMMA DequeueCore ==
  ASSUME NEW s, SchedTyped(s), NEW c \in Cpus, NEW n
  PROVE  SameCore(s, RqDequeue(s, c, n))
<1> DEFINE off(u) == [s.task[u] EXCEPT !.on_rq = FALSE]
           e(u) == IF \E j \in 1 .. n : s.rq[c][j] = u THEN off(u) ELSE s.task[u]
           tk == [u \in Tasks |-> e(u)]
           z == RqDequeue(s, c, n)
<1>1. z.task = tk
  BY Zenon DEF RqDequeue, SchedTyped, SchedState
<1>2. \A u \in Tasks : Same(s.task[u], off(u)) /\ off(u).state = s.task[u].state
  <2> TAKE u \in Tasks
  <2>1. s.task[u] \in TaskRec
    BY Zenon, TypedTask
  <2>2. QED BY Zenon, <2>1 DEF TaskRec, Same
<1>3. \A u \in Tasks : tk[u] = off(u) \/ tk[u] = s.task[u]
  BY Zenon
<1> HIDE DEF off, tk, z
<1>4. SameCore(s, z)
  BY Zenon, <1>1, <1>2, <1>3 DEF SameCore, Same
<1>5. QED BY Zenon, <1>4 DEF z

LEMMA DequeueReadyCore ==
  ASSUME NEW s, SchedTyped(s), NEW b \in Cpus, NEW idle \in Cpus,
         NEW p \in DequeueReady(s, b, idle)
  PROVE  SameCore(s, p.s)
<1>1. \E n : p.s = RqDequeue(s, b, n)
  BY DEF DequeueReady
<1>2. QED BY Zenon, <1>1, DequeueCore

LEMMA PickNextCore ==
  ASSUME NEW s, SchedTyped(s), NEW c \in Cpus, NEW p \in PickNext(s, c)
  PROVE  SameCore(s, p.s)
<1>1. CASE AnyReady(s, c)
  BY Zenon, <1>1, DequeueReadyCore DEF PickNext
<1>2. CASE ~AnyReady(s, c)
  <2> DEFINE z == RqDequeue(s, c, Len(s.rq[c]))
             e == [next |-> c, s |-> z]
  <2>1. e \in DequeueReady(s, c, c) /\ e.s = z
    BY Zenon, <1>2 DEF DequeueReady
  <2>2. SameCore(s, z)
    BY Zenon, DequeueCore
  <2>3. SchedTyped(z)
    BY Zenon, <2>1, DequeueReadyTyped
  <2>4. CASE p = e
    BY Zenon, <2>1, <2>2, <2>4
  <2>5. CASE \E b \in Busiest(z, c) : \E q \in DequeueReady(z, b, c) : p = Stolen(q, c)
    <3> HIDE DEF z, e
    <3>1. PICK b \in Busiest(z, c) : \E q \in DequeueReady(z, b, c) : p = Stolen(q, c)
      BY Zenon, <2>5
    <3>2. PICK q \in DequeueReady(z, b, c) : p = Stolen(q, c)
      BY Zenon, <3>1
    <3>3. SchedTyped(q.s) /\ q.next \in Tasks /\ SameCore(z, q.s)
      BY Zenon, <2>3, <3>2, DequeueReadyTyped, DequeueReadyCore DEF Busiest
    <3>4. SameCore(s, q.s)
      BY Zenon, <2>2, <3>3, CoreTrans
    <3>5. CASE q.next = c
      BY Zenon, <3>2, <3>4, <3>5 DEF Stolen
    <3>6. CASE q.next # c
      <4> DEFINE r == [q.s.task[q.next] EXCEPT !.rq_cpu = c]
                 y == [q.s EXCEPT !.task[q.next].rq_cpu = c]
      <4>1. p.s = y
        BY Zenon, <3>2, <3>6 DEF Stolen
      <4>2. q.s.task[q.next] \in TaskRec
        BY Zenon, <3>3, TypedTask
      <4>3. Same(q.s.task[q.next], r) /\ r.state = q.s.task[q.next].state
        BY Zenon, <4>2 DEF TaskRec, Same
      <4>4. y.task = [q.s.task EXCEPT ![q.next] = r]
        BY Zenon, <3>3 DEF SchedTyped, SchedState
      <4> HIDE DEF r, y
      <4>5. SameCore(q.s, y)
        BY <3>3, <4>3, <4>4, CoreRecord
      <4>6. QED BY Zenon, <3>4, <4>1, <4>5, CoreTrans
    <3>7. QED BY Zenon, <3>5, <3>6
  <2>6. QED BY Zenon, <1>2, <2>4, <2>5 DEF PickNext
<1>3. QED BY Zenon, <1>1, <1>2

\* sched_make_ready_locked() changes the state of t, to READY, and nothing else.
LEMMA MakeReadyCore ==
  ASSUME NEW s, SchedTyped(s), NEW t \in Tasks, NEW d \in Cpus
  PROVE  LET z == MakeReady(s, t, d)
         IN /\ \A u \in Tasks : Same(s.task[u], z.task[u])
            /\ \A u \in Tasks : u # t => z.task[u].state = s.task[u].state
            /\ z.task[t].state \in {s.task[t].state, "READY"}
<1> DEFINE a == [s.task[t] EXCEPT !.state = "READY"]
           s1 == [s EXCEPT !.task[t].state = "READY"]
           s2 == RqEnqueue(s1, t, d)
           z == MakeReady(s, t, d)
<1>1. s.task \in [Tasks -> TaskRec] /\ s.task[t] \in TaskRec
  BY Zenon, StateFields, TypedTask DEF SchedTyped
<1>2. Same(s.task[t], a) /\ a.state = "READY"
  BY Zenon, <1>1 DEF TaskRec, Same
<1>3. s1.task = [s.task EXCEPT ![t] = a]
  BY Zenon DEF SchedTyped, SchedState
<1>4. SchedTyped(s1)
  <2>1. "READY" \in States
    BY Zenon DEF States
  <2>2. QED BY Zenon, <2>1, ReadyTyped
<1>5. \/ s.task[t].id < NCpus /\ z = s
      \/ z = [s2 EXCEPT !.need[d] = TRUE, !.nxt = IF d + 1 = NCpus THEN 0 ELSE d + 1]
  BY Zenon DEF MakeReady
<1> HIDE DEF s1, a
<1>7. SameCore(s1, s2) /\ SchedTyped(s2)
  BY Zenon, <1>4, EnqueueCore, RqEnqueueTyped
<1> HIDE DEF s2, z
<1>8. z.task = s2.task \/ (s.task[t].id < NCpus /\ z = s)
  BY Zenon, <1>5, <1>7 DEF SchedTyped, SchedState
<1>9. s1.task[t] = a /\ \A u \in Tasks : u # t => s1.task[u] = s.task[u]
  BY Zenon, <1>1, <1>3
<1>10. CASE z.task = s2.task
  <2>1. /\ \A u \in Tasks : Same(s.task[u], s1.task[u])
        /\ \A u \in Tasks : u # t => s1.task[u].state = s.task[u].state
        /\ s1.task[t].state = "READY"
    BY Zenon, <1>2, <1>9 DEF Same
  <2>2. QED BY <1>7, <1>10, <2>1 DEF SameCore, Same, z
<1>11. CASE s.task[t].id < NCpus /\ z = s
  BY Zenon, <1>11 DEF Same, z
<1>12. QED BY Zenon, <1>8, <1>10, <1>11

\* schedule()'s handling of the task that leaves the CPU.
LEMMA OutgoingCore ==
  ASSUME NEW s, SchedTyped(s), NEW t \in Slots, NEW c \in Cpus, s.task[t].id >= NCpus
  PROVE  LET z == Outgoing(s, t, c)
         IN /\ \A u \in Tasks : u # t => /\ Same(s.task[u], z.task[u])
                                         /\ z.task[u].state = s.task[u].state
            /\ /\ z.task[t].id = s.task[t].id /\ z.task[t].used = s.task[t].used
               /\ z.task[t].user = s.task[t].user /\ z.task[t].wake = s.task[t].wake
               /\ z.task[t].cpu = NoCpu /\ ~z.task[t].kill
            /\ s.task[t].kill => z.task[t].state = "DEAD"
            /\ ~s.task[t].kill => z.task[t].state = IF s.task[t].state = "RUNNING" THEN "READY"
                                                    ELSE s.task[t].state
<1> DEFINE kr == [s.task[t] EXCEPT !.kill = FALSE, !.state = "DEAD"]
           k == IF s.task[t].id >= NCpus /\ s.task[t].kill
                THEN [s EXCEPT !.task[t] = kr] ELSE s
           cl == [k EXCEPT !.need[c] = FALSE]
           rd == [cl.task[t] EXCEPT !.state = "READY"]
           s1 == [cl EXCEPT !.task[t].state = "READY"]
           q == IF cl.task[t].state = "RUNNING" THEN RqEnqueue(s1, t, c) ELSE cl
           r == [q.task[t] EXCEPT !.cpu = NoCpu]
           z == Outgoing(s, t, c)
<1>1. t \in Tasks /\ s.task[t] \in TaskRec /\ s.task \in [Tasks -> TaskRec]
  BY Zenon, SlotFacts, TypedTask, StateFields DEF SchedTyped
<1>2. ~(s.task[t].id < NCpus)
  BY <1>1, ConstantsOK DEF TaskRec
<1>3. z = [q EXCEPT !.task[t] = r]
  BY Zenon, <1>2 DEF Outgoing
<1>4. /\ kr \in TaskRec /\ kr.id = s.task[t].id /\ kr.used = s.task[t].used
      /\ kr.user = s.task[t].user /\ kr.wake = s.task[t].wake /\ kr.state = "DEAD" /\ ~kr.kill
  BY Zenon, <1>1 DEF TaskRec, States
<1> HIDE DEF kr
<1>5. SchedTyped(k)
  BY Zenon, <1>1, <1>4, UpdateTyped
<1>6. k.task = IF s.task[t].kill THEN [s.task EXCEPT ![t] = kr] ELSE s.task
  BY Zenon DEF SchedTyped, SchedState
<1> HIDE DEF k
<1>7. /\ k.task[t] = (IF s.task[t].kill THEN kr ELSE s.task[t])
      /\ \A u \in Tasks : u # t => k.task[u] = s.task[u]
  BY Zenon, <1>1, <1>6
<1>8. SchedTyped(cl) /\ cl.task = k.task
  <2>1. SchedTyped(cl)
    BY Zenon, <1>5, NeedTyped
  <2>2. QED BY Zenon, <1>5, <2>1 DEF SchedTyped, SchedState
<1> HIDE DEF cl
<1>9. cl.task[t] \in TaskRec
  BY Zenon, <1>1, <1>8, TypedTask
<1>10. Same(cl.task[t], rd) /\ rd.state = "READY"
  BY Zenon, <1>9 DEF TaskRec, Same
<1>11. SchedTyped(s1) /\ s1.task = [cl.task EXCEPT ![t] = rd]
  <2>1. "READY" \in States
    BY Zenon DEF States
  <2>2. SchedTyped(s1)
    BY Zenon, <1>1, <1>8, <2>1, ReadyTyped
  <2>3. QED BY Zenon, <1>8, <2>2 DEF SchedTyped, SchedState
<1> HIDE DEF rd, s1
<1>12. cl.task \in [Tasks -> TaskRec]
  BY Zenon, <1>8, StateFields DEF SchedTyped
<1>13. s1.task[t] = rd /\ \A u \in Tasks : u # t => s1.task[u] = cl.task[u]
  BY Zenon, <1>1, <1>11, <1>12
<1>14. SameCore(s1, RqEnqueue(s1, t, c)) /\ SchedTyped(RqEnqueue(s1, t, c))
  BY Zenon, <1>1, <1>11, EnqueueCore, RqEnqueueTyped
<1>15. /\ SchedTyped(q)
       /\ \A u \in Tasks : u # t => Same(cl.task[u], q.task[u]) /\ q.task[u].state = cl.task[u].state
       /\ Same(cl.task[t], q.task[t])
       /\ q.task[t].state = IF cl.task[t].state = "RUNNING" THEN "READY" ELSE cl.task[t].state
  <2>1. CASE cl.task[t].state = "RUNNING"
    <3>1. q = RqEnqueue(s1, t, c)
      BY Zenon, <2>1
    <3> HIDE DEF q
    <3>2. QED BY <1>1, <1>10, <1>13, <1>14, <2>1, <3>1 DEF SameCore, Same
  <2>2. CASE cl.task[t].state # "RUNNING"
    <3>1. q = cl
      BY Zenon, <2>2
    <3> HIDE DEF q
    <3>2. QED BY Zenon, <1>8, <2>2, <3>1 DEF Same
  <2>3. QED BY Zenon, <2>1, <2>2
<1> HIDE DEF q
<1>16. q.task[t] \in TaskRec /\ q.task \in [Tasks -> TaskRec]
  BY Zenon, <1>1, <1>15, TypedTask, StateFields DEF SchedTyped
<1>17. /\ r.id = q.task[t].id /\ r.used = q.task[t].used /\ r.user = q.task[t].user
       /\ r.wake = q.task[t].wake /\ r.kill = q.task[t].kill /\ r.state = q.task[t].state
       /\ r.cpu = NoCpu
  BY Zenon, <1>16 DEF TaskRec
<1>18. z.task = [q.task EXCEPT ![t] = r]
  BY Zenon, <1>3, <1>15 DEF SchedTyped, SchedState
<1> HIDE DEF r, z
<1>19. z.task[t] = r /\ \A u \in Tasks : u # t => z.task[u] = q.task[u]
  BY Zenon, <1>1, <1>16, <1>18
<1>20. \A u \in Tasks : u # t => Same(s.task[u], z.task[u]) /\ z.task[u].state = s.task[u].state
  BY <1>7, <1>8, <1>15, <1>19 DEF Same
<1>21. /\ z.task[t].id = s.task[t].id /\ z.task[t].used = s.task[t].used
       /\ z.task[t].user = s.task[t].user /\ z.task[t].wake = s.task[t].wake
       /\ z.task[t].cpu = NoCpu
       /\ z.task[t].kill = cl.task[t].kill
       /\ z.task[t].state = IF cl.task[t].state = "RUNNING" THEN "READY" ELSE cl.task[t].state
  <2>1. cl.task[t] = IF s.task[t].kill THEN kr ELSE s.task[t]
    BY Zenon, <1>7, <1>8
  <2>2. QED BY Zenon, <1>4, <1>15, <1>17, <1>19, <2>1 DEF Same
<1>22. /\ ~z.task[t].kill
       /\ s.task[t].kill => z.task[t].state = "DEAD"
       /\ ~s.task[t].kill => z.task[t].state = IF s.task[t].state = "RUNNING" THEN "READY"
                                               ELSE s.task[t].state
  BY Zenon, <1>4, <1>7, <1>8, <1>21
<1>23. QED BY Zenon, <1>20, <1>21, <1>22 DEF z

(***************************************************************************)
(* What a step may do to a task.                                           *)
(***************************************************************************)
Later(a, b) == b = a \/ (a = "ZOMBIE" /\ b = "DEAD") \/ (a = "DEAD" /\ b = "REAPING")

\* What a step does to a task other than the one that takes it.
Bystander(o, n) ==
  /\ o.state = "RUNNING" /\ o.cpu # NoCpu => n.state = "RUNNING"
  /\ n.state = "BLOCKED" => o.state = "BLOCKED"
  /\ n.state \in Gone => o.state \in Gone \/ "kill" \in Ops
  /\ o.wake => n.wake \/ "kill" \in Ops

\* Record o becomes n.  Role k is "own" for the task that takes the step, "victim"
\* and "cleared" for the one sched_reap_dead() picks and clears, "new" for the one
\* that is created, "none" otherwise.
Lawful(o, n, k) ==
  /\ o.used => n.used \/ k = "cleared"
  /\ n.kill => o.kill \/ "kill" \in Ops
  /\ ~o.used /\ n.used => /\ k = "new" /\ n.id = next_task_id /\ n.state \notin Gone
                          /\ n.user \/ "kthread" \in Ops
  /\ o.used /\ n.used =>
       /\ n.id = o.id /\ n.user = o.user
       /\ o.state \in Gone => Later(o.state, n.state)
       /\ Held(o) => n.state \in Gone \/ Held(n)
       /\ n.state = "REAPING" => o.state = "REAPING" \/ k = "victim"
       /\ k # "own" => Bystander(o, n)

\* The table after a step in which slot w has role k.
Lawfully(w, k) == \A u \in Slots : Lawful(task[u], task'[u], IF u = w THEN k ELSE "none")
Orderly == \A u \in Slots : Lawful(task[u], task'[u], "none")

LEMMA LawfulSame ==
  ASSUME NEW o, NEW n, Same(o, n), n.state = o.state, NEW k
  PROVE  Lawful(o, n, k)
BY Zenon DEF Lawful, Same, Bystander, Later, Held

LEMMA LawfulKeep ==
  ASSUME NEW o, NEW m, NEW n, NEW k, Lawful(o, m, k), Same(m, n), n.state = m.state
  PROVE  Lawful(o, n, k)
BY Zenon DEF Lawful, Same, Bystander, Held

LEMMA LawfulReady ==
  ASSUME NEW o, NEW m, NEW n, NEW k, Lawful(o, m, k), Same(m, n), n.state = "READY",
         m.state \notin Gone, o.used => o.state \notin Gone /\ (k = "own" \/ o.state = "BLOCKED")
  PROVE  Lawful(o, n, k)
<1>1. "READY" \notin Gone /\ "BLOCKED" \notin Gone
  BY Zenon DEF Gone
<1>2. Held(o) => Held(m) \/ m.state \in Gone \/ ~(o.used /\ m.used)
  BY Zenon DEF Lawful
<1>3. CASE o.used /\ n.used
  <2>1. m.used /\ o.state \notin Gone /\ (k = "own" \/ o.state = "BLOCKED")
    BY Zenon, <1>3 DEF Same
  <2>2. Held(o) => Held(n) \/ n.state \in Gone
    <3>1. Held(o) => Held(m) \/ m.state \in Gone
      BY Zenon, <1>2, <1>3, <2>1
    <3>2. QED BY Zenon, <3>1 DEF Same, Held, Lawful
  <2>3. QED BY Zenon, <1>1, <1>3, <2>1, <2>2 DEF Lawful, Same, Bystander
<1>4. CASE ~(o.used /\ n.used)
  BY Zenon, <1>1, <1>4 DEF Lawful, Same
<1>5. QED BY Zenon, <1>3, <1>4

LEMMA LawfulAny ==
  ASSUME NEW o, NEW n, NEW k, Lawful(o, n, "none")
  PROVE  Lawful(o, n, k)
BY Zenon DEF Lawful

LEMMA OrderlyAny ==
  ASSUME Orderly, NEW w, NEW k
  PROVE  Lawfully(w, k)
BY Zenon, LawfulAny DEF Orderly, Lawfully

LEMMA OrderlySame == ASSUME UNCHANGED task PROVE Orderly
<1>1. \A u \in Slots : task'[u] = task[u] /\ Same(task[u], task[u])
  BY Zenon DEF Same
<1>2. QED BY Zenon, <1>1, LawfulSame DEF Orderly

LEMMA LawfulRecord ==
  ASSUME TypeInv, NEW t \in Tasks, NEW r, task' = [task EXCEPT ![t] = r], NEW k,
         t \in Slots => Lawful(task[t], r, k)
  PROVE  Lawfully(t, k)
<1>1. task \in [Tasks -> TaskRec]
  BY Zenon, TaskTyped
<1>2. \A u \in Tasks : u # t => task'[u] = task[u]
  BY Zenon, <1>1
<1>3. task'[t] = r
  BY Zenon, <1>1
<1>4. \A u \in Tasks : Lawful(task[u], task[u], "none")
  <2>1. \A u \in Tasks : Same(task[u], task[u])
    BY Zenon DEF Same
  <2>2. QED BY Zenon, <2>1, LawfulSame
<1>5. QED BY Zenon, <1>2, <1>3, <1>4, SlotFacts DEF Lawfully

LEMMA NoneOrderly ==
  ASSUME NEW w, Lawfully(w, "none")
  PROVE  Orderly
BY Zenon DEF Lawfully, Orderly

LEMMA OrderlyRecord ==
  ASSUME TypeInv, NEW t \in Tasks, NEW r, task' = [task EXCEPT ![t] = r],
         t \in Slots => Lawful(task[t], r, "none")
  PROVE  Orderly
BY Zenon, LawfulRecord, NoneOrderly

\* A task is made ready, in a table that is lawful already.
LEMMA LawfulMake ==
  ASSUME NEW s, SchedTyped(s), NEW w, NEW k,
         \A u \in Slots : Lawful(task[u], s.task[u], IF u = w THEN k ELSE "none"),
         NEW t \in Tasks, NEW d \in Cpus, SetSched(MakeReady(s, t, d)),
         s.task[t].state \notin Gone, t \in Slots /\ task[t].used =>
           task[t].state \notin Gone /\ ((t = w /\ k = "own") \/ task[t].state = "BLOCKED")
  PROVE  Lawfully(w, k)
<1> DEFINE z == MakeReady(s, t, d)
<1>1. /\ \A u \in Tasks : Same(s.task[u], z.task[u])
      /\ \A u \in Tasks : u # t => z.task[u].state = s.task[u].state
      /\ z.task[t].state \in {s.task[t].state, "READY"}
  BY Zenon, MakeReadyCore
<1>2. task' = z.task
  BY Zenon DEF SetSched
<1> HIDE DEF z
<1>3. SUFFICES ASSUME NEW u \in Slots
               PROVE  Lawful(task[u], z.task[u], IF u = w THEN k ELSE "none")
  BY Zenon, <1>2 DEF Lawfully
<1>4. Same(s.task[u], z.task[u]) /\ Lawful(task[u], s.task[u], IF u = w THEN k ELSE "none")
  BY Zenon, <1>1, SlotFacts
<1>5. CASE z.task[u].state = s.task[u].state
  BY Zenon, <1>4, <1>5, LawfulKeep
<1>6. CASE z.task[u].state # s.task[u].state
  <2>1. u = t /\ z.task[u].state = "READY"
    BY Zenon, <1>1, <1>6, SlotFacts
  <2> DEFINE e == IF u = w THEN k ELSE "none"
  <2>2. task[u].used => task[u].state \notin Gone /\ (e = "own" \/ task[u].state = "BLOCKED")
    BY Zenon, <2>1
  <2> HIDE DEF e
  <2>3. Lawful(task[u], s.task[u], e)
    BY Zenon, <1>4 DEF e
  <2>4. Lawful(task[u], z.task[u], e)
    <3>1. s.task[u].state \notin Gone
      BY Zenon, <2>1
    <3>2. QED BY Zenon, <1>4, <2>1, <2>2, <2>3, <3>1, LawfulReady
  <2>5. QED BY Zenon, <2>4 DEF e
<1>7. QED BY Zenon, <1>5, <1>6

\* One record of Now changes.
LEMMA LawfulOne ==
  ASSUME TypeInv, NEW t \in Tasks, NEW r \in TaskRec, NEW k,
         t \in Slots => Lawful(task[t], r, k), t \notin Slots => r.id = task[t].id
  PROVE  LET s == [Now EXCEPT !.task[t] = r]
         IN /\ SchedTyped(s) /\ s.task = [task EXCEPT ![t] = r]
            /\ \A u \in Slots : Lawful(task[u], s.task[u], IF u = t THEN k ELSE "none")
<1> DEFINE s == [Now EXCEPT !.task[t] = r]
<1>1. SchedTyped(Now) /\ Now.task = task /\ task \in [Tasks -> TaskRec]
  BY Zenon, TaskTyped, NowTyped
<1>2. s.task = [task EXCEPT ![t] = r]
  BY Zenon DEF Now
<1>3. s.task[t] = r /\ \A u \in Tasks : u # t => s.task[u] = task[u]
  BY Zenon, <1>1, <1>2
<1>4. SchedTyped(s)
  <2>1. s.task \in [Tasks -> TaskRec]
    BY Zenon, <1>1, <1>2
  <2>2. \A e \in Cpus : s.task[e].id = e
    <3> TAKE e \in Cpus
    <3>1. e \in Tasks /\ e \notin Slots /\ task[e].id = e
      BY Zenon, SlotFacts, TaskTyped
    <3> HIDE DEF s
    <3>2. QED BY Zenon, <1>3, <3>1
  <2>3. QED BY Zenon, <2>1, <2>2, TaskTyped DEF Now, SchedTyped, SchedState
<1> HIDE DEF s
<1>5. \A u \in Tasks : Lawful(task[u], task[u], "none")
  <2>1. \A u \in Tasks : Same(task[u], task[u])
    BY Zenon DEF Same
  <2>2. QED BY Zenon, <2>1, LawfulSame
<1>6. \A u \in Slots : Lawful(task[u], s.task[u], IF u = t THEN k ELSE "none")
  BY Zenon, <1>3, <1>5, SlotFacts
<1>7. QED BY Zenon, <1>2, <1>4, <1>6 DEF s

\* Only the state of t changes.
OneState(s, z, t) ==
  /\ \A u \in Tasks : Same(s.task[u], z.task[u])
  /\ \A u \in Tasks : u # t => z.task[u].state = s.task[u].state

\* Taken off its queue, t gets state st.
LEMMA RemoveStateCore ==
  ASSUME NEW s, SchedTyped(s), NEW t \in Tasks, NEW st \in States
  PROVE  LET z == [RqRemove(s, t) EXCEPT !.task[t].state = st]
         IN OneState(s, z, t) /\ z.task[t].state = st
<1> DEFINE y == RqRemove(s, t)
           r == [y.task[t] EXCEPT !.state = st]
           z == [y EXCEPT !.task[t].state = st]
<1>1. SchedTyped(y) /\ SameCore(s, y)
  BY Zenon, RqRemoveTyped, RemoveCore
<1> HIDE DEF y
<1>2. y.task \in [Tasks -> TaskRec] /\ y.task[t] \in TaskRec
  BY Zenon, <1>1, TypedTask, StateFields DEF SchedTyped
<1>3. Same(y.task[t], r) /\ r.state = st
  BY Zenon, <1>2 DEF TaskRec, Same
<1>4. z.task = [y.task EXCEPT ![t] = r]
  BY Zenon, <1>1 DEF SchedTyped, SchedState
<1> HIDE DEF r, z
<1>5. z.task[t] = r /\ \A u \in Tasks : u # t => z.task[u] = y.task[u]
  BY Zenon, <1>2, <1>4
<1>6. QED BY <1>1, <1>3, <1>5 DEF OneState, SameCore, Same, z, y

LEMMA ParentLaw ==
  ASSUME TypeInv, NEW c \in Cpus, RegisterInit(c) \/ AdoptTask(c) \/ CloneParent(c)
  PROVE  Orderly
<1> DEFINE t == Top(c).arg
<1>1. /\ Top(c).at \in SlotAt
      /\ \E p : task' = [task EXCEPT ![t].parent = p]
  <2>1. CASE RegisterInit(c)
    BY Zenon, <2>1 DEF RegisterInit, In, SlotAt
  <2>2. CASE AdoptTask(c)
    BY Zenon, <2>2 DEF AdoptTask, In, SlotAt
  <2>3. CASE CloneParent(c)
    BY Zenon, <2>3 DEF CloneParent, In, SlotAt
  <2>4. QED BY Zenon, <2>1, <2>2, <2>3
<1>2. t \in Tasks /\ task[t] \in TaskRec
  BY Zenon, <1>1, TopFacts, TaskTyped
<1>3. PICK p : task' = [task EXCEPT ![t].parent = p]
  BY Zenon, <1>1
<1> DEFINE r == [task[t] EXCEPT !.parent = p]
<1>4. task' = [task EXCEPT ![t] = r]
  BY Zenon, <1>3
<1>5. Same(task[t], r) /\ r.state = task[t].state
  BY Zenon, <1>2 DEF TaskRec, Same
<1> HIDE DEF r, t
<1>6. QED BY Zenon, <1>2, <1>4, <1>5, LawfulSame, OrderlyRecord

LEMMA ReapLaw ==
  ASSUME TypeInv, NEW c \in Cpus
  PROVE  /\ ReapVictim(c) => \E v \in Slots : Reapable(v) /\ Lawfully(v, "victim")
                                                /\ Become(c, "cleanup", v)
                                                /\ task'[v].state = "REAPING"
         /\ ReapClear(c) => Lawfully(Top(c).arg, "cleared") /\ ~task'[Top(c).arg].used
<1>1. ASSUME ReapVictim(c)
      PROVE  \E v \in Slots : Reapable(v) /\ Lawfully(v, "victim") /\ Become(c, "cleanup", v)
                              /\ task'[v].state = "REAPING"
  <2>1. PICK t \in Slots : /\ Reapable(t)
                           /\ SetSched([RqRemove(Now, t) EXCEPT !.task[t].state = "REAPING"])
                           /\ Become(c, "cleanup", t)
    BY Zenon, <1>1 DEF ReapVictim
  <2> DEFINE z == [RqRemove(Now, t) EXCEPT !.task[t].state = "REAPING"]
  <2>2. t \in Tasks /\ "REAPING" \in States
    BY Zenon, SlotFacts DEF States
  <2>3. OneState(Now, z, t) /\ z.task[t].state = "REAPING"
    <3>1. SchedTyped(Now)
      BY Zenon, NowTyped
    <3>2. QED BY Zenon, <2>2, <3>1, RemoveStateCore
  <2>4. task' = z.task /\ Now.task = task
    BY Zenon, <2>1, NowTyped DEF SetSched
  <2> HIDE DEF z
  <2>5. Lawful(task[t], task'[t], "victim")
    <3>1. Same(task[t], task'[t]) /\ task'[t].state = "REAPING"
      BY Zenon, <2>2, <2>3, <2>4 DEF OneState
    <3>2. task[t].used /\ task[t].state = "DEAD" /\ task[t].cpu = NoCpu
      BY Zenon, <2>1 DEF Reapable
    <3>3. QED BY Zenon, <3>1, <3>2 DEF Lawful, Same, Later, Held, Bystander, Gone
  <2>6. \A u \in Slots : u # t => Lawful(task[u], task'[u], "none")
    <3> TAKE u \in Slots
    <3>1. u # t => Same(task[u], task'[u]) /\ task'[u].state = task[u].state
      BY Zenon, <2>3, <2>4, SlotFacts DEF OneState
    <3>2. QED BY Zenon, <3>1, LawfulSame
  <2>7. QED BY Zenon, <2>1, <2>3, <2>4, <2>5, <2>6 DEF Lawfully
<1>2. ASSUME ReapClear(c) PROVE Lawfully(Top(c).arg, "cleared") /\ ~task'[Top(c).arg].used
  <2>1. Top(c).arg \in Tasks /\ task' = [task EXCEPT ![Top(c).arg] = Cleared]
    BY Zenon, <1>2, TopFacts DEF ReapClear, In, SlotAt
  <2>2. ~Cleared.used /\ ~Cleared.kill
    BY Zenon DEF Cleared
  <2>3. Lawful(task[Top(c).arg], Cleared, "cleared")
    BY Zenon, <2>2 DEF Lawful
  <2>4. Lawfully(Top(c).arg, "cleared")
    BY Zenon, <2>1, <2>3, LawfulRecord
  <2>5. QED BY Zenon, <2>1, <2>2, <2>4, TaskTyped
<1>3. QED BY Zenon, <1>1, <1>2

LEMMA WakeLaw ==
  ASSUME TypeInv, NEW c \in Cpus, WakeTask(c) \/ UnparkTask(c)
  PROVE  Orderly
<1> DEFINE t == Top(c).arg
<1>1. Top(c).at \in SlotAt
  BY Zenon DEF WakeTask, UnparkTask, In, SlotAt
<1>2. t \in Tasks /\ task[t] \in TaskRec /\ task \in [Tasks -> TaskRec]
  BY Zenon, <1>1, TopFacts, TaskTyped
<1>3. \/ UNCHANGED lockVars
      \/ task[t].state = "BLOCKED" /\ \E d \in LeastLoaded(Now) : SetSched(MakeReady(Now, t, d))
      \/ SetSched([Now EXCEPT !.task[t].wake = TRUE])
  BY Zenon DEF WakeTask, UnparkTask
<1>4. CASE UNCHANGED lockVars
  BY Zenon, <1>4, OrderlySame DEF lockVars
<1>5. CASE task[t].state = "BLOCKED" /\ \E d \in LeastLoaded(Now) : SetSched(MakeReady(Now, t, d))
  <2>1. PICK d \in LeastLoaded(Now) : SetSched(MakeReady(Now, t, d))
    BY Zenon, <1>5
  <2>2. d \in Cpus
    BY Zenon DEF LeastLoaded
  <2>3. task[t].state = "BLOCKED" /\ task[t].state \notin Gone
    BY Zenon, <1>5 DEF Gone
  <2> HIDE DEF t
  <2>4. SchedTyped(Now) /\ Now.task = task
    BY Zenon, NowTyped
  <2>5. \A u \in Slots : Lawful(task[u], Now.task[u], IF u = t THEN "none" ELSE "none")
    <3>1. \A u \in Slots : Same(task[u], task[u])
      BY Zenon DEF Same
    <3>2. QED BY Zenon, <2>4, <3>1, LawfulSame
  <2>6. Lawfully(t, "none")
    BY Zenon, <1>2, <2>1, <2>2, <2>3, <2>4, <2>5, LawfulMake
  <2>7. QED BY Zenon, <2>6, NoneOrderly
<1>6. CASE SetSched([Now EXCEPT !.task[t].wake = TRUE])
  <2> DEFINE r == [task[t] EXCEPT !.wake = TRUE]
  <2>1. task' = [task EXCEPT ![t] = r]
    BY Zenon, <1>2, <1>6 DEF SetSched, Now
  <2>2. /\ r.id = task[t].id /\ r.used = task[t].used /\ r.user = task[t].user
        /\ r.kill = task[t].kill /\ r.wake /\ r.cpu = task[t].cpu /\ r.state = task[t].state
    BY Zenon, <1>2 DEF TaskRec
  <2> HIDE DEF r, t
  <2>3. task[t].used => Lawful(task[t], r, "none")
    BY Zenon, <2>2 DEF Lawful, Bystander, Later, Held
  <2>4. ~task[t].used => Lawful(task[t], r, "none")
    BY Zenon, <2>2 DEF Lawful
  <2>5. QED BY Zenon, <1>2, <2>1, <2>3, <2>4, OrderlyRecord
<1>7. QED BY Zenon, <1>3, <1>4, <1>5, <1>6

LEMMA TickLaw ==
  ASSUME TypeInv, TickSlot
  PROVE  Orderly
<1>1. PICK t \in Sleepers(tickat) :
        LET s == [Now EXCEPT !.task[t].sleep = @ - 1]
        IN IF s.task[t].sleep = 0
           THEN \E d \in LeastLoaded(s) : SetSched(MakeReady(s, t, d))
           ELSE SetSched(s)
  BY Zenon DEF TickSlot
<1>2. t \in Tasks /\ task[t].used /\ task[t].state = "BLOCKED" /\ task[t].sleep > 0
  BY Zenon, SlotFacts DEF Sleepers
<1>3. task[t] \in TaskRec
  BY Zenon, <1>2, TaskTyped
<1>4. PICK n \in Nat : n = task[t].sleep - 1
  BY <1>2, <1>3 DEF TaskRec
<1> DEFINE r == [task[t] EXCEPT !.sleep = n]
           s == [Now EXCEPT !.task[t] = r]
<1>5. [Now EXCEPT !.task[t].sleep = @ - 1] = s
  BY Zenon, <1>4 DEF Now
<1>6. r \in TaskRec /\ Same(task[t], r) /\ r.state = task[t].state
  BY Zenon, <1>3 DEF TaskRec, Same
<1>7. (\E d \in LeastLoaded(s) : SetSched(MakeReady(s, t, d))) \/ SetSched(s)
  BY Zenon, <1>1, <1>5
<1> HIDE DEF r
<1>8. Lawful(task[t], r, "none") /\ r.id = task[t].id
  BY Zenon, <1>6, LawfulSame DEF Same
<1>9. /\ SchedTyped(s) /\ s.task = [task EXCEPT ![t] = r]
      /\ \A u \in Slots : Lawful(task[u], s.task[u], IF u = t THEN "none" ELSE "none")
  BY Zenon, <1>2, <1>6, <1>8, LawfulOne
<1> HIDE DEF s
<1>10. CASE \E d \in LeastLoaded(s) : SetSched(MakeReady(s, t, d))
  <2>1. PICK d \in LeastLoaded(s) : SetSched(MakeReady(s, t, d))
    BY Zenon, <1>10
  <2>2. d \in Cpus /\ task[t].state \notin Gone
    BY Zenon, <1>2 DEF LeastLoaded, Gone
  <2>3. s.task[t] = r
    BY Zenon, <1>2, <1>9, TaskTyped
  <2>4. s.task[t].state \notin Gone
    BY Zenon, <1>6, <2>2, <2>3
  <2>5. Lawfully(t, "none")
    BY Zenon, <1>2, <1>9, <2>1, <2>2, <2>4, LawfulMake
  <2>6. QED BY Zenon, <2>5, NoneOrderly
<1>11. CASE SetSched(s)
  BY Zenon, <1>9, <1>11 DEF SetSched, Orderly
<1>12. QED BY Zenon, <1>7, <1>10, <1>11

LEMMA KillLaw ==
  ASSUME TypeInv, NEW c \in Cpus, KillTask(c)
  PROVE  Orderly
<1>1. PICK t \in Slots : Killable(c, t) /\ task' = [task EXCEPT ![t] = Killed(t)]
  BY Zenon DEF KillTask
<1>2. t \in Tasks /\ task[t] \in TaskRec /\ "kill" \in Ops
  BY Zenon, TaskTyped, SlotFacts DEF KillTask
<1> DEFINE r == Killed(t)
<1>3. /\ r.id = task[t].id /\ r.used = task[t].used /\ r.user = task[t].user /\ r.cpu = task[t].cpu
      /\ \/ task[t].state = "RUNNING" /\ task[t].cpu # NoCpu /\ r.kill /\ r.state = "RUNNING"
         \/ ~(task[t].state = "RUNNING" /\ task[t].cpu # NoCpu) /\ r.state = "DEAD"
  BY Zenon, <1>2 DEF Killed, TaskRec
<1>4. task[t].used /\ task[t].state \notin Gone
  BY Zenon, <1>1 DEF Killable
<1> HIDE DEF r
<1>5. Lawful(task[t], r, "none")
  BY Zenon, <1>2, <1>3, <1>4 DEF Lawful, Held, Bystander, Gone
<1>6. task' = [task EXCEPT ![t] = r]
  BY Zenon, <1>1 DEF r
<1>7. QED BY Zenon, <1>2, <1>5, <1>6, OrderlyRecord

LEMMA CreateLaw ==
  ASSUME TypeInv, SafeInv, NEW c \in Cpus,
         TaskCreate(c) \/ \E at \in At : TaskCreateUser(c, at)
  PROVE  \E t \in FreeSlot : NewContext(t) /\ Lawfully(t, "new")
<1>1. ASSUME NEW t \in FreeSlot
      PROVE  t \in Slots /\ t \in Tasks /\ ~task[t].used /\ task[t] \in TaskRec
             /\ task[t].state = "RUNNING"
  <2>1. t \in Slots /\ t \in Tasks /\ ~task[t].used
    BY Zenon, <1>1, CreatedTyped
  <2>2. TableOK
    BY Zenon DEF SafeInv
  <2>3. task[t].state = "RUNNING"
    BY Zenon, <2>1, <2>2 DEF TableOK
  <2>4. task[t] \in TaskRec
    BY Zenon, <2>1, TaskTyped
  <2>5. QED BY Zenon, <2>1, <2>3, <2>4
<1>2. CASE TaskCreate(c)
  <2> DEFINE y(t) == [Now EXCEPT !.task[t] = Created(t, FALSE)]
  <2>1. PICK t \in FreeSlot : NewContext(t) /\ \E d \in LeastLoaded(y(t)) : SetSched(MakeReady(y(t), t, d))
    BY <1>2, Zenon DEF TaskCreate
  <2> DEFINE r == Created(t, FALSE)
             s == [Now EXCEPT !.task[t] = r]
  <2>2. t \in Slots /\ t \in Tasks /\ ~task[t].used /\ task[t] \in TaskRec
        /\ task[t].state = "RUNNING"
    BY Zenon, <1>1
  <2>3. r \in TaskRec
    BY Zenon, CreatedTyped
  <2>4. r.id = next_task_id /\ r.state = "RUNNING" /\ r.kill = task[t].kill
    BY Zenon, <2>2 DEF Created, TaskRec
  <2>5. "kthread" \in Ops
    BY Zenon, <1>2 DEF TaskCreate
  <2>6. PICK d \in LeastLoaded(s) : SetSched(MakeReady(s, t, d))
    BY Zenon, <2>1
  <2> HIDE DEF r
  <2>7. Lawful(task[t], r, "new")
    BY Zenon, <2>2, <2>4, <2>5 DEF Lawful, Gone
  <2>8. /\ SchedTyped(s) /\ s.task = [task EXCEPT ![t] = r]
        /\ \A u \in Slots : Lawful(task[u], s.task[u], IF u = t THEN "new" ELSE "none")
    BY Zenon, <2>2, <2>3, <2>7, LawfulOne
  <2> HIDE DEF s
  <2>9. s.task[t] = r
    BY Zenon, <2>2, <2>8, TaskTyped
  <2>10. d \in Cpus /\ s.task[t].state \notin Gone
    BY Zenon, <2>4, <2>9 DEF LeastLoaded, Gone
  <2>11. Lawfully(t, "new")
    BY Zenon, <2>2, <2>6, <2>8, <2>10, LawfulMake
  <2>12. QED BY Zenon, <2>1, <2>11
<1>3. CASE \E at \in At : TaskCreateUser(c, at)
  <2>1. PICK t \in FreeSlot : NewContext(t) /\
          task' = [task EXCEPT ![t] = [Created(t, TRUE) EXCEPT !.state = "BLOCKED"]]
    BY <1>3, Zenon DEF TaskCreateUser
  <2> DEFINE r == [Created(t, TRUE) EXCEPT !.state = "BLOCKED"]
  <2>2. t \in Slots /\ t \in Tasks /\ ~task[t].used /\ task[t] \in TaskRec
    BY Zenon, <1>1
  <2>3. r.id = next_task_id /\ r.state = "BLOCKED" /\ r.kill = task[t].kill /\ r.user
    BY Zenon, <2>2 DEF Created, TaskRec
  <2>4. task' = [task EXCEPT ![t] = r]
    BY Zenon, <2>1
  <2> HIDE DEF r
  <2>5. Lawful(task[t], r, "new")
    BY Zenon, <2>2, <2>3 DEF Lawful, Gone
  <2>6. Lawfully(t, "new")
    BY Zenon, <2>2, <2>4, <2>5, LawfulRecord
  <2>7. QED BY Zenon, <2>1, <2>6
<1>4. QED BY Zenon, <1>2, <1>3

\* A task that calls the kernel is RUNNING.
LEMMA RunningAt ==
  ASSUME LeavingOK, NEW c \in Cpus, cur[c] \in Slots, Top(c).at \notin SchedAt
  PROVE  task[cur[c]].state = "RUNNING"
BY Zenon DEF LeavingOK

LEMMA ParkLaw ==
  ASSUME TypeInv, NEW c \in Cpus, ParkTask(c)
  PROVE  Lawfully(cur[c], "own")
<1> DEFINE t == cur[c]
<1>1. t \in Tasks /\ task[t] \in TaskRec
  BY Zenon, MeTyped
<1>2. \/ UNCHANGED task
      \/ task' = [task EXCEPT ![t].wake = FALSE]
      \/ /\ task[t].state \notin Gone /\ ~task[t].kill
         /\ task' = [task EXCEPT ![t].state = "BLOCKED"]
  BY Zenon DEF ParkTask
<1>3. CASE UNCHANGED task
  BY Zenon, <1>3, OrderlySame, OrderlyAny
<1>4. CASE task' = [task EXCEPT ![t].wake = FALSE]
  <2> DEFINE r == [task[t] EXCEPT !.wake = FALSE]
  <2>1. task' = [task EXCEPT ![t] = r]
    BY Zenon, <1>4
  <2>2. /\ r.id = task[t].id /\ r.used = task[t].used /\ r.user = task[t].user
        /\ r.kill = task[t].kill /\ r.cpu = task[t].cpu /\ r.state = task[t].state
    BY Zenon, <1>1 DEF TaskRec
  <2> HIDE DEF r, t
  <2>3. Lawful(task[t], r, "own")
    BY Zenon, <2>2 DEF Lawful, Later, Held
  <2>4. Lawfully(t, "own")
    BY Zenon, <1>1, <2>1, <2>3, LawfulRecord
  <2>5. QED BY Zenon, <2>4 DEF t
<1>5. CASE /\ task[t].state \notin Gone /\ ~task[t].kill
           /\ task' = [task EXCEPT ![t].state = "BLOCKED"]
  <2> DEFINE r == [task[t] EXCEPT !.state = "BLOCKED"]
  <2>1. task' = [task EXCEPT ![t] = r]
    BY Zenon, <1>5
  <2>2. /\ r.id = task[t].id /\ r.used = task[t].used /\ r.user = task[t].user
        /\ r.kill = task[t].kill /\ r.cpu = task[t].cpu /\ r.state = "BLOCKED"
    BY Zenon, <1>1 DEF TaskRec
  <2> HIDE DEF r, t
  <2>3. Lawful(task[t], r, "own")
    BY Zenon, <1>5, <2>2 DEF Lawful, Held, Gone
  <2>4. Lawfully(t, "own")
    BY Zenon, <1>1, <2>1, <2>3, LawfulRecord
  <2>5. QED BY Zenon, <2>4 DEF t
<1>6. QED BY Zenon, <1>2, <1>3, <1>4, <1>5

LEMMA WaitLaw ==
  ASSUME TypeInv, LeavingOK, NEW c \in Cpus, Wait4Scan(c)
  PROVE  /\ Lawfully(cur[c], "own")
         /\ ~Call(c, "reap", 0) => Orderly
<1>1. cur[c] \in Tasks /\ \A t \in Tasks : task[t] \in TaskRec
  BY Zenon, MeTyped, TaskTyped
<1>2. \/ (\E t \in Tasks : task[t].used /\ task[t].state = "ZOMBIE"
                          /\ task' = [task EXCEPT ![t].state = "DEAD"])
      \/ UNCHANGED task
      \/ task' = [task EXCEPT ![cur[c]].state = "BLOCKED"] /\ Call(c, "reap", 0)
  BY Zenon DEF Wait4Scan, Children
<1>3. CASE UNCHANGED task
  BY Zenon, <1>3, OrderlySame, OrderlyAny
<1>4. CASE \E t \in Tasks : task[t].used /\ task[t].state = "ZOMBIE"
                            /\ task' = [task EXCEPT ![t].state = "DEAD"]
  <2>1. PICK t \in Tasks : task[t].used /\ task[t].state = "ZOMBIE"
                           /\ task' = [task EXCEPT ![t].state = "DEAD"]
    BY Zenon, <1>4
  <2> DEFINE r == [task[t] EXCEPT !.state = "DEAD"]
  <2>2. task' = [task EXCEPT ![t] = r]
    BY Zenon, <2>1
  <2>3. Same(task[t], r) /\ r.state = "DEAD"
    BY Zenon, <1>1 DEF TaskRec, Same
  <2> HIDE DEF r
  <2>4. Lawful(task[t], r, "none")
    BY Zenon, <2>1, <2>3 DEF Lawful, Same, Later, Held, Bystander, Gone
  <2>5. Orderly
    BY Zenon, <2>2, <2>4, OrderlyRecord
  <2>6. QED BY Zenon, <2>5, OrderlyAny
<1>5. CASE task' = [task EXCEPT ![cur[c]].state = "BLOCKED"] /\ Call(c, "reap", 0)
  <2>1. PICK t \in Tasks : t = cur[c]
    BY Zenon, <1>1
  <2> DEFINE r == [task[t] EXCEPT !.state = "BLOCKED"]
  <2>2. task' = [task EXCEPT ![t] = r]
    BY Zenon, <1>5, <2>1
  <2>3. Same(task[t], r) /\ r.state = "BLOCKED"
    BY Zenon, <1>1 DEF TaskRec, Same
  <2> HIDE DEF r
  <2>4. t \in Slots => task[t].state = "RUNNING"
    <3>1. Top(c).at \notin SchedAt
      BY Zenon DEF Wait4Scan, In, SchedAt
    <3>2. QED BY Zenon, <2>1, <3>1, RunningAt
  <2>5. t \in Slots => Lawful(task[t], r, "own")
    BY Zenon, <2>3, <2>4 DEF Lawful, Same, Held, Gone
  <2>6. Lawfully(t, "own")
    BY Zenon, <2>2, <2>5, LawfulRecord
  <2>7. QED BY Zenon, <1>5, <2>1, <2>6
<1>6. QED BY Zenon, <1>2, <1>3, <1>4, <1>5

LEMMA SleepLaw ==
  ASSUME TypeInv, NEW c \in Cpus, SleepCurrent(c)
  PROVE  Lawfully(cur[c], "own")
<1>1. PICK t \in Tasks : t = cur[c] /\ task[t] \in TaskRec
  BY Zenon, MeTyped
<1>2. PICK seconds \in 0 .. MaxSleep :
        LET s == [Now EXCEPT !.task[t].sleep = 2 * seconds]
        IN IF seconds = 0
           THEN \E d \in LeastLoaded(s) : SetSched(MakeReady(s, t, d))
           ELSE SetSched([RqRemove(s, t) EXCEPT !.task[t].state = "BLOCKED"])
  BY Zenon, <1>1 DEF SleepCurrent
<1>3. PICK n \in Nat : n = 2 * seconds
  BY ConstantsOK
<1>4. task[t].state \notin Gone /\ ~task[t].kill
  BY Zenon, <1>1 DEF SleepCurrent
<1> DEFINE r == [task[t] EXCEPT !.sleep = n]
           s == [Now EXCEPT !.task[t] = r]
<1>5. [Now EXCEPT !.task[t].sleep = 2 * seconds] = s
  BY Zenon, <1>3 DEF Now
<1>6. r \in TaskRec /\ Same(task[t], r) /\ r.state = task[t].state
  BY Zenon, <1>1 DEF TaskRec, Same
<1>7. \/ \E d \in LeastLoaded(s) : SetSched(MakeReady(s, t, d))
      \/ SetSched([RqRemove(s, t) EXCEPT !.task[t].state = "BLOCKED"])
  BY Zenon, <1>2, <1>5
<1> HIDE DEF r
<1>8. Lawful(task[t], r, "own") /\ r.id = task[t].id
  BY Zenon, <1>6, LawfulSame DEF Same
<1>9. /\ SchedTyped(s) /\ s.task = [task EXCEPT ![t] = r]
      /\ \A u \in Slots : Lawful(task[u], s.task[u], IF u = t THEN "own" ELSE "none")
  BY Zenon, <1>6, <1>8, LawfulOne
<1> HIDE DEF s
<1>10. s.task[t] = r
  BY Zenon, <1>9, TaskTyped
<1>11. CASE \E d \in LeastLoaded(s) : SetSched(MakeReady(s, t, d))
  <2>1. PICK d \in LeastLoaded(s) : SetSched(MakeReady(s, t, d))
    BY Zenon, <1>11
  <2>2. d \in Cpus /\ s.task[t].state \notin Gone
    BY Zenon, <1>4, <1>6, <1>10 DEF LeastLoaded
  <2>3. Lawfully(t, "own")
    BY Zenon, <1>4, <1>9, <2>1, <2>2, LawfulMake
  <2>4. QED BY Zenon, <1>1, <2>3
<1>12. CASE SetSched([RqRemove(s, t) EXCEPT !.task[t].state = "BLOCKED"])
  <2> DEFINE z == [RqRemove(s, t) EXCEPT !.task[t].state = "BLOCKED"]
  <2>1. "BLOCKED" \in States
    BY Zenon DEF States
  <2>2. OneState(s, z, t) /\ z.task[t].state = "BLOCKED"
    <3>1. SchedTyped(s)
      BY Zenon, <1>9
    <3>2. QED BY Zenon, <2>1, <3>1, RemoveStateCore
  <2>3. task' = z.task
    BY Zenon, <1>12 DEF SetSched
  <2> HIDE DEF z
  <2>4. Same(s.task[t], task'[t]) /\ task'[t].state = "BLOCKED"
    BY Zenon, <2>2, <2>3 DEF OneState
  <2>5. Lawful(task[t], task'[t], "own")
    <3>1. Same(task[t], task'[t])
      BY Zenon, <1>6, <1>10, <2>4 DEF Same
    <3>2. QED BY Zenon, <1>4, <2>4, <3>1 DEF Lawful, Same, Held, Gone
  <2>6. \A u \in Slots : u # t => Lawful(task[u], task'[u], "none")
    <3> TAKE u \in Slots
    <3> HAVE u # t
    <3>1. Same(s.task[u], task'[u]) /\ task'[u].state = s.task[u].state
      BY Zenon, <2>2, <2>3, SlotFacts DEF OneState
    <3>2. Lawful(task[u], s.task[u], "none")
      BY Zenon, <1>9
    <3>3. QED BY Zenon, <3>1, <3>2, LawfulKeep
  <2>7. Lawfully(t, "own")
    BY Zenon, <2>5, <2>6 DEF Lawfully
  <2>8. QED BY Zenon, <1>1, <2>7
<1>13. QED BY Zenon, <1>7, <1>11, <1>12

LEMMA ExitLaw ==
  ASSUME TypeInv, LeavingOK, NEW c \in Cpus, TaskExit(c)
  PROVE  Lawfully(cur[c], "own")
<1> DEFINE t == cur[c]
           me == task[t]
           parents == {p \in Tasks : task[p].used /\ task[p].id = me.parent}
           last == IF parents = {} \/ me.id = init_task_id THEN "DEAD" ELSE "ZOMBIE"
           e(u) == IF u = t THEN [me EXCEPT !.state = last]
                   ELSE IF task[u].used /\ task[u].parent = me.id
                   THEN [task[u] EXCEPT !.parent = init_task_id]
                   ELSE task[u]
           tk == [u \in Tasks |-> e(u)]
           s == [Now EXCEPT !.task = tk]
           blocked == {p \in parents : s.task[p].state = "BLOCKED"}
<1>1. IF blocked = {} THEN SetSched(s)
      ELSE \E p \in blocked, d \in LeastLoaded(s) : SetSched(MakeReady(s, p, d))
  BY Zenon DEF TaskExit
<1>2. t \in Tasks /\ \A u \in Tasks : task[u] \in TaskRec
  BY Zenon, TopFacts, TaskTyped
<1>3. last \in {"DEAD", "ZOMBIE"} /\ init_task_id \in Nat \cup {NoParent}
  BY Zenon DEF TypeInv, IdsTyped
<1>4. task[t].state = "RUNNING"
  <2>1. cur[c] \in Slots /\ Top(c).at \notin SchedAt
    BY Zenon DEF TaskExit, IsTask, In, SchedAt
  <2>2. QED BY Zenon, <2>1, RunningAt
<1> HIDE DEF last
<1>5. LET r == [task[t] EXCEPT !.state = last]
      IN /\ r \in TaskRec /\ r.id = task[t].id /\ Lawful(task[t], r, "own")
         /\ r.state # "BLOCKED"
  <2> DEFINE r == [task[t] EXCEPT !.state = last]
  <2>1. task[t] \in TaskRec
    BY Zenon, <1>2
  <2>2. r \in TaskRec /\ Same(task[t], r) /\ r.state = last
    BY Zenon, <1>3, <2>1 DEF TaskRec, States, Same
  <2> HIDE DEF r
  <2>3. Lawful(task[t], r, "own")
    BY Zenon, <1>3, <1>4, <2>2 DEF Lawful, Same, Gone, Held
  <2>4. r.id = task[t].id /\ r.state # "BLOCKED"
    BY Zenon, <1>3, <2>2 DEF Same
  <2>5. QED BY Zenon, <2>2, <2>3, <2>4 DEF r
<1>6. \A u \in Tasks : LET r == [task[u] EXCEPT !.parent = init_task_id]
                       IN /\ r \in TaskRec /\ r.id = task[u].id /\ Lawful(task[u], r, "none")
                          /\ r.state = task[u].state
  <2> TAKE u \in Tasks
  <2> DEFINE r == [task[u] EXCEPT !.parent = init_task_id]
  <2>1. task[u] \in TaskRec
    BY Zenon, <1>2
  <2>2. r \in TaskRec /\ Same(task[u], r) /\ r.state = task[u].state
    BY Zenon, <1>3, <2>1 DEF TaskRec, Same
  <2> HIDE DEF r
  <2>3. Lawful(task[u], r, "none") /\ r.id = task[u].id
    BY Zenon, <2>2, LawfulSame DEF Same
  <2>4. QED BY Zenon, <2>2, <2>3 DEF r
<1>7. \A u \in Tasks : Lawful(task[u], task[u], "none")
  <2>1. \A u \in Tasks : Same(task[u], task[u])
    BY Zenon DEF Same
  <2>2. QED BY Zenon, <2>1, LawfulSame
<1>8. \A u \in Tasks : /\ e(u) \in TaskRec /\ e(u).id = task[u].id
                       /\ Lawful(task[u], e(u), IF u = t THEN "own" ELSE "none")
                       /\ e(u).state = "BLOCKED" => task[u].state = "BLOCKED"
  BY SMTT(30), <1>2, <1>5, <1>6, <1>7
<1> HIDE DEF e
<1>9. tk \in [Tasks -> TaskRec] /\ \A u \in Tasks : tk[u] = e(u)
  BY Zenon, <1>8
<1> HIDE DEF tk
<1>10. s.task = tk
  BY Zenon DEF Now
<1>11. SchedTyped(s)
  BY Zenon, <1>8, <1>9, TaskTyped, SlotFacts DEF Now, SchedTyped, SchedState
<1>12. \A p \in blocked : p \in Tasks /\ s.task[p].state = "BLOCKED" /\ task[p].state = "BLOCKED"
  <2>1. \A p \in blocked : p \in Tasks /\ s.task[p].state = "BLOCKED"
    BY Zenon
  <2> HIDE DEF s, blocked
  <2>2. QED BY SMTT(30), <1>8, <1>9, <1>10, <2>1
<1> HIDE DEF s, blocked
<1>13. \A u \in Slots : Lawful(task[u], s.task[u], IF u = t THEN "own" ELSE "none")
  BY SMTT(30), <1>8, <1>9, <1>10, SlotFacts
<1>14. CASE SetSched(s)
  BY SMTT(30), <1>13, <1>14 DEF SetSched, Lawfully
<1>15. CASE \E p \in blocked, d \in LeastLoaded(s) : SetSched(MakeReady(s, p, d))
  <2>1. PICK p \in blocked, d \in LeastLoaded(s) : SetSched(MakeReady(s, p, d))
    BY Zenon, <1>15
  <2>2. d \in Cpus
    BY Zenon DEF LeastLoaded
  <2>3. p \in Tasks /\ s.task[p].state \notin Gone /\ task[p].state \notin Gone
        /\ task[p].state = "BLOCKED"
    BY SMTT(30), <1>12 DEF Gone
  <2> HIDE DEF t
  <2>4. Lawfully(t, "own")
    BY Zenon, <1>11, <1>13, <2>1, <2>2, <2>3, LawfulMake
  <2>5. QED BY Zenon, <2>4 DEF t
<1>16. QED BY Zenon, <1>1, <1>14, <1>15

LEMMA OutgoingIdle ==
  ASSUME NEW s, SchedTyped(s), NEW t \in Cpus, NEW c \in Cpus
  PROVE  Outgoing(s, t, c).task = s.task
<1>1. s.task[t].id = t /\ t < NCpus /\ t \in Nat /\ NCpus \in Nat
  BY Zenon, SlotFacts, ConstantsOK DEF SchedTyped
<1>2. s.task[t].id < NCpus /\ ~(s.task[t].id >= NCpus)
  BY <1>1
<1>3. Outgoing(s, t, c) = [s EXCEPT !.need[c] = FALSE]
  BY Zenon, <1>2 DEF Outgoing
<1>4. QED BY Zenon, <1>3 DEF SchedTyped, SchedState

\* schedule() switches from prev to n.
LEMMA SwitchLaw ==
  ASSUME TypeInv, SafeInv, NEW c \in Cpus, Switch(c)
  PROVE  /\ Lawfully(cur[c], "own")
         /\ \E n \in Tasks :
              /\ cur' = [cur EXCEPT ![c] = n]
              /\ IF n = cur[c] THEN Return(c) /\ UNCHANGED saved
                 ELSE saved' = [saved EXCEPT ![cur[c]] = Below(c)] /\ Goto(c, saved[n])
              /\ n \in Slots => task'[n].state = "RUNNING" /\ task'[n].used
              /\ n # cur[c] => /\ n = c \/ (n \in Slots /\ task[n].state = "READY")
                               /\ cur[c] \in Slots /\ ~task[cur[c]].kill
                                  => /\ task'[cur[c]].wake = task[cur[c]].wake
                                     /\ task'[cur[c]].state = IF task[cur[c]].state = "RUNNING"
                                                              THEN "READY" ELSE task[cur[c]].state
<1>1. PICK p \in PickNext(Outgoing(Now, cur[c], c), c) :
        /\ SetSched([p.s EXCEPT !.task[p.next] = [@ EXCEPT !.state = "RUNNING", !.cpu = c]])
        /\ cur' = [cur EXCEPT ![c] = p.next]
        /\ IF p.next = cur[c] THEN Return(c) /\ UNCHANGED saved
           ELSE /\ saved' = [saved EXCEPT ![cur[c]] = Below(c)]
                /\ Goto(c, saved[p.next])
  BY Zenon DEF Switch
<1>2. PICK n, prev, y : n = p.next /\ prev = cur[c] /\ y = Outgoing(Now, cur[c], c)
  BY Zenon
<1>3. SchedTyped(Now) /\ Now.task = task /\ prev \in Tasks /\ task \in [Tasks -> TaskRec]
  BY Zenon, <1>2, NowTyped, TopFacts, TaskTyped
<1>4. /\ SchedTyped(y) /\ QueuesAgree(y) /\ ReadyQueued(y)
  BY Zenon, <1>2, OutgoingNow
<1>5. /\ SchedTyped(p.s) /\ SameCore(y, p.s)
      /\ p.next = c \/ (p.next \in Slots /\ y.task[p.next].state = "READY")
  BY SMTT(30), <1>2, <1>4, PickNextEffect, PickNextCore
<1>6. n \in Tasks /\ (n = c \/ (n \in Slots /\ y.task[n].state = "READY"))
  BY Zenon, <1>2, <1>5, SlotFacts
<1> DEFINE r == [p.s.task[n] EXCEPT !.state = "RUNNING", !.cpu = c]
<1>7. p.s.task[n] \in TaskRec /\ p.s.task \in [Tasks -> TaskRec]
  BY Zenon, <1>5, <1>6, StateFields DEF SchedTyped
<1>8. task' = [p.s.task EXCEPT ![n] = r]
  BY Zenon, <1>1, <1>2, <1>5 DEF SetSched, SchedTyped, SchedState
<1>9. /\ r.id = p.s.task[n].id /\ r.used = p.s.task[n].used /\ r.user = p.s.task[n].user
      /\ r.kill = p.s.task[n].kill /\ r.wake = p.s.task[n].wake
      /\ r.state = "RUNNING" /\ r.cpu = c
  BY Zenon, <1>7 DEF TaskRec
<1> HIDE DEF r
<1>10. task'[n] = r /\ \A u \in Tasks : u # n => task'[u] = p.s.task[u]
  BY SMTT(30), <1>6, <1>7, <1>8
<1>11. \A u \in Tasks : u # prev => Same(task[u], y.task[u]) /\ y.task[u].state = task[u].state
  <2>1. CASE prev \in Cpus
    <3>1. y.task = task
      BY Zenon, <1>2, <1>3, <2>1, OutgoingIdle
    <3>2. QED BY Zenon, <3>1 DEF Same
  <2>2. CASE prev \in Slots
    <3>1. task[prev].id >= NCpus
      BY Zenon, <1>2, <2>2 DEF SafeInv, TableOK, ActiveStackAlive
    <3>2. QED BY Zenon, <1>2, <1>3, <2>2, <3>1, OutgoingCore
  <2>3. QED BY Zenon, <1>3, <2>1, <2>2, SlotFacts
<1>12. prev \in Slots =>
         /\ /\ y.task[prev].id = task[prev].id /\ y.task[prev].used = task[prev].used
            /\ y.task[prev].user = task[prev].user /\ y.task[prev].wake = task[prev].wake
            /\ y.task[prev].cpu = NoCpu /\ ~y.task[prev].kill
         /\ task[prev].kill => y.task[prev].state = "DEAD"
         /\ ~task[prev].kill => y.task[prev].state = IF task[prev].state = "RUNNING" THEN "READY"
                                                     ELSE task[prev].state
  <2> HAVE prev \in Slots
  <2>1. task[prev].id >= NCpus
    BY Zenon, <1>2 DEF SafeInv, TableOK, ActiveStackAlive
  <2>2. Now.task[prev].id >= NCpus /\ y = Outgoing(Now, prev, c) /\ SchedTyped(Now)
    BY Zenon, <1>2, <1>3, <2>1
  <2>3. /\ /\ y.task[prev].id = Now.task[prev].id /\ y.task[prev].used = Now.task[prev].used
           /\ y.task[prev].user = Now.task[prev].user /\ y.task[prev].wake = Now.task[prev].wake
           /\ y.task[prev].cpu = NoCpu /\ ~y.task[prev].kill
        /\ Now.task[prev].kill => y.task[prev].state = "DEAD"
        /\ ~Now.task[prev].kill => y.task[prev].state = IF Now.task[prev].state = "RUNNING" THEN "READY"
                                                       ELSE Now.task[prev].state
    BY SMTT(30), <2>2, OutgoingCore
  <2>4. QED BY Zenon, <1>3, <2>3
<1>13. \A u \in Tasks : Same(y.task[u], p.s.task[u]) /\ p.s.task[u].state = y.task[u].state
  BY Zenon, <1>5 DEF SameCore
<1>14. n \in Slots /\ n # prev => task[n].state = "READY" /\ task[n].used
  <2> HAVE n \in Slots /\ n # prev
  <2>1. task[n].state = "READY"
    BY SMTT(30), <1>6, <1>11, SlotFacts
  <2>2. QED BY Zenon, <2>1 DEF SafeInv, TableOK
<1>15. prev \in Slots => task[prev].used /\ task[prev].state # "REAPING"
  BY Zenon, <1>2 DEF SafeInv, ActiveStackAlive
<1>16. \A u \in Slots : Lawful(task[u], task'[u], IF u = prev THEN "own" ELSE "none")
  <2> TAKE u \in Slots
  <2>1. u \in Tasks /\ c # NoCpu
    BY Zenon, SlotFacts
  <2>2. CASE u # prev /\ u # n
    <3>1. Same(task[u], task'[u]) /\ task'[u].state = task[u].state
      BY Zenon, <1>10, <1>11, <1>13, <2>1, <2>2 DEF Same
    <3>2. QED BY Zenon, <2>2, <3>1, LawfulSame
  <2>3. CASE u # prev /\ u = n
    <3>1. /\ task'[u].id = task[u].id /\ task'[u].used = task[u].used /\ task'[u].user = task[u].user
          /\ task'[u].kill = task[u].kill /\ task'[u].wake = task[u].wake
          /\ task'[u].state = "RUNNING" /\ task'[u].cpu = c
      BY <1>9, <1>10, <1>11, <1>13, <2>1, <2>3 DEF Same
    <3>2. task[u].state = "READY" /\ task[u].used
      BY Zenon, <1>14, <2>3
    <3>3. Lawful(task[u], task'[u], "none")
      BY Zenon, <2>1, <3>1, <3>2 DEF Lawful, Held, Bystander, Gone
    <3>4. QED BY Zenon, <2>3, <3>3
  <2>4. CASE u = prev /\ u # n
    <3>1. Same(y.task[u], task'[u]) /\ task'[u].state = y.task[u].state
      BY Zenon, <1>10, <1>13, <2>1, <2>4
    <3>2. Lawful(task[u], task'[u], "own")
      BY Zenon, <1>12, <1>15, <2>4, <3>1 DEF Lawful, Same, Held, Gone, Later
    <3>3. QED BY Zenon, <2>4, <3>2
  <2>5. CASE u = prev /\ u = n
    <3>1. /\ task'[u].id = task[u].id /\ task'[u].used = task[u].used /\ task'[u].user = task[u].user
          /\ ~task'[u].kill /\ task'[u].state = "RUNNING"
      BY <1>9, <1>10, <1>12, <1>13, <2>1, <2>5 DEF Same
    <3>2. ~task[u].kill /\ task[u].state \in {"RUNNING", "READY"}
      BY Zenon, <1>6, <1>12, <2>1, <2>5, SlotFacts
    <3>3. Lawful(task[u], task'[u], "own")
      BY Zenon, <1>15, <2>5, <3>1, <3>2 DEF Lawful, Held, Gone
    <3>4. QED BY Zenon, <2>5, <3>3
  <2>6. QED BY Zenon, <2>2, <2>3, <2>4, <2>5
<1>17. n \in Slots => task'[n].state = "RUNNING" /\ task'[n].used
  <2> HAVE n \in Slots
  <2>1. task'[n].used = task[n].used
    BY <1>6, <1>9, <1>10, <1>11, <1>12, <1>13 DEF Same
  <2>2. QED BY Zenon, <1>9, <1>10, <1>14, <1>15, <2>1
<1>18. n # prev => /\ n = c \/ (n \in Slots /\ task[n].state = "READY")
                   /\ prev \in Slots /\ ~task[prev].kill
                      => /\ task'[prev].wake = task[prev].wake
                         /\ task'[prev].state = IF task[prev].state = "RUNNING" THEN "READY"
                                                ELSE task[prev].state
  BY <1>3, <1>6, <1>10, <1>12, <1>13, <1>14 DEF Same
<1>19. Lawfully(prev, "own")
  BY Zenon, <1>16 DEF Lawfully
<1>20. QED BY Zenon, <1>1, <1>2, <1>6, <1>17, <1>18, <1>19

(***************************************************************************)
(* What a step may do to the frames of the CPU that takes it.              *)
(***************************************************************************)
\* Frame f is entered.
Pushes(c, f) ==
  /\ Goto(c, <<f>> \o stack[c])
  /\ f \in Frame /\ f.at \notin BaseAt \cup ReapAt \cup {"switch", "parked"}
  /\ f.at \in SlotAt => f.arg \in Slots
  /\ f.masked \/ ~task[cur[c]].user
  /\ Top(c).at \in SchedAt => f.at = "reap" /\ (~Top(c).masked \/ (c = 0 /\ tickat # NoTick))
  /\ f.at \in CallAt => IsTask(c)
  /\ f.at = "killsync" => \E t \in Slots : /\ Killable(c, t) /\ f.arg = task[t].id
                                           /\ task' = [task EXCEPT ![t] = Killed(t)]

\* The innermost frame returns.
Returns(c) ==
  /\ Return(c)
  /\ Top(c).at \notin BaseAt \cup SchedAt
  /\ Top(c).at = "killsync" => Stopped(Top(c).arg)

\* The innermost frame goes on as f.
Turns(c, f) ==
  /\ Goto(c, <<f>> \o Below(c))
  /\ f \in Frame /\ f.at \notin BaseAt /\ f.masked = Top(c).masked
  /\ f.at \in SlotAt => f.arg \in Slots
  /\ \/ Top(c).at \in {"reap", "cleanup", "clear"} /\ f.at \in SchedAt
     \/ Top(c).at \in {"register", "adopt", "parent"} /\ f.at = "wake"
  /\ f.at \in ReapAt => In(c, "reap") \/ (In(c, "cleanup") /\ f.arg = Top(c).arg)
  /\ In(c, "cleanup") => f.at = "clear" /\ f.arg = Top(c).arg
  /\ In(c, "clear") => ~task'[Top(c).arg].used

ParkFrames(c) == <<F("reap", 0, Top(c).masked), F("parked", 0, Top(c).masked)>> \o Below(c)

ExitFrames(c) == <<Enter(c, "reap", 0), Enter(c, "exited", 0)>>

Moves(c) ==
  \/ UNCHANGED stack
  \/ \E f : Pushes(c, f)
  \/ Returns(c)
  \/ \E f : Turns(c, f)
  \/ In(c, "publish") /\ Goto(c, ParkFrames(c))
  \/ IsTask(c) /\ Goto(c, ExitFrames(c))
  \/ In(c, "boot") /\ Goto(c, Body)

LEMMA EnterTyped ==
  ASSUME TypeInv, NEW c \in Cpus, NEW at \in At, NEW arg \in Int
  PROVE  /\ Enter(c, at, arg) \in Frame /\ Enter(c, at, arg).at = at
         /\ Enter(c, at, arg).arg = arg
         /\ Enter(c, at, arg).masked = (Top(c).masked \/ task[cur[c]].user)
<1>1. Top(c) \in Frame /\ task[cur[c]] \in TaskRec
  BY Zenon, TopFacts, TaskTyped
<1>2. (Top(c).masked \/ task[cur[c]].user) \in BOOLEAN
  BY Zenon, <1>1 DEF Frame, TaskRec
<1>3. QED BY Zenon, <1>2, FrameTyped DEF Enter

LEMMA CallPushes ==
  ASSUME TypeInv, NEW c \in Cpus, NEW at \in At, NEW arg \in Int, Call(c, at, arg),
         at \notin BaseAt \cup ReapAt \cup {"switch", "parked"},
         at \in SlotAt => arg \in Slots,
         Top(c).at \notin SchedAt,
         at \in CallAt => IsTask(c),
         at = "killsync" => \E t \in Slots : /\ Killable(c, t) /\ arg = task[t].id
                                             /\ task' = [task EXCEPT ![t] = Killed(t)]
  PROVE  \E f : Pushes(c, f)
<1>1. PICK f : f = Enter(c, at, arg)
  BY Zenon
<1>2. Goto(c, <<f>> \o stack[c])
  BY Zenon, <1>1 DEF Call
<1>3. f \in Frame /\ f.at = at /\ f.arg = arg /\ f.masked = (Top(c).masked \/ task[cur[c]].user)
  BY <1>1, EnterTyped
<1>4. f.masked \/ ~task[cur[c]].user
  BY Zenon, <1>3
<1>5. Pushes(c, f)
  BY Zenon, <1>2, <1>3, <1>4 DEF Pushes
<1>6. QED BY Zenon, <1>5

LEMMA PreemptPushes ==
  ASSUME NEW c \in Cpus, Preempt(c), ~Top(c).masked \/ (c = 0 /\ tickat # NoTick)
  PROVE  \E f : Pushes(c, f)
<1>1. PICK f : f = F("reap", 0, TRUE)
  BY Zenon
<1>2. "reap" \in At /\ 0 \in Int /\ TRUE \in BOOLEAN
  BY DEF At
<1>3. f \in Frame /\ f.at = "reap" /\ f.masked = TRUE
  BY Zenon, <1>1, <1>2, FrameTyped
<1>4. Goto(c, <<f>> \o stack[c])
  BY Zenon, <1>1 DEF Preempt
<1>5. Pushes(c, f)
  BY Zenon, <1>3, <1>4 DEF Pushes, BaseAt, ReapAt, SlotAt, CallAt
<1>6. QED BY Zenon, <1>5

LEMMA BecomeTurns ==
  ASSUME TypeInv, NEW c \in Cpus, NEW at \in At \ BaseAt, NEW arg \in Int, Become(c, at, arg),
         at \in SlotAt => arg \in Slots,
         \/ Top(c).at \in {"reap", "cleanup", "clear"} /\ at \in SchedAt
         \/ Top(c).at \in {"register", "adopt", "parent"} /\ at = "wake",
         at \in ReapAt => In(c, "reap") \/ (In(c, "cleanup") /\ arg = Top(c).arg),
         In(c, "cleanup") => at = "clear" /\ arg = Top(c).arg,
         In(c, "clear") => ~task'[Top(c).arg].used
  PROVE  \E f : Turns(c, f)
<1>1. PICK f : f = F(at, arg, Top(c).masked)
  BY Zenon
<1>2. Top(c).masked \in BOOLEAN
  BY Zenon, TopFacts DEF Frame
<1>3. f \in Frame /\ f.at = at /\ f.arg = arg /\ f.masked = Top(c).masked
  BY <1>1, <1>2, FrameTyped
<1>4. Goto(c, <<f>> \o Below(c))
  BY Zenon, <1>1 DEF Become
<1>5. Turns(c, f)
  BY Zenon, <1>3, <1>4 DEF Turns
<1>6. QED BY Zenon, <1>5

LEMMA CreatorPushes ==
  ASSUME TypeInv, NEW c \in Cpus, NEW at \in {"register", "adopt", "wake", "parent"},
         Top(c).at \in {"boot", "body"}, TaskCreateUser(c, at)
  PROVE  \E f : Pushes(c, f)
<1>1. PICK t \in FreeSlot : Call(c, at, t)
  BY Zenon DEF TaskCreateUser
<1>2. t \in Slots /\ t \in Int
  BY Zenon, CreatedTyped
<1>3. at \in At
  BY Zenon DEF At
<1>4. /\ at \notin BaseAt \cup ReapAt \cup {"switch", "parked"}
      /\ Top(c).at \notin SchedAt /\ at \notin CallAt /\ at # "killsync"
  BY Zenon DEF BaseAt, ReapAt, SchedAt, CallAt
<1>5. QED BY Zenon, <1>1, <1>2, <1>3, <1>4, CallPushes

LEMMA KernelMoves ==
  ASSUME TypeInv, NEW c \in Cpus, CpuStep(c) \/ Irq(c) \/ Tick(c), ~Switch(c)
  PROVE  Moves(c)
<1>1. CASE Yield(c) \/ Publish(c) \/ SleepCurrent(c)
  <2>1. /\ Call(c, "reap", 0) \/ (Call(c, "publish", 0) /\ IsTask(c))
        /\ Top(c).at = "body"
    BY Zenon, <1>1 DEF Yield, Publish, SleepCurrent, IsUser, IsTask, In
  <2>2. \E f : Pushes(c, f)
    BY SMTT(30), <2>1, CallPushes DEF At, BaseAt, ReapAt, SlotAt, SchedAt, CallAt
  <2>3. QED BY Zenon, <2>2 DEF Moves
<1>2. CASE Dequeue(c)
  <2>1. PICK t \in published : Call(c, "unpark", t)
    BY Zenon, <1>2 DEF Dequeue
  <2>2. t \in Slots /\ t \in Int /\ IsTask(c) /\ Top(c).at = "body"
    BY <1>2, SlotFacts DEF TypeInv, Dequeue, IsTask, In
  <2>3. \E f : Pushes(c, f)
    BY SMTT(30), <2>1, <2>2, CallPushes DEF At, BaseAt, ReapAt, SlotAt, SchedAt, CallAt
  <2>4. QED BY Zenon, <2>3 DEF Moves
<1>3. CASE Wait4(c)
  <2>1. PICK pid \in {AnyPid} \cup NCpus .. next_task_id - 1 : Call(c, "wait4", pid)
    BY Zenon, <1>3 DEF Wait4
  <2>2. pid \in Int /\ IsTask(c) /\ Top(c).at = "body"
    BY <1>3, SlotFacts DEF AnyPid, Wait4, IsUser, IsTask, In
  <2>3. \E f : Pushes(c, f)
    BY SMTT(30), <2>1, <2>2, CallPushes DEF At, BaseAt, ReapAt, SlotAt, SchedAt, CallAt
  <2>4. QED BY Zenon, <2>3 DEF Moves
<1>4. CASE KillTask(c)
  <2>1. PICK t \in Slots : /\ Killable(c, t) /\ task' = [task EXCEPT ![t] = Killed(t)]
                           /\ Call(c, "killsync", task[t].id)
    BY Zenon, <1>4 DEF KillTask
  <2>2. PICK id \in Int : id = task[t].id
    BY TaskTyped, SlotFacts DEF TaskRec
  <2>3. Top(c).at = "body"
    BY Zenon, <1>4 DEF KillTask, IsKernel, IsShell, IsTask, In
  <2>4. Call(c, "killsync", id)
        /\ \E u \in Slots : /\ Killable(c, u) /\ id = task[u].id
                            /\ task' = [task EXCEPT ![u] = Killed(u)]
    BY Zenon, <2>1, <2>2
  <2>5. /\ "killsync" \in At /\ "killsync" \notin BaseAt \cup ReapAt \cup {"switch", "parked"}
        /\ "killsync" \notin SlotAt /\ "killsync" \notin CallAt /\ Top(c).at \notin SchedAt
    BY Zenon, <2>3 DEF At, BaseAt, ReapAt, SlotAt, SchedAt, CallAt
  <2>6. \E f : Pushes(c, f)
    BY Zenon, <2>4, <2>5, CallPushes
  <2>7. QED BY Zenon, <2>6 DEF Moves
<1>5. CASE ReapVictim(c)
  <2>1. PICK t \in Slots : Become(c, "cleanup", t)
    BY Zenon, <1>5 DEF ReapVictim
  <2>2. t \in Int /\ In(c, "reap") /\ Top(c).at = "reap" /\ ~In(c, "cleanup") /\ ~In(c, "clear")
    BY <1>5, SlotFacts DEF ReapVictim, In
  <2>3. \E f : Turns(c, f)
    BY SMTT(30), <2>1, <2>2, BecomeTurns DEF At, BaseAt, SchedAt
  <2>4. QED BY Zenon, <2>3 DEF Moves
<1>6. CASE ReapDetach(c) \/ RegisterInit(c) \/ AdoptTask(c) \/ CloneParent(c)
  <2>1. /\ Top(c).at \in SlotAt
        /\ ~In(c, "clear")
        /\ \/ In(c, "cleanup") /\ Top(c).at = "cleanup" /\ Become(c, "clear", Top(c).arg)
           \/ ~In(c, "cleanup") /\ Top(c).at \in {"register", "adopt", "parent"} /\ Become(c, "wake", Top(c).arg)
    BY Zenon, <1>6 DEF ReapDetach, RegisterInit, AdoptTask, CloneParent, In, SlotAt
  <2>2. PICK v \in Int : v = Top(c).arg /\ v \in Slots
    BY Zenon, <2>1, TopFacts
  <2>3. \E f : Turns(c, f)
    BY SMTT(30), <2>1, <2>2, BecomeTurns DEF At, BaseAt, SchedAt, ReapAt
  <2>4. QED BY Zenon, <2>3 DEF Moves
<1>7. CASE ReapClear(c) \/ ReapDone(c)
  <2>0. In(c, "clear") => ~task'[Top(c).arg].used
    BY Zenon, <1>7, ReapLaw DEF ReapDone, In
  <2>1. /\ Top(c).at \in {"reap", "clear"} /\ (Become(c, "reap", 0) \/ Become(c, "switch", 0))
        /\ ~In(c, "cleanup")
    BY Zenon, <1>7 DEF ReapClear, ReapDone, In
  <2>2. \E f : Turns(c, f)
    BY SMTT(30), <2>0, <2>1, BecomeTurns DEF At, BaseAt, SchedAt, SlotAt, ReapAt
  <2>3. QED BY Zenon, <2>2 DEF Moves
<1>8. CASE BootInit(c) \/ BootService(c) \/ ShellLoad(c) \/ Clone(c)
  <2>1. \E f : Pushes(c, f)
    BY Zenon, <1>8, CreatorPushes
       DEF BootInit, BootService, ShellLoad, Clone, IsShell, IsUser, IsTask, In
  <2>2. QED BY Zenon, <2>1 DEF Moves
<1>9. CASE BootDone(c)
  BY Zenon, <1>9 DEF BootDone, Moves
<1>10. CASE TaskCreate(c)
  BY Zenon, <1>10 DEF TaskCreate, Moves
<1>11. CASE WakeTask(c) \/ ParkReturn(c) \/ UnparkTask(c)
  <2>1. Return(c) /\ Top(c).at \in {"wake", "parked", "unpark"}
    BY Zenon, <1>11 DEF WakeTask, ParkReturn, UnparkTask, In
  <2>2. Returns(c)
    BY Zenon, <2>1 DEF Returns, BaseAt, SchedAt
  <2>3. QED BY Zenon, <2>2 DEF Moves
<1>12. CASE ParkTask(c)
  <2>1. In(c, "publish") /\ (Return(c) \/ Goto(c, ParkFrames(c)))
    BY Zenon, <1>12 DEF ParkTask, ParkFrames
  <2>2. Return(c) => Returns(c)
    BY Zenon, <2>1 DEF Returns, BaseAt, SchedAt, In
  <2>3. QED BY Zenon, <2>1, <2>2 DEF Moves
<1>13. CASE TaskExit(c)
  BY Zenon, <1>13 DEF TaskExit, ExitFrames, Moves
<1>14. CASE Wait4Scan(c)
  <2>1. Top(c).at = "wait4" /\ (Return(c) \/ Call(c, "reap", 0))
    BY Zenon, <1>14 DEF Wait4Scan, In
  <2>2. Return(c) => Returns(c)
    BY Zenon, <2>1 DEF Returns, BaseAt, SchedAt
  <2>3. Call(c, "reap", 0) => \E f : Pushes(c, f)
    BY SMTT(30), <2>1, CallPushes DEF At, BaseAt, ReapAt, SlotAt, SchedAt, CallAt
  <2>4. QED BY Zenon, <2>1, <2>2, <2>3 DEF Moves
<1>15. CASE KillSyncPoll(c)
  <2>1. Top(c).at = "killsync" /\ ((Return(c) /\ Stopped(Top(c).arg)) \/ Call(c, "reap", 0))
    BY Zenon, <1>15 DEF KillSyncPoll, In
  <2>2. Return(c) /\ Stopped(Top(c).arg) => Returns(c)
    BY Zenon, <2>1 DEF Returns, BaseAt, SchedAt
  <2>3. Call(c, "reap", 0) => \E f : Pushes(c, f)
    BY SMTT(30), <2>1, CallPushes DEF At, BaseAt, ReapAt, SlotAt, SchedAt, CallAt
  <2>4. QED BY Zenon, <2>1, <2>2, <2>3 DEF Moves
<1>16. CASE Irq(c) \/ Tick(c)
  <2>1. (Preempt(c) /\ ~Top(c).masked) \/ UNCHANGED stack
    BY Zenon, <1>16 DEF Irq, Tick
  <2>2. QED BY Zenon, <2>1, PreemptPushes DEF Moves
<1>17. QED BY Zenon, <1>1, <1>2, <1>3, <1>4, <1>5, <1>6, <1>7, <1>8, <1>9, <1>10, <1>11, <1>12,
              <1>13, <1>14, <1>15, <1>16 DEF CpuStep

(***************************************************************************)
(* What a step may do to the table.                                        *)
(***************************************************************************)
Laws(c) ==
  \/ Orderly
  \/ \E t \in FreeSlot : NewContext(t) /\ Lawfully(t, "new")
  \/ Lawfully(cur[c], "own")
  \/ In(c, "reap") /\ \E v \in Slots : /\ Reapable(v) /\ Lawfully(v, "victim")
                                       /\ Become(c, "cleanup", v) /\ task'[v].state = "REAPING"
  \/ /\ In(c, "clear") /\ Lawfully(Top(c).arg, "cleared")
     /\ Become(c, "reap", 0) /\ ~task'[Top(c).arg].used

LEMMA KernelLaws ==
  ASSUME TypeInv, SafeInv, LeavingOK, NEW c \in Cpus, CpuStep(c) \/ Irq(c) \/ Tick(c), ~Switch(c)
  PROVE  Laws(c)
<1>1. CASE RegisterInit(c) \/ AdoptTask(c) \/ CloneParent(c)
  BY Zenon, <1>1, ParentLaw DEF Laws
<1>2. CASE ReapVictim(c)
  <2>1. In(c, "reap")
    BY Zenon, <1>2 DEF ReapVictim
  <2>2. QED BY Zenon, <1>2, <2>1, ReapLaw DEF Laws
<1>3. CASE ReapClear(c)
  <2>1. In(c, "clear") /\ Become(c, "reap", 0)
    BY Zenon, <1>3 DEF ReapClear
  <2>2. QED BY Zenon, <1>3, <2>1, ReapLaw DEF Laws
<1>4. CASE WakeTask(c) \/ UnparkTask(c)
  BY Zenon, <1>4, WakeLaw DEF Laws
<1>5. CASE KillTask(c)
  BY Zenon, <1>5, KillLaw DEF Laws
<1>6. CASE BootInit(c) \/ BootService(c) \/ ShellLoad(c) \/ Clone(c) \/ TaskCreate(c)
  <2>1. TaskCreate(c) \/ \E at \in At : TaskCreateUser(c, at)
    BY Zenon, <1>6 DEF BootInit, BootService, ShellLoad, Clone, At
  <2>2. QED BY Zenon, <2>1, CreateLaw DEF Laws
<1>7. CASE ParkTask(c) \/ Wait4Scan(c) \/ SleepCurrent(c) \/ TaskExit(c)
  BY Zenon, <1>7, ParkLaw, WaitLaw, SleepLaw, ExitLaw DEF Laws
<1>8. CASE \/ Yield(c) \/ ReapDetach(c) \/ ReapDone(c) \/ BootDone(c) \/ Publish(c)
           \/ ParkReturn(c) \/ Dequeue(c) \/ Wait4(c) \/ KillSyncPoll(c) \/ Irq(c) \/ Tick(c)
  <2>1. UNCHANGED task
    BY Zenon, <1>8 DEF Yield, ReapDetach, ReapDone, BootDone, Publish, ParkReturn, Dequeue, Wait4,
                KillSyncPoll, Irq, Tick, lockVars
  <2>2. QED BY Zenon, <2>1, OrderlySame DEF Laws
<1>9. QED BY Zenon, <1>1, <1>2, <1>3, <1>4, <1>5, <1>6, <1>7, <1>8 DEF CpuStep

LEMMA KernelCur ==
  ASSUME NEW c \in Cpus, CpuStep(c) \/ Irq(c) \/ Tick(c), ~Switch(c)
  PROVE  UNCHANGED cur
BY ZenonT(60) DEF CpuStep, Irq, Tick, Yield, ReapVictim, ReapDetach, ReapClear, ReapDone, BootInit,
   BootService, BootDone, RegisterInit, AdoptTask, TaskCreate, ShellLoad, Clone, CloneParent,
   WakeTask, Publish, ParkTask, ParkReturn, Dequeue, UnparkTask, SleepCurrent, TaskExit, Wait4,
   Wait4Scan, KillTask, KillSyncPoll, TaskCreateUser


LEMMA KernelIds ==
  ASSUME NEW c \in Cpus, CpuStep(c) \/ Irq(c) \/ Tick(c), ~Switch(c)
  PROVE  UNCHANGED <<saved, next_task_id>> \/ \E t \in FreeSlot : NewContext(t)
<1>1. CASE BootInit(c) \/ BootService(c) \/ ShellLoad(c) \/ Clone(c) \/ TaskCreate(c)
  BY Zenon, <1>1 DEF BootInit, BootService, ShellLoad, Clone, TaskCreate, TaskCreateUser
<1>2. CASE ~(BootInit(c) \/ BootService(c) \/ ShellLoad(c) \/ Clone(c) \/ TaskCreate(c))
  BY ZenonT(60), <1>2 DEF CpuStep, Irq, Tick, Yield, ReapVictim, ReapDetach, ReapClear, ReapDone,
     BootDone, RegisterInit, AdoptTask, CloneParent, WakeTask, Publish, ParkTask, ParkReturn,
     Dequeue, UnparkTask, SleepCurrent, TaskExit, Wait4, Wait4Scan, KillTask, KillSyncPoll, idVars
<1>3. QED BY Zenon, <1>1, <1>2

\* The same, slot by slot.
Lawed(c, u) ==
  \E k : /\ Lawful(task[u], task'[u], k)
         /\ k = "own" => u = cur[c]
         /\ k = "new" => u \in FreeSlot /\ NewContext(u)
         /\ k = "victim" => In(c, "reap") /\ Become(c, "cleanup", u) /\ Reapable(u)
         /\ k = "cleared" => In(c, "clear") /\ Become(c, "reap", 0) /\ u = Top(c).arg

LEMMA LawsEach ==
  ASSUME NEW c \in Cpus, Laws(c), NEW u \in Slots
  PROVE  Lawed(c, u)
<1>1. CASE Orderly
  BY <1>1 DEF Orderly, Lawed
<1>2. ASSUME NEW w, NEW k, Lawfully(w, k), k = "own" => w = cur[c],
             k = "new" => w \in FreeSlot /\ NewContext(w),
             k = "victim" => In(c, "reap") /\ Become(c, "cleanup", w) /\ Reapable(w),
             k = "cleared" => In(c, "clear") /\ Become(c, "reap", 0) /\ w = Top(c).arg
      PROVE  Lawed(c, u)
  <2>1. CASE u = w
    BY Zenon, <1>2, <2>1 DEF Lawfully, Lawed
  <2>2. CASE u # w
    <3>1. Lawful(task[u], task'[u], "none")
      BY Zenon, <1>2, <2>2 DEF Lawfully
    <3>2. QED BY <3>1 DEF Lawed
  <2>3. QED BY Zenon, <2>1, <2>2
<1>3. CASE \E t \in FreeSlot : NewContext(t) /\ Lawfully(t, "new")
  BY Zenon, <1>2, <1>3
<1>4. CASE Lawfully(cur[c], "own")
  BY Zenon, <1>2, <1>4
<1>5. CASE In(c, "reap") /\ \E v \in Slots : /\ Reapable(v) /\ Lawfully(v, "victim")
                                             /\ Become(c, "cleanup", v) /\ task'[v].state = "REAPING"
  BY Zenon, <1>2, <1>5
<1>6. CASE In(c, "clear") /\ Lawfully(Top(c).arg, "cleared") /\ Become(c, "reap", 0)
  BY Zenon, <1>2, <1>6
<1>7. QED BY Zenon, <1>1, <1>3, <1>4, <1>5, <1>6 DEF Laws

LEMMA GotoFacts ==
  ASSUME TypeInv, NEW c \in Cpus, NEW q, Goto(c, q)
  PROVE  stack'[c] = q /\ \A d \in Cpus : d # c => stack'[d] = stack[d]
BY Zenon DEF TypeInv, StacksOK, Goto

LEMMA MovesOther ==
  ASSUME TypeInv, NEW c \in Cpus, Moves(c), NEW d \in Cpus, d # c
  PROVE  stack'[d] = stack[d]
<1>1. CASE UNCHANGED stack
  BY Zenon, <1>1
<1>2. ASSUME NEW q, Goto(c, q) PROVE stack'[d] = stack[d]
  BY Zenon, <1>2, GotoFacts
<1>3. QED BY Zenon, <1>1, <1>2 DEF Moves, Pushes, Returns, Return, Turns

(***************************************************************************)
(* The frames before and after: k new frames replace the j innermost ones. *)
(***************************************************************************)
Shift(q, r, k, j) ==
  /\ Len(r) = Len(q) + k - j
  /\ \A i \in k + 1 .. Len(r) : r[i] = q[i - k + j]

\* What is known of a new frame f, with m frames outside it.
Fresh(c, f, m) ==
  /\ f \in Frame
  /\ f.at = "killsync" => \E t \in Slots : /\ Killable(c, t) /\ f.arg = task[t].id
                                           /\ task' = [task EXCEPT ![t] = Killed(t)]
  /\ f.at \in ReapAt => In(c, "reap") \/ (In(c, "cleanup") /\ f.arg = Top(c).arg)
  /\ \/ f.masked \/ m = 0 \/ ~task[cur[c]].user
     \/ Top(c).at \notin BaseAt /\ ~Top(c).masked
  /\ f.at \in CallAt => \/ f.at = "parked" /\ In(c, "publish") /\ m = Len(stack[c]) - 1
                        \/ f.at # "parked" /\ IsTask(c) /\ m = 1

\* The frames of CPU c after a step of its own.
Moved(c) ==
  \E k \in 0 .. 2, j \in 0 .. 1 :
    LET q == stack[c]
        r == stack'[c]
    IN /\ Shift(q, r, k, j) /\ j <= Len(q) /\ k <= Len(r)
       /\ \A i \in 1 .. k : Fresh(c, r[i], Len(r) - i)
       /\ \A i \in 2 .. k : r[i].at \notin ReapAt
       /\ j = 0 => \/ k = 0 \/ Top(c).at \notin SchedAt \/ ~Top(c).masked
                   \/ c = 0 /\ tickat # NoTick
       /\ j = 1 /\ Top(c).at \in ReapAt => \/ k = 1 /\ r[1].at \in ReapAt /\ r[1].arg = Top(c).arg
                                          \/ ~task'[Top(c).arg].used

LEMMA ShiftNone == ASSUME NEW q, q \in Seq(Frame) PROVE Shift(q, q, 0, 0)
<1>1. Len(q) \in Nat
  OBVIOUS
<1>2. QED BY <1>1 DEF Shift

LEMMA ShiftPush ==
  ASSUME NEW q, FramesOK(q), NEW f \in Frame, f.at \notin BaseAt, f.at \in SlotAt => f.arg \in Slots
  PROVE  /\ Shift(q, <<f>> \o q, 1, 0) /\ (<<f>> \o q)[1] = f
         /\ Len(<<f>> \o q) = Len(q) + 1 /\ Len(q) \in Nat
<1>1. PICK r : r = <<f>> \o q
  BY Zenon
<1>2. /\ Len(r) = Len(q) + 1 /\ r[1] = f
      /\ \A i \in 1 .. Len(q) : r[i + 1] = q[i]
  BY Zenon, <1>1, PushOK
<1>3. Len(q) \in Nat
  BY DEF FramesOK
<1>4. ASSUME NEW i \in 2 .. Len(r) PROVE r[i] = q[i - 1 + 0]
  <2>1. i - 1 \in 1 .. Len(q) /\ (i - 1) + 1 = i /\ i - 1 + 0 = i - 1
    BY <1>2, <1>3, <1>4
  <2>2. r[(i - 1) + 1] = q[i - 1]
    BY Zenon, <1>2, <2>1
  <2>3. QED BY Zenon, <2>1, <2>2
<1>5. Len(r) = Len(q) + 1 - 0 /\ 1 + 1 = 2
  BY <1>2, <1>3
<1>6. Shift(q, r, 1, 0)
  BY Zenon, <1>4, <1>5 DEF Shift
<1>7. QED BY Zenon, <1>1, <1>2, <1>3, <1>6

LEMMA ShiftPop ==
  ASSUME NEW q, FramesOK(q), Head(q).at \notin BaseAt
  PROVE  Shift(q, Tail(q), 0, 1) /\ Len(q) \in Nat /\ Len(Tail(q)) = Len(q) - 1 /\ Len(q) >= 2
<1>1. /\ FramesOK(Tail(q)) /\ Len(q) \in Nat /\ Len(Tail(q)) = Len(q) - 1
      /\ \A i \in 1 .. Len(q) - 1 : Tail(q)[i] = q[i + 1]
  BY Zenon, PopOK
<1>2. Len(Tail(q)) \in Nat \ {0}
  BY Zenon, <1>1, NoSeq DEF FramesOK
<1>3. Len(Tail(q)) = Len(q) + 0 - 1 /\ Len(q) >= 2
  <2>1. PICK m, n : m = Len(q) /\ n = Len(Tail(q))
    BY Zenon
  <2>2. m \in Nat /\ n \in Nat \ {0} /\ n = m - 1
    BY Zenon, <1>1, <1>2, <2>1
  <2>3. n = m + 0 - 1 /\ m >= 2
    BY <2>2
  <2>4. QED BY Zenon, <2>1, <2>3
<1>4. ASSUME NEW i \in 0 + 1 .. Len(Tail(q)) PROVE Tail(q)[i] = q[i - 0 + 1]
  <2>1. i \in 1 .. Len(q) - 1 /\ i - 0 + 1 = i + 1
    BY <1>1, <1>4
  <2>2. QED BY Zenon, <1>1, <2>1
<1>5. QED BY Zenon, <1>1, <1>3, <1>4 DEF Shift

LEMMA TailFacts ==
  ASSUME NEW q, FramesOK(q), Head(q).at \notin BaseAt
  PROVE  /\ FramesOK(Tail(q)) /\ Shift(q, Tail(q), 0, 1) /\ Len(Tail(q)) \in Nat
         /\ Len(Tail(q)) = Len(q) - 1
<1>1. FramesOK(Tail(q))
  BY Zenon, PopOK
<1>2. PICK y : y = Tail(q)
  BY Zenon
<1>3. Len(y) \in Nat
  BY <1>1, <1>2 DEF FramesOK
<1>4. QED BY Zenon, <1>1, <1>2, <1>3, ShiftPop

\* Two shifts in a row, the second a push.
LEMMA ShiftMore ==
  ASSUME NEW q, NEW r, NEW z, NEW k \in Nat, NEW j \in Nat, Len(q) \in Nat, Len(r) \in Nat,
         Shift(q, r, k, j), Shift(r, z, 1, 0), j <= Len(q)
  PROVE  Shift(q, z, k + 1, j) /\ \A i \in 1 .. Len(r) : z[i + 1] = r[i]
<1>1. /\ Len(r) = Len(q) + k - j /\ \A i \in k + 1 .. Len(r) : r[i] = q[i - k + j]
      /\ Len(z) = Len(r) + 1 - 0 /\ \A i \in 1 + 1 .. Len(z) : z[i] = r[i - 1 + 0]
  BY Zenon DEF Shift
<1>2. Len(z) = Len(q) + (k + 1) - j /\ Len(z) = Len(r) + 1
  BY <1>1
<1>3. ASSUME NEW i \in 1 .. Len(r) PROVE z[i + 1] = r[i]
  <2>1. i + 1 \in 1 + 1 .. Len(z) /\ (i + 1) - 1 + 0 = i
    BY <1>2, <1>3
  <2>2. QED BY Zenon, <1>1, <2>1
<1>4. ASSUME NEW i \in (k + 1) + 1 .. Len(z) PROVE z[i] = q[i - (k + 1) + j]
  <2>1. /\ i \in 1 + 1 .. Len(z) /\ i - 1 + 0 = i - 1 /\ i - 1 \in k + 1 .. Len(r)
        /\ (i - 1) - k + j = i - (k + 1) + j
    BY <1>2, <1>4
  <2>2. z[i] = r[i - 1] /\ r[i - 1] = q[(i - 1) - k + j]
    BY Zenon, <1>1, <2>1
  <2>3. QED BY Zenon, <2>1, <2>2
<1>5. QED BY Zenon, <1>2, <1>3, <1>4 DEF Shift

LEMMA KernelMoved ==
  ASSUME TypeInv, NEW c \in Cpus, Moves(c)
  PROVE  Moved(c)
<1> DEFINE q == stack[c]
           r == stack'[c]
<1>1. /\ FramesOK(q) /\ q \in Seq(Frame) /\ Len(q) \in Nat \ {0} /\ Head(q) = Top(c)
      /\ Top(c) = q[1] /\ Below(c) = Tail(q)
  BY Zenon, TopFacts, NoSeq DEF FramesOK, Top, Below
<1>2. Top(c).at \in BaseAt => Len(q) = 1
  <2>1. 1 \in 1 .. Len(q)
    BY <1>1
  <2>2. QED BY Zenon, <1>1, <2>1 DEF FramesOK
<1>3. CASE UNCHANGED stack
  <2>1. Shift(q, r, 0, 0)
    BY Zenon, <1>1, <1>3, ShiftNone
  <2>2. QED BY <1>1, <1>3, <2>1 DEF Moved
<1>4. ASSUME NEW f, Pushes(c, f) PROVE Moved(c)
  <2>1. r = <<f>> \o q /\ f \in Frame /\ f.at \notin BaseAt /\ (f.at \in SlotAt => f.arg \in Slots)
    BY Zenon, <1>4, GotoFacts DEF Pushes
  <2>2. Shift(q, r, 1, 0) /\ r[1] = f /\ Len(r) = Len(q) + 1
    BY Zenon, <1>1, <2>1, ShiftPush
  <2>3. Fresh(c, f, Len(r) - 1)
    <3>1. f.at \in CallAt => f.at # "parked" /\ IsTask(c) /\ Len(r) - 1 = 1
      <4>1. IsTask(c) => Top(c).at \in BaseAt
        BY Zenon DEF IsTask, In, BaseAt
      <4>2. f.at \in CallAt => f.at # "parked" /\ IsTask(c)
        BY Zenon, <1>4 DEF Pushes
      <4>3. QED BY <1>1, <1>2, <2>2, <4>1, <4>2
    <3>2. f.at \notin ReapAt /\ (f.masked \/ ~task[cur[c]].user)
      BY Zenon, <1>4 DEF Pushes
    <3>3. f.at = "killsync" => \E t \in Slots : /\ Killable(c, t) /\ f.arg = task[t].id
                                                /\ task' = [task EXCEPT ![t] = Killed(t)]
      BY Zenon, <1>4 DEF Pushes
    <3> HIDE DEF q, r
    <3>4. QED BY Zenon, <2>1, <3>1, <3>2, <3>3 DEF Fresh
  <2>4. Top(c).at \notin SchedAt \/ ~Top(c).masked \/ (c = 0 /\ tickat # NoTick)
    BY Zenon, <1>4 DEF Pushes
  <2>5. 0 # 1 /\ 0 <= Len(q) /\ 1 <= Len(r) /\ 1 \in 0 .. 2 /\ 0 \in 0 .. 1
        /\ (\A i \in 1 .. 1 : i = 1) /\ (2 .. 1 = {})
    BY <1>1, <2>2
  <2>6. /\ \A i \in 1 .. 1 : Fresh(c, r[i], Len(r) - i)
        /\ \A i \in 2 .. 1 : r[i].at \notin ReapAt
    BY Zenon, <2>2, <2>3, <2>5
  <2>7. QED BY Zenon, <2>2, <2>4, <2>5, <2>6 DEF Moved
<1>5. CASE Returns(c)
  <2>1. r = Tail(q) /\ Head(q).at \notin BaseAt
    BY Zenon, <1>1, <1>5, GotoFacts DEF Returns, Return
  <2>2. Shift(q, r, 0, 1) /\ Len(r) = Len(q) - 1
    BY Zenon, <1>1, <2>1, ShiftPop
  <2>3. 1 <= Len(q) /\ 0 <= Len(r) /\ 0 \in 0 .. 2 /\ 1 \in 0 .. 1 /\ 1 # 0 /\ 1 .. 0 = {} /\ 2 .. 0 = {}
    BY <1>1, <2>2
  <2>4. Top(c).at \notin ReapAt
    BY Zenon, <1>5 DEF Returns, SchedAt, ReapAt
  <2>5. QED BY Zenon, <2>2, <2>3, <2>4 DEF Moved
<1>6. ASSUME NEW f, Turns(c, f) PROVE Moved(c)
  <2>1. /\ r = <<f>> \o Tail(q) /\ f \in Frame /\ f.at \notin BaseAt
        /\ (f.at \in SlotAt => f.arg \in Slots) /\ Head(q).at \notin BaseAt
    BY Zenon, <1>1, <1>6, GotoFacts DEF Turns, BaseAt
  <2> HIDE DEF q, r
  <2>2. /\ FramesOK(Tail(q)) /\ Shift(q, Tail(q), 0, 1) /\ Len(Tail(q)) \in Nat
        /\ Len(Tail(q)) = Len(q) - 1
    BY Zenon, <1>1, <2>1, TailFacts
  <2>3. Shift(Tail(q), r, 1, 0) /\ r[1] = f /\ Len(r) = Len(Tail(q)) + 1
    BY Zenon, <2>1, <2>2, ShiftPush
  <2>4. 0 \in Nat /\ 1 \in Nat /\ 1 <= Len(q) /\ 0 + 1 = 1 /\ Len(q) \in Nat
    BY <1>1
  <2>5. Shift(q, r, 0 + 1, 1)
    BY Zenon, <2>2, <2>3, <2>4, ShiftMore
  <2>6. Fresh(c, f, Len(r) - 1)
    <3>1. f.at \notin CallAt /\ f.at # "killsync" /\ f.masked = Top(c).masked
      BY Zenon, <1>6 DEF Turns, CallAt, SchedAt
    <3>2. f.at \in ReapAt => In(c, "reap") \/ (In(c, "cleanup") /\ f.arg = Top(c).arg)
      BY Zenon, <1>6 DEF Turns
    <3> HIDE DEF q, r
    <3>3. QED BY Zenon, <1>1, <2>1, <3>1, <3>2 DEF Fresh
  <2>7. 1 <= Len(r) /\ 1 \in 0 .. 2 /\ 1 \in 0 .. 1 /\ 1 # 0
        /\ (\A i \in 1 .. 1 : i = 1) /\ (2 .. 1 = {})
    BY <2>2, <2>3
  <2>8. /\ \A i \in 1 .. 1 : Fresh(c, r[i], Len(r) - i)
        /\ \A i \in 2 .. 1 : r[i].at \notin ReapAt
    BY Zenon, <2>3, <2>6, <2>7
  <2>9. Shift(q, r, 1, 1)
    BY Zenon, <2>4, <2>5
  <2>10. Top(c).at \in ReapAt => (r[1].at \in ReapAt /\ r[1].arg = Top(c).arg) \/ ~task'[Top(c).arg].used
    BY Zenon, <1>6, <2>3 DEF Turns, ReapAt, In
  <2>11. QED BY Zenon, <2>4, <2>7, <2>8, <2>9, <2>10 DEF Moved, q, r
<1>7. CASE In(c, "publish") /\ Goto(c, ParkFrames(c))
  <2>1. PICK f, g : f = F("reap", 0, Top(c).masked) /\ g = F("parked", 0, Top(c).masked)
    BY Zenon
  <2>2. /\ f \in Frame /\ f.at = "reap" /\ f.masked = Top(c).masked
        /\ g \in Frame /\ g.at = "parked" /\ g.masked = Top(c).masked
    <3>1. Top(c).masked \in BOOLEAN /\ "reap" \in At /\ "parked" \in At
      BY Zenon, <1>1, TopFacts DEF At, Frame
    <3>2. QED BY <2>1, <3>1, FrameTyped
  <2>3. /\ f.at \notin BaseAt /\ f.at \notin SlotAt /\ g.at \notin BaseAt /\ g.at \notin SlotAt
        /\ Top(c).at \notin BaseAt /\ f.at \notin CallAt /\ f.at \notin ReapAt /\ g.at \notin ReapAt
        /\ f.at # "killsync" /\ g.at # "killsync"
    BY Zenon, <1>7, <2>2 DEF BaseAt, SlotAt, In, CallAt, ReapAt
  <2>0. r = <<f, g>> \o Tail(q)
    BY Zenon, <1>1, <1>7, <2>1, GotoFacts DEF ParkFrames
  <2> HIDE DEF q, r
  <2>4. /\ FramesOK(Tail(q)) /\ Shift(q, Tail(q), 0, 1) /\ Len(Tail(q)) \in Nat
        /\ Len(Tail(q)) = Len(q) - 1
    BY Zenon, <1>1, <2>3, TailFacts
  <2>5. PICK y : y = Tail(q)
    BY Zenon
  <2>5z. PICK z : z = <<g>> \o y
    BY Zenon
  <2>6. FramesOK(z) /\ Shift(Tail(q), z, 1, 0) /\ z[1] = g /\ Len(z) = Len(Tail(q)) + 1 /\ Len(z) \in Nat
    <3>1. FramesOK(y)
      BY Zenon, <2>4, <2>5
    <3>2. FramesOK(z)
      BY Zenon, <2>2, <2>3, <2>5z, <3>1, PushOK
    <3>3. Shift(y, z, 1, 0) /\ z[1] = g /\ Len(z) = Len(y) + 1
      BY Zenon, <2>2, <2>3, <2>5z, <3>1, ShiftPush
    <3>4. Len(z) \in Nat
      BY <3>2 DEF FramesOK
    <3>5. QED BY Zenon, <2>5, <3>2, <3>3, <3>4
  <2>7. r = <<f>> \o z
    <3>2. <<f>> \o <<g>> = <<f, g>>
      BY Zenon, <2>2, PairConcat
    <3>1. Tail(q) \in Seq(Frame)
      BY Zenon, <2>4 DEF FramesOK
    <3>3. Tail(q) \in Seq(Frame) /\ <<f>> \in Seq(Frame) /\ <<g>> \in Seq(Frame)
      BY <2>2, <3>1
    <3>4. <<f>> \o (<<g>> \o Tail(q)) = (<<f>> \o <<g>>) \o Tail(q)
      BY <3>3, ConcatThree
    <3>5. QED BY Zenon, <2>0, <2>5, <2>5z, <3>2, <3>4
  <2>8. Shift(z, r, 1, 0) /\ r[1] = f /\ Len(r) = Len(z) + 1
    BY Zenon, <2>2, <2>3, <2>6, <2>7, ShiftPush
  <2>9. /\ 0 \in Nat /\ 1 \in Nat /\ 1 <= Len(q) /\ 0 + 1 = 1 /\ 1 + 1 = 2 /\ Len(q) \in Nat
        /\ 2 <= Len(r)
    BY <1>1, <2>6, <2>8
  <2>10. Shift(q, z, 0 + 1, 1)
    BY Zenon, <2>4, <2>6, <2>9, ShiftMore
  <2>11. Shift(q, z, 1, 1)
    BY Zenon, <2>9, <2>10
  <2>12. Shift(q, r, 1 + 1, 1) /\ \A i \in 1 .. Len(z) : r[i + 1] = z[i]
    <3>1. /\ Len(q) \in Nat /\ Len(z) \in Nat /\ Shift(q, z, 1, 1) /\ Shift(z, r, 1, 0)
          /\ 1 <= Len(q) /\ 1 \in Nat
      BY Zenon, <2>6, <2>8, <2>9, <2>11
    <3>2. PICK w, x : w = r /\ x = q
      BY Zenon
    <3>3. /\ Len(x) \in Nat /\ Len(z) \in Nat /\ Shift(x, z, 1, 1) /\ Shift(z, w, 1, 0)
          /\ 1 <= Len(x) /\ 1 \in Nat
      BY Zenon, <3>1, <3>2
    <3>4. Shift(x, w, 1 + 1, 1) /\ \A i \in 1 .. Len(z) : w[i + 1] = z[i]
      BY <3>3, ShiftMore
    <3>5. QED BY Zenon, <3>2, <3>4
  <2>13. r[2] = g /\ Shift(q, r, 2, 1) /\ Len(r) - 2 = Len(q) - 1
    <3>1. 1 \in 1 .. Len(z)
      BY <2>4, <2>6
    <3>2. r[1 + 1] = z[1]
      BY Zenon, <2>12, <3>1
    <3>3. QED BY <2>4, <2>6, <2>8, <2>9, <2>12, <3>2
  <2>14. Fresh(c, f, Len(r) - 1) /\ Fresh(c, g, Len(r) - 2)
    BY Zenon, <1>7, <2>2, <2>3, <2>13 DEF Fresh, q
  <2>15. \A i \in 1 .. 2 : i = 1 \/ i = 2
    OBVIOUS
  <2>16. /\ \A i \in 1 .. 2 : Fresh(c, r[i], Len(r) - i)
         /\ \A i \in 2 .. 2 : r[i].at \notin ReapAt
    BY <2>3, <2>8, <2>13, <2>14, <2>15
  <2>17. 2 \in 0 .. 2 /\ 1 \in 0 .. 1 /\ 1 # 0
    OBVIOUS
  <2>18. Top(c).at \notin ReapAt
    BY Zenon, <1>7 DEF In, ReapAt
  <2>19. QED BY Zenon, <2>9, <2>13, <2>16, <2>17, <2>18 DEF Moved, q, r
<1>8. CASE IsTask(c) /\ Goto(c, ExitFrames(c))
  <2>1. PICK f, g : f = Enter(c, "reap", 0) /\ g = Enter(c, "exited", 0)
    BY Zenon
  <2>2. /\ f \in Frame /\ f.at = "reap" /\ f.masked = (Top(c).masked \/ task[cur[c]].user)
        /\ g \in Frame /\ g.at = "exited"
    BY <2>1, EnterTyped DEF At
  <2>3. r = <<f, g>>
    BY Zenon, <1>8, <2>1, GotoFacts DEF ExitFrames
  <2>4. Len(r) = 2 /\ r[1] = f /\ r[2] = g /\ Len(r) - 2 = 0
    BY <2>3
  <2>5. Len(q) = 1
    BY Zenon, <1>2, <1>8 DEF IsTask, In, BaseAt
  <2>6. Shift(q, r, 2, 1)
    BY <2>4, <2>5 DEF Shift
  <2>7. Fresh(c, f, Len(r) - 1) /\ Fresh(c, g, Len(r) - 2)
    BY Zenon, <2>2, <2>4 DEF Fresh, ReapAt, CallAt
  <2>8. \A i \in 1 .. 2 : i = 1 \/ i = 2
    OBVIOUS
  <2>9. /\ \A i \in 1 .. 2 : Fresh(c, r[i], Len(r) - i)
        /\ \A i \in 2 .. 2 : r[i].at \notin ReapAt
    BY <2>2, <2>4, <2>7, <2>8 DEF ReapAt
  <2>10. 2 \in 0 .. 2 /\ 1 \in 0 .. 1 /\ 1 # 0 /\ 1 <= Len(q) /\ 2 <= Len(r)
    BY <2>4, <2>5
  <2>11. Top(c).at \notin ReapAt
    BY Zenon, <1>8 DEF IsTask, In, ReapAt
  <2>12. QED BY Zenon, <2>6, <2>9, <2>10, <2>11 DEF Moved
<1>9. CASE In(c, "boot") /\ Goto(c, Body)
  <2>1. PICK f : f = F("body", 0, FALSE)
    BY Zenon
  <2>2. f \in Frame /\ f.at = "body"
    <3>1. "body" \in At /\ 0 \in Int /\ FALSE \in BOOLEAN
      BY DEF At
    <3>2. QED BY Zenon, <2>1, <3>1, FrameTyped
  <2>3. r = <<f>>
    BY Zenon, <1>9, <2>1, GotoFacts DEF Body
  <2>4. Len(r) = 1 /\ r[1] = f /\ Len(r) - 1 = 0
    BY <2>3
  <2>5. Len(q) = 1
    BY Zenon, <1>2, <1>9 DEF In, BaseAt
  <2>6. Shift(q, r, 1, 1)
    BY <2>4, <2>5 DEF Shift
  <2>7. Fresh(c, f, Len(r) - 1)
    BY Zenon, <2>2, <2>4 DEF Fresh, ReapAt, CallAt
  <2>8. 1 <= Len(q) /\ 1 <= Len(r) /\ 1 \in 0 .. 2 /\ 1 \in 0 .. 1 /\ 1 # 0
        /\ (\A i \in 1 .. 1 : i = 1) /\ (2 .. 1 = {})
    BY <2>4, <2>5
  <2>9. /\ \A i \in 1 .. 1 : Fresh(c, r[i], Len(r) - i)
        /\ \A i \in 2 .. 1 : r[i].at \notin ReapAt
    BY Zenon, <2>4, <2>7, <2>8
  <2>10. Top(c).at \notin ReapAt
    BY Zenon, <1>9 DEF In, ReapAt
  <2>11. QED BY Zenon, <2>6, <2>8, <2>9, <2>10 DEF Moved
<1>10. QED BY Zenon, <1>3, <1>4, <1>5, <1>6, <1>7, <1>8, <1>9 DEF Moves

(***************************************************************************)
(* A task that leaves its CPU is in schedule().                            *)
(***************************************************************************)
LEMMA HeadPush ==
  ASSUME NEW f \in Frame, NEW q \in Seq(Frame)
  PROVE  Head(<<f>> \o q) = f
OBVIOUS

LEMMA CallTop ==
  ASSUME TypeInv, NEW c \in Cpus, Call(c, "reap", 0) \/ Preempt(c)
                                  \/ (In(c, "publish") /\ Goto(c, ParkFrames(c)))
                                  \/ Goto(c, ExitFrames(c))
  PROVE  Top(c)'.at = "reap"
<1>1. stack[c] \in Seq(Frame) /\ (Top(c).at \notin BaseAt => Below(c) \in Seq(Frame))
  BY Zenon, TopFacts DEF FramesOK
<1>2. "reap" \in At /\ "parked" \in At /\ "exited" \in At /\ Top(c).masked \in BOOLEAN
      /\ 0 \in Int /\ TRUE \in BOOLEAN
  BY TopFacts DEF At, Frame
<1>3. CASE Call(c, "reap", 0)
  <2>1. Enter(c, "reap", 0) \in Frame /\ Enter(c, "reap", 0).at = "reap"
    BY Zenon, <1>2, EnterTyped
  <2>2. stack'[c] = <<Enter(c, "reap", 0)>> \o stack[c]
    BY Zenon, <1>3, GotoFacts DEF Call
  <2>3. QED BY Zenon, <1>1, <2>1, <2>2, HeadPush DEF Top
<1>4. CASE Preempt(c)
  <2>1. F("reap", 0, TRUE) \in Frame /\ F("reap", 0, TRUE).at = "reap"
    BY Zenon, <1>2, FrameTyped
  <2>2. stack'[c] = <<F("reap", 0, TRUE)>> \o stack[c]
    BY Zenon, <1>4, GotoFacts DEF Preempt
  <2>3. QED BY Zenon, <1>1, <2>1, <2>2, HeadPush DEF Top
<1>5. CASE In(c, "publish") /\ Goto(c, ParkFrames(c))
  <2>1. PICK f, g : f = F("reap", 0, Top(c).masked) /\ g = F("parked", 0, Top(c).masked)
    BY Zenon
  <2>2. f \in Frame /\ f.at = "reap" /\ g \in Frame
    BY Zenon, <1>2, <2>1, FrameTyped
  <2>3. stack'[c] = <<f, g>> \o Below(c) /\ Below(c) \in Seq(Frame)
    BY Zenon, <1>1, <1>5, <2>1, GotoFacts DEF ParkFrames, In, BaseAt
  <2>4. PICK q \in Seq(Frame) : q = Below(c)
    BY Zenon, <2>3
  <2>5. Head(<<f, g>> \o q) = f
    BY <2>2, <2>4
  <2>6. QED BY Zenon, <2>2, <2>3, <2>4, <2>5 DEF Top
<1>6. CASE Goto(c, ExitFrames(c))
  <2>1. PICK f, g : f = Enter(c, "reap", 0) /\ g = Enter(c, "exited", 0)
    BY Zenon
  <2>2. f \in Frame /\ f.at = "reap" /\ g \in Frame
    BY Zenon, <1>2, <2>1, EnterTyped
  <2>3. stack'[c] = <<f, g>>
    BY Zenon, <1>6, <2>1, GotoFacts DEF ExitFrames
  <2>4. QED BY <2>2, <2>3 DEF Top
<1>7. QED BY Zenon, <1>3, <1>4, <1>5, <1>6

LEMMA SchedKept ==
  ASSUME TypeInv, NEW c \in Cpus, Moves(c), Top(c).at \in SchedAt
  PROVE  Top(c)'.at \in SchedAt
<1>1. stack[c] \in Seq(Frame) /\ (Top(c).at \notin BaseAt => Below(c) \in Seq(Frame))
  BY Zenon, TopFacts DEF FramesOK
<1>2. CASE UNCHANGED stack
  BY Zenon, <1>2 DEF Top
<1>3. ASSUME NEW f, Pushes(c, f) PROVE Top(c)'.at \in SchedAt
  <2>1. stack'[c] = <<f>> \o stack[c] /\ f \in Frame /\ f.at = "reap"
    BY Zenon, <1>3, GotoFacts DEF Pushes
  <2>2. Head(stack'[c]) = f
    BY Zenon, <1>1, <2>1, HeadPush
  <2>3. QED BY Zenon, <2>1, <2>2 DEF Top, SchedAt
<1>4. ASSUME NEW f, Turns(c, f) PROVE Top(c)'.at \in SchedAt
  <2>1. stack'[c] = <<f>> \o Below(c) /\ f \in Frame /\ f.at \in SchedAt
    BY Zenon, <1>4, GotoFacts DEF Turns, SchedAt
  <2>2. Below(c) \in Seq(Frame)
    BY Zenon, <1>1 DEF SchedAt, BaseAt
  <2>3. Head(stack'[c]) = f
    BY Zenon, <2>1, <2>2, HeadPush
  <2>4. QED BY Zenon, <2>1, <2>3 DEF Top
<1>5. ~Returns(c) /\ ~In(c, "publish") /\ ~IsTask(c) /\ ~In(c, "boot")
  BY Zenon DEF Returns, In, IsTask, SchedAt
<1>6. QED BY Zenon, <1>2, <1>3, <1>4, <1>5 DEF Moves

\* The CPU that takes the step.
LEMMA OwnLeaving ==
  ASSUME TypeInv, SafeInv, OneCpuPerTask, LeavingOK, ActiveStackAlive', NEW c \in Cpus,
         CpuStep(c) \/ Irq(c) \/ Tick(c), ~Switch(c), cur[c] \in Slots
  PROVE  task'[cur[c]].state = "RUNNING" \/ Top(c)'.at \in SchedAt
<1>1. CASE Top(c).at \in SchedAt
  BY Zenon, <1>1, KernelMoves, SchedKept
<1>2. ASSUME Top(c).at \notin SchedAt, Orderly PROVE task'[cur[c]].state = "RUNNING"
  <2>1. task[cur[c]].state = "RUNNING" /\ task[cur[c]].used
    BY Zenon, <1>2, RunningAt DEF SafeInv, ActiveStackAlive
  <2>2. task[cur[c]].cpu = c /\ c # NoCpu
    BY Zenon, <2>1, SlotFacts DEF OneCpuPerTask
  <2>3. task'[cur[c]].used
    BY Zenon, KernelCur DEF ActiveStackAlive
  <2>4. Bystander(task[cur[c]], task'[cur[c]])
    BY Zenon, <1>2, <2>1, <2>3 DEF Orderly, Lawful
  <2>5. QED BY Zenon, <2>1, <2>2, <2>4 DEF Bystander
<1>3. ASSUME Top(c).at \notin SchedAt, ParkTask(c), ~Goto(c, ParkFrames(c))
      PROVE  task'[cur[c]].state = "RUNNING"
  <2>1. task[cur[c]].state = "RUNNING"
    BY Zenon, <1>3, RunningAt
  <2>2. PICK t \in Tasks : t = cur[c]
    BY Zenon, TopFacts
  <2>3. task[t] \in TaskRec /\ task \in [Tasks -> TaskRec]
    BY Zenon, TaskTyped
  <2>4. UNCHANGED task \/ task' = [task EXCEPT ![t].wake = FALSE]
    BY Zenon, <1>3, <2>2 DEF ParkTask, ParkFrames
  <2>5. task'[t].state = task[t].state
    BY Zenon, <2>3, <2>4 DEF TaskRec
  <2>6. QED BY Zenon, <2>1, <2>2, <2>5
<1>4. CASE ParkTask(c)
  <2>1. In(c, "publish")
    BY Zenon, <1>4 DEF ParkTask
  <2>2. QED BY Zenon, <1>1, <1>3, <1>4, <2>1, CallTop DEF SchedAt
<1>5. CASE SleepCurrent(c)
  BY Zenon, <1>5, CallTop DEF SleepCurrent, SchedAt
<1>6. CASE TaskExit(c)
  <2>1. Goto(c, ExitFrames(c))
    BY Zenon, <1>6 DEF TaskExit, ExitFrames
  <2>2. QED BY Zenon, <2>1, CallTop DEF SchedAt
<1>7. CASE Wait4Scan(c)
  BY Zenon, <1>1, <1>2, <1>7, WaitLaw, CallTop DEF SchedAt
<1>8. CASE BootInit(c) \/ BootService(c) \/ ShellLoad(c) \/ Clone(c) \/ TaskCreate(c)
  <2>1. TaskCreate(c) \/ \E at \in At : TaskCreateUser(c, at)
    BY Zenon, <1>8 DEF BootInit, BootService, ShellLoad, Clone, At
  <2>2. PICK t \in FreeSlot : Lawfully(t, "new")
    BY Zenon, <2>1, CreateLaw
  <2>3. t # cur[c]
    BY Zenon DEF FreeSlot, SafeInv, ActiveStackAlive
  <2>4. CASE Top(c).at \notin SchedAt
    <3>1. task[cur[c]].state = "RUNNING" /\ task[cur[c]].used
      BY Zenon, <2>4, RunningAt DEF SafeInv, ActiveStackAlive
    <3>2. task[cur[c]].cpu = c /\ c # NoCpu
      BY Zenon, <3>1, SlotFacts DEF OneCpuPerTask
    <3>3. task'[cur[c]].used
      BY Zenon, KernelCur DEF ActiveStackAlive
    <3>4. Bystander(task[cur[c]], task'[cur[c]])
      BY Zenon, <2>2, <2>3, <3>1, <3>3 DEF Lawfully, Lawful
    <3>5. QED BY Zenon, <3>1, <3>2, <3>4 DEF Bystander
  <2>5. QED BY Zenon, <1>1, <2>4
<1>9. CASE RegisterInit(c) \/ AdoptTask(c) \/ CloneParent(c) \/ WakeTask(c) \/ UnparkTask(c)
           \/ KillTask(c)
  BY Zenon, <1>1, <1>2, <1>9, ParentLaw, WakeLaw, KillLaw
<1>10. CASE ReapVictim(c) \/ ReapClear(c)
  <2>1. Top(c).at \in SchedAt
    BY Zenon, <1>10 DEF ReapVictim, ReapClear, In, SchedAt
  <2>2. QED BY Zenon, <1>1, <2>1
<1>11. CASE \/ Yield(c) \/ ReapDetach(c) \/ ReapDone(c) \/ BootDone(c) \/ Publish(c)
            \/ ParkReturn(c) \/ Dequeue(c) \/ Wait4(c) \/ KillSyncPoll(c) \/ Irq(c) \/ Tick(c)
  <2>1. UNCHANGED task
    BY Zenon, <1>11 DEF Yield, ReapDetach, ReapDone, BootDone, Publish, ParkReturn, Dequeue, Wait4,
                 KillSyncPoll, Irq, Tick, lockVars
  <2>2. QED BY Zenon, <1>1, <1>2, <2>1, OrderlySame
<1>12. QED BY Zenon, <1>4, <1>5, <1>6, <1>7, <1>8, <1>9, <1>10, <1>11 DEF CpuStep

\* Another CPU: its task is RUNNING there and no bystander's step changes that.
LEMMA OtherLeaving ==
  ASSUME SafeInv, OneCpuPerTask, LeavingOK, ActiveStackAlive', NEW c \in Cpus, Laws(c),
         NEW d \in Cpus, cur'[d] = cur[d], cur[d] # cur[c], stack'[d] = stack[d],
         cur[d] \in Slots, task'[cur[d]].state # "RUNNING"
  PROVE  Top(d)'.at \in SchedAt
<1>1. Top(d)' = Top(d)
  BY Zenon DEF Top
<1>2. task[cur[d]].used /\ task'[cur[d]].used
  BY Zenon DEF SafeInv, ActiveStackAlive
<1>3. task[cur[d]].cpu = d /\ d # NoCpu
  BY Zenon, <1>2, SlotFacts DEF OneCpuPerTask
<1>4. Bystander(task[cur[d]], task'[cur[d]])
  <2>1. PICK u \in Slots : u = cur[d]
    BY Zenon
  <2>2. PICK k : Lawful(task[u], task'[u], k) /\ (k = "own" => u = cur[c])
    BY <2>1, LawsEach DEF Lawed
  <2>3. QED BY Zenon, <1>2, <2>1, <2>2 DEF Lawful
<1>5. task[cur[d]].state # "RUNNING"
  BY Zenon, <1>3, <1>4 DEF Bystander
<1>6. QED BY Zenon, <1>1, <1>5 DEF LeavingOK

LEMMA SwitchLeaving ==
  ASSUME TypeInv, SafeInv, OneCpuPerTask, LeavingOK, ActiveStackAlive', NEW c \in Cpus, Switch(c)
  PROVE  LeavingOK'
<1>1. PICK n \in Tasks : /\ cur' = [cur EXCEPT ![c] = n]
                         /\ \E q : Goto(c, q)
                         /\ n \in Slots => task'[n].state = "RUNNING"
  BY SMTT(30), SwitchLaw DEF Return
<1>2. cur'[c] = n /\ \A d \in Cpus : d # c => cur'[d] = cur[d] /\ stack'[d] = stack[d]
  BY Zenon, <1>1, GotoFacts DEF TypeInv
<1>3. Laws(c)
  BY Zenon, SwitchLaw DEF Laws
<1>4. SUFFICES ASSUME NEW d \in Cpus, cur'[d] \in Slots, task'[cur'[d]].state # "RUNNING"
               PROVE  Top(d)'.at \in SchedAt
  BY Zenon DEF LeavingOK
<1>5. d # c
  BY Zenon, <1>1, <1>2, <1>4
<1>6. cur[d] # cur[c]
  BY Zenon, <1>5 DEF OneCpuPerTask
<1>7. QED BY Zenon, <1>2, <1>3, <1>4, <1>5, <1>6, OtherLeaving

LEMMA LeavingStep ==
  TypeInv /\ SafeInv /\ OneCpuPerTask /\ LeavingOK /\ ActiveStackAlive' /\ [Next]_vars => LeavingOK'
<1> SUFFICES ASSUME TypeInv, SafeInv, OneCpuPerTask, LeavingOK, ActiveStackAlive', [Next]_vars
             PROVE  LeavingOK'
  BY Zenon
<1>1. CASE UNCHANGED vars
  BY Zenon, <1>1 DEF vars, lockVars, LeavingOK, Top
<1>2. ASSUME NEW c \in Cpus, CpuStep(c) \/ Irq(c) \/ Tick(c), ~Switch(c) PROVE LeavingOK'
  <2>1. cur' = cur /\ Laws(c) /\ Moves(c)
    BY Zenon, <1>2, KernelCur, KernelLaws, KernelMoves
  <2>2. SUFFICES ASSUME NEW d \in Cpus, cur[d] \in Slots, task'[cur[d]].state # "RUNNING"
                 PROVE  Top(d)'.at \in SchedAt
    BY Zenon, <2>1 DEF LeavingOK
  <2>3. CASE d = c
    BY Zenon, <1>2, <2>2, <2>3, OwnLeaving
  <2>4. CASE d # c
    <3>1. cur[d] # cur[c] /\ stack'[d] = stack[d]
      BY <2>1, <2>4, MovesOther DEF OneCpuPerTask
    <3>2. QED BY Zenon, <2>1, <2>2, <3>1, OtherLeaving
  <2>5. QED BY Zenon, <2>3, <2>4
<1>3. ASSUME Orderly, UNCHANGED cur,
             \A d \in Cpus : stack'[d] = stack[d] \/ Top(d)'.at = "reap"
      PROVE LeavingOK'
  <2>1. SUFFICES ASSUME NEW d \in Cpus, cur[d] \in Slots, task'[cur[d]].state # "RUNNING",
                        stack'[d] = stack[d]
                 PROVE  Top(d)'.at \in SchedAt
    BY Zenon, <1>3 DEF LeavingOK, SchedAt
  <2>2. task[cur[d]].used /\ task'[cur[d]].used
    BY Zenon, <1>3 DEF SafeInv, ActiveStackAlive
  <2>3. task[cur[d]].cpu = d /\ d # NoCpu
    BY Zenon, <2>1, <2>2, SlotFacts DEF OneCpuPerTask
  <2>4. Bystander(task[cur[d]], task'[cur[d]])
    BY Zenon, <1>3, <2>1, <2>2 DEF Orderly, Lawful
  <2>5. task[cur[d]].state # "RUNNING" /\ Top(d)' = Top(d)
    BY Zenon, <2>1, <2>3, <2>4 DEF Bystander, Top
  <2>6. QED BY Zenon, <2>1, <2>5 DEF LeavingOK
<1>4. CASE TickSlot
  <2>1. UNCHANGED <<cur, stack>> /\ Orderly
    BY Zenon, <1>4, TickLaw DEF TickSlot
  <2>2. QED BY Zenon, <1>3, <2>1
<1>5. CASE TickDone
  <2>1. UNCHANGED <<task, cur>> /\ Preempt(0) /\ 0 \in Cpus
    BY Zenon, <1>5, SlotFacts DEF TickDone
  <2>2. \A d \in Cpus : stack'[d] = stack[d] \/ Top(d)'.at = "reap"
    <3>1. Top(0)'.at = "reap"
      BY Zenon, <2>1, CallTop
    <3>2. \A d \in Cpus : d # 0 => stack'[d] = stack[d]
      BY Zenon, <2>1, GotoFacts DEF Preempt
    <3>3. QED BY Zenon, <3>1, <3>2
  <2>3. QED BY Zenon, <1>3, <2>1, <2>2, OrderlySame
<1>6. QED BY Zenon, <1>1, <1>2, <1>4, <1>5, SwitchLeaving DEF Next

(***************************************************************************)
(* A task that is gone stays gone.                                         *)
(***************************************************************************)
LEMMA LeavingInit == Init => LeavingOK
BY Zenon, SlotFacts DEF Init, LeavingOK

LEMMA StepLater ==
  TypeInv /\ SafeInv /\ LeavingOK /\ [Next]_vars =>
    \A t \in Slots : /\ task[t].used /\ task[t].state \in Gone /\ task'[t].used
                     => Later(task[t].state, task'[t].state)
<1> SUFFICES ASSUME TypeInv, SafeInv, LeavingOK, [Next]_vars, NEW t \in Slots,
                    task[t].used, task[t].state \in Gone, task'[t].used
             PROVE  Later(task[t].state, task'[t].state)
  BY Zenon
<1>1. ASSUME NEW k, Lawful(task[t], task'[t], k) PROVE Later(task[t].state, task'[t].state)
  BY Zenon, <1>1 DEF Lawful
<1>2. CASE Orderly
  BY Zenon, <1>1, <1>2 DEF Orderly
<1>3. ASSUME NEW c \in Cpus, Laws(c) PROVE Later(task[t].state, task'[t].state)
  BY Zenon, <1>1, <1>3, LawsEach DEF Lawed
<1>4. CASE UNCHANGED vars
  BY Zenon, <1>4 DEF vars, lockVars, Later
<1>5. ASSUME NEW c \in Cpus, Switch(c) PROVE Laws(c)
  BY Zenon, <1>5, SwitchLaw DEF Laws
<1>6. TickDone => Orderly
  BY Zenon, OrderlySame DEF TickDone
<1>7. QED BY Zenon, <1>2, <1>3, <1>4, <1>5, <1>6, TickLaw, KernelLaws DEF Next

LEMMA LeavingAlways == Spec /\ []OneCpuPerTask /\ []SafeInv => []LeavingOK
<1>1. TypeInv /\ SafeInv /\ OneCpuPerTask /\ LeavingOK /\ SafeInv' /\ [Next]_vars => LeavingOK'
  BY Zenon, LeavingStep DEF SafeInv
<1>2. QED BY <1>1, LeavingInit, TypeInvAlways, PTL DEF Spec

(***************************************************************************)
(* Every step, seen as a change of the table and of the frames of a CPU.   *)
(***************************************************************************)
EachLawful ==
  \A u \in Slots : \E k : /\ Lawful(task[u], task'[u], k)
                          /\ k = "new" => u \in FreeSlot /\ NewContext(u)

\* A step of CPU c that is not a switch.
Local(c) ==
  /\ Moved(c) /\ UNCHANGED cur
  /\ \A d \in Cpus : d # c => stack'[d] = stack[d]
  /\ UNCHANGED saved \/ \E t \in FreeSlot : NewContext(t)

LEMMA StepLawful ==
  TypeInv /\ SafeInv /\ LeavingOK /\ [Next]_vars =>
    EachLawful /\ (next_task_id' = next_task_id \/ next_task_id' = next_task_id + 1)
<1> SUFFICES ASSUME TypeInv, SafeInv, LeavingOK, [Next]_vars
             PROVE  EachLawful /\ (next_task_id' = next_task_id \/ next_task_id' = next_task_id + 1)
  BY Zenon
<1>1. ASSUME Orderly PROVE EachLawful
  BY <1>1 DEF Orderly, EachLawful
<1>2. ASSUME NEW c \in Cpus, Laws(c) PROVE EachLawful
  <2>1. ASSUME NEW u \in Slots
        PROVE  \E k : /\ Lawful(task[u], task'[u], k)
                      /\ k = "new" => u \in FreeSlot /\ NewContext(u)
    <3>1. Lawed(c, u)
      BY Zenon, <1>2, LawsEach
    <3>2. QED BY Zenon, <3>1 DEF Lawed
  <2>2. QED BY Zenon, <2>1 DEF EachLawful
<1>3. CASE UNCHANGED vars
  <2>1. UNCHANGED <<task, next_task_id>>
    BY Zenon, <1>3 DEF vars, lockVars, idVars
  <2>2. QED BY Zenon, <1>1, <2>1, OrderlySame
<1>4. ASSUME NEW c \in Cpus, CpuStep(c) \/ Irq(c) \/ Tick(c), ~Switch(c)
      PROVE  EachLawful /\ (next_task_id' = next_task_id \/ next_task_id' = next_task_id + 1)
  <2>1. next_task_id' = next_task_id \/ next_task_id' = next_task_id + 1
    BY Zenon, <1>4, KernelIds DEF NewContext
  <2>2. QED BY Zenon, <1>2, <1>4, <2>1, KernelLaws
<1>5. ASSUME NEW c \in Cpus, Switch(c)
      PROVE  EachLawful /\ (next_task_id' = next_task_id \/ next_task_id' = next_task_id + 1)
  <2>1. next_task_id' = next_task_id
    BY Zenon, <1>5 DEF Switch, idVars
  <2>2. Laws(c)
    BY Zenon, <1>5, SwitchLaw DEF Laws
  <2>3. QED BY Zenon, <1>2, <2>1, <2>2
<1>6. CASE TickSlot \/ TickDone
  <2>1. Orderly
    BY Zenon, <1>6, TickLaw, OrderlySame DEF TickDone
  <2>2. next_task_id' = next_task_id
    BY Zenon, <1>6 DEF TickSlot, TickDone, idVars
  <2>3. QED BY Zenon, <1>1, <2>1, <2>2
<1>7. QED BY Zenon, <1>3, <1>4, <1>5, <1>6 DEF Next

LEMMA StepLocal ==
  ASSUME TypeInv, SafeInv, LeavingOK, [Next]_vars
  PROVE  \E c \in Cpus : (Local(c) \/ Switch(c)) /\ Laws(c)
<1>1. ASSUME UNCHANGED <<stack, saved, cur>> PROVE Local(0)
  <2>1. Moved(0) /\ 0 \in Cpus
    BY Zenon, <1>1, KernelMoved, SlotFacts DEF Moves
  <2>2. QED BY Zenon, <1>1, <2>1 DEF Local
<1>2. CASE UNCHANGED vars \/ TickSlot
  <2>1. UNCHANGED <<stack, saved, cur>>
    BY Zenon, <1>2 DEF vars, TickSlot
  <2>2. Orderly
    <3>1. CASE UNCHANGED vars
      BY Zenon, <3>1, OrderlySame DEF vars, lockVars
    <3>2. QED BY Zenon, <1>2, <3>1, TickLaw
  <2>3. QED BY Zenon, <1>1, <2>1, <2>2, SlotFacts DEF Laws
<1>3. ASSUME NEW c \in Cpus, CpuStep(c) \/ Irq(c) \/ Tick(c), ~Switch(c) PROVE Local(c) /\ Laws(c)
  <2>1. Moves(c) /\ UNCHANGED cur /\ (UNCHANGED saved \/ \E t \in FreeSlot : NewContext(t))
    BY Zenon, <1>3, KernelMoves, KernelCur, KernelIds
  <2>2. QED BY Zenon, <1>3, <2>1, KernelMoved, KernelLaws, MovesOther DEF Local
<1>4. CASE TickDone
  <2>1. Preempt(0) /\ tickat # NoTick /\ UNCHANGED <<cur, saved>> /\ 0 \in Cpus
    BY Zenon, <1>4, SlotFacts DEF TickDone
  <2>2. Moves(0)
    BY Zenon, <2>1, PreemptPushes DEF Moves
  <2>3. Local(0)
    BY Zenon, <2>1, <2>2, KernelMoved, MovesOther DEF Local
  <2>4. Orderly
    BY Zenon, <1>4, OrderlySame DEF TickDone
  <2>5. QED BY Zenon, <2>1, <2>3, <2>4 DEF Laws
<1>5. ASSUME NEW c \in Cpus, Switch(c) PROVE Laws(c)
  BY Zenon, <1>5, SwitchLaw DEF Laws
<1>6. QED BY Zenon, <1>2, <1>3, <1>4, <1>5 DEF Next

LEMMA FrameArg ==
  ASSUME NEW q, FramesOK(q), NEW i \in 1 .. Len(q)
  PROVE  q[i] \in Frame /\ q[i].arg \in Int
<1>1. q \in Seq(Frame)
  BY Zenon DEF FramesOK
<1>2. q[i] \in Frame
  BY <1>1
<1>3. QED BY Zenon, <1>2 DEF Frame

LEMMA TailShorter ==
  ASSUME NEW q \in Seq(Frame), q # <<>>
  PROVE  Tail(q) # q /\ \A f \in Frame : Tail(q) # <<f>> \o q
<1>1. PICK n \in Nat : n = Len(q)
  OBVIOUS
<1>2. Len(Tail(q)) = n - 1
  BY Zenon, <1>1, HeadFacts
<1>3. ASSUME NEW f \in Frame PROVE Len(<<f>> \o q) = n + 1
  <2>1. <<f>> \in Seq(Frame) /\ Len(<<f>>) = 1
    BY <1>3
  <2>2. Len(<<f>> \o q) = 1 + n
    BY Zenon, <1>1, <2>1, ConcatFacts
  <2>3. QED BY <2>2
<1>4. n - 1 # n /\ n - 1 # n + 1
  BY <1>1
<1>5. QED BY Zenon, <1>1, <1>2, <1>3, <1>4

\* Where the frames of CPU c come from.
LEMMA MovedFrame ==
  ASSUME TypeInv, NEW c \in Cpus, Moved(c), NEW i \in 1 .. Len(stack'[c])
  PROVE  \/ \E j \in 1 .. Len(stack[c]) : /\ stack'[c][i] = stack[c][j]
                                          /\ Len(stack'[c]) - i = Len(stack[c]) - j
         \/ Fresh(c, stack'[c][i], Len(stack'[c]) - i)
<1>1. PICK q, r : q = stack[c] /\ r = stack'[c]
  BY Zenon
<1>2. PICK k \in 0 .. 2, j \in 0 .. 1 :
        /\ Shift(q, r, k, j) /\ j <= Len(q) /\ k <= Len(r)
        /\ \A h \in 1 .. k : Fresh(c, r[h], Len(r) - h)
  BY Zenon, <1>1 DEF Moved
<1>3. Len(q) \in Nat /\ i \in 1 .. Len(r)
  BY <1>1, TopFacts DEF FramesOK
<1>4. Len(r) = Len(q) + k - j /\ \A h \in k + 1 .. Len(r) : r[h] = q[h - k + j]
  BY Zenon, <1>2 DEF Shift
<1>5. i \in 1 .. k \/ (/\ i \in k + 1 .. Len(r) /\ i - k + j \in 1 .. Len(q)
                       /\ Len(r) - i = Len(q) - (i - k + j))
  BY <1>3, <1>4
<1>6. CASE i \in 1 .. k
  BY Zenon, <1>1, <1>2, <1>6
<1>7. CASE /\ i \in k + 1 .. Len(r) /\ i - k + j \in 1 .. Len(q)
           /\ Len(r) - i = Len(q) - (i - k + j)
  <2>1. r[i] = q[i - k + j]
    BY Zenon, <1>4, <1>7
  <2>2. QED BY Zenon, <1>1, <1>7, <2>1
<1>8. QED BY Zenon, <1>5, <1>6, <1>7

(***************************************************************************)
(* The ids, and the tasks sched_kill_task_sync() waits for.                *)
(***************************************************************************)
LEMMA IdsStep ==
  ASSUME TypeInv, IdsOK, EachLawful,
         next_task_id' = next_task_id \/ next_task_id' = next_task_id + 1
  PROVE  IdsOK'
<1>1. next_task_id \in Nat /\ next_task_id' \in Nat /\ next_task_id' >= next_task_id
  BY DEF TypeInv, IdsTyped
<1>2. ASSUME NEW t \in Slots, task'[t].used
      PROVE  \/ task[t].used /\ task'[t].id = task[t].id
             \/ /\ t \in FreeSlot /\ next_task_id' = next_task_id + 1
                /\ task'[t].id = next_task_id
  BY Zenon, <1>2 DEF EachLawful, Lawful, NewContext
<1>3. \A t \in Slots : task[t].id \in Nat
  BY Zenon, TaskTyped, SlotFacts DEF TaskRec
<1>4. \A t \in Slots : task'[t].used => task'[t].id < next_task_id'
  <2> SUFFICES ASSUME NEW t \in Slots, task'[t].used PROVE task'[t].id < next_task_id'
    BY Zenon
  <2>1. CASE task[t].used /\ task'[t].id = task[t].id
    BY <1>1, <1>3, <2>1 DEF IdsOK
  <2>2. CASE next_task_id' = next_task_id + 1 /\ task'[t].id = next_task_id
    BY <1>1, <2>2
  <2>3. QED BY Zenon, <1>2, <2>1, <2>2
<1>5. ASSUME NEW t \in Slots, NEW u \in Slots, task'[t].used, task'[u].used,
             task'[t].id = task'[u].id
      PROVE  t = u
  <2>1. CASE task[t].used /\ task'[t].id = task[t].id /\ task[u].used /\ task'[u].id = task[u].id
    BY Zenon, <1>5, <2>1 DEF IdsOK
  <2>2. CASE t \in FreeSlot /\ u \in FreeSlot
    <3>1. t \in Int /\ u \in Int
      BY SlotFacts
    <3>2. ~(t < u) /\ ~(u < t)
      BY Zenon, <2>2 DEF FreeSlot
    <3>3. QED BY <3>1, <3>2
  <2>3. ASSUME NEW v \in Slots, NEW w \in Slots, task[v].used, task'[v].id = task[v].id,
               task'[w].id = next_task_id, task'[v].id = task'[w].id
        PROVE  FALSE
    <3>1. task[v].id < next_task_id
      BY Zenon, <2>3 DEF IdsOK
    <3>2. QED BY <1>1, <1>3, <2>3, <3>1
  <2>4. QED BY Zenon, <1>2, <1>5, <2>1, <2>2, <2>3
<1>6. QED BY Zenon, <1>4, <1>5 DEF IdsOK

LEMMA MarkedStays ==
  ASSUME TypeInv, IdsOK, EachLawful, next_task_id' = next_task_id \/ next_task_id' = next_task_id + 1,
         NEW id \in Int, Marked(id)
  PROVE  Marked(id)'
<1>1. next_task_id \in Nat /\ id < next_task_id /\ id < next_task_id'
  BY DEF TypeInv, IdsTyped, Marked
<1>2. ASSUME NEW t \in Slots, task'[t].used, task'[t].id = id
      PROVE  task'[t].state \in Gone \/ Held(task'[t])
  <2>1. PICK k : Lawful(task[t], task'[t], k)
    BY Zenon DEF EachLawful
  <2>2. task[t].used
    BY <1>1, <1>2, <2>1 DEF Lawful
  <2>3. task[t].id = id
    BY Zenon, <1>2, <2>1, <2>2 DEF Lawful
  <2>4. task[t].state \in Gone \/ Held(task[t])
    BY Zenon, <2>2, <2>3 DEF Marked
  <2>5. task[t].state \in Gone => task'[t].state \in Gone
    BY Zenon, <1>2, <2>1, <2>2 DEF Lawful, Later, Gone
  <2>6. Held(task[t]) => task'[t].state \in Gone \/ Held(task'[t])
    BY Zenon, <1>2, <2>1, <2>2 DEF Lawful
  <2>7. QED BY Zenon, <2>4, <2>5, <2>6
<1>3. QED BY Zenon, <1>1, <1>2 DEF Marked, Held

\* sched_kill_task() marks its target.
LEMMA KilledMarked ==
  ASSUME TypeInv, IdsOK, NEW c \in Cpus, NEW t \in Slots, Killable(c, t),
         task' = [task EXCEPT ![t] = Killed(t)],
         next_task_id' = next_task_id \/ next_task_id' = next_task_id + 1,
         NEW id, id = task[t].id
  PROVE  Marked(id)'
<1>1. id \in Nat
  BY Zenon, TaskTyped, SlotFacts DEF TaskRec
<1>2. task[t].used /\ task[t] \in TaskRec /\ task \in [Tasks -> TaskRec] /\ t \in Tasks
  BY Zenon, TaskTyped, SlotFacts DEF Killable
<1>3. id < next_task_id'
  <2>1. next_task_id \in Nat /\ id < next_task_id
    BY Zenon, <1>1, <1>2 DEF TypeInv, IdsTyped, IdsOK
  <2>2. QED BY <1>1, <2>1
<1>4. task'[t].state \in Gone \/ Held(task'[t])
  <2>1. task'[t] = Killed(t)
    BY Zenon, <1>2
  <2>2. Killed(t).state \in Gone \/ Held(Killed(t))
    BY Zenon, <1>2 DEF Killed, Held, Gone, TaskRec
  <2>3. QED BY Zenon, <2>1, <2>2
<1>5. ASSUME NEW u \in Slots, task'[u].used, task'[u].id = id
      PROVE  task'[u].state \in Gone \/ Held(task'[u])
  <2>1. CASE u = t
    BY Zenon, <1>4, <2>1
  <2>2. CASE u # t
    <3>1. task'[u] = task[u]
      BY Zenon, <1>2, <2>2, SlotFacts
    <3>2. QED BY Zenon, <1>1, <1>2, <1>5, <2>2, <3>1 DEF IdsOK
  <2>3. QED BY Zenon, <2>1, <2>2
<1>6. QED BY Zenon, <1>3, <1>5 DEF Marked, Held

LEMMA KillsLocal ==
  ASSUME TypeInv, IdsOK, KillsOK, EachLawful,
         next_task_id' = next_task_id \/ next_task_id' = next_task_id + 1,
         NEW c \in Cpus, Local(c)
  PROVE  KillsOK'
<1>1. ASSUME NEW id \in Int, Marked(id) PROVE Marked(id)'
  BY Zenon, <1>1, MarkedStays
<1>2. ASSUME NEW d \in Cpus PROVE MarksOK(stack[d])'
  <2>0. \A i \in 1 .. Len(stack[d]) : /\ stack[d][i].at = "killsync" => Marked(stack[d][i].arg)
                                      /\ stack[d][i].arg \in Int
    <3>1. FramesOK(stack[d])
      BY Zenon, TopFacts
    <3>2. \A i \in 1 .. Len(stack[d]) : stack[d][i].arg \in Int
      BY Zenon, <3>1, FrameArg
    <3>3. QED BY Zenon, <3>2 DEF KillsOK, MarksOK
  <2>1. SUFFICES ASSUME NEW i \in 1 .. Len(stack'[d]), NEW id, stack'[d][i].at = "killsync",
                        id = stack'[d][i].arg
                 PROVE  Marked(id)'
    BY Zenon DEF MarksOK, Marked, Held
  <2>2. CASE d # c
    <3>1. stack'[d] = stack[d]
      BY Zenon, <2>2 DEF Local
    <3>2. Marked(id) /\ id \in Int
      BY Zenon, <2>0, <2>1, <3>1
    <3>3. QED BY Zenon, <1>1, <3>2
  <2>3. CASE d = c /\ \E j \in 1 .. Len(stack[c]) : stack'[c][i] = stack[c][j]
    <3>1. PICK j \in 1 .. Len(stack[d]) : stack'[d][i] = stack[d][j]
      BY Zenon, <2>3
    <3>2. Marked(id) /\ id \in Int
      BY Zenon, <2>0, <2>1, <3>1
    <3>3. QED BY Zenon, <1>1, <3>2
  <2>4. CASE d = c /\ Fresh(c, stack'[c][i], Len(stack'[c]) - i)
    <3>1. PICK t \in Slots : /\ Killable(c, t) /\ stack'[d][i].arg = task[t].id
                             /\ task' = [task EXCEPT ![t] = Killed(t)]
      BY Zenon, <2>1, <2>4 DEF Fresh
    <3>2. id = task[t].id
      BY Zenon, <2>1, <3>1
    <3>3. QED BY Zenon, <3>1, <3>2, KilledMarked
  <2>5. QED BY Zenon, <2>1, <2>2, <2>3, <2>4, MovedFrame DEF Local
<1>3. ASSUME NEW t \in Tasks PROVE MarksOK(saved[t])'
  <2>0. \A i \in 1 .. Len(saved[t]) : /\ saved[t][i].at = "killsync" => Marked(saved[t][i].arg)
                                      /\ saved[t][i].arg \in Int
    <3>1. FramesOK(saved[t])
      BY Zenon DEF TypeInv, SavedOK
    <3>2. \A i \in 1 .. Len(saved[t]) : saved[t][i].arg \in Int
      BY Zenon, <3>1, FrameArg
    <3>3. QED BY Zenon, <3>2 DEF KillsOK, MarksOK
  <2>1. SUFFICES ASSUME NEW i \in 1 .. Len(saved'[t]), NEW id, saved'[t][i].at = "killsync",
                        id = saved'[t][i].arg
                 PROVE  Marked(id)'
    BY Zenon DEF MarksOK, Marked, Held
  <2>2. saved'[t] = saved[t] \/ saved'[t] = Body
    BY Zenon DEF Local, NewContext, TypeInv, SavedOK
  <2>3. saved'[t] # Body
    BY <2>1 DEF Body, F
  <2>4. Marked(id) /\ id \in Int
    BY Zenon, <2>0, <2>1, <2>2, <2>3
  <2>5. QED BY Zenon, <1>1, <2>4
<1>4. QED BY Zenon, <1>2, <1>3 DEF KillsOK

LEMMA KillsSwitch ==
  ASSUME TypeInv, SafeInv, IdsOK, KillsOK, EachLawful,
         next_task_id' = next_task_id \/ next_task_id' = next_task_id + 1,
         NEW c \in Cpus, Switch(c)
  PROVE  KillsOK'
<1>1. ASSUME NEW id \in Int, Marked(id) PROVE Marked(id)'
  BY Zenon, <1>1, MarkedStays
<1>2. PICK n \in Tasks :
        IF n = cur[c] THEN Return(c) /\ UNCHANGED saved
        ELSE saved' = [saved EXCEPT ![cur[c]] = Below(c)] /\ Goto(c, saved[n])
  BY Zenon, SwitchLaw
<1>3. In(c, "switch")
  BY Zenon DEF Switch
<1>4. FramesOK(stack[c]) /\ Head(stack[c]).at \notin BaseAt /\ Below(c) = Tail(stack[c])
  BY Zenon, <1>3, TopFacts DEF In, Top, BaseAt, Below
\* Marked frames stay marked.
<1>5. ASSUME NEW q, FramesOK(q), MarksOK(q), NEW i \in 1 .. Len(q), q[i].at = "killsync"
      PROVE  Marked(q[i].arg) /\ q[i].arg \in Int
  BY Zenon, <1>5, FrameArg DEF MarksOK
<1>6. MarksOK(Below(c)) /\ FramesOK(Below(c))
  <2>1. /\ FramesOK(Tail(stack[c])) /\ Len(stack[c]) \in Nat
        /\ Len(Tail(stack[c])) = Len(stack[c]) - 1
        /\ \A i \in 1 .. Len(stack[c]) - 1 : Tail(stack[c])[i] = stack[c][i + 1]
    BY Zenon, <1>4, PopOK
  <2>2. ASSUME NEW i \in 1 .. Len(Below(c)), Below(c)[i].at = "killsync"
        PROVE  Marked(Below(c)[i].arg)
    <3>1. i \in 1 .. Len(stack[c]) - 1 /\ i + 1 \in 1 .. Len(stack[c])
      BY <1>4, <2>1, <2>2
    <3>2. Below(c)[i] = stack[c][i + 1]
      BY Zenon, <1>4, <2>1, <3>1
    <3>3. QED BY Zenon, <2>2, <3>1, <3>2 DEF KillsOK, MarksOK
  <2>3. QED BY Zenon, <1>4, <2>1, <2>2 DEF MarksOK
<1>7. \A d \in Cpus : stack'[d] = stack[d] \/ stack'[d] = Below(c) \/ stack'[d] = saved[n]
  BY Zenon, <1>2, GotoFacts DEF Return
<1>8. \A t \in Tasks : saved'[t] = saved[t] \/ saved'[t] = Below(c)
  BY Zenon, <1>2 DEF TypeInv, SavedOK
<1>9. /\ \A d \in Cpus : FramesOK(stack[d]) /\ MarksOK(stack[d])
      /\ \A t \in Tasks : FramesOK(saved[t]) /\ MarksOK(saved[t])
  BY Zenon DEF TypeInv, StacksOK, SavedOK, KillsOK
<1>10. ASSUME NEW q, FramesOK(q), MarksOK(q), NEW i \in 1 .. Len(q), q[i].at = "killsync",
              NEW id, id = q[i].arg
       PROVE  Marked(id)'
  BY Zenon, <1>1, <1>5, <1>10
<1>11. ASSUME NEW d \in Cpus PROVE MarksOK(stack[d])'
  <2>1. SUFFICES ASSUME NEW i \in 1 .. Len(stack'[d]), NEW id, stack'[d][i].at = "killsync",
                        id = stack'[d][i].arg
                 PROVE  Marked(id)'
    BY Zenon DEF MarksOK, Marked, Held
  <2>2. PICK q : q = stack'[d]
    BY Zenon
  <2>3. FramesOK(q) /\ MarksOK(q)
    BY Zenon, <1>6, <1>7, <1>9, <2>2
  <2>4. QED BY Zenon, <1>10, <2>1, <2>2, <2>3
<1>12. ASSUME NEW t \in Tasks PROVE MarksOK(saved[t])'
  <2>1. SUFFICES ASSUME NEW i \in 1 .. Len(saved'[t]), NEW id, saved'[t][i].at = "killsync",
                        id = saved'[t][i].arg
                 PROVE  Marked(id)'
    BY Zenon DEF MarksOK, Marked, Held
  <2>2. PICK q : q = saved'[t]
    BY Zenon
  <2>3. FramesOK(q) /\ MarksOK(q)
    BY Zenon, <1>6, <1>8, <1>9, <2>2
  <2>4. QED BY Zenon, <1>10, <2>1, <2>2, <2>3
<1>13. QED BY Zenon, <1>11, <1>12 DEF KillsOK

LEMMA DeathStep ==
  TypeInv /\ SafeInv /\ OneCpuPerTask /\ DeathInv /\ ActiveStackAlive' /\ [Next]_vars => DeathInv'
<1> SUFFICES ASSUME TypeInv, SafeInv, OneCpuPerTask, DeathInv, ActiveStackAlive', [Next]_vars
             PROVE  DeathInv'
  BY Zenon
<1>1. LeavingOK /\ IdsOK /\ KillsOK
  BY Zenon DEF DeathInv
<1>2. EachLawful /\ (next_task_id' = next_task_id \/ next_task_id' = next_task_id + 1)
  BY Zenon, <1>1, StepLawful
<1>3. LeavingOK'
  BY Zenon, <1>1, LeavingStep
<1>4. IdsOK'
  BY Zenon, <1>1, <1>2, IdsStep
<1>5. KillsOK'
  BY Zenon, <1>1, <1>2, StepLocal, KillsLocal, KillsSwitch
<1>6. QED BY Zenon, <1>3, <1>4, <1>5 DEF DeathInv

LEMMA DeathInit == Init => DeathInv
<1> SUFFICES ASSUME Init PROVE DeathInv
  BY Zenon
<1>1. IdsOK
  BY Zenon, SlotFacts DEF Init, IdsOK, IdleTask, Cleared
<1>2. \A c \in Cpus : Len(stack[c]) = 1 /\ stack[c][1].at # "killsync"
  BY Zenon DEF Init, Body, F
<1>3. \A t \in Tasks : Len(saved[t]) = 1 /\ saved[t][1].at # "killsync"
  BY Zenon DEF Init, Body, F
<1>4. KillsOK
  BY <1>2, <1>3 DEF KillsOK, MarksOK
<1>5. QED BY Zenon, <1>1, <1>4, LeavingInit DEF DeathInv

LEMMA DeathAlways == Spec /\ []OneCpuPerTask /\ []SafeInv => []DeathInv
<1>1. TypeInv /\ SafeInv /\ OneCpuPerTask /\ DeathInv /\ SafeInv' /\ [Next]_vars => DeathInv'
  BY Zenon, DeathStep DEF SafeInv
<1>2. QED BY <1>1, DeathInit, TypeInvAlways, PTL DEF Spec

\* A killsync frame returns when its target is stopped, and being marked it is gone.
LEMMA KillReturns ==
  ASSUME TypeInv, SafeInv, OneCpuPerTask, DeathInv, [Next]_vars, NEW c \in Cpus, In(c, "killsync"),
         stack'[c] = Below(c), NEW t \in Slots, task[t].used, task[t].id = Top(c).arg
  PROVE  task[t].state \in Gone
<1>1. stack[c] \in Seq(Frame) /\ stack[c] # <<>> /\ Top(c) \in Frame /\ Top(c) = stack[c][1]
  BY Zenon, TopFacts DEF FramesOK
<1>2. Marked(Top(c).arg)
  <2>1. 1 \in 1 .. Len(stack[c])
    BY <1>1, NoSeq
  <2>2. QED BY Zenon, <1>1, <2>1 DEF DeathInv, KillsOK, MarksOK, In
<1>3. stack'[c] # stack[c]
  BY Zenon, <1>1, TailShorter DEF Below
<1>4. Stopped(Top(c).arg)
  <2>1. ASSUME NEW d \in Cpus, CpuStep(d) \/ Irq(d) \/ Tick(d), ~Switch(d)
        PROVE  Stopped(Top(c).arg)
    <3>1. Moves(d)
      BY Zenon, <2>1, KernelMoves
    <3>2. d = c
      BY Zenon, <1>3, <3>1, MovesOther
    <3>3. Returns(c) => Stopped(Top(c).arg)
      BY Zenon DEF Returns, In
    <3>4. ASSUME NEW f, Pushes(c, f) PROVE FALSE
      <4>1. stack'[c] = <<f>> \o stack[c] /\ f \in Frame
        BY Zenon, <3>4, GotoFacts DEF Pushes
      <4>2. QED BY Zenon, <1>1, <4>1, TailShorter DEF Below
    <3>5. ASSUME NEW f, Turns(c, f) PROVE FALSE
      BY Zenon, <3>5 DEF Turns, In
    <3>6. ~In(c, "publish") /\ ~IsTask(c) /\ ~In(c, "boot") /\ ~UNCHANGED stack
      BY Zenon, <1>3 DEF In, IsTask
    <3>7. QED BY Zenon, <3>1, <3>2, <3>3, <3>4, <3>5, <3>6 DEF Moves
  <2>2. ASSUME NEW d \in Cpus, Switch(d) PROVE FALSE
    <3>1. d # c
      BY Zenon, <2>2 DEF Switch, In
    <3>2. \E q : Goto(d, q)
      BY Zenon, <2>2, SwitchLaw DEF Return
    <3>3. QED BY Zenon, <1>3, <3>1, <3>2, GotoFacts
  <2>3. CASE UNCHANGED vars \/ TickSlot
    BY Zenon, <1>3, <2>3 DEF vars, TickSlot
  <2>4. CASE TickDone
    <3>1. Preempt(0) /\ 0 \in Cpus
      BY Zenon, <2>4, SlotFacts DEF TickDone
    <3>2. c = 0
      BY Zenon, <1>3, <3>1, GotoFacts DEF Preempt
    <3>3. PICK f \in Frame : stack'[c] = <<f>> \o stack[c]
      <4>1. F("reap", 0, TRUE) \in Frame
        <5>1. "reap" \in At /\ 0 \in Int /\ TRUE \in BOOLEAN
          BY DEF At
        <5>2. QED BY Zenon, <5>1, FrameTyped
      <4>2. QED BY Zenon, <3>1, <3>2, <4>1, GotoFacts DEF Preempt
    <3>4. QED BY Zenon, <1>1, <3>3, TailShorter DEF Below
  <2>5. QED BY Zenon, <2>1, <2>2, <2>3, <2>4 DEF Next
<1>5. t \in Tasks
  BY Zenon, SlotFacts
<1>6. task[t].state \in Gone \/ task[t].cpu = NoCpu
  BY Zenon, <1>4, <1>5 DEF Stopped
<1>7. task[t].state \in Gone \/ task[t].cpu # NoCpu
  BY Zenon, <1>2 DEF Marked, Held
<1>8. QED BY Zenon, <1>6, <1>7

(***************************************************************************)
(* The frames of the tasks after a step.                                   *)
(***************************************************************************)
LEMMA FramesNext ==
  ASSUME OneCpuPerTask'
  PROVE  /\ \A d \in Cpus : Frames(cur[d])' = stack'[d]
         /\ \A t \in Tasks : (\A d \in Cpus : cur'[d] # t) => Frames(t)' = saved'[t]
<1>1. \A d, e \in Cpus : cur'[e] = cur'[d] => e = d
  BY Zenon DEF OneCpuPerTask
<1>2. \A d \in Cpus : (CHOOSE e \in Cpus : cur'[e] = cur'[d]) = d
  BY Zenon, <1>1
<1>3. \A d \in Cpus : Frames(cur[d])' = stack'[d]
  BY Zenon, <1>2 DEF Frames, Current
<1>4. \A t \in Tasks : (\A d \in Cpus : cur'[d] # t) => Frames(t)' = saved'[t]
  BY Zenon DEF Frames, Current
<1>5. QED BY Zenon, <1>3, <1>4

LEMMA FramesLocal ==
  ASSUME TypeInv, OneCpuPerTask, OneCpuPerTask', NEW c \in Cpus, Local(c), NEW t \in Tasks
  PROVE  /\ t = cur[c] => Frames(t) = stack[c] /\ Frames(t)' = stack'[c]
         /\ t # cur[c] => \/ Frames(t)' = Frames(t)
                          \/ t \in FreeSlot /\ NewContext(t) /\ Frames(t)' = Body
<1>1. cur' = cur /\ (\A d \in Cpus : d # c => stack'[d] = stack[d])
      /\ (UNCHANGED saved \/ \E u \in FreeSlot : NewContext(u))
  BY Zenon DEF Local
<1>2. \A d \in Cpus : Frames(cur[d]) = stack[d]
  BY Zenon, FramesCurrent
<1>3. \A d \in Cpus : cur[d] = t => Frames(t)' = stack'[d]
  BY Zenon, <1>1, FramesNext
<1>4. ASSUME \A d \in Cpus : cur[d] # t
      PROVE  Frames(t) = saved[t] /\ Frames(t)' = saved'[t]
  BY Zenon, <1>1, <1>4, FramesNext, FramesSaved
<1>5. saved'[t] = saved[t] \/ (t \in FreeSlot /\ NewContext(t) /\ saved'[t] = Body)
  <2>1. saved \in [Tasks -> Seq(Frame)]
    BY Zenon DEF TypeInv, SavedOK
  <2>2. QED BY Zenon, <1>1, <2>1 DEF NewContext
<1>6. CASE t = cur[c]
  BY Zenon, <1>2, <1>3, <1>6
<1>7. CASE t # cur[c] /\ \E d \in Cpus : cur[d] = t
  <2>1. PICK d \in Cpus : cur[d] = t
    BY Zenon, <1>7
  <2>2. d # c
    BY Zenon, <1>7, <2>1
  <2>3. Frames(t) = stack[d] /\ Frames(t)' = stack'[d] /\ stack'[d] = stack[d]
    BY Zenon, <1>1, <1>2, <1>3, <2>1, <2>2
  <2>4. QED BY Zenon, <1>7, <2>3
<1>8. CASE \A d \in Cpus : cur[d] # t
  <2>1. t # cur[c]
    BY Zenon, <1>8
  <2>2. QED BY Zenon, <1>4, <1>5, <1>8, <2>1
<1>9. QED BY Zenon, <1>6, <1>7, <1>8

LEMMA FramesSwitch ==
  ASSUME TypeInv, SafeInv, OneCpuPerTask, OneCpuPerTask', NEW c \in Cpus, Switch(c), NEW t \in Tasks
  PROVE  /\ t = cur[c] => Frames(t) = stack[c] /\ Frames(t)' = Below(c)
         /\ t # cur[c] => Frames(t)' = Frames(t)
<1>1. PICK n \in Tasks :
        /\ cur' = [cur EXCEPT ![c] = n]
        /\ IF n = cur[c] THEN Return(c) /\ UNCHANGED saved
           ELSE saved' = [saved EXCEPT ![cur[c]] = Below(c)] /\ Goto(c, saved[n])
  BY Zenon, SwitchLaw
<1>2. cur'[c] = n /\ \A d \in Cpus : d # c => cur'[d] = cur[d] /\ stack'[d] = stack[d]
  BY Zenon, <1>1, GotoFacts DEF TypeInv, Return
<1>3. \A d \in Cpus : d # c => cur[d] # n /\ cur[d] # cur[c]
  <2>1. \A d \in Cpus : cur'[d] = cur'[c] => d = c
    BY Zenon DEF OneCpuPerTask
  <2>2. \A d \in Cpus : cur[d] = cur[c] => d = c
    BY Zenon DEF OneCpuPerTask
  <2>3. QED BY Zenon, <1>2, <2>1, <2>2
<1>4. saved \in [Tasks -> Seq(Frame)] /\ cur[c] \in Tasks
  BY Zenon, TopFacts DEF TypeInv, SavedOK
<1>5. \A d \in Cpus : Frames(cur[d]) = stack[d]
  BY Zenon, FramesCurrent
<1>6. \A d \in Cpus : cur'[d] = t => Frames(t)' = stack'[d]
  BY Zenon, FramesNext
<1>7. (\A d \in Cpus : cur'[d] # t) => Frames(t)' = saved'[t]
  BY Zenon, FramesNext
<1>8. CASE t = cur[c] /\ n = cur[c]
  <2>1. stack'[c] = Below(c)
    BY <1>1, <1>8, GotoFacts DEF Return
  <2>2. QED BY Zenon, <1>2, <1>5, <1>6, <1>8, <2>1
<1>9. CASE t = cur[c] /\ n # cur[c]
  <2>1. \A d \in Cpus : cur'[d] # t
    BY Zenon, <1>2, <1>3, <1>9
  <2>2. saved'[t] = Below(c)
    BY Zenon, <1>1, <1>4, <1>9
  <2>3. QED BY Zenon, <1>5, <1>7, <1>9, <2>1, <2>2
<1>10. CASE t # cur[c] /\ t = n
  <2>1. \A d \in Cpus : cur[d] # t
    BY Zenon, <1>3, <1>10
  <2>2. Frames(t) = saved[t]
    BY Zenon, <2>1, FramesSaved
  <2>3. stack'[c] = saved[n]
    BY Zenon, <1>1, <1>10, GotoFacts
  <2>4. QED BY Zenon, <1>2, <1>6, <1>10, <2>2, <2>3
<1>11. CASE t # cur[c] /\ t # n
  <2>1. CASE \E d \in Cpus : cur[d] = t
    <3>1. PICK d \in Cpus : cur[d] = t
      BY Zenon, <2>1
    <3>2. d # c
      BY Zenon, <1>11, <3>1
    <3>3. QED BY Zenon, <1>2, <1>5, <1>6, <1>11, <3>1, <3>2
  <2>2. CASE \A d \in Cpus : cur[d] # t
    <3>1. \A d \in Cpus : cur'[d] # t
      BY Zenon, <1>2, <1>11, <2>2
    <3>2. Frames(t) = saved[t] /\ Frames(t)' = saved'[t]
      BY Zenon, <1>7, <2>2, <3>1, FramesSaved
    <3>3. saved'[t] = saved[t]
      BY Zenon, <1>1, <1>4, <1>11
    <3>4. QED BY Zenon, <1>11, <3>2, <3>3
  <2>3. QED BY Zenon, <2>1, <2>2
<1>12. QED BY Zenon, <1>8, <1>9, <1>10, <1>11

(***************************************************************************)
(* The frames of user tasks are masked, and a reaper is in its innermost   *)
(* frame.                                                                  *)
(***************************************************************************)
LEMMA MaskedTail ==
  ASSUME NEW q, FramesOK(q), Head(q).at \notin BaseAt
  PROVE  /\ Masked(q) => Masked(Tail(q))
         /\ NoReap(q) => NoReap(Tail(q))
<1>1. /\ FramesOK(Tail(q)) /\ Len(q) \in Nat /\ Len(Tail(q)) = Len(q) - 1
      /\ \A i \in 1 .. Len(q) - 1 : Tail(q)[i] = q[i + 1]
  BY Zenon, PopOK
<1>2. PICK y, m : y = Tail(q) /\ m = Len(q)
  BY Zenon
<1>3. m \in Nat /\ Len(y) = m - 1 /\ \A i \in 1 .. m - 1 : y[i] = q[i + 1]
  BY Zenon, <1>1, <1>2
<1>4. Masked(q) => Masked(y)
  <2> SUFFICES ASSUME Masked(q), NEW i \in 1 .. Len(y) - 1 PROVE y[i].masked
    BY Zenon DEF Masked
  <2>1. i \in 1 .. m - 1 /\ i + 1 \in 1 .. m - 1
    BY <1>3
  <2>2. q[i + 1].masked
    BY Zenon, <1>2, <2>1 DEF Masked
  <2>3. QED BY Zenon, <1>3, <2>1, <2>2
<1>5. NoReap(q) => NoReap(y)
  <2> SUFFICES ASSUME NoReap(q), NEW i \in 1 .. Len(y) PROVE y[i].at \notin ReapAt
    BY Zenon DEF NoReap
  <2>1. i \in 1 .. m - 1 /\ i + 1 \in 1 .. m
    BY <1>3
  <2>2. q[i + 1].at \notin ReapAt
    BY Zenon, <1>2, <2>1 DEF NoReap
  <2>3. QED BY Zenon, <1>3, <2>1, <2>2
<1>6. QED BY Zenon, <1>2, <1>4, <1>5

\* The innermost frame of a user task in the kernel is masked.
LEMMA TopMasked ==
  ASSUME TypeInv, NEW c \in Cpus, Masked(stack[c]), Top(c).at \notin BaseAt
  PROVE  Top(c).masked
<1>1. FramesOK(stack[c]) /\ Top(c) = stack[c][1] /\ Len(stack[c]) \in Nat \ {0}
  BY Zenon, TopFacts, NoSeq DEF FramesOK
<1>2. 1 \in 1 .. Len(stack[c])
  BY <1>1
<1>3. Len(stack[c]) # 1
  BY Zenon, <1>1, <1>2 DEF FramesOK
<1>4. 1 \in 1 .. Len(stack[c]) - 1
  <2>1. PICK m \in Nat : m = Len(stack[c])
    BY Zenon, <1>1
  <2>2. m # 0 /\ m # 1
    BY Zenon, <1>1, <1>3, <2>1
  <2>3. 1 \in 1 .. m - 1
    BY <2>2
  <2>4. QED BY Zenon, <2>1, <2>3
<1>5. QED BY Zenon, <1>1, <1>4 DEF Masked

LEMMA MaskedLocal ==
  ASSUME TypeInv, NEW c \in Cpus, Local(c), task[cur[c]].user, Masked(stack[c])
  PROVE  Masked(stack[c])'
<1>1. PICK q, r : q = stack[c] /\ r = stack'[c]
  BY Zenon
<1>2. Len(q) \in Nat /\ Masked(q)
  BY <1>1, TopFacts DEF FramesOK
<1>3. Len(r) \in Nat
  <2>1. PICK k \in 0 .. 2, j \in 0 .. 1 : Len(r) = Len(q) + k - j /\ k <= Len(r)
    BY Zenon, <1>1 DEF Local, Moved, Shift
  <2>2. QED BY <1>2, <2>1
<1>4. SUFFICES ASSUME NEW i \in 1 .. Len(r) - 1 PROVE r[i].masked
  BY Zenon, <1>1 DEF Masked
<1>5. i \in 1 .. Len(r) /\ Len(r) - i # 0
  BY <1>3
<1>6. \/ \E j \in 1 .. Len(q) : r[i] = q[j] /\ Len(r) - i = Len(q) - j
      \/ Fresh(c, r[i], Len(r) - i)
  BY Zenon, <1>1, <1>5, MovedFrame DEF Local
<1>7. CASE \E j \in 1 .. Len(q) : r[i] = q[j] /\ Len(r) - i = Len(q) - j
  <2>1. PICK j \in 1 .. Len(q) : r[i] = q[j] /\ Len(r) - i = Len(q) - j
    BY Zenon, <1>7
  <2>2. j \in 1 .. Len(q) - 1
    BY <1>2, <1>3, <1>5, <2>1
  <2>3. QED BY Zenon, <1>2, <2>1, <2>2 DEF Masked
<1>8. CASE Fresh(c, r[i], Len(r) - i)
  BY Zenon, <1>5, <1>8, TopMasked DEF Fresh
<1>9. QED BY Zenon, <1>6, <1>7, <1>8

LEMMA NoReapLocal ==
  ASSUME TypeInv, TypeInv', NEW c \in Cpus, Local(c), Masked(stack[c]), NoReap(Below(c)),
         tickat # NoTick => ~Top(0).masked
  PROVE  NoReap(Below(c))'
<1>1. PICK q, r : q = stack[c] /\ r = stack'[c]
  BY Zenon
<1>2. FramesOK(q) /\ q \in Seq(Frame) /\ Len(q) \in Nat /\ Top(c) = q[1] /\ Below(c) = Tail(q)
  BY <1>1, TopFacts DEF FramesOK, Below
<1>3. PICK k \in 0 .. 2, j \in 0 .. 1 :
        /\ Shift(q, r, k, j) /\ j <= Len(q) /\ k <= Len(r)
        /\ \A i \in 2 .. k : r[i].at \notin ReapAt
        /\ j = 0 => \/ k = 0 \/ Top(c).at \notin SchedAt \/ ~Top(c).masked
                    \/ c = 0 /\ tickat # NoTick
  BY Zenon, <1>1 DEF Local, Moved
<1>4. Len(r) = Len(q) + k - j /\ \A i \in k + 1 .. Len(r) : r[i] = q[i - k + j]
  BY Zenon, <1>3 DEF Shift
<1>5. \A i \in 2 .. Len(q) : q[i].at \notin ReapAt
  <2> SUFFICES ASSUME NEW i \in 2 .. Len(q) PROVE q[i].at \notin ReapAt
    BY Zenon
  <2>1. PICK y : y = Tail(q)
    BY Zenon
  <2>2. q # <<>>
    BY Zenon, <1>2 DEF FramesOK
  <2>3. Len(y) = Len(q) - 1 /\ \A h \in 1 .. Len(q) - 1 : y[h] = q[h + 1]
    BY Zenon, <1>2, <2>1, <2>2, HeadFacts
  <2>4. i - 1 \in 1 .. Len(y) /\ i - 1 \in 1 .. Len(q) - 1 /\ (i - 1) + 1 = i
    BY <1>2, <2>3
  <2>5. y[i - 1].at \notin ReapAt /\ y[i - 1] = q[(i - 1) + 1]
    BY Zenon, <1>2, <2>1, <2>3, <2>4 DEF NoReap
  <2>6. QED BY Zenon, <2>4, <2>5
<1>6. ASSUME j = 0, k # 0 PROVE Top(c).at \notin ReapAt
  <2>1. SUFFICES ASSUME Top(c).at \in ReapAt PROVE FALSE
    BY Zenon
  <2>2. Top(c).at \in SchedAt /\ Top(c).at \notin BaseAt
    BY Zenon, <2>1 DEF ReapAt, SchedAt, BaseAt
  <2>3. Top(c).masked
    BY Zenon, <2>2, TopMasked
  <2>4. QED BY Zenon, <1>3, <1>6, <2>2, <2>3
<1>7. ASSUME NEW i \in 2 .. Len(r) PROVE r[i].at \notin ReapAt
  <2>1. CASE i \in 2 .. k
    BY Zenon, <1>3, <2>1
  <2>2. CASE i \notin 2 .. k
    <3>1. i \in k + 1 .. Len(r) /\ i - k + j \in 1 .. Len(q)
      BY <1>2, <1>3, <1>4, <1>7, <2>2
    <3>2. r[i] = q[i - k + j]
      BY Zenon, <1>4, <3>1
    <3>3. i - k + j \in 2 .. Len(q) \/ (i - k + j = 1 /\ j = 0 /\ k # 0)
      BY <1>2, <1>3, <1>4, <1>7, <2>2, <3>1
    <3>4. QED BY Zenon, <1>2, <1>5, <1>6, <3>2, <3>3
  <2>3. QED BY Zenon, <2>1, <2>2
<1>8. PICK m, y : m = Len(r) /\ y = Tail(r)
  BY Zenon
<1>9. Len(y) = m - 1 /\ m \in Nat /\ \A i \in 1 .. m - 1 : y[i] = r[i + 1]
  <2>1. FramesOK(r)
    BY Zenon, <1>1 DEF TypeInv, StacksOK
  <2>2. r \in Seq(Frame) /\ r # <<>>
    BY Zenon, <2>1 DEF FramesOK
  <2>3. QED BY <1>8, <2>2, HeadFacts
<1>10. ASSUME NEW i \in 1 .. Len(y) PROVE y[i].at \notin ReapAt
  <2>1. i \in 1 .. m - 1 /\ i + 1 \in 2 .. m
    BY <1>9, <1>10
  <2>2. QED BY Zenon, <1>7, <1>8, <1>9, <2>1
<1>11. QED BY Zenon, <1>1, <1>8, <1>10 DEF NoReap, Below

\* sched_tick() is entered with interrupts enabled and moves no frame until it is done.
LEMMA TickUnmasked ==
  ASSUME [Next]_vars, tickat # NoTick => ~Top(0).masked, tickat' # NoTick
  PROVE  ~Top(0).masked'
<1>1. ASSUME NEW c \in Cpus, CpuStep(c) \/ Irq(c), tickat = NoTick PROVE FALSE
  <2>1. UNCHANGED tickat
    BY ZenonT(60), <1>1 DEF CpuStep, Irq, Yield, ReapVictim, ReapDetach, ReapClear, ReapDone, Switch,
       BootInit, BootService, BootDone, RegisterInit, AdoptTask, TaskCreate, ShellLoad, Clone,
       CloneParent, WakeTask, Publish, ParkTask, ParkReturn, Dequeue, UnparkTask, SleepCurrent,
       TaskExit, Wait4, Wait4Scan, KillTask, KillSyncPoll, TaskCreateUser
  <2>2. QED BY Zenon, <1>1, <2>1
<1>2. ASSUME NEW c \in Cpus, Tick(c), tickat = NoTick PROVE UNCHANGED stack /\ ~Top(0).masked
  BY Zenon, <1>2 DEF Tick
<1>3. CASE TickSlot \/ UNCHANGED vars
  BY Zenon, <1>3 DEF TickSlot, vars, Top
<1>4. CASE TickDone
  BY Zenon, <1>4 DEF TickDone
<1>5. QED BY Zenon, <1>1, <1>2, <1>3, <1>4 DEF Next, Top

LEMMA UsersStep ==
  ASSUME "kthread" \notin Ops, TypeInv, TypeInv', SafeInv, LeavingOK, UsersOK, [Next]_vars
  PROVE  UsersOK'
<1>1. PICK c \in Cpus : (Local(c) \/ Switch(c)) /\ Laws(c)
  BY Zenon, StepLocal
<1>2. ASSUME NEW t \in Slots, task'[t].used PROVE task'[t].user
  <2>1. PICK k : Lawful(task[t], task'[t], k)
    BY Zenon, <1>1, LawsEach DEF Lawed
  <2>2. QED BY Zenon, <1>2, <2>1 DEF Lawful, UsersOK
<1>3. cur[c] \in Slots => task[cur[c]].user /\ Masked(stack[c]) /\ NoReap(Below(c))
  BY Zenon DEF SafeInv, ActiveStackAlive, UsersOK
<1>4. Masked(Body) /\ NoReap(Body)
  <2>1. Len(Body) = 1 /\ Body[1].at \notin ReapAt
    BY Zenon DEF Body, F, ReapAt
  <2>2. QED BY <2>1 DEF Masked, NoReap
<1>5. ASSUME Local(c), NEW d \in Cpus, cur'[d] \in Slots
      PROVE  Masked(stack'[d]) /\ NoReap(Tail(stack'[d]))
  <2>1. CASE d = c
    <3>1. cur[c] \in Slots
      BY Zenon, <1>5, <2>1 DEF Local
    <3>2. Masked(stack[c])' /\ NoReap(Below(c))'
      BY Zenon, <1>3, <1>5, <3>1, MaskedLocal, NoReapLocal DEF UsersOK
    <3>3. QED BY Zenon, <2>1, <3>2 DEF Masked, NoReap, Below
  <2>2. CASE d # c
    <3>1. stack'[d] = stack[d] /\ cur[d] \in Slots
      BY Zenon, <1>5, <2>2 DEF Local
    <3>2. QED BY Zenon, <3>1 DEF UsersOK, Below
  <2>3. QED BY Zenon, <2>1, <2>2
<1>6. ASSUME Local(c), NEW t \in Slots PROVE Masked(saved'[t]) /\ NoReap(saved'[t])
  <2>1. saved'[t] = saved[t] \/ saved'[t] = Body
    BY Zenon, <1>6, SlotFacts DEF Local, NewContext, TypeInv, SavedOK
  <2>2. Masked(saved[t]) /\ NoReap(saved[t])
    BY Zenon, <1>6 DEF UsersOK
  <2>3. QED BY Zenon, <1>4, <2>1, <2>2
<1>7. CASE Switch(c)
  <2>1. PICK n \in Tasks :
          /\ cur' = [cur EXCEPT ![c] = n]
          /\ IF n = cur[c] THEN Return(c) /\ UNCHANGED saved
             ELSE saved' = [saved EXCEPT ![cur[c]] = Below(c)] /\ Goto(c, saved[n])
    BY Zenon, <1>7, SwitchLaw
  <2>2. FramesOK(stack[c]) /\ Head(stack[c]).at \notin BaseAt /\ Below(c) = Tail(stack[c])
    BY Zenon, <1>7, TopFacts DEF Switch, In, Top, BaseAt, Below
  <2>3. cur[c] \in Slots => Masked(Below(c)) /\ NoReap(Below(c))
    BY Zenon, <1>3, <2>2, MaskedTail
  \* A task has no reaper frame below the innermost one, and none when switched out.
  <2>4. ASSUME NEW q, FramesOK(q), NoReap(q) PROVE NoReap(Tail(q))
    <3>1. q \in Seq(Frame) /\ q # <<>>
      BY Zenon, <2>4 DEF FramesOK
    <3>2. PICK y, m : y = Tail(q) /\ m = Len(q)
      BY Zenon
    <3>3. Len(y) = m - 1 /\ m \in Nat /\ \A i \in 1 .. m - 1 : y[i] = q[i + 1]
      BY <3>1, <3>2, HeadFacts
    <3>4. ASSUME NEW i \in 1 .. Len(y) PROVE y[i].at \notin ReapAt
      <4>1. i \in 1 .. m - 1 /\ i + 1 \in 1 .. m
        BY <3>3, <3>4
      <4>2. QED BY Zenon, <2>4, <3>2, <3>3, <4>1 DEF NoReap
    <3>5. QED BY Zenon, <3>2, <3>4 DEF NoReap
  <2>5. \A t \in Slots : saved'[t] = saved[t] \/ (cur[c] = t /\ saved'[t] = Below(c))
    BY Zenon, <2>1, SlotFacts DEF TypeInv, SavedOK
  <2>6. ASSUME NEW t \in Slots PROVE Masked(saved'[t]) /\ NoReap(saved'[t])
    <3>1. Masked(saved[t]) /\ NoReap(saved[t])
      BY Zenon, <2>6 DEF UsersOK
    <3>2. QED BY Zenon, <2>3, <2>5, <3>1
  <2>7. ASSUME NEW d \in Cpus, cur'[d] \in Slots
        PROVE  Masked(stack'[d]) /\ NoReap(Tail(stack'[d]))
    <3>1. CASE d # c
      <4>1. stack'[d] = stack[d] /\ cur'[d] = cur[d]
        BY Zenon, <2>1, <3>1, GotoFacts DEF Return, TypeInv
      <4>2. QED BY Zenon, <2>7, <4>1 DEF UsersOK, Below
    <3>2. CASE d = c
      <4>1. cur'[c] = n /\ n \in Slots
        BY Zenon, <2>1, <2>7, <3>2 DEF TypeInv
      <4>2. \/ stack'[c] = Below(c) /\ cur[c] \in Slots
            \/ stack'[c] = saved[n]
        BY Zenon, <2>1, <4>1, GotoFacts DEF Return
      <4>3. FramesOK(Below(c)) /\ FramesOK(saved[n])
        BY Zenon, <2>2, PopOK DEF TypeInv, SavedOK
      <4>4. Masked(saved[n]) /\ NoReap(saved[n])
        BY Zenon, <4>1 DEF UsersOK
      <4>5. QED BY Zenon, <2>3, <2>4, <3>2, <4>2, <4>3, <4>4
    <3>3. QED BY Zenon, <3>1, <3>2
  <2>8. QED BY Zenon, <1>2, <2>6, <2>7, TickUnmasked DEF UsersOK, Masked, NoReap, Below
<1>8. CASE Local(c)
  BY Zenon, <1>2, <1>5, <1>6, <1>8, TickUnmasked DEF UsersOK, Masked, NoReap, Below
<1>9. QED BY Zenon, <1>1, <1>7, <1>8

(***************************************************************************)
(* A task being reaped keeps its reaper until its slot is cleared.         *)
(***************************************************************************)
LEMMA ReaperLives ==
  ASSUME TypeInv, SafeInv, SafeInv', OneCpuPerTask, UsersOK, NEW c \in Cpus, Laws(c),
         NEW v, NEW t \in Tasks, Live(t), Has(Frames(t), ReapAt, v)
  PROVE  Live(t)'
<1>1. CASE t \in Cpus
  BY Zenon, <1>1 DEF SafeInv, TableOK, Live
<1>2. CASE t \in Slots
  <2>1. PICK k : /\ Lawful(task[t], task'[t], k)
                 /\ k = "victim" => Reapable(t)
                 /\ k = "cleared" => In(c, "clear") /\ t = Top(c).arg
    BY <1>2, LawsEach DEF Lawed
  <2>2. k # "cleared"
    <3>1. SUFFICES ASSUME In(c, "clear"), t = Top(c).arg PROVE FALSE
      BY Zenon, <2>1
    <3>2. Live(cur[c]) /\ cur[c] \in Tasks /\ Frames(cur[c]) = stack[c]
      BY Zenon, FramesCurrent, TopFacts DEF SafeInv, ActiveStackAlive, Live
    <3>3. stack[c][1] = Top(c) /\ 1 \in 1 .. Len(stack[c]) /\ Top(c).at \in ReapAt
      BY <3>1, TopFacts, NoSeq DEF FramesOK, In, ReapAt
    <3>4. Reaping(stack[c][1].arg)
      BY Zenon, <3>2, <3>3 DEF SafeInv, ReapersOK, ReapFrame
    <3>5. QED BY Zenon, <3>1, <3>3, <3>4 DEF Reaping, Live
  <2>3. k # "victim"
    <3>1. SUFFICES ASSUME Reapable(t) PROVE FALSE
      BY Zenon, <2>1
    <3>2. \A d \in Cpus : cur[d] # t
      BY <1>2, <3>1, SlotFacts DEF Reapable, OneCpuPerTask
    <3>3. Frames(t) = saved[t] /\ NoReap(saved[t])
      BY Zenon, <1>2, <3>2, FramesSaved DEF UsersOK
    <3>4. QED BY Zenon, <3>3 DEF Has, NoReap
  <2>4. QED BY Zenon, <2>1, <2>2, <2>3 DEF Lawful, Live
<1>3. QED BY Zenon, <1>1, <1>2, SlotFacts

LEMMA ReaperKept ==
  ASSUME TypeInv, TypeInv', SafeInv, OneCpuPerTask, OneCpuPerTask', NEW c \in Cpus,
         Local(c) \/ Switch(c), NEW v, NEW t \in Tasks, Live(t), Has(Frames(t), ReapAt, v),
         task'[v].used
  PROVE  Has(Frames(t)', ReapAt, v)
<1>1. PICK i \in 1 .. Len(Frames(t)) : Frames(t)[i].at \in ReapAt /\ Frames(t)[i].arg = v
  BY Zenon DEF Has
<1>2. CASE t = cur[c] /\ Local(c)
  <2>1. PICK q, r : q = stack[c] /\ r = stack'[c] /\ Frames(t) = q /\ Frames(t)' = r
    BY Zenon, <1>2, FramesLocal
  <2>2. PICK k \in 0 .. 2, j \in 0 .. 1 :
          /\ Shift(q, r, k, j) /\ j <= Len(q) /\ k <= Len(r)
          /\ j = 1 /\ Top(c).at \in ReapAt => \/ k = 1 /\ r[1].at \in ReapAt /\ r[1].arg = Top(c).arg
                                              \/ ~task'[Top(c).arg].used
    BY Zenon, <1>2, <2>1 DEF Local, Moved
  <2>3. Len(r) = Len(q) + k - j /\ \A h \in k + 1 .. Len(r) : r[h] = q[h - k + j]
    BY Zenon, <2>2 DEF Shift
  <2>4. Len(q) \in Nat /\ Top(c) = q[1] /\ i \in 1 .. Len(q) /\ q[i].at \in ReapAt /\ q[i].arg = v
    BY <1>1, <2>1, TopFacts DEF FramesOK
  <2>5. CASE i > j
    <3>1. i + k - j \in k + 1 .. Len(r) /\ i + k - j \in 1 .. Len(r) /\ (i + k - j) - k + j = i
      BY <2>2, <2>3, <2>4, <2>5
    <3>2. r[i + k - j] = q[i]
      BY Zenon, <2>3, <3>1
    <3>3. QED BY Zenon, <2>1, <2>4, <3>1, <3>2 DEF Has
  <2>6. CASE ~(i > j)
    <3>1. i = 1 /\ j = 1
      BY <2>4, <2>6
    <3>2. k = 1 /\ r[1].at \in ReapAt /\ r[1].arg = v
      BY Zenon, <2>2, <2>4, <3>1
    <3>3. 1 \in 1 .. Len(r)
      BY <2>3, <2>4, <3>1, <3>2
    <3>4. QED BY Zenon, <2>1, <3>2, <3>3 DEF Has
  <2>7. QED BY Zenon, <2>5, <2>6
<1>3. CASE t = cur[c] /\ Switch(c)
  <2>1. PICK q, y, m : q = stack[c] /\ y = Tail(q) /\ m = Len(q) /\ Frames(t) = q /\ Frames(t)' = y
    BY Zenon, <1>3, FramesSwitch DEF Below
  <2>2. FramesOK(q) /\ Head(q) = q[1] /\ q[1].at = "switch"
    BY Zenon, <1>3, <2>1, TopFacts DEF Switch, In, Top
  <2>3. m \in Nat /\ Len(y) = m - 1 /\ \A h \in 1 .. m - 1 : y[h] = q[h + 1]
    <3>1. Head(q).at \notin BaseAt
      BY Zenon, <2>2 DEF BaseAt
    <3>2. QED BY Zenon, <2>1, <2>2, <3>1, PopOK
  <2>4. i # 1
    BY Zenon, <1>1, <2>1, <2>2 DEF ReapAt
  <2>5. i - 1 \in 1 .. m - 1 /\ (i - 1) + 1 = i /\ i - 1 \in 1 .. Len(y)
    BY <1>1, <2>1, <2>3, <2>4
  <2>6. y[i - 1] = q[i]
    BY Zenon, <2>3, <2>5
  <2>7. QED BY Zenon, <1>1, <2>1, <2>5, <2>6 DEF Has
<1>4. CASE t # cur[c]
  <2>1. Frames(t)' = Frames(t)
    <3>1. t \notin FreeSlot
      BY Zenon DEF FreeSlot, Live
    <3>2. QED BY Zenon, <1>4, <3>1, FramesLocal, FramesSwitch
  <2>2. QED BY Zenon, <2>1
<1>5. QED BY Zenon, <1>2, <1>3, <1>4

LEMMA ReaperFound ==
  ASSUME TypeInv, TypeInv', SafeInv', OneCpuPerTask', NEW c \in Cpus, Local(c) \/ Switch(c),
         Laws(c), NEW v \in Slots, ~Reaping(v), Reaping(v)'
  PROVE  ReaperThere(v)'
<1>1. PICK k : /\ Lawful(task[v], task'[v], k)
               /\ k = "victim" => In(c, "reap") /\ Become(c, "cleanup", v)
  BY Zenon, LawsEach DEF Lawed
<1>2. task'[v].used /\ task'[v].state = "REAPING" /\ "REAPING" \in Gone
  BY Zenon DEF Reaping, Gone
<1>3. k = "victim"
  BY Zenon, <1>1, <1>2 DEF Lawful, Reaping
<1>4. ~Switch(c)
  BY Zenon, <1>1, <1>3 DEF Switch, In
<1>5. cur' = cur
  BY Zenon, <1>4 DEF Local
<1>6. stack'[c] = <<F("cleanup", v, Top(c).masked)>> \o Below(c)
  BY Zenon, <1>1, <1>3, GotoFacts DEF Become
<1>7. PICK f, q, r : f = F("cleanup", v, Top(c).masked) /\ q = Below(c) /\ r = stack'[c]
  BY Zenon
<1>8. f \in Frame /\ f.at \in ReapAt /\ f.arg = v
  <2>1. "cleanup" \in At /\ v \in Int /\ Top(c).masked \in BOOLEAN
    BY SlotFacts, TopFacts DEF At, Frame
  <2>2. QED BY Zenon, <1>7, <2>1, FrameTyped DEF ReapAt
<1>9. q \in Seq(Frame)
  <2>1. Top(c).at \notin BaseAt
    BY Zenon, <1>1, <1>3 DEF In, BaseAt
  <2>2. QED BY Zenon, <1>7, <2>1, TopFacts DEF FramesOK
<1>10. r[1] = f /\ 1 \in 1 .. Len(r)
  <2>1. r = <<f>> \o q
    BY Zenon, <1>6, <1>7
  <2>2. <<f>> \in Seq(Frame) /\ Len(<<f>>) = 1 /\ <<f>>[1] = f
    BY <1>8
  <2>3. Len(q) \in Nat
    BY <1>9
  <2>4. Len(r) = 1 + Len(q)
    BY Zenon, <1>9, <2>1, <2>2, ConcatFacts
  <2>5. r[1] = <<f>>[1]
    BY <1>9, <2>1, <2>2, ConcatFacts
  <2>6. QED BY <2>2, <2>3, <2>4, <2>5
<1>11. PICK t \in Tasks : t = cur[c]
  BY Zenon, TopFacts
<1>12. Frames(t)' = r
  BY Zenon, <1>5, <1>7, <1>11, FramesNext
<1>13. Live(t)'
  BY Zenon, <1>5, <1>11 DEF SafeInv, ActiveStackAlive, Live
<1>14. Has(Frames(t)', ReapAt, v)
  BY Zenon, <1>8, <1>10, <1>12 DEF Has
<1>15. QED BY Zenon, <1>13, <1>14 DEF ReaperThere, Has

LEMMA ReapStep ==
  ASSUME "kthread" \notin Ops
  PROVE  /\ TypeInv /\ SafeInv /\ OneCpuPerTask /\ LeavingOK /\ ReapInv
         /\ TypeInv' /\ SafeInv' /\ OneCpuPerTask' /\ [Next]_vars
         => ReapInv'
<1> SUFFICES ASSUME TypeInv, SafeInv, OneCpuPerTask, LeavingOK, ReapInv,
                    TypeInv', SafeInv', OneCpuPerTask', [Next]_vars
             PROVE  ReapInv'
  BY Zenon
<1>1. UsersOK /\ \A v \in Slots : Reaping(v) => ReaperThere(v)
  BY Zenon DEF ReapInv
<1>2. UsersOK'
  BY Zenon, <1>1, UsersStep
<1>3. PICK c \in Cpus : (Local(c) \/ Switch(c)) /\ Laws(c)
  BY Zenon, StepLocal
<1>4. ASSUME NEW v \in Slots, Reaping(v)' PROVE ReaperThere(v)'
  <2>1. CASE ~Reaping(v)
    BY Zenon, <1>3, <1>4, <2>1, ReaperFound
  <2>2. CASE Reaping(v)
    <3>1. PICK t \in Tasks : Live(t) /\ Has(Frames(t), ReapAt, v)
      BY Zenon, <1>1, <2>2 DEF ReaperThere
    <3>2. Live(t)'
      BY Zenon, <1>1, <1>3, <3>1, ReaperLives
    <3>3. task'[v].used
      BY Zenon, <1>4 DEF Reaping
    <3>4. Has(Frames(t)', ReapAt, v)
      BY Zenon, <1>3, <3>1, <3>3, ReaperKept
    <3>5. QED BY Zenon, <3>2, <3>4 DEF ReaperThere, Has
  <2>3. QED BY Zenon, <2>1, <2>2
<1>5. QED BY Zenon, <1>2, <1>4 DEF ReapInv, Reaping

LEMMA ReapInit == Init => ReapInv
<1> SUFFICES ASSUME Init PROVE ReapInv
  BY Zenon
<1>1. \A t \in Slots : ~task[t].used
  BY Zenon, SlotFacts DEF Init, Cleared
<1>2. \A c \in Cpus : cur[c] \notin Slots
  BY Zenon, SlotFacts DEF Init
<1>3. \A t \in Slots : saved[t] = Body
  BY Zenon, SlotFacts DEF Init
<1>4. Masked(Body) /\ NoReap(Body)
  <2>1. Len(Body) = 1 /\ Body[1].at \notin ReapAt
    BY Zenon DEF Body, F, ReapAt
  <2>2. QED BY <2>1 DEF Masked, NoReap
<1>5. tickat = NoTick
  BY Zenon DEF Init
<1>6. QED BY Zenon, <1>1, <1>2, <1>3, <1>4, <1>5 DEF ReapInv, UsersOK, Reaping

LEMMA ReapAlways ==
  ASSUME "kthread" \notin Ops PROVE Spec /\ []OneCpuPerTask /\ []SafeInv => []ReapInv
BY ReapStep, ReapInit, TypeInvAlways, LeavingAlways, PTL DEF Spec
=============================================================================
