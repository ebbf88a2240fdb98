----------------------------- MODULE ProcessProofs ------------------------------
(***************************************************************************)
(* The life of a process for any number of tasks, processes and buffers:   *)
(* reference counts are exact, a task's process and address space outlive  *)
(* it, execve() is alone in its process, and everything is given back.     *)
(***************************************************************************)
EXTENDS Process, FiniteSetTheorems, TLAPS

(***************************************************************************)
(* The inductive invariant.                                                *)
(***************************************************************************)
\* A call at these places has a reference of its process, and the last caller of
\* process_destroy() is at these.
HoldAt == {"publish", "thread", "swap", "destroy"}
LastAt == {"mm", "images"}
ExecAt == {"load", "create", "swap"}

\* A call names a process that exists: one that nobody else knows before it is published,
\* and one without references after the last is gone.
CallsOK ==
  \A a \in Agents :
    /\ call[a].at = "user" => call[a].p = NoProc
    /\ call[a].at \in HoldAt \cup LastAt => call[a].p \in Procs /\ process[call[a].p].made
    /\ call[a].at = "publish" => process[call[a].p].ref_count = 1
    /\ call[a].at \in LastAt => process[call[a].p].ref_count = 0
    /\ call[a].at = "mm" => call[a].mm = call[a].p
    /\ call[a].at = "images" => call[a].p \notin mms
    /\ a \in Kernels => /\ call[a].at \in {"user", "create", "publish", "destroy"} \cup LastAt
                        /\ call[a].at = "create" => call[a].p = NoProc

\* Only live tasks are in system calls, a reaped task is in process_destroy(), and a task
\* in execve() is the only holder of its process.
TasksOK ==
  \A t \in Tasks :
    /\ task[t].state \in {"live", "dead"} =>
         /\ task[t].process \in Procs /\ process[task[t].process].made
         /\ task[t].mm = task[t].process
    /\ task[t].state \in {"free", "reaping"} => task[t].process = NoProc
    /\ task[t].state \in {"free", "dead"} => call[t].at = "user"
    /\ task[t].state = "reaping" => call[t].at \in {"destroy"} \cup LastAt
    /\ call[t].at \in {"thread", "load", "create"} => call[t].p = task[t].process
    /\ call[t].at \in ExecAt => /\ process[task[t].process].ref_count = 1
                                /\ process[task[t].process].exec_in_progress

\* A process that is held has its context; there is no context without a process.
ContextsOK ==
  \A p \in Procs :
    /\ process[p].made /\ process[p].ref_count > 0 => p \in mms /\ process[p].mm = p
    /\ p \in mms => process[p].made

\* Only one call destroys a process.
LastAlone ==
  \A a, b \in Agents : (/\ call[a].at \in LastAt /\ call[b].at \in LastAt
                        /\ call[a].p = call[b].p) => a = b

ProcInv == TypeOK /\ CallsOK /\ TasksOK /\ ContextsOK /\ LastAlone /\ RefsExact

(***************************************************************************)
(* Counting the holders.                                                   *)
(***************************************************************************)
LEMMA AgentsFinite == IsFiniteSet(Agents)
BY ProcessAssumption, FS_Union DEF Agents

\* Who holds p, one by one.
TaskHolds(t, p) == task[t].state \in {"live", "dead"} /\ task[t].process = p
CallHolds(a, p) == call[a].at \in HoldAt /\ call[a].p = p

LEMMA HoldersMember ==
  ASSUME NEW p, NEW h
  PROVE  h \in Holders(p) <=> \/ \E t \in Tasks : h = <<t, "task">> /\ TaskHolds(t, p)
                              \/ \E a \in Agents : h = <<a, "call">> /\ CallHolds(a, p)
BY DEF Holders, HoldAt, TaskHolds, CallHolds

LEMMA HoldersNext ==
  ASSUME NEW p, NEW h
  PROVE  h \in Holders(p)' <=> \/ \E t \in Tasks : h = <<t, "task">> /\ TaskHolds(t, p)'
                               \/ \E a \in Agents : h = <<a, "call">> /\ CallHolds(a, p)'
BY DEF Holders, HoldAt, TaskHolds, CallHolds

LEMMA HoldersFinite == ASSUME NEW p PROVE IsFiniteSet(Holders(p)) /\ Cardinality(Holders(p)) \in Nat
<1> DEFINE U == Agents \X {"task", "call"}
<1>1. IsFiniteSet({"task", "call"})
  <2>1. {"task", "call"} = {"task"} \cup {"call"}
    OBVIOUS
  <2>2. PICK A, B : A = {"task"} /\ B = {"call"}
    OBVIOUS
  <2>3. IsFiniteSet(A) /\ IsFiniteSet(B)
    BY <2>2, FS_Singleton
  <2>4. IsFiniteSet(A \cup B)
    BY <2>3, FS_Union
  <2>5. QED BY <2>1, <2>2, <2>4
<1>2. IsFiniteSet(U)
  BY <1>1, AgentsFinite, FS_Product
<1>3. Holders(p) \subseteq U
  BY HoldersMember DEF Agents
<1> HIDE DEF U
<1>4. QED BY <1>2, <1>3, FS_Subset, FS_CardinalityType

\* Whoever holds a process keeps its count above zero, and at one is alone.
LEMMA HolderCounts ==
  ASSUME ProcInv, NEW p \in Procs, NEW h \in Holders(p)
  PROVE  /\ process[p].made /\ process[p].ref_count \in Nat \ {0}
         /\ process[p].ref_count = Cardinality(Holders(p))
         /\ p \in mms /\ process[p].mm = p
         /\ process[p].ref_count = 1 => Holders(p) = {h}
         /\ \A a \in Agents : call[a].at \in LastAt => call[a].p # p
<1>1. process[p].made
  BY HoldersMember DEF ProcInv, CallsOK, TasksOK, TaskHolds, CallHolds
<1>2. PICK S : S = Holders(p)
  OBVIOUS
<1>3. IsFiniteSet(S) /\ Cardinality(S) \in Nat /\ h \in S
  BY <1>2, HoldersFinite
<1>4. process[p].ref_count = Cardinality(S)
  BY <1>1, <1>2 DEF ProcInv, RefsExact
<1>5. Cardinality(S) # 0
  BY <1>3, FS_EmptySet
<1>6. Cardinality(S) = 1 => S = {h}
  <2>1. SUFFICES ASSUME Cardinality(S) = 1 PROVE S \ {h} = {}
    BY <1>3
  <2>2. IsFiniteSet(S \ {h}) /\ Cardinality(S \ {h}) = Cardinality(S) - 1
    BY <1>3, FS_RemoveElement
  <2>3. QED BY <2>1, <2>2, FS_EmptySet
<1>7. process[p].ref_count > 0
  BY <1>3, <1>4, <1>5
<1>8. p \in mms /\ process[p].mm = p
  BY <1>1, <1>7 DEF ProcInv, ContextsOK
<1>9. QED BY <1>1, <1>2, <1>3, <1>4, <1>5, <1>6, <1>8 DEF ProcInv, CallsOK

\* The same holders.
LEMMA HoldersSame ==
  ASSUME NEW q, \A b \in Agents : CallHolds(b, q)' <=> CallHolds(b, q),
         \A t \in Tasks : TaskHolds(t, q)' <=> TaskHolds(t, q)
  PROVE  Holders(q)' = Holders(q)
<1>1. ASSUME NEW h PROVE h \in Holders(q)' <=> h \in Holders(q)
  BY HoldersMember, HoldersNext
<1>2. QED BY Zenon, <1>1

\* A call more, and a call less.
LEMMA CallJoins ==
  ASSUME NEW q, NEW a \in Agents, ~CallHolds(a, q), CallHolds(a, q)',
         \A b \in Agents \ {a} : CallHolds(b, q)' <=> CallHolds(b, q),
         \A t \in Tasks : TaskHolds(t, q)' <=> TaskHolds(t, q)
  PROVE  Cardinality(Holders(q)') = Cardinality(Holders(q)) + 1
<1>1. PICK S, T : S = Holders(q) /\ T = Holders(q)'
  OBVIOUS
<1>2. IsFiniteSet(S)
  BY <1>1, HoldersFinite
<1>3. <<a, "call">> \notin S
  BY <1>1, HoldersMember
<1>4. T = S \cup {<<a, "call">>}
  <2>1. ASSUME NEW h PROVE h \in T <=> h \in S \/ h = <<a, "call">>
    BY <1>1, HoldersMember, HoldersNext
  <2>2. QED BY Zenon, <2>1
<1>5. QED BY <1>1, <1>2, <1>3, <1>4, FS_AddElement

LEMMA CallLeaves ==
  ASSUME NEW q, NEW a \in Agents, CallHolds(a, q), ~CallHolds(a, q)',
         \A b \in Agents \ {a} : CallHolds(b, q)' <=> CallHolds(b, q),
         \A t \in Tasks : TaskHolds(t, q)' <=> TaskHolds(t, q)
  PROVE  Cardinality(Holders(q)') = Cardinality(Holders(q)) - 1
<1>1. PICK S, T : S = Holders(q) /\ T = Holders(q)'
  OBVIOUS
<1>2. IsFiniteSet(S)
  BY <1>1, HoldersFinite
<1>3. <<a, "call">> \in S
  BY <1>1, HoldersMember
<1>4. T = S \ {<<a, "call">>}
  <2>1. ASSUME NEW h PROVE h \in T <=> h \in S /\ h # <<a, "call">>
    BY <1>1, HoldersMember, HoldersNext
  <2>2. QED BY Zenon, <2>1
<1>5. QED BY <1>1, <1>2, <1>3, <1>4, FS_RemoveElement

\* A task takes the place of a call, and a call that of a task.
LEMMA CountSame ==
  ASSUME NEW S, IsFiniteSet(S), NEW h \in S, NEW g, g \notin S
  PROVE  Cardinality((S \ {h}) \cup {g}) = Cardinality(S)
<1>1. IsFiniteSet(S \ {h}) /\ Cardinality(S \ {h}) = Cardinality(S) - 1 /\ Cardinality(S) \in Nat
  BY FS_RemoveElement, FS_CardinalityType
<1>2. Cardinality((S \ {h}) \cup {g}) = Cardinality(S \ {h}) + 1
  BY <1>1, FS_AddElement
<1>3. QED BY <1>1, <1>2

LEMMA CallToTask ==
  ASSUME NEW q, NEW a \in Agents, CallHolds(a, q), ~CallHolds(a, q)',
         \A b \in Agents \ {a} : CallHolds(b, q)' <=> CallHolds(b, q),
         NEW u \in Tasks, ~TaskHolds(u, q), TaskHolds(u, q)',
         \A t \in Tasks \ {u} : TaskHolds(t, q)' <=> TaskHolds(t, q)
  PROVE  Cardinality(Holders(q)') = Cardinality(Holders(q))
<1>1. PICK S, T : S = Holders(q) /\ T = Holders(q)'
  OBVIOUS
<1>2. IsFiniteSet(S)
  BY <1>1, HoldersFinite
<1>3. <<a, "call">> \in S /\ <<u, "task">> \notin S
  BY <1>1, HoldersMember
<1>4. T = (S \ {<<a, "call">>}) \cup {<<u, "task">>}
  <2>1. ASSUME NEW h PROVE h \in T <=> (h \in S /\ h # <<a, "call">>) \/ h = <<u, "task">>
    BY <1>1, HoldersMember, HoldersNext
  <2>2. QED BY Zenon, <2>1
<1>5. QED BY <1>1, <1>2, <1>3, <1>4, CountSame

LEMMA TaskToCall ==
  ASSUME NEW q, NEW a \in Agents, ~CallHolds(a, q), CallHolds(a, q)',
         \A b \in Agents \ {a} : CallHolds(b, q)' <=> CallHolds(b, q),
         NEW u \in Tasks, TaskHolds(u, q), ~TaskHolds(u, q)',
         \A t \in Tasks \ {u} : TaskHolds(t, q)' <=> TaskHolds(t, q)
  PROVE  Cardinality(Holders(q)') = Cardinality(Holders(q))
<1>1. PICK S, T : S = Holders(q) /\ T = Holders(q)'
  OBVIOUS
<1>2. IsFiniteSet(S)
  BY <1>1, HoldersFinite
<1>3. <<a, "call">> \notin S /\ <<u, "task">> \in S
  BY <1>1, HoldersMember
<1>4. T = (S \ {<<u, "task">>}) \cup {<<a, "call">>}
  <2>1. ASSUME NEW h PROVE h \in T <=> (h \in S /\ h # <<u, "task">>) \/ h = <<a, "call">>
    BY <1>1, HoldersMember, HoldersNext
  <2>2. QED BY Zenon, <2>1
<1>5. QED BY <1>1, <1>2, <1>3, <1>4, CountSame

(***************************************************************************)
(* What the invariant says.                                                *)
(***************************************************************************)
LEMMA InvInit == Init => ProcInv
<1> SUFFICES ASSUME Init PROVE ProcInv
  OBVIOUS
<1>1. TypeOK
  BY DEF Init, TypeOK, Unmade, NoTask, NoCall, ProcRec, TaskRec, CallRec
<1>2. CallsOK /\ LastAlone
  BY DEF Init, CallsOK, LastAlone, NoCall, HoldAt, LastAt
<1>3. TasksOK
  BY DEF Init, TasksOK, NoTask, NoCall, HoldAt, LastAt, ExecAt, Agents
<1>4. ContextsOK /\ RefsExact
  BY DEF Init, ContextsOK, RefsExact, Unmade
<1>5. QED BY <1>1, <1>2, <1>3, <1>4 DEF ProcInv

LEMMA InvMemoryLive == ProcInv => MemoryLive
<1> SUFFICES ASSUME ProcInv, NEW t \in Tasks, task[t].state \in {"live", "dead"}
             PROVE /\ process[task[t].process].made /\ task[t].mm \in mms
                   /\ task[t].mm = process[task[t].process].mm
  BY DEF MemoryLive
<1>1. PICK p \in Procs : p = task[t].process
  BY DEF ProcInv, TasksOK
<1>2. <<t, "task">> \in Holders(p) /\ task[t].mm = p
  BY <1>1, HoldersMember DEF ProcInv, TasksOK, TaskHolds
<1>3. QED BY <1>1, <1>2, HolderCounts

LEMMA InvExecAlone == ProcInv => ExecAlone
<1> SUFFICES ASSUME ProcInv, NEW t \in Tasks, task[t].state = "live",
                    call[t].at \in {"load", "create", "swap"}
             PROVE /\ process[task[t].process].exec_in_progress
                   /\ \A u \in Tasks \ {t} : /\ task[u].process # task[t].process
                                             /\ call[u].p # task[t].process
  BY DEF ExecAlone
<1>1. PICK p \in Procs : p = task[t].process
  BY DEF ProcInv, TasksOK
<1>2. <<t, "task">> \in Holders(p)
  BY <1>1, HoldersMember DEF TaskHolds
<1>3. process[p].exec_in_progress /\ process[p].ref_count = 1
  BY <1>1 DEF ProcInv, TasksOK, ExecAt
<1>4. Holders(p) = {<<t, "task">>} /\ \A a \in Agents : call[a].at \in LastAt => call[a].p # p
  BY <1>2, <1>3, HolderCounts
<1>5. ASSUME NEW u \in Tasks \ {t} PROVE task[u].process # p /\ call[u].p # p
  <2>1. u \in Agents /\ <<u, "task">> \notin Holders(p) /\ <<u, "call">> \notin Holders(p)
    BY <1>4 DEF Agents
  <2>2. task[u].state \in {"live", "dead"} => task[u].process # p
    BY <2>1, HoldersMember DEF TaskHolds
  <2>3. task[u].state \in {"free", "reaping"} => task[u].process = NoProc
    BY DEF ProcInv, TasksOK
  <2>4. task[u].state \in {"live", "dead", "free", "reaping"} /\ p # NoProc
    BY ProcessAssumption DEF ProcInv, TypeOK, TaskRec
  <2>5. task[u].process # p
    BY <2>2, <2>3, <2>4
  <2>6. call[u].at \in HoldAt \cup LastAt => call[u].p # p
    BY <1>4, <2>1, HoldersMember DEF CallHolds
  <2>7. call[u].at = "user" => call[u].p # p
    BY <2>1, <2>4 DEF ProcInv, CallsOK
  <2>8. call[u].at \in {"load", "create"} => call[u].p # p
    BY <2>5 DEF ProcInv, TasksOK
  <2>9. call[u].at \in {"user", "load", "create"} \cup HoldAt \cup LastAt
    BY <2>1 DEF ProcInv, TypeOK, CallRec, HoldAt, LastAt
  <2>10. QED BY <2>5, <2>6, <2>7, <2>8, <2>9
<1>6. QED BY <1>1, <1>3, <1>5

LEMMA InvNothingLeft == ProcInv => NothingLeft
<1> SUFFICES ASSUME ProcInv, \A t \in Tasks : task[t].state = "free", \A a \in Agents : At(a, "user")
             PROVE mms = {} /\ \A p \in Procs : ~process[p].made
  BY DEF NothingLeft
<1>1. ASSUME NEW p \in Procs, process[p].made PROVE FALSE
  <2>1. Holders(p) = {}
    BY HoldersMember DEF At, HoldAt, TaskHolds, CallHolds
  <2>2. process[p].ref_count = 0
    BY <1>1, <2>1, FS_EmptySet DEF ProcInv, RefsExact
  <2>3. QED BY <1>1, <2>2 DEF ProcInv, RefsExact, At
<1>2. QED BY <1>1 DEF ProcInv, TypeOK, ContextsOK

(***************************************************************************)
(* The steps.                                                              *)
(***************************************************************************)
\* A call that holds nothing before and after, and changes no count: files are read,
\* execve() begins and gives up.
LEMMA QuietStep ==
  ASSUME ProcInv, NEW a \in Agents, NEW c \in CallRec, call' = [call EXCEPT ![a] = c],
         call[a].at \in {"user", "load", "create"}, c.at \in {"user", "load", "create"},
         task' = task, mms' = mms, image' \subseteq Bufs,
         process' \in [Procs -> ProcRec],
         \A q \in Procs : /\ process'[q].made = process[q].made
                          /\ process'[q].ref_count = process[q].ref_count
                          /\ process'[q].mm = process[q].mm,
         c.at = "user" => c.p = NoProc,
         a \in Kernels => c.at # "load" /\ c.p = NoProc,
         a \in Tasks /\ c.at # "user" =>
           /\ task[a].state = "live" /\ c.p = task[a].process
           /\ process'[c.p].ref_count = 1 /\ process'[c.p].exec_in_progress,
         \A t \in Tasks : t # a /\ call[t].at \in ExecAt =>
            process'[task[t].process].exec_in_progress
  PROVE  ProcInv'
<1>1. \A b \in Agents : call'[b] = IF b = a THEN c ELSE call[b]
  BY DEF ProcInv, TypeOK
<1>2. ASSUME NEW q PROVE Holders(q)' = Holders(q)
  <2>1. \A b \in Agents : CallHolds(b, q)' <=> CallHolds(b, q)
    BY <1>1 DEF CallHolds, HoldAt
  <2>2. QED BY <2>1, HoldersSame DEF TaskHolds
<1>3. TypeOK'
  BY DEF ProcInv, TypeOK
<1>4. CallsOK'
  BY <1>1, ProcessAssumption DEF ProcInv, CallsOK, TypeOK, HoldAt, LastAt, Agents
<1>5. TasksOK'
  <2>1. \A t \in Tasks : t # a => call'[t] = call[t]
    BY <1>1 DEF Agents
  <2>2. a \in Tasks => call'[a] = c
    BY <1>1
  <2>3. \A t \in Tasks : task[t].state \in {"live", "dead"} =>
           task[t].process \in Procs /\ process'[task[t].process].made
    BY DEF ProcInv, TasksOK
  <2>4. ASSUME NEW t \in Tasks, call[t].at \in ExecAt
        PROVE process'[task[t].process].ref_count = process[task[t].process].ref_count
    <3>1. task[t].state = "live"
      BY <2>4 DEF ProcInv, TasksOK, TypeOK, TaskRec, ExecAt, LastAt
    <3>2. QED BY <3>1 DEF ProcInv, TasksOK
  <2>5. ASSUME NEW t \in Tasks, t # a
        PROVE /\ call'[t].at \in {"thread", "load", "create"} => call'[t].p = task[t].process
              /\ call'[t].at \in ExecAt => /\ process'[task[t].process].ref_count = 1
                                           /\ process'[task[t].process].exec_in_progress
    BY <2>1, <2>4, <2>5 DEF ProcInv, TasksOK
  <2>6. ASSUME a \in Tasks
        PROVE /\ c.at \in {"thread", "load", "create"} => c.p = task[a].process
              /\ c.at \in ExecAt => /\ process'[task[a].process].ref_count = 1
                                    /\ process'[task[a].process].exec_in_progress
              /\ task[a].state \in {"free", "dead"} => c.at = "user"
              /\ task[a].state # "reaping"
    BY <2>6 DEF ProcInv, TasksOK, ExecAt, LastAt
  <2>7. QED BY <2>1, <2>2, <2>3, <2>5, <2>6 DEF ProcInv, TasksOK
<1>6. ContextsOK' /\ LastAlone'
  BY <1>1 DEF ProcInv, ContextsOK, LastAlone, LastAt
<1>7. RefsExact'
  BY <1>1, <1>2 DEF ProcInv, RefsExact
<1>8. QED BY <1>3, <1>4, <1>5, <1>6, <1>7 DEF ProcInv

\* A process that was free is made, with one reference that the call of its maker holds.
LEMMA CreateStep ==
  ASSUME ProcInv, NEW a \in Agents, NEW p \in FreeProcs, NEW r \in ProcRec,
         r.made, r.ref_count = 1, r.mm = p, process' = [process EXCEPT ![p] = r],
         NEW c \in CallRec, c.p = p, call' = [call EXCEPT ![a] = c],
         call[a].at \in {"user", "create"}, c.at \in {"publish", "swap"},
         a \in Kernels => c.at = "publish",
         a \in Tasks => task[a].state = "live",
         c.at = "swap" => call[a].at = "create",
         task' = task, mms' = mms \cup {p}, image' \subseteq Bufs
  PROVE  ProcInv'
<1>1. \A b \in Agents : call'[b] = IF b = a THEN c ELSE call[b]
  BY DEF ProcInv, TypeOK
<1>2. p \in Procs /\ ~process[p].made /\ p \notin mms
  BY DEF FreeProcs
<1>3. \A q \in Procs : process'[q] = IF q = p THEN r ELSE process[q]
  BY <1>2 DEF ProcInv, TypeOK
<1>4. /\ \A b \in Agents : call[b].at \in HoldAt \cup LastAt => call[b].p # p
      /\ \A t \in Tasks : task[t].state \in {"live", "dead"} => task[t].process # p
  BY <1>2 DEF ProcInv, CallsOK, TasksOK
<1>5. TypeOK'
  BY <1>2 DEF ProcInv, TypeOK
<1>6. CallsOK'
  BY <1>1, <1>2, <1>3, <1>4 DEF ProcInv, CallsOK, HoldAt, LastAt
<1>7. TasksOK'
  <2>1. ASSUME NEW t \in Tasks
        PROVE /\ call'[t].at \in ExecAt => call[t].at \in ExecAt
              /\ t # a => call'[t] = call[t]
              /\ call[t].at \in ExecAt => task[t].state = "live"
    BY <1>1 DEF ProcInv, TypeOK, TaskRec, TasksOK, Agents, ExecAt, LastAt
  <2>2. ASSUME NEW t \in Tasks, task[t].state \in {"live", "dead"}
        PROVE process'[task[t].process] = process[task[t].process]
    BY <1>3, <1>4, <2>2 DEF ProcInv, TasksOK
  <2>3. a \in Tasks => call'[a].at \in {"publish", "swap"} /\ task[a].state = "live"
    BY <1>1
  <2>4. QED BY <2>1, <2>2, <2>3 DEF ProcInv, TasksOK
<1>8. ContextsOK' /\ LastAlone'
  BY <1>1, <1>2, <1>3 DEF ProcInv, ContextsOK, LastAlone, LastAt
<1>9. RefsExact'
  <2>1. ASSUME NEW q \in Procs, q # p PROVE Holders(q)' = Holders(q)
    <3>1. \A b \in Agents : CallHolds(b, q)' <=> CallHolds(b, q)
      BY <1>1, <2>1 DEF CallHolds, HoldAt
    <3>2. QED BY <3>1, HoldersSame DEF TaskHolds
  <2>2. Holders(p) = {}
    BY <1>4, HoldersMember DEF CallHolds, TaskHolds
  <2>3. Cardinality(Holders(p)') = 1
    <3>1. ~CallHolds(a, p) /\ CallHolds(a, p)'
      BY <1>1, <1>4 DEF CallHolds, HoldAt
    <3>2. \A b \in Agents \ {a} : CallHolds(b, p)' <=> CallHolds(b, p)
      BY <1>1 DEF CallHolds
    <3>3. Cardinality(Holders(p)') = Cardinality(Holders(p)) + 1
      BY <3>1, <3>2, CallJoins DEF TaskHolds
    <3>4. QED BY <2>2, <3>3, FS_EmptySet
  <2>4. ASSUME NEW q \in Procs, process'[q].made
        PROVE /\ process'[q].ref_count = Cardinality(Holders(q)')
              /\ process'[q].ref_count = 0 =>
                   \E b \in Agents : call'[b].p = q /\ call'[b].at \in {"mm", "images"}
    <3>1. CASE q = p
      BY <1>3, <2>3, <3>1
    <3>2. CASE q # p
      BY <1>1, <1>3, <2>1, <2>4, <3>2 DEF ProcInv, RefsExact
    <3>3. QED BY <3>1, <3>2
  <2>5. QED BY <2>4 DEF RefsExact
<1>10. QED BY <1>5, <1>6, <1>7, <1>8, <1>9 DEF ProcInv

\* A new task takes over the reference of the call that made it.
LEMMA GiveStep ==
  ASSUME ProcInv, NEW a \in Agents, NEW u \in FreeSlots,
         call[a].at \in {"publish", "thread"}, TaskCreateUser(u, call[a].p), Return(a),
         UNCHANGED <<process, mms, image>>
  PROVE  ProcInv'
<1>0. PICK p : p = call[a].p
  OBVIOUS
<1>1. \A b \in Agents : call'[b] = IF b = a THEN NoCall ELSE call[b]
  BY DEF ProcInv, TypeOK, Return
<1>2. p \in Procs /\ <<a, "call">> \in Holders(p) /\ CallHolds(a, p)
  BY <1>0, HoldersMember DEF ProcInv, CallsOK, CallHolds, HoldAt
<1>3. process[p].made /\ process[p].mm = p /\ p \in mms
  BY <1>2, HolderCounts
<1>4. u \in Tasks /\ task[u].state = "free"
  BY DEF FreeSlots
<1>5. \A t \in Tasks : task'[t] = IF t = u THEN [state |-> "live", process |-> p, mm |-> p]
                                  ELSE task[t]
  BY <1>0, <1>3, <1>4 DEF ProcInv, TypeOK, TaskCreateUser
<1>6. u # a /\ call[u].at = "user" /\ u \in Agents
  BY <1>4 DEF ProcInv, TasksOK, Agents
<1>7. TypeOK'
  <2>1. task' \in [Tasks -> TaskRec]
    BY <1>0, <1>2, <1>3, <1>4 DEF ProcInv, TypeOK, TaskCreateUser, TaskRec
  <2>2. call' \in [Agents -> CallRec]
    BY DEF ProcInv, TypeOK, Return, CallRec, NoCall
  <2>3. QED BY <2>1, <2>2 DEF ProcInv, TypeOK
<1>8. CallsOK' /\ LastAlone'
  BY <1>1 DEF ProcInv, CallsOK, LastAlone, HoldAt, LastAt, NoCall
<1>9. TasksOK'
  <2>1. ASSUME NEW t \in Tasks, t # u PROVE task'[t] = task[t] /\ (t # a => call'[t] = call[t])
    BY <1>1, <1>5, <2>1 DEF Agents
  <2>2. a \in Tasks => call'[a].at = "user" /\ task[a].state = "live"
    BY <1>1 DEF ProcInv, TypeOK, TasksOK, TaskRec, NoCall, LastAt
  <2>3. task'[u].state = "live" /\ task'[u].process = p /\ task'[u].mm = p /\ call'[u].at = "user"
    BY <1>1, <1>4, <1>5, <1>6
  <2>4. QED BY <1>2, <1>3, <2>1, <2>2, <2>3 DEF ProcInv, TasksOK, ExecAt
<1>10. ContextsOK'
  BY DEF ProcInv, ContextsOK
<1>11. RefsExact'
  <2>1. ASSUME NEW q \in Procs PROVE Cardinality(Holders(q)') = Cardinality(Holders(q))
    <3>1. \A b \in Agents \ {a} : CallHolds(b, q)' <=> CallHolds(b, q)
      BY <1>1 DEF CallHolds
    <3>2. \A t \in Tasks \ {u} : TaskHolds(t, q)' <=> TaskHolds(t, q)
      BY <1>5 DEF TaskHolds
    <3>3. ~CallHolds(a, q)' /\ ~TaskHolds(u, q)
      BY <1>1, <1>4 DEF CallHolds, TaskHolds, NoCall, HoldAt
    <3>4. CASE q = p
      <4>1. CallHolds(a, q) /\ TaskHolds(u, q)'
        BY <1>2, <1>4, <1>5, <3>4 DEF TaskHolds
      <4>2. QED BY <1>4, <3>1, <3>2, <3>3, <4>1, CallToTask
    <3>5. CASE q # p
      <4>1. ~CallHolds(a, q) /\ ~TaskHolds(u, q)'
        BY <1>0, <1>4, <1>5, <3>5 DEF CallHolds, TaskHolds
      <4>2. Holders(q)' = Holders(q)
        BY <3>1, <3>2, <3>3, <4>1, HoldersSame
      <4>3. QED BY <4>2
    <3>6. QED BY <3>4, <3>5
  <2>2. \A b \in Agents : call[b].at \in {"mm", "images"} => call'[b] = call[b]
    BY <1>1
  <2>3. QED BY <2>1, <2>2 DEF ProcInv, RefsExact
<1>12. QED BY <1>7, <1>8, <1>9, <1>10, <1>11 DEF ProcInv

\* A reference goes that is not the last.
LEMMA DropStep ==
  ASSUME ProcInv, NEW a \in Agents, NEW p \in Procs, p = call[a].p,
         call[a].at \in {"thread", "destroy"}, process[p].ref_count > 1,
         process' = [process EXCEPT ![p].ref_count = @ - 1], Destroyed(a),
         UNCHANGED <<mms, image>>
  PROVE  ProcInv'
<1>1. \A b \in Agents : call'[b] = IF b = a THEN NoCall ELSE call[b]
  BY DEF ProcInv, TypeOK, Return, Destroyed
<1>2. <<a, "call">> \in Holders(p) /\ CallHolds(a, p)
  BY HoldersMember DEF CallHolds, HoldAt
<1>3. /\ process[p].made /\ process[p].ref_count \in Nat \ {0, 1}
      /\ process[p].ref_count = Cardinality(Holders(p))
  BY <1>2, HolderCounts
<1>4. \A q \in Procs : /\ process'[q].made = process[q].made /\ process'[q].mm = process[q].mm
                       /\ process'[q].exec_in_progress = process[q].exec_in_progress
                       /\ process'[q].ref_count = IF q = p THEN process[p].ref_count - 1
                                                  ELSE process[q].ref_count
  BY DEF ProcInv, TypeOK, ProcRec
<1>5. \A t \in Tasks : task'[t] = IF t = a /\ task[t].state = "reaping" THEN NoTask ELSE task[t]
  BY DEF ProcInv, TypeOK, Destroyed
<1>6. TypeOK'
  <2>1. task' \in [Tasks -> TaskRec]
    BY DEF ProcInv, TypeOK, Destroyed, NoTask, TaskRec
  <2>2. call' \in [Agents -> CallRec]
    BY DEF ProcInv, TypeOK, Destroyed, Return, CallRec, NoCall
  <2>3. process' \in [Procs -> ProcRec]
    BY <1>3 DEF ProcInv, TypeOK, ProcRec
  <2>4. QED BY <2>1, <2>2, <2>3 DEF ProcInv, TypeOK
<1>7. CallsOK' /\ LastAlone'
  BY <1>1, <1>3, <1>4 DEF ProcInv, CallsOK, LastAlone, HoldAt, LastAt, NoCall
<1>8. TasksOK'
  <2>1. ASSUME NEW t \in Tasks, t # a PROVE task'[t] = task[t] /\ call'[t] = call[t]
    BY <1>1, <1>5, <2>1 DEF Agents
  <2>2. a \in Tasks => /\ task[a].state \in {"live", "reaping"} /\ call'[a].at = "user"
                       /\ task'[a] = IF task[a].state = "live" THEN task[a] ELSE NoTask
    BY <1>1, <1>5 DEF ProcInv, TypeOK, TasksOK, TaskRec, NoCall, LastAt
  <2>3. ASSUME NEW t \in Tasks, call[t].at \in ExecAt
        PROVE task[t].process \in Procs \ {p}
    <3>1. task[t].state = "live"
      BY <2>3 DEF ProcInv, TypeOK, TaskRec, TasksOK, ExecAt, LastAt
    <3>2. QED BY <1>3, <2>3, <3>1 DEF ProcInv, TasksOK
  <2>4. ASSUME NEW t \in Tasks, t # a PROVE (
          /\ task[t].state \in {"live", "dead"} =>
               task[t].process \in Procs /\ process'[task[t].process].made
          /\ call[t].at \in ExecAt => /\ process'[task[t].process].ref_count = 1
                                      /\ process'[task[t].process].exec_in_progress)
    BY <1>4, <2>3 DEF ProcInv, TasksOK
  <2>5. ASSUME NEW t \in Tasks, t = a PROVE
          /\ task'[t].state \in {"live", "dead"} =>
               /\ task'[t].process \in Procs /\ process'[task'[t].process].made
               /\ task'[t].mm = task'[t].process
          /\ task'[t].state \in {"free", "reaping"} => task'[t].process = NoProc
          /\ task'[t].state # "reaping" /\ call'[t].at = "user"
    BY <1>4, <2>2, <2>5 DEF ProcInv, TasksOK, NoTask
  <2>6. QED BY <2>1, <2>4, <2>5 DEF ProcInv, TasksOK, ExecAt
<1>9. ContextsOK'
  BY <1>3, <1>4 DEF ProcInv, ContextsOK
<1>10. RefsExact'
  <2>1. ASSUME NEW q \in Procs
        PROVE /\ \A b \in Agents \ {a} : CallHolds(b, q)' <=> CallHolds(b, q)
              /\ \A t \in Tasks : TaskHolds(t, q)' <=> TaskHolds(t, q)
              /\ ~CallHolds(a, q)'
    BY <1>1, <1>5 DEF CallHolds, TaskHolds, NoCall, HoldAt, NoTask
  <2>2. Cardinality(Holders(p)') = Cardinality(Holders(p)) - 1
    BY <1>2, <2>1, CallLeaves
  <2>3. ASSUME NEW q \in Procs, q # p PROVE Holders(q)' = Holders(q)
    <3>1. ~CallHolds(a, q)
      BY <2>3 DEF CallHolds
    <3>2. QED BY <2>1, <3>1, HoldersSame
  <2>4. \A b \in Agents : call[b].at \in {"mm", "images"} => call'[b] = call[b]
    BY <1>1
  <2>5. ASSUME NEW q \in Procs, process'[q].made
        PROVE /\ process'[q].ref_count = Cardinality(Holders(q)')
              /\ process'[q].ref_count = 0 =>
                   \E b \in Agents : call'[b].p = q /\ call'[b].at \in {"mm", "images"}
    <3>1. CASE q = p
      BY <1>3, <1>4, <2>2, <3>1
    <3>2. CASE q # p
      BY <1>4, <2>3, <2>4, <2>5, <3>2 DEF ProcInv, RefsExact
    <3>3. QED BY <3>1, <3>2
  <2>6. QED BY <2>5 DEF RefsExact
<1>11. QED BY <1>6, <1>7, <1>8, <1>9, <1>10 DEF ProcInv

\* clone() takes a reference for the thread it is about to make.
LEMMA ThreadBeginStep == ASSUME ProcInv, NEW t \in Tasks, ThreadBegin(t) PROVE ProcInv'
<1>0. PICK p : p = task[t].process
  OBVIOUS
<1>1. t \in Agents /\ call[t].at = "user" /\ task[t].state = "live" /\ p \in Procs
  BY <1>0 DEF ThreadBegin, InUser, At, ProcInv, TasksOK, Agents
<1>2. \A b \in Agents : call'[b] = IF b = t THEN [call[t] EXCEPT !.at = "thread", !.p = p]
                                   ELSE call[b]
  BY <1>0, <1>1 DEF ThreadBegin, Goto, ProcInv, TypeOK, CallRec
<1>3. <<t, "task">> \in Holders(p)
  BY <1>0, <1>1, HoldersMember DEF TaskHolds
<1>4. /\ process[p].made /\ process[p].ref_count \in Nat \ {0} /\ p \in mms /\ process[p].mm = p
      /\ process[p].ref_count = Cardinality(Holders(p))
      /\ process[p].ref_count = 1 => Holders(p) = {<<t, "task">>}
      /\ \A a \in Agents : call[a].at \in LastAt => call[a].p # p
  BY <1>1, <1>3, HolderCounts
<1>5. \A q \in Procs : /\ process'[q].made = process[q].made /\ process'[q].mm = process[q].mm
                       /\ process'[q].exec_in_progress = process[q].exec_in_progress
                       /\ process'[q].ref_count = IF q = p THEN process[p].ref_count + 1
                                                  ELSE process[q].ref_count
  BY <1>0 DEF ThreadBegin, ProcInv, TypeOK, ProcRec
<1>6. TypeOK'
  <2>1. call' \in [Agents -> CallRec]
    BY <1>0, <1>1 DEF ThreadBegin, Goto, ProcInv, TypeOK, CallRec
  <2>2. process' \in [Procs -> ProcRec]
    BY <1>0, <1>1, <1>4 DEF ThreadBegin, ProcInv, TypeOK, ProcRec
  <2>3. QED BY <2>1, <2>2 DEF ThreadBegin, ProcInv, TypeOK
<1>7. ASSUME NEW a \in Agents, call[a].at = "publish" PROVE call[a].p # p
  <2>1. SUFFICES ASSUME call[a].p = p PROVE FALSE
    OBVIOUS
  <2>2. process[p].ref_count = 1 /\ <<a, "call">> \in Holders(p)
    BY <1>7, <2>1, HoldersMember DEF ProcInv, CallsOK, CallHolds, HoldAt
  <2>3. QED BY <1>4, <2>2
<1>8. ASSUME NEW u \in Tasks, call[u].at \in ExecAt PROVE task[u].process \in Procs \ {p}
  <2>1. task[u].state = "live" /\ u # t
    BY <1>1, <1>8 DEF ProcInv, TypeOK, TaskRec, TasksOK, ExecAt, LastAt
  <2>2. <<u, "task">> \in Holders(task[u].process) /\ task[u].process \in Procs
    BY <2>1, HoldersMember DEF TaskHolds, ProcInv, TasksOK
  <2>3. process[task[u].process].ref_count = 1
    BY <1>8 DEF ProcInv, TasksOK
  <2>4. QED BY <1>4, <2>1, <2>2, <2>3
<1>9. CallsOK' /\ LastAlone'
  <2>1. mms' = mms /\ call'[t].at = "thread" /\ call'[t].p = p /\ t \notin Kernels
    BY <1>1, <1>2, ProcessAssumption DEF ThreadBegin, ProcInv, TypeOK, CallRec
  <2>2. \A a \in Agents \ {t} : call'[a] = call[a]
    BY <1>2
  <2>3. QED BY <1>1, <1>4, <1>5, <1>7, <2>1, <2>2 DEF ProcInv, CallsOK, LastAlone, HoldAt, LastAt
<1>10. TasksOK'
  <2>1. task' = task /\ call'[t].at = "thread" /\ call'[t].p = p
    BY <1>1, <1>2 DEF ThreadBegin, ProcInv, TypeOK, CallRec
  <2>2. \A u \in Tasks \ {t} : call'[u] = call[u]
    BY <1>2 DEF Agents
  <2>3. QED BY <1>0, <1>1, <1>5, <1>8, <2>1, <2>2 DEF ProcInv, TasksOK, ExecAt
<1>11. ContextsOK'
  BY <1>4, <1>5 DEF ThreadBegin, ProcInv, ContextsOK
<1>12. RefsExact'
  <2>1. task' = task /\ call'[t].at = "thread" /\ call'[t].p = p
    BY <1>1, <1>2 DEF ThreadBegin, ProcInv, TypeOK, CallRec
  <2>2. ASSUME NEW q \in Procs
        PROVE /\ \A b \in Agents \ {t} : CallHolds(b, q)' <=> CallHolds(b, q)
              /\ \A u \in Tasks : TaskHolds(u, q)' <=> TaskHolds(u, q)
              /\ ~CallHolds(t, q) /\ (CallHolds(t, q)' <=> q = p)
    BY <1>1, <1>2, <2>1 DEF CallHolds, TaskHolds, HoldAt
  <2>3. Cardinality(Holders(p)') = Cardinality(Holders(p)) + 1
    BY <1>1, <2>2, CallJoins
  <2>4. ASSUME NEW q \in Procs, q # p PROVE Holders(q)' = Holders(q)
    BY <2>2, <2>4, HoldersSame
  <2>5. \A b \in Agents : call[b].at \in {"mm", "images"} => call'[b] = call[b]
    BY <1>1, <1>2
  <2>6. ASSUME NEW q \in Procs, process'[q].made
        PROVE /\ process'[q].ref_count = Cardinality(Holders(q)')
              /\ process'[q].ref_count = 0 =>
                   \E b \in Agents : call'[b].p = q /\ call'[b].at \in {"mm", "images"}
    <3>1. CASE q = p
      BY <1>4, <1>5, <2>3, <3>1
    <3>2. CASE q # p
      BY <1>5, <2>4, <2>5, <2>6, <3>2 DEF ProcInv, RefsExact
    <3>3. QED BY <3>1, <3>2
  <2>7. QED BY <2>6 DEF RefsExact
<1>13. QED BY <1>6, <1>9, <1>10, <1>11, <1>12 DEF ProcInv

\* A task in execve() holds its process alone.
LEMMA ExecHolder ==
  ASSUME ProcInv, NEW t \in Tasks, call[t].at \in ExecAt
  PROVE  /\ task[t].state = "live" /\ task[t].process \in Procs /\ task[t].mm = task[t].process
         /\ Holders(task[t].process) = {<<t, "task">>}
         /\ process[task[t].process].made /\ process[task[t].process].mm = task[t].process
         /\ \A a \in Agents : call[a].at \in LastAt => call[a].p # task[t].process
<1>0. PICK p : p = task[t].process
  OBVIOUS
<1>1. task[t].state = "live"
  BY DEF ProcInv, TypeOK, TaskRec, TasksOK, ExecAt, LastAt
<1>2. p \in Procs /\ task[t].mm = p /\ process[p].ref_count = 1
  BY <1>0, <1>1 DEF ProcInv, TasksOK
<1>3. <<t, "task">> \in Holders(p)
  BY <1>0, <1>1, HoldersMember DEF TaskHolds
<1>4. QED BY <1>0, <1>1, <1>2, <1>3, HolderCounts

\* execve() moves its task to the new process and is left with the old one.
LEMMA ExecSwapStep == ASSUME ProcInv, NEW t \in Tasks, ExecSwap(t) PROVE ProcInv'
<1>0. PICK p, n : p = task[t].process /\ n = call[t].p
  OBVIOUS
<1>1. t \in Agents /\ call[t].at = "swap" /\ call[t].at \in ExecAt
  BY DEF ExecSwap, At, Agents, ExecAt
<1>2. /\ task[t].state = "live" /\ p \in Procs /\ task[t].mm = p
      /\ Holders(p) = {<<t, "task">>} /\ process[p].made /\ process[p].mm = p
      /\ \A a \in Agents : call[a].at \in LastAt => call[a].p # p
  BY <1>0, <1>1, ExecHolder
<1>3. n \in Procs /\ <<t, "call">> \in Holders(n)
  BY <1>0, <1>1, HoldersMember DEF ProcInv, CallsOK, CallHolds, HoldAt
<1>4. n # p /\ process[n].made /\ process[n].mm = n
  <2>1. <<t, "call">> \notin Holders(p)
    BY <1>2
  <2>2. n # p
    BY <1>3, <2>1
  <2>3. QED BY <1>3, <2>2, HolderCounts
<1>5. process' = process /\ mms' = mms /\ image' = image
  <2>1. process' = [process EXCEPT ![p].mm = p]
    BY <1>0, <1>2 DEF ExecSwap
  <2>2. QED BY <1>2, <2>1 DEF ExecSwap, ProcInv, TypeOK, ProcRec
<1>6. \A u \in Tasks : task'[u] = IF u = t THEN [task[t] EXCEPT !.process = n, !.mm = n]
                                  ELSE task[u]
  BY <1>0, <1>4 DEF ExecSwap, ProcInv, TypeOK
<1>7. \A b \in Agents : call'[b] = IF b = t THEN [call[t] EXCEPT !.at = "destroy", !.p = p]
                                   ELSE call[b]
  BY <1>0, <1>1 DEF ExecSwap, Goto, ProcInv, TypeOK, CallRec
<1>8. /\ task'[t].state = "live" /\ task'[t].process = n /\ task'[t].mm = n
      /\ call'[t].at = "destroy" /\ call'[t].p = p
  BY <1>1, <1>2, <1>6, <1>7 DEF ProcInv, TypeOK, CallRec, TaskRec
<1>9. TypeOK'
  <2>0. p \in Procs
    BY <1>2
  <2>1. call' \in [Agents -> CallRec]
    BY <1>0, <1>1, <2>0 DEF ExecSwap, Goto, ProcInv, TypeOK, CallRec
  <2>2. task' \in [Tasks -> TaskRec]
    BY <1>0, <1>3, <1>4 DEF ExecSwap, ProcInv, TypeOK, TaskRec
  <2>3. QED BY <1>5, <2>1, <2>2 DEF ProcInv, TypeOK
<1>10. CallsOK' /\ LastAlone'
  <2>1. t \notin Kernels /\ \A a \in Agents \ {t} : call'[a] = call[a]
    BY <1>7, ProcessAssumption
  <2>2. QED BY <1>1, <1>2, <1>5, <1>8, <2>1 DEF ProcInv, CallsOK, LastAlone, HoldAt, LastAt
<1>11. TasksOK'
  <2>1. \A u \in Tasks \ {t} : call'[u] = call[u] /\ task'[u] = task[u]
    BY <1>6, <1>7 DEF Agents
  <2>2. QED BY <1>3, <1>4, <1>5, <1>8, <2>1 DEF ProcInv, TasksOK, ExecAt
<1>12. ContextsOK'
  BY <1>5 DEF ProcInv, ContextsOK
<1>13. RefsExact'
  <2>1. ASSUME NEW q \in Procs
        PROVE /\ \A b \in Agents \ {t} : CallHolds(b, q)' <=> CallHolds(b, q)
              /\ \A u \in Tasks \ {t} : TaskHolds(u, q)' <=> TaskHolds(u, q)
              /\ (CallHolds(t, q) <=> q = n) /\ (CallHolds(t, q)' <=> q = p)
              /\ (TaskHolds(t, q) <=> q = p) /\ (TaskHolds(t, q)' <=> q = n)
    BY <1>0, <1>1, <1>2, <1>6, <1>7, <1>8 DEF CallHolds, TaskHolds, HoldAt
  <2>2. ASSUME NEW q \in Procs PROVE Cardinality(Holders(q)') = Cardinality(Holders(q))
    <3>1. CASE q = p
      BY <1>1, <1>4, <2>1, <3>1, TaskToCall
    <3>2. CASE q = n
      BY <1>1, <1>4, <2>1, <3>2, CallToTask
    <3>3. CASE q # p /\ q # n
      <4>1. Holders(q)' = Holders(q)
        BY <2>1, <3>3, HoldersSame
      <4>2. QED BY <4>1
    <3>4. QED BY <3>1, <3>2, <3>3
  <2>3. \A b \in Agents : call[b].at \in {"mm", "images"} => call'[b] = call[b]
    BY <1>1, <1>7
  <2>4. QED BY <1>5, <2>2, <2>3 DEF ProcInv, RefsExact
<1>14. QED BY <1>9, <1>10, <1>11, <1>12, <1>13 DEF ProcInv

\* A task dies in user mode.
LEMMA DieStep == ASSUME ProcInv, NEW t \in Tasks, Die(t) PROVE ProcInv'
<1>1. /\ task[t].state = "live" /\ call[t].at = "user"
      /\ UNCHANGED <<process, mms, image, call>>
  BY DEF Die, InUser, At
<1>2. /\ \A u \in Tasks \ {t} : task'[u] = task[u]
      /\ task'[t].state = "dead" /\ task'[t].process = task[t].process /\ task'[t].mm = task[t].mm
  BY DEF Die, ProcInv, TypeOK, TaskRec
<1>3. TypeOK'
  BY <1>1 DEF Die, ProcInv, TypeOK, TaskRec
<1>4. CallsOK' /\ LastAlone' /\ ContextsOK'
  BY <1>1 DEF ProcInv, CallsOK, LastAlone, ContextsOK
<1>5. TasksOK'
  BY <1>1, <1>2 DEF ProcInv, TasksOK, ExecAt
<1>6. ASSUME NEW q \in Procs PROVE Holders(q)' = Holders(q)
  <2>1. \A u \in Tasks : TaskHolds(u, q)' <=> TaskHolds(u, q)
    BY <1>1, <1>2 DEF TaskHolds
  <2>2. QED BY <1>1, <2>1, HoldersSame DEF CallHolds
<1>7. RefsExact'
  BY <1>1, <1>6 DEF ProcInv, RefsExact
<1>8. QED BY <1>3, <1>4, <1>5, <1>7 DEF ProcInv

\* The reaper takes the process from a dead task, and its reference with it.
LEMMA ReapStep == ASSUME ProcInv, NEW t \in Tasks, Reap(t) PROVE ProcInv'
<1>0. PICK p : p = task[t].process
  OBVIOUS
<1>1. /\ t \in Agents /\ task[t].state = "dead" /\ call[t].at = "user" /\ p \in Procs
      /\ UNCHANGED <<process, mms, image>>
  BY <1>0 DEF Reap, ProcInv, TasksOK, Agents
<1>2. /\ \A u \in Tasks \ {t} : task'[u] = task[u]
      /\ task'[t] = [state |-> "reaping", process |-> NoProc, mm |-> NoProc]
  BY DEF Reap, ProcInv, TypeOK
<1>3. /\ \A b \in Agents \ {t} : call'[b] = call[b]
      /\ call'[t].at = "destroy" /\ call'[t].p = p
  BY <1>0, <1>1 DEF Reap, Goto, ProcInv, TypeOK, CallRec
<1>4. TypeOK'
  <2>1. call' \in [Agents -> CallRec]
    BY <1>0, <1>1 DEF Reap, Goto, ProcInv, TypeOK, CallRec
  <2>2. task' \in [Tasks -> TaskRec]
    BY DEF Reap, ProcInv, TypeOK, TaskRec
  <2>3. QED BY <1>1, <2>1, <2>2 DEF ProcInv, TypeOK
<1>5. process[p].made
  BY <1>0, <1>1 DEF ProcInv, TasksOK
<1>6. CallsOK' /\ LastAlone' /\ ContextsOK'
  BY <1>1, <1>3, <1>5, ProcessAssumption
     DEF ProcInv, CallsOK, LastAlone, ContextsOK, HoldAt, LastAt
<1>7. TasksOK'
  <2>1. \A u \in Tasks \ {t} : call'[u] = call[u]
    BY <1>3 DEF Agents
  <2>2. QED BY <1>1, <1>2, <1>3, <2>1 DEF ProcInv, TasksOK, ExecAt
<1>8. ASSUME NEW q \in Procs PROVE Cardinality(Holders(q)') = Cardinality(Holders(q))
  <2>1. /\ \A b \in Agents \ {t} : CallHolds(b, q)' <=> CallHolds(b, q)
        /\ \A u \in Tasks \ {t} : TaskHolds(u, q)' <=> TaskHolds(u, q)
        /\ ~CallHolds(t, q) /\ (CallHolds(t, q)' <=> q = p)
        /\ (TaskHolds(t, q) <=> q = p) /\ ~TaskHolds(t, q)'
    BY <1>0, <1>1, <1>2, <1>3 DEF CallHolds, TaskHolds, HoldAt
  <2>2. CASE q = p
    BY <1>1, <2>1, <2>2, TaskToCall
  <2>3. CASE q # p
    <3>1. Holders(q)' = Holders(q)
      BY <2>1, <2>3, HoldersSame
    <3>2. QED BY <3>1
  <2>4. QED BY <2>2, <2>3
<1>9. RefsExact'
  <2>1. \A b \in Agents : call[b].at \in {"mm", "images"} => call'[b] = call[b]
    BY <1>1, <1>3
  <2>2. QED BY <1>1, <1>8, <2>1 DEF ProcInv, RefsExact
<1>10. QED BY <1>4, <1>6, <1>7, <1>9 DEF ProcInv

\* The loader keeps the reference for process_destroy() when there is no task to give it to.
LEMMA GiveUpStep ==
  ASSUME ProcInv, NEW k \in Kernels, call[k].at = "publish", Goto(k, "destroy", call[k].p),
         UNCHANGED <<process, mms, image, task>>
  PROVE  ProcInv'
<1>1. k \in Agents /\ k \notin Tasks
  BY ProcessAssumption DEF Agents
<1>2. /\ \A b \in Agents \ {k} : call'[b] = call[b]
      /\ call'[k].at = "destroy" /\ call'[k].p = call[k].p
  BY <1>1 DEF Goto, ProcInv, TypeOK, CallRec
<1>3. TypeOK'
  <2>1. call' \in [Agents -> CallRec]
    BY <1>1 DEF Goto, ProcInv, TypeOK, CallRec
  <2>2. QED BY <2>1 DEF ProcInv, TypeOK
<1>4. CallsOK' /\ LastAlone' /\ ContextsOK'
  BY <1>1, <1>2 DEF ProcInv, CallsOK, LastAlone, ContextsOK, HoldAt, LastAt
<1>5. TasksOK'
  <2>1. \A u \in Tasks : call'[u] = call[u]
    BY <1>1, <1>2 DEF Agents
  <2>2. QED BY <2>1 DEF ProcInv, TasksOK
<1>6. ASSUME NEW q \in Procs PROVE Holders(q)' = Holders(q)
  <2>1. \A b \in Agents : CallHolds(b, q)' <=> CallHolds(b, q)
    BY <1>2 DEF CallHolds, HoldAt
  <2>2. QED BY <2>1, HoldersSame DEF TaskHolds
<1>7. RefsExact'
  BY <1>2, <1>6 DEF ProcInv, RefsExact
<1>8. QED BY <1>3, <1>4, <1>5, <1>7 DEF ProcInv

\* The caller that finds one reference takes the context and the images.
LEMMA LastStep ==
  ASSUME ProcInv, NEW a \in Agents, NEW p \in Procs, p = call[a].p, call[a].at = "destroy",
         process[p].ref_count = 1, TypeOK',
         \A b \in Agents \ {a} : call'[b] = call[b],
         call'[a].at = "mm", call'[a].p = p, call'[a].mm = process[p].mm,
         \A q \in Procs \ {p} : process'[q] = process[q],
         process'[p].made = process[p].made, process'[p].ref_count = 0,
         UNCHANGED <<mms, image, task>>
  PROVE  ProcInv'
<1>1. <<a, "call">> \in Holders(p) /\ CallHolds(a, p)
  BY HoldersMember DEF CallHolds, HoldAt
<1>2. /\ process[p].made /\ process[p].mm = p /\ Cardinality(Holders(p)) = 1
      /\ Holders(p) = {<<a, "call">>}
      /\ \A b \in Agents : call[b].at \in LastAt => call[b].p # p
  BY <1>1, HolderCounts
<1>3. /\ \A b \in Agents \ {a} : call'[b] = call[b]
      /\ call'[a].at = "mm" /\ call'[a].p = p /\ call'[a].mm = p
  BY <1>2
<1>4. /\ \A q \in Procs \ {p} : process'[q] = process[q]
      /\ process'[p].made /\ process'[p].ref_count = 0
  BY <1>2
<1>6. /\ \A t \in Tasks : task[t].state \in {"live", "dead"} => task[t].process # p
      /\ \A b \in Agents \ {a} : call[b].at \in HoldAt => call[b].p # p
  <2>1. ASSUME NEW u \in Tasks, TaskHolds(u, p) PROVE FALSE
    <3>1. <<u, "task">> \in Holders(p)
      BY <2>1, HoldersMember
    <3>2. QED BY <1>2, <3>1
  <2>2. ASSUME NEW b \in Agents, CallHolds(b, p) PROVE b = a
    <3>1. <<b, "call">> \in Holders(p)
      BY <2>2, HoldersMember
    <3>2. QED BY <1>2, <3>1
  <2>3. QED BY <2>1, <2>2 DEF TaskHolds, CallHolds
<1>7. CallsOK' /\ LastAlone'
  <2>1. ASSUME NEW b \in Agents, b # a, call[b].at \in HoldAt \cup LastAt
        PROVE  call[b].p \in Procs \ {p}
    BY <1>2, <1>6, <2>1 DEF ProcInv, CallsOK
  <2>2. QED BY <1>2, <1>3, <1>4, <2>1 DEF ProcInv, CallsOK, LastAlone, HoldAt, LastAt
<1>8. TasksOK'
  <2>1. \A t \in Tasks : t # a => call'[t] = call[t]
    BY <1>3 DEF Agents
  <2>2. ASSUME NEW t \in Tasks, task[t].state \in {"live", "dead"}
        PROVE  process'[task[t].process] = process[task[t].process]
    BY <1>4, <1>6, <2>2 DEF ProcInv, TasksOK
  <2>3. \A t \in Tasks : call[t].at \in ExecAt => task[t].state = "live"
    BY DEF ProcInv, TypeOK, TaskRec, TasksOK, ExecAt, LastAt
  <2>4. a \in Tasks => task[a].state \in {"live", "reaping"}
    BY DEF ProcInv, TypeOK, TaskRec, TasksOK
  <2>5. QED BY <1>3, <2>1, <2>2, <2>3, <2>4 DEF ProcInv, TasksOK, ExecAt, LastAt
<1>9. ContextsOK'
  BY <1>4 DEF ProcInv, ContextsOK
<1>10. RefsExact'
  <2>1. ASSUME NEW q \in Procs
        PROVE /\ \A b \in Agents \ {a} : CallHolds(b, q)' <=> CallHolds(b, q)
              /\ \A t \in Tasks : TaskHolds(t, q)' <=> TaskHolds(t, q)
              /\ ~CallHolds(a, q)'
    BY <1>3 DEF CallHolds, TaskHolds, HoldAt
  <2>2. Cardinality(Holders(p)') = 0
    <3>1. Cardinality(Holders(p)') = Cardinality(Holders(p)) - 1
      BY <1>1, <2>1, CallLeaves
    <3>2. QED BY <1>2, <3>1
  <2>3. ASSUME NEW q \in Procs, q # p PROVE Holders(q)' = Holders(q)
    <3>1. ~CallHolds(a, q)
      BY <2>3 DEF CallHolds
    <3>2. QED BY <2>1, <3>1, HoldersSame
  <2>4. \A b \in Agents : call[b].at \in {"mm", "images"} => call'[b] = call[b]
    BY <1>3
  <2>5. ASSUME NEW q \in Procs, process'[q].made
        PROVE /\ process'[q].ref_count = Cardinality(Holders(q)')
              /\ process'[q].ref_count = 0 =>
                   \E b \in Agents : call'[b].p = q /\ call'[b].at \in {"mm", "images"}
    <3>1. CASE q = p
      BY <1>3, <1>4, <2>2, <3>1
    <3>2. CASE q # p
      BY <1>4, <2>3, <2>4, <2>5, <3>2 DEF ProcInv, RefsExact
    <3>3. QED BY <3>1, <3>2
  <2>6. QED BY <2>5 DEF RefsExact
<1>11. QED BY <1>7, <1>8, <1>9, <1>10 DEF ProcInv

LEMMA DestroyLastStep ==
  ASSUME ProcInv, NEW a \in Agents, NEW p \in Procs, p = call[a].p, call[a].at = "destroy",
         process[p].ref_count = 1,
         call' = [call EXCEPT ![a].at = "mm", ![a].mm = process[p].mm,
                              ![a].owned = process[p].owned],
         process' = [process EXCEPT ![p].ref_count = 0, ![p].mm = NoProc, ![p].owned = {}],
         UNCHANGED <<mms, image, task>>
  PROVE  ProcInv'
<1>1. PICK m, o : m = process[p].mm /\ o = process[p].owned
  OBVIOUS
<1>2. o \in SUBSET Bufs /\ m \in Procs \cup {NoProc}
  BY <1>1 DEF ProcInv, TypeOK, ProcRec
<1>3. call[a] \in CallRec /\ process[p] \in ProcRec
  BY DEF ProcInv, TypeOK
<1>4. PICK c : c = [call[a] EXCEPT !.at = "mm", !.mm = m, !.owned = o]
  OBVIOUS
<1>5. c \in CallRec /\ c.at = "mm" /\ c.mm = m /\ c.p = call[a].p
  BY <1>2, <1>3, <1>4 DEF CallRec
<1>6. call' = [call EXCEPT ![a] = c]
  BY <1>1, <1>4 DEF ProcInv, TypeOK
<1>7. PICK r : r = [process[p] EXCEPT !.ref_count = 0, !.mm = NoProc, !.owned = {}]
  OBVIOUS
<1>8. r \in ProcRec /\ r.ref_count = 0 /\ r.made = process[p].made
  BY <1>3, <1>7 DEF ProcRec
<1>9. process' = [process EXCEPT ![p] = r]
  BY <1>7 DEF ProcInv, TypeOK
<1>10. TypeOK'
  <2>1. call' \in [Agents -> CallRec]
    BY <1>5, <1>6 DEF ProcInv, TypeOK
  <2>2. process' \in [Procs -> ProcRec]
    BY <1>8, <1>9 DEF ProcInv, TypeOK
  <2>3. QED BY <2>1, <2>2 DEF ProcInv, TypeOK
<1>11. /\ \A b \in Agents \ {a} : call'[b] = call[b]
       /\ call'[a].at = "mm" /\ call'[a].p = p /\ call'[a].mm = process[p].mm
  BY <1>1, <1>5, <1>6 DEF ProcInv, TypeOK
<1>12. /\ \A q \in Procs \ {p} : process'[q] = process[q]
       /\ process'[p].made = process[p].made /\ process'[p].ref_count = 0
  BY <1>8, <1>9 DEF ProcInv, TypeOK
<1>13. QED BY <1>10, <1>11, <1>12, LastStep

\* It destroys the context, which no other process has.
LEMMA DestroyMmStep == ASSUME ProcInv, NEW a \in Agents, DestroyMm(a) PROVE ProcInv'
<1>0. PICK p : p = call[a].p
  OBVIOUS
<1>1. /\ call[a].at = "mm" /\ p \in Procs /\ call[a].mm = p /\ process[p].ref_count = 0
      /\ mms' = mms \ {p} /\ UNCHANGED <<process, image, task>>
  BY <1>0 DEF DestroyMm, At, ProcInv, CallsOK, HoldAt, LastAt
<1>2. /\ \A b \in Agents \ {a} : call'[b] = call[b]
      /\ call'[a].at = "images" /\ call'[a].p = p
  BY <1>0 DEF DestroyMm, Goto, ProcInv, TypeOK, CallRec
<1>3. TypeOK'
  <2>1. call' \in [Agents -> CallRec]
    <3>1. call' = [call EXCEPT ![a].at = "images", ![a].p = p] /\ call \in [Agents -> CallRec]
      BY <1>0 DEF DestroyMm, Goto, ProcInv, TypeOK
    <3>2. p \in Procs
      BY <1>1
    <3>3. QED BY <3>1, <3>2 DEF CallRec
  <2>2. QED BY <1>1, <2>1 DEF ProcInv, TypeOK
<1>4. CallsOK' /\ LastAlone'
  BY <1>0, <1>1, <1>2 DEF ProcInv, CallsOK, LastAlone, HoldAt, LastAt
<1>5. TasksOK'
  <2>1. \A t \in Tasks : t # a => call'[t] = call[t]
    BY <1>2 DEF Agents
  <2>2. QED BY <1>1, <1>2, <2>1 DEF ProcInv, TasksOK, ExecAt, LastAt
<1>6. ContextsOK'
  BY <1>1 DEF ProcInv, ContextsOK
<1>7. ASSUME NEW q \in Procs PROVE Holders(q)' = Holders(q)
  <2>1. \A b \in Agents : CallHolds(b, q)' <=> CallHolds(b, q)
    BY <1>1, <1>2 DEF CallHolds, HoldAt
  <2>2. QED BY <1>1, <2>1, HoldersSame DEF TaskHolds
<1>8. RefsExact'
  <2>1. \A b \in Agents : call[b].at \in {"mm", "images"} =>
          call'[b].at \in {"mm", "images"} /\ call'[b].p = call[b].p
    BY <1>0, <1>2
  <2>2. QED BY <1>1, <1>7, <2>1 DEF ProcInv, RefsExact
<1>9. QED BY <1>3, <1>4, <1>5, <1>6, <1>8 DEF ProcInv

\* A process that nobody else holds, and whose context is gone, is freed: by the last
\* caller of process_destroy(), and by a fork() without a task.
LEMMA FreeStep ==
  ASSUME ProcInv, NEW a \in Agents, NEW p \in Procs, p = call[a].p,
         call[a].at \in {"publish", "images"},
         process' = [process EXCEPT ![p] = Unmade], Destroyed(a),
         mms' = mms \ {p}, image' \subseteq Bufs
  PROVE  ProcInv'
<1>1. /\ \A b \in Agents \ {a} : call'[b] = call[b]
      /\ call'[a] = NoCall
  BY DEF ProcInv, TypeOK, Return, Destroyed
<1>2. \A t \in Tasks : task'[t] = IF t = a /\ task[t].state = "reaping" THEN NoTask ELSE task[t]
  BY DEF ProcInv, TypeOK, Destroyed
<1>3. /\ \A q \in Procs \ {p} : process'[q] = process[q]
      /\ process'[p] = Unmade
  BY DEF ProcInv, TypeOK
<1>4. \A h \in Holders(p) : h = <<a, "call">>
  <2>1. CASE call[a].at = "publish"
    <3>1. <<a, "call">> \in Holders(p) /\ process[p].ref_count = 1
      BY <2>1, HoldersMember DEF CallHolds, HoldAt, ProcInv, CallsOK
    <3>2. Holders(p) = {<<a, "call">>}
      BY <3>1, HolderCounts
    <3>3. QED BY <3>2
  <2>2. CASE call[a].at = "images"
    BY <2>2, HolderCounts DEF LastAt
  <2>3. QED BY <2>1, <2>2
<1>5. \A b \in Agents \ {a} : call[b].at \in LastAt => call[b].p # p
  <2>1. CASE call[a].at = "publish"
    <3>1. <<a, "call">> \in Holders(p)
      BY <2>1, HoldersMember DEF CallHolds, HoldAt
    <3>2. QED BY <3>1, HolderCounts
  <2>2. CASE call[a].at = "images"
    BY <2>2 DEF ProcInv, LastAlone, LastAt
  <2>3. QED BY <2>1, <2>2
<1>6. /\ \A t \in Tasks : task[t].state \in {"live", "dead"} => task[t].process # p
      /\ \A b \in Agents \ {a} : call[b].at \in HoldAt => call[b].p # p
  <2>1. ASSUME NEW u \in Tasks, TaskHolds(u, p) PROVE FALSE
    <3>1. <<u, "task">> \in Holders(p)
      BY <2>1, HoldersMember
    <3>2. QED BY <1>4, <3>1
  <2>2. ASSUME NEW b \in Agents, CallHolds(b, p) PROVE b = a
    <3>1. <<b, "call">> \in Holders(p)
      BY <2>2, HoldersMember
    <3>2. QED BY <1>4, <3>1
  <2>3. QED BY <2>1, <2>2 DEF TaskHolds, CallHolds
<1>7. TypeOK'
  <2>1. task' \in [Tasks -> TaskRec]
    BY DEF ProcInv, TypeOK, Destroyed, NoTask, TaskRec
  <2>2. call' \in [Agents -> CallRec]
    BY DEF ProcInv, TypeOK, Destroyed, Return, CallRec, NoCall
  <2>3. Unmade \in ProcRec
    BY DEF Unmade, ProcRec
  <2>4. process' \in [Procs -> ProcRec]
    BY <2>3 DEF ProcInv, TypeOK
  <2>5. QED BY <2>1, <2>2, <2>4 DEF ProcInv, TypeOK
<1>8. CallsOK' /\ LastAlone'
  <2>1. ASSUME NEW b \in Agents, b # a, call[b].at \in HoldAt \cup LastAt
        PROVE  call[b].p \in Procs \ {p}
    BY <1>5, <1>6, <2>1 DEF ProcInv, CallsOK
  <2>2. ASSUME NEW b \in Agents, b # a, call[b].at \in HoldAt \cup LastAt
        PROVE  process'[call[b].p] = process[call[b].p]
    BY <1>3, <2>1, <2>2
  <2>3. QED BY <1>1, <2>1, <2>2 DEF ProcInv, CallsOK, LastAlone, HoldAt, LastAt, NoCall
<1>9. TasksOK'
  <2>1. ASSUME NEW t \in Tasks, t # a PROVE task'[t] = task[t] /\ call'[t] = call[t]
    BY <1>1, <1>2, <2>1 DEF Agents
  <2>2. a \in Tasks => /\ task[a].state \in {"live", "reaping"} /\ call'[a].at = "user"
                       /\ task'[a] = IF task[a].state = "live" THEN task[a] ELSE NoTask
    BY <1>1, <1>2 DEF ProcInv, TypeOK, TasksOK, TaskRec, NoCall, LastAt
  <2>3. ASSUME NEW t \in Tasks, task[t].state \in {"live", "dead"}
        PROVE  process'[task[t].process] = process[task[t].process]
    BY <1>3, <1>6, <2>3 DEF ProcInv, TasksOK
  <2>4. \A t \in Tasks : call[t].at \in ExecAt => task[t].state = "live"
    BY DEF ProcInv, TypeOK, TaskRec, TasksOK, ExecAt, LastAt
  <2>5. ASSUME NEW t \in Tasks, t = a PROVE
          /\ task'[t].state \in {"live", "dead"} =>
               /\ task'[t].process \in Procs /\ process'[task'[t].process].made
               /\ task'[t].mm = task'[t].process
          /\ task'[t].state \in {"free", "reaping"} => task'[t].process = NoProc
          /\ task'[t].state # "reaping" /\ call'[t].at = "user"
    BY <2>2, <2>3, <2>5 DEF ProcInv, TasksOK, NoTask
  <2>6. QED BY <2>1, <2>3, <2>4, <2>5 DEF ProcInv, TasksOK, ExecAt
<1>10. ContextsOK'
  BY <1>3 DEF ProcInv, ContextsOK, Unmade
<1>11. RefsExact'
  <2>1. ASSUME NEW q \in Procs, q # p PROVE Holders(q)' = Holders(q)
    <3>1. \A b \in Agents : CallHolds(b, q)' <=> CallHolds(b, q)
      BY <1>1, <2>1 DEF CallHolds, NoCall, HoldAt
    <3>2. \A t \in Tasks : TaskHolds(t, q)' <=> TaskHolds(t, q)
      BY <1>2 DEF TaskHolds, NoTask
    <3>3. QED BY <3>1, <3>2, HoldersSame
  <2>2. \A b \in Agents : call[b].at \in {"mm", "images"} /\ call[b].p # p => call'[b] = call[b]
    BY <1>1
  <2>3. ~process'[p].made
    BY <1>3 DEF Unmade
  <2>4. QED BY <1>3, <2>1, <2>2, <2>3 DEF ProcInv, RefsExact
<1>12. QED BY <1>7, <1>8, <1>9, <1>10, <1>11 DEF ProcInv

(***************************************************************************)
(* The actions.                                                            *)
(***************************************************************************)
LEMMA NoCallTyped == NoCall \in CallRec /\ NoCall.at = "user" /\ NoCall.p = NoProc
BY DEF NoCall, CallRec

LEMMA InvStutter == ASSUME ProcInv, UNCHANGED vars PROVE ProcInv'
<1>1. UNCHANGED <<process, mms, image, task, call>>
  BY DEF vars
<1>2. TypeOK' /\ ContextsOK' /\ LastAlone'
  BY <1>1 DEF ProcInv, TypeOK, ContextsOK, LastAlone
<1>3. CallsOK'
  BY <1>1 DEF ProcInv, CallsOK
<1>4. TasksOK'
  BY <1>1 DEF ProcInv, TasksOK
<1>5. RefsExact'
  <2>1. ASSUME NEW q \in Procs PROVE Holders(q)' = Holders(q)
    BY <1>1 DEF Holders
  <2>2. QED BY <1>1, <2>1 DEF ProcInv, RefsExact
<1>6. QED BY <1>2, <1>3, <1>4, <1>5 DEF ProcInv

\* A call that holds nothing returns.
LEMMA ReturnStep ==
  ASSUME ProcInv, NEW a \in Agents, call[a].at \in {"user", "create"}, a \notin Tasks, Return(a),
         UNCHANGED <<process, mms, image, task>>
  PROVE  ProcInv'
<1>1. process \in [Procs -> ProcRec] /\ image \subseteq Bufs
  BY DEF ProcInv, TypeOK
<1>2. \A t \in Tasks : call[t].at \in ExecAt => process[task[t].process].exec_in_progress
  BY DEF ProcInv, TasksOK
<1>3. QED BY <1>1, <1>2, NoCallTyped, QuietStep DEF Return

\* process_create_from_elf() makes a process for a loader or an execve().
LEMMA MadeStep ==
  ASSUME ProcInv, NEW a \in Agents, call[a].at = "create",
         NEW p \in Procs, NEW b \in Bufs, NEW i \in SUBSET Bufs, NEW f, CreateOk(p, b, i, f),
         NEW at \in {"publish", "swap"},
         call' = [call EXCEPT ![a] = [NoCall EXCEPT !.at = at, !.p = p]],
         a \in Kernels => at = "publish",
         task' = task, image' \subseteq Bufs
  PROVE  ProcInv'
<1>1. PICK c : c = [NoCall EXCEPT !.at = at, !.p = p]
  OBVIOUS
<1>2. c \in CallRec /\ c.at = at /\ c.p = p
  BY <1>1 DEF NoCall, CallRec
<1>3. PICK r : r = Created(p, b, i)
  OBVIOUS
<1>4. r \in ProcRec /\ r.made /\ r.ref_count = 1 /\ r.mm = p
  BY <1>3 DEF Created, ProcRec
<1>5. p \in FreeProcs /\ process' = [process EXCEPT ![p] = r] /\ mms' = mms \cup {p}
  BY <1>3 DEF CreateOk
<1>6. a \in Tasks => task[a].state = "live"
  BY DEF ProcInv, TypeOK, TaskRec, TasksOK, LastAt
<1>7. call' = [call EXCEPT ![a] = c]
  BY <1>1
<1>8. QED BY <1>2, <1>4, <1>5, <1>6, <1>7, CreateStep

LEMMA LoaderLoadStep == ASSUME ProcInv, NEW k \in Kernels, LoaderLoad(k) PROVE ProcInv'
<1>1. k \in Agents /\ k \notin Tasks /\ call[k].at = "user" /\ call[k].p = NoProc
  BY ProcessAssumption DEF Agents, LoaderLoad, At, ProcInv, CallsOK
<1>2. CASE \E b \in Bufs, f \in Programs : LoadFileImage(k, b, f)
  <2>1. PICK b \in Bufs, f \in Programs : LoadFileImage(k, b, f)
    BY <1>2
  <2>2. PICK c : c = [call[k] EXCEPT !.at = "create", !.owned = {b}, !.file = f]
    OBVIOUS
  <2>3. c \in CallRec /\ c.at = "create" /\ c.p = NoProc
    BY <1>1, <2>2 DEF ProcInv, TypeOK, CallRec
  <2>4. call' = [call EXCEPT ![k] = c]
    BY <1>1, <2>1, <2>2 DEF LoadFileImage, ProcInv, TypeOK
  <2>5. image' \subseteq Bufs
    BY <2>1 DEF LoadFileImage, ProcInv, TypeOK
  <2>6. UNCHANGED <<process, mms, task>>
    BY DEF LoaderLoad
  <2>7. \A t \in Tasks : call[t].at \in ExecAt => process[task[t].process].exec_in_progress
    BY DEF ProcInv, TasksOK
  <2>8. process \in [Procs -> ProcRec]
    BY DEF ProcInv, TypeOK
  <2>9. QED BY <1>1, <2>3, <2>4, <2>5, <2>6, <2>7, <2>8, QuietStep
<1>3. CASE UNCHANGED <<image, call>>
  <2>1. UNCHANGED vars
    BY <1>3 DEF LoaderLoad, vars
  <2>2. QED BY <2>1, InvStutter
<1>4. QED BY <1>2, <1>3 DEF LoaderLoad

LEMMA LoaderCreateStep == ASSUME ProcInv, NEW k \in Kernels, LoaderCreate(k) PROVE ProcInv'
<1>1. k \in Agents /\ k \notin Tasks /\ call[k].at = "create" /\ task' = task
  BY ProcessAssumption DEF Agents, LoaderCreate, At
<1>2. PICK b \in call[k].owned :
       \/ \E p \in Procs, i \in SUBSET Bufs :
            /\ CreateOk(p, b, i, call[k].file)
            /\ image' = image \cup i
            /\ call' = [call EXCEPT ![k] = [NoCall EXCEPT !.at = "publish", !.p = p]]
       \/ CreateFails(call[k].file) /\ Return(k) /\ UNCHANGED <<process, mms, image>>
  BY DEF LoaderCreate
<1>3. b \in Bufs
  BY <1>1 DEF ProcInv, TypeOK, CallRec
<1>4. ASSUME NEW p \in Procs, NEW i \in SUBSET Bufs, CreateOk(p, b, i, call[k].file),
             image' = image \cup i,
             call' = [call EXCEPT ![k] = [NoCall EXCEPT !.at = "publish", !.p = p]]
      PROVE  ProcInv'
  <2>2. image' \subseteq Bufs
    BY <1>4 DEF ProcInv, TypeOK
  <2>3. QED BY <1>1, <1>3, <1>4, <2>2, MadeStep
<1>5. CASE Return(k) /\ UNCHANGED <<process, mms, image>>
  BY <1>1, <1>5, ReturnStep
<1>6. QED BY <1>2, <1>4, <1>5

LEMMA LoaderPublishStep == ASSUME ProcInv, NEW k \in Kernels, LoaderPublish(k) PROVE ProcInv'
<1>1. k \in Agents /\ call[k].at = "publish" /\ UNCHANGED <<process, mms, image>>
  BY DEF Agents, LoaderPublish, At
<1>2. CASE (\E t \in FreeSlots : TaskCreateUser(t, call[k].p)) /\ Return(k)
  BY <1>1, <1>2, GiveStep
<1>3. CASE Goto(k, "destroy", call[k].p) /\ UNCHANGED task
  BY <1>1, <1>3, GiveUpStep
<1>4. QED BY <1>2, <1>3 DEF LoaderPublish

LEMMA ThreadTaskStep == ASSUME ProcInv, NEW t \in Tasks, ThreadTask(t) PROVE ProcInv'
<1>0. PICK p : p = call[t].p
  OBVIOUS
<1>1. t \in Agents /\ call[t].at = "thread" /\ Return(t) /\ UNCHANGED <<mms, image>>
  BY DEF Agents, ThreadTask, At
<1>2. CASE (\E u \in FreeSlots : TaskCreateUser(u, p)) /\ UNCHANGED process
  BY <1>0, <1>1, <1>2, GiveStep
<1>3. CASE process' = [process EXCEPT ![p].ref_count = @ - 1] /\ UNCHANGED task
  <2>1. task[t].state = "live" /\ task[t].process = p /\ p \in Procs
    BY <1>0, <1>1 DEF ProcInv, TypeOK, TaskRec, TasksOK, LastAt
  <2>2. <<t, "task">> \in Holders(p) /\ <<t, "call">> \in Holders(p)
    BY <1>0, <1>1, <2>1, HoldersMember DEF TaskHolds, CallHolds, HoldAt
  <2>3. process[p].ref_count \in Nat \ {0, 1}
    <3>1. Holders(p) # {<<t, "call">>}
      BY <2>2
    <3>2. QED BY <2>1, <2>2, <3>1, HolderCounts
  <2>4. Destroyed(t)
    BY <1>1, <1>3, <2>1 DEF Destroyed
  <2>5. process[p].ref_count > 1
    BY <2>3
  <2>6. QED BY <1>0, <1>1, <1>3, <2>1, <2>4, <2>5, DropStep
<1>4. QED BY <1>0, <1>2, <1>3 DEF ThreadTask

LEMMA ForkStep == ASSUME ProcInv, NEW t \in Tasks, Fork(t) PROVE ProcInv'
<1>1. t \in Agents /\ t \notin Kernels /\ call[t].at = "user" /\ task[t].state = "live"
  BY ProcessAssumption DEF Agents, Fork, InUser, At
<1>2. PICK p \in FreeProcs, owned \in Leftover :
        /\ process' = [process EXCEPT ![p] =
             [made |-> TRUE, ref_count |-> 1, exec_in_progress |-> FALSE, mm |-> p, owned |-> owned]]
        /\ mms' = mms \cup {p}
        /\ Goto(t, "publish", p)
  BY DEF Fork
<1>3. p \in Procs /\ owned \in SUBSET Bufs
  BY ProcessAssumption DEF FreeProcs
<1>4. PICK r : r = [made |-> TRUE, ref_count |-> 1, exec_in_progress |-> FALSE, mm |-> p,
                    owned |-> owned]
  OBVIOUS
<1>5. r \in ProcRec /\ r.made /\ r.ref_count = 1 /\ r.mm = p
  BY <1>3, <1>4 DEF ProcRec
<1>6. PICK c : c = [call[t] EXCEPT !.at = "publish", !.p = p]
  OBVIOUS
<1>7. c \in CallRec /\ c.at = "publish" /\ c.p = p
  BY <1>1, <1>3, <1>6 DEF ProcInv, TypeOK, CallRec
<1>8. call' = [call EXCEPT ![t] = c]
  BY <1>1, <1>2, <1>6 DEF Goto, ProcInv, TypeOK
<1>9. task' = task /\ image' \subseteq Bufs
  BY DEF Fork, ProcInv, TypeOK
<1>10. QED BY <1>1, <1>2, <1>4, <1>5, <1>7, <1>8, <1>9, CreateStep

LEMMA ForkTaskStep == ASSUME ProcInv, NEW t \in Tasks, ForkTask(t) PROVE ProcInv'
<1>0. PICK p : p = call[t].p
  OBVIOUS
<1>1. t \in Agents /\ call[t].at = "publish" /\ Return(t) /\ UNCHANGED image
  BY DEF Agents, ForkTask, At
<1>2. CASE (\E u \in FreeSlots : TaskCreateUser(u, p)) /\ UNCHANGED <<process, mms>>
  BY <1>0, <1>1, <1>2, GiveStep
<1>3. CASE mms' = mms \ {p} /\ process' = [process EXCEPT ![p] = Unmade] /\ UNCHANGED task
  <2>1. task[t].state = "live" /\ p \in Procs
    BY <1>0, <1>1 DEF ProcInv, TypeOK, TaskRec, TasksOK, CallsOK, HoldAt, LastAt
  <2>2. Destroyed(t)
    BY <1>1, <1>3, <2>1 DEF Destroyed
  <2>3. image' \subseteq Bufs
    BY <1>1 DEF ProcInv, TypeOK
  <2>4. QED BY <1>0, <1>1, <1>3, <2>1, <2>2, <2>3, FreeStep
<1>4. QED BY <1>0, <1>2, <1>3 DEF ForkTask

LEMMA DestroyStep == ASSUME ProcInv, NEW a \in Agents, Destroy(a) PROVE ProcInv'
<1>0. PICK p : p = call[a].p
  OBVIOUS
<1>1. call[a].at = "destroy" /\ UNCHANGED <<mms, image>> /\ p \in Procs
  BY <1>0 DEF Destroy, At, ProcInv, CallsOK, HoldAt
<1>2. process[p].ref_count # 0
  <2>1. <<a, "call">> \in Holders(p)
    BY <1>0, <1>1, HoldersMember DEF CallHolds, HoldAt
  <2>2. QED BY <1>1, <2>1, HolderCounts
<1>3. CASE /\ process[p].ref_count = 1
           /\ call' = [call EXCEPT ![a].at = "mm", ![a].mm = process[p].mm,
                                   ![a].owned = process[p].owned]
           /\ process' = [process EXCEPT ![p].ref_count = 0, ![p].mm = NoProc, ![p].owned = {}]
           /\ UNCHANGED task
  BY <1>0, <1>1, <1>3, DestroyLastStep
<1>4. CASE /\ process[p].ref_count > 1
           /\ process' = [process EXCEPT ![p].ref_count = @ - 1]
           /\ Destroyed(a)
  BY <1>0, <1>1, <1>4, DropStep
<1>5. QED BY <1>0, <1>2, <1>3, <1>4 DEF Destroy

LEMMA DestroyImagesStep == ASSUME ProcInv, NEW a \in Agents, DestroyImages(a) PROVE ProcInv'
<1>0. PICK p : p = call[a].p
  OBVIOUS
<1>1. call[a].at = "images" /\ p \in Procs /\ p \notin mms
  BY <1>0 DEF DestroyImages, At, ProcInv, CallsOK, LastAt
<1>2. mms' = mms \ {p}
  BY <1>1 DEF DestroyImages
<1>3. image' \subseteq Bufs
  BY DEF DestroyImages, ProcInv, TypeOK
<1>4. process' = [process EXCEPT ![p] = Unmade] /\ Destroyed(a)
  BY <1>0 DEF DestroyImages
<1>5. QED BY <1>0, <1>1, <1>2, <1>3, <1>4, FreeStep

\* What exec_in_progress becomes.
LEMMA SetExecIs ==
  ASSUME ProcInv, NEW p \in Procs, NEW b \in BOOLEAN, process' = SetExec(p, b)
  PROVE  /\ process' \in [Procs -> ProcRec]
         /\ \A q \in Procs : /\ process'[q].made = process[q].made
                             /\ process'[q].ref_count = process[q].ref_count
                             /\ process'[q].mm = process[q].mm
                             /\ q # p => process'[q] = process[q]
         /\ process'[p].exec_in_progress = b
BY DEF SetExec, ProcInv, TypeOK, ProcRec

LEMMA ExecLive ==
  ASSUME ProcInv, NEW u \in Tasks, call[u].at \in ExecAt
  PROVE  /\ task[u].state = "live" /\ task[u].process \in Procs
         /\ process[task[u].process].exec_in_progress
<1>1. task[u].state = "live"
  BY DEF ProcInv, TypeOK, TaskRec, TasksOK, ExecAt, LastAt
<1>2. QED BY <1>1 DEF ProcInv, TasksOK

LEMMA ExecBeginStep == ASSUME ProcInv, NEW t \in Tasks, ExecBegin(t) PROVE ProcInv'
<1>0. PICK p : p = task[t].process
  OBVIOUS
<1>1. /\ t \in Agents /\ t \notin Kernels /\ call[t].at = "user" /\ task[t].state = "live"
      /\ p \in Procs /\ process[p].ref_count = 1 /\ UNCHANGED <<mms, image, task>>
  BY <1>0, ProcessAssumption DEF Agents, ExecBegin, InUser, At, ProcInv, TasksOK
<1>2. process' = SetExec(p, TRUE) /\ Goto(t, "load", p)
  BY <1>0 DEF ExecBegin
<1>3. PICK c : c = [call[t] EXCEPT !.at = "load", !.p = p]
  OBVIOUS
<1>4. c \in CallRec /\ c.at = "load" /\ c.p = p
  BY <1>1, <1>3 DEF ProcInv, TypeOK, CallRec
<1>5. call' = [call EXCEPT ![t] = c]
  BY <1>1, <1>2, <1>3 DEF Goto, ProcInv, TypeOK
<1>6. /\ process' \in [Procs -> ProcRec]
      /\ \A q \in Procs : /\ process'[q].made = process[q].made
                          /\ process'[q].ref_count = process[q].ref_count
                          /\ process'[q].mm = process[q].mm
                          /\ q # p => process'[q] = process[q]
      /\ process'[p].exec_in_progress
  BY <1>1, <1>2, SetExecIs
<1>7. ASSUME NEW u \in Tasks, call[u].at \in ExecAt
      PROVE  process'[task[u].process].exec_in_progress
  <2>1. task[u].process \in Procs /\ process[task[u].process].exec_in_progress
    BY <1>7, ExecLive
  <2>2. QED BY <1>6, <2>1
<1>8. image' \subseteq Bufs
  BY <1>1 DEF ProcInv, TypeOK
<1>9. QED BY <1>0, <1>1, <1>4, <1>5, <1>6, <1>7, <1>8, QuietStep

\* execve() gives up before it has made a process.
LEMMA ExecUndoStep ==
  ASSUME ProcInv, NEW t \in Tasks, call[t].at \in {"load", "create"},
         process' = SetExec(task[t].process, FALSE), Return(t),
         UNCHANGED <<mms, task>>, image' \subseteq Bufs
  PROVE  ProcInv'
<1>0. PICK p : p = task[t].process
  OBVIOUS
<1>1. /\ t \in Agents /\ t \notin Kernels /\ call[t].at \in ExecAt
  BY ProcessAssumption DEF Agents, ExecAt
<1>2. p \in Procs /\ Holders(p) = {<<t, "task">>}
  BY <1>0, <1>1, ExecHolder
<1>3. /\ process' \in [Procs -> ProcRec]
      /\ \A q \in Procs : /\ process'[q].made = process[q].made
                          /\ process'[q].ref_count = process[q].ref_count
                          /\ process'[q].mm = process[q].mm
                          /\ q # p => process'[q] = process[q]
  BY <1>0, <1>2, SetExecIs
<1>4. ASSUME NEW u \in Tasks, u # t, call[u].at \in ExecAt
      PROVE  process'[task[u].process].exec_in_progress
  <2>1. /\ task[u].state = "live" /\ task[u].process \in Procs
        /\ process[task[u].process].exec_in_progress
    BY <1>4, ExecLive
  <2>2. task[u].process # p
    <3>1. <<u, "task">> \notin Holders(p)
      BY <1>2, <1>4
    <3>2. QED BY <2>1, <3>1, HoldersMember DEF TaskHolds
  <2>3. QED BY <1>3, <2>1, <2>2
<1>5. call' = [call EXCEPT ![t] = NoCall]
  BY DEF Return
<1>6. QED BY <1>1, <1>3, <1>4, <1>5, NoCallTyped, QuietStep

LEMMA ExecLoadStep == ASSUME ProcInv, NEW t \in Tasks, ExecLoad(t) PROVE ProcInv'
<1>1. t \in Agents /\ t \notin Kernels /\ call[t].at = "load"
  BY ProcessAssumption DEF Agents, ExecLoad, At
<1>2. CASE (\E b \in Bufs, f \in Programs : LoadFileImage(t, b, f)) /\ UNCHANGED <<process, mms, task>>
  <2>1. PICK b \in Bufs, f \in Programs : LoadFileImage(t, b, f)
    BY <1>2
  <2>2. PICK c : c = [call[t] EXCEPT !.at = "create", !.owned = {b}, !.file = f]
    OBVIOUS
  <2>3. c \in CallRec /\ c.at = "create" /\ c.p = call[t].p
    BY <1>1, <2>2 DEF ProcInv, TypeOK, CallRec
  <2>4. call' = [call EXCEPT ![t] = c]
    BY <1>1, <2>1, <2>2 DEF LoadFileImage, ProcInv, TypeOK
  <2>5. image' \subseteq Bufs
    BY <2>1 DEF LoadFileImage, ProcInv, TypeOK
  <2>6. UNCHANGED <<process, mms, task>>
    BY <1>2
  <2>7. \A u \in Tasks : call[u].at \in ExecAt => process[task[u].process].exec_in_progress
    BY ExecLive
  <2>8. process \in [Procs -> ProcRec]
    BY DEF ProcInv, TypeOK
  <2>9. /\ task[t].state = "live" /\ c.p = task[t].process
        /\ process[c.p].ref_count = 1 /\ process[c.p].exec_in_progress
    <3>1. call[t].at \in ExecAt
      BY <1>1 DEF ExecAt
    <3>2. task[t].state = "live"
      BY <3>1, ExecLive
    <3>3. QED BY <1>1, <2>3, <3>1, <3>2 DEF ProcInv, TasksOK
  <2>10. QED BY <1>1, <2>3, <2>4, <2>5, <2>6, <2>7, <2>8, <2>9, QuietStep
<1>3. CASE ExecUndo(t)
  <2>1. /\ process' = SetExec(task[t].process, FALSE) /\ Return(t)
        /\ UNCHANGED <<mms, task>> /\ image' \subseteq Bufs
    BY <1>3 DEF ExecUndo, ProcInv, TypeOK
  <2>2. QED BY <1>1, <2>1, ExecUndoStep
<1>4. QED BY <1>2, <1>3 DEF ExecLoad

LEMMA ExecCreateStep == ASSUME ProcInv, NEW t \in Tasks, ExecCreate(t) PROVE ProcInv'
<1>1. t \in Agents /\ t \notin Kernels /\ call[t].at = "create" /\ task' = task
  BY ProcessAssumption DEF Agents, ExecCreate, At
<1>2. PICK b \in call[t].owned :
       \/ \E p \in Procs, i \in SUBSET Bufs :
            /\ CreateOk(p, b, i, call[t].file)
            /\ image' = (image \ {b}) \cup i
            /\ call' = [call EXCEPT ![t] = [NoCall EXCEPT !.at = "swap", !.p = p]]
       \/ /\ CreateFails(call[t].file)
          /\ image' = image \ {b}
          /\ process' = SetExec(task[t].process, FALSE)
          /\ Return(t)
          /\ UNCHANGED mms
  BY DEF ExecCreate
<1>3. b \in Bufs
  BY <1>1 DEF ProcInv, TypeOK, CallRec
<1>4. ASSUME NEW p \in Procs, NEW i \in SUBSET Bufs, CreateOk(p, b, i, call[t].file),
             image' = (image \ {b}) \cup i,
             call' = [call EXCEPT ![t] = [NoCall EXCEPT !.at = "swap", !.p = p]]
      PROVE  ProcInv'
  <2>1. image' \subseteq Bufs
    BY <1>4 DEF ProcInv, TypeOK
  <2>2. QED BY <1>1, <1>3, <1>4, <2>1, MadeStep
<1>5. CASE /\ image' = image \ {b} /\ process' = SetExec(task[t].process, FALSE)
           /\ Return(t) /\ UNCHANGED mms
  <2>1. image' \subseteq Bufs
    BY <1>5 DEF ProcInv, TypeOK
  <2>2. QED BY <1>1, <1>5, <2>1, ExecUndoStep
<1>6. QED BY <1>2, <1>4, <1>5

LEMMA InvStep == ProcInv /\ [Next]_vars => ProcInv'
<1> SUFFICES ASSUME ProcInv, [Next]_vars PROVE ProcInv'
  OBVIOUS
<1>1. ASSUME NEW k \in Kernels, LoaderLoad(k) \/ LoaderCreate(k) \/ LoaderPublish(k)
      PROVE  ProcInv'
  BY <1>1, LoaderLoadStep, LoaderCreateStep, LoaderPublishStep
<1>2. ASSUME NEW t \in Tasks, ThreadBegin(t) \/ ThreadTask(t) \/ Fork(t) \/ ForkTask(t)
      PROVE  ProcInv'
  BY <1>2, ThreadBeginStep, ThreadTaskStep, ForkStep, ForkTaskStep
<1>3. ASSUME NEW t \in Tasks, ExecBegin(t) \/ ExecLoad(t) \/ ExecCreate(t) \/ ExecSwap(t)
      PROVE  ProcInv'
  BY <1>3, ExecBeginStep, ExecLoadStep, ExecCreateStep, ExecSwapStep
<1>4. ASSUME NEW t \in Tasks, Die(t) \/ Reap(t) PROVE ProcInv'
  BY <1>4, DieStep, ReapStep
<1>5. ASSUME NEW a \in Agents, Destroy(a) \/ DestroyMm(a) \/ DestroyImages(a) PROVE ProcInv'
  BY <1>5, DestroyStep, DestroyMmStep, DestroyImagesStep
<1>6. CASE UNCHANGED vars
  BY <1>6, InvStutter
<1>7. QED BY <1>1, <1>2, <1>3, <1>4, <1>5, <1>6 DEF Next

LEMMA InvAlways == Spec => []ProcInv
BY InvInit, InvStep, PTL DEF Spec

(***************************************************************************)
(* The theorems.                                                           *)
(***************************************************************************)
\* ref_count is exact in every reachable state, for any number of tasks, loaders and
\* processes: clone() and its failure, fork(), execve(), exits and the reaper in
\* process.c give back what they take, each once.
THEOREM ProcessRefs == Spec => []RefsExact
<1>1. ProcInv => RefsExact
  BY DEF ProcInv
<1>2. QED BY <1>1, InvAlways, PTL

\* The process and the address space of a task outlive it: process_destroy() frees them
\* only after the last task has been reaped.
THEOREM ProcessMemory == Spec => []MemoryLive
BY InvMemoryLive, InvAlways, PTL

\* A task in process_execve() is alone in its process from the check of ref_count to the
\* swap, although the lock is not held in between.
THEOREM ProcessExec == Spec => []ExecAlone
BY InvExecAlone, InvAlways, PTL

\* When the tasks are gone and the calls have returned, every process and every address
\* space has been given back.
THEOREM ProcessFreed == Spec => []NothingLeft
BY InvNothingLeft, InvAlways, PTL
=============================================================================
