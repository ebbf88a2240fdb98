------------------------------- MODULE Process -------------------------------
(***************************************************************************)
(* The life of a process in src/src/kernel/process.c and loader.c: the     *)
(* reference count its threads share, clone, fork and execve, the image    *)
(* buffers its regions load from, and its destruction by the reaper.  A    *)
(* section under process->lock is one step, and so is a stretch of code on *)
(* objects that nobody else can reach.  System calls run with interrupts   *)
(* masked, so a task dies only in user mode.                               *)
(***************************************************************************)
EXTENDS Naturals, FiniteSets

CONSTANTS
  Tasks,     \* the slots of the task table that user tasks may take
  Kernels,   \* kernel tasks that start programs: the shell, the boot code
  Procs,     \* the memory for struct process and the mm_context made with it
  NoProc,
  Bufs,      \* heap memory for image files
  Programs,  \* the files, [main, interp]
  Leftover,  \* what recycled heap memory may leave in owned_images
  Ops        \* the calls of this workload: "thread", "fork", "exec", "die"

ASSUME ProcessAssumption ==
  /\ NoProc \notin Procs /\ Tasks \cap Kernels = {}
  /\ IsFiniteSet(Tasks) /\ IsFiniteSet(Kernels) /\ Leftover \subseteq SUBSET Bufs
  /\ \A f \in Programs : /\ f.main \in {"elf", "bad"}
                         /\ f.interp \in {"none", "ok", "bad"}

Agents == Tasks \cup Kernels
NoFile == [main |-> "none", interp |-> "none"]

VARIABLES
  process,  \* struct process
  mms,      \* the contexts that exist, each named after the process it was made with
  image,    \* the heap buffers that hold image files
  task,     \* the task table
  call      \* where each task, kernel task or reaper is in the process layer

vars == <<process, mms, image, task, call>>

ProcRec == [made : BOOLEAN, ref_count : Nat, exec_in_progress : BOOLEAN,
            mm : Procs \cup {NoProc}, owned : SUBSET Bufs]
Unmade == [made |-> FALSE, ref_count |-> 0, exec_in_progress |-> FALSE, mm |-> NoProc,
           owned |-> {}]

TaskRec == [state : {"free", "live", "dead", "reaping"}, process : Procs \cup {NoProc},
            mm : Procs \cup {NoProc}]
NoTask == [state |-> "free", process |-> NoProc, mm |-> NoProc]

CallRec == [at : {"user", "create", "publish", "thread", "load", "swap", "destroy", "mm", "images"},
            p : Procs \cup {NoProc}, mm : Procs \cup {NoProc}, owned : SUBSET Bufs,
            file : Programs \cup {NoFile}]
NoCall == [at |-> "user", p |-> NoProc, mm |-> NoProc, owned |-> {}, file |-> NoFile]

Init ==
  /\ process = [p \in Procs |-> Unmade]
  /\ mms = {}
  /\ image = {}
  /\ task = [t \in Tasks |-> NoTask]
  /\ call = [a \in Agents |-> NoCall]

At(a, at) == call[a].at = at
Goto(a, at, p) == call' = [call EXCEPT ![a].at = at, ![a].p = p]
Return(a) == call' = [call EXCEPT ![a] = NoCall]
InUser(t) == task[t].state = "live" /\ At(t, "user")

-----------------------------------------------------------------------------
(* Memory                                                                  *)

FreeBufs == Bufs \ image
FreeProcs == {p \in Procs : ~process[p].made /\ p \notin mms}
FreeSlots == {t \in Tasks : task[t].state = "free"}

\* process_load_file_image(), and the same in loader.c: a buffer of the file's size.
LoadFileImage(a, b, f) ==
  /\ b \in FreeBufs
  /\ image' = image \cup {b}
  /\ call' = [call EXCEPT ![a].at = "create", ![a].owned = {b}, ![a].file = f]

-----------------------------------------------------------------------------
(* Creation                                                                *)

\* process_create_from_elf(), when it succeeds: the main object is in the buffer of the
\* caller, the interpreter in one of its own, and the process owns both.
Created(p, b, i) ==
  [made |-> TRUE, ref_count |-> 1, exec_in_progress |-> FALSE, mm |-> p, owned |-> {b} \cup i]

\* The buffers the interpreter may take: one, or none when the program has none.
InterpBufs(f) == IF f.interp = "none" THEN {{}} ELSE {{i} : i \in FreeBufs}

CreateOk(p, b, i, f) ==
  /\ f.main = "elf" /\ f.interp # "bad"
  /\ p \in FreeProcs /\ i \in InterpBufs(f)
  /\ process' = [process EXCEPT ![p] = Created(p, b, i)]
  /\ mms' = mms \cup {p}

\* It fails on a bad file and when there is no memory, and has then given back the
\* process, the context and the interpreter's buffer, but not the caller's.
CreateFails(f) ==
  f.main = "bad" \/ f.interp = "bad" \/ FreeProcs = {} \/ InterpBufs(f) = {}

\* loader_load_process_image()
LoaderLoad(k) ==
  /\ At(k, "user")
  /\ \/ \E b \in Bufs, f \in Programs : LoadFileImage(k, b, f)
     \/ FreeBufs = {} /\ UNCHANGED <<image, call>>
  /\ UNCHANGED <<process, mms, task>>

LoaderCreate(k) ==
  /\ At(k, "create")
  /\ LET f == call[k].file IN
     \E b \in call[k].owned :
       \/ \E p \in Procs, i \in SUBSET Bufs :
            /\ CreateOk(p, b, i, f)
            /\ image' = image \cup i
            /\ call' = [call EXCEPT ![k] = [NoCall EXCEPT !.at = "publish", !.p = p]]
       \/ CreateFails(f) /\ Return(k) /\ UNCHANGED <<process, mms, image>>
  /\ UNCHANGED task

-----------------------------------------------------------------------------
(* Tasks                                                                   *)

\* task_create_user(): t takes the process and its context.
TaskCreateUser(t, p) ==
  /\ process[p].mm # NoProc
  /\ task' = [task EXCEPT ![t] = [state |-> "live", process |-> p, mm |-> process[p].mm]]

\* The shell or the boot code makes the first task, or destroys the process.
LoaderPublish(k) ==
  /\ At(k, "publish")
  /\ LET p == call[k].p IN
     \/ /\ \E t \in FreeSlots : TaskCreateUser(t, p)
        /\ Return(k)
     \/ FreeSlots = {} /\ Goto(k, "destroy", p) /\ UNCHANGED task
  /\ UNCHANGED <<process, mms, image>>

\* process_clone() with CLONE_THREAD, and process_thread_create(): the reference first,
\* unless the process is in execve(),
ThreadBegin(t) ==
  /\ "thread" \in Ops /\ InUser(t)
  /\ LET p == task[t].process IN
     /\ process[p].ref_count # 0 /\ ~process[p].exec_in_progress
     /\ process' = [process EXCEPT ![p].ref_count = @ + 1]
     /\ Goto(t, "thread", p)
  /\ UNCHANGED <<mms, image, task>>

\* and then the task, or the reference back.
ThreadTask(t) ==
  /\ At(t, "thread")
  /\ LET p == call[t].p IN
     \/ /\ \E u \in FreeSlots : TaskCreateUser(u, p)
        /\ UNCHANGED process
     \/ /\ FreeSlots = {}
        /\ process' = [process EXCEPT ![p].ref_count = @ - 1]
        /\ UNCHANGED task
  /\ Return(t)
  /\ UNCHANGED <<mms, image>>

\* process_clone() without CLONE_THREAD: the child's structure is filled under the
\* parent's lock, and nothing sets what it owns.
Fork(t) ==
  /\ "fork" \in Ops /\ InUser(t)
  /\ \E p \in FreeProcs, owned \in Leftover :
       /\ process' = [process EXCEPT ![p] =
            [made |-> TRUE, ref_count |-> 1, exec_in_progress |-> FALSE, mm |-> p, owned |-> owned]]
       /\ mms' = mms \cup {p}
       /\ Goto(t, "publish", p)
  /\ UNCHANGED <<image, task>>

\* Mutant: the context of the refused child is left behind.
ForkTaskLeaks(t) ==
  /\ At(t, "publish")
  /\ LET p == call[t].p IN
     \/ \E u \in FreeSlots : TaskCreateUser(u, p) /\ UNCHANGED process
     \/ FreeSlots = {} /\ process' = [process EXCEPT ![p] = Unmade] /\ UNCHANGED task
  /\ Return(t)
  /\ UNCHANGED <<mms, image>>

ForkTask(t) ==
  /\ At(t, "publish")
  /\ LET p == call[t].p IN
     \/ /\ \E u \in FreeSlots : TaskCreateUser(u, p)
        /\ UNCHANGED <<process, mms>>
     \/ /\ FreeSlots = {}
        /\ mms' = mms \ {p}
        /\ process' = [process EXCEPT ![p] = Unmade]
        /\ UNCHANGED task
  /\ Return(t)
  /\ UNCHANGED image
-----------------------------------------------------------------------------
(* execve                                                                  *)

SetExec(p, b) == [process EXCEPT ![p].exec_in_progress = b]

\* Mutant: threads of the process are not looked for.
ExecBeginShared(t) ==
  /\ "exec" \in Ops /\ InUser(t)
  /\ LET p == task[t].process IN
     /\ ~process[p].exec_in_progress
     /\ process' = SetExec(p, TRUE)
     /\ Goto(t, "load", p)
  /\ UNCHANGED <<mms, image, task>>

ExecBegin(t) ==
  /\ "exec" \in Ops /\ InUser(t)
  /\ LET p == task[t].process IN
     /\ process[p].ref_count = 1 /\ ~process[p].exec_in_progress
     /\ process' = SetExec(p, TRUE)
     /\ Goto(t, "load", p)
  /\ UNCHANGED <<mms, image, task>>

\* The file name cannot be read, the file is not there, or there is no memory for it.
ExecUndo(t) ==
  /\ process' = SetExec(task[t].process, FALSE)
  /\ Return(t)
  /\ UNCHANGED <<mms, image, task>>

ExecLoad(t) ==
  /\ At(t, "load")
  /\ \/ /\ \E b \in Bufs, f \in Programs : LoadFileImage(t, b, f)
        /\ UNCHANGED <<process, mms, task>>
     \/ ExecUndo(t)

\* The new process, and the image freed whether there is one or not.
ExecCreate(t) ==
  /\ At(t, "create")
  /\ LET f == call[t].file IN
     \E b \in call[t].owned :
       \/ \E p \in Procs, i \in SUBSET Bufs :
            /\ CreateOk(p, b, i, f)
            /\ image' = (image \ {b}) \cup i
            /\ call' = [call EXCEPT ![t] = [NoCall EXCEPT !.at = "swap", !.p = p]]
       \/ /\ CreateFails(f)
          /\ image' = image \ {b}
          /\ process' = SetExec(task[t].process, FALSE)
          /\ Return(t)
          /\ UNCHANGED mms
  /\ UNCHANGED task

\* Mutant: the task stays in its old context.
ExecSwapKeepsMm(t) ==
  /\ At(t, "swap")
  /\ task' = [task EXCEPT ![t].process = call[t].p]
  /\ Goto(t, "destroy", task[t].process)
  /\ UNCHANGED <<process, mms, image>>

\* The task moves to the new process and its context, and drops the old one.
ExecSwap(t) ==
  /\ At(t, "swap")
  /\ task' = [task EXCEPT ![t].process = call[t].p, ![t].mm = process[call[t].p].mm]
  /\ process' = [process EXCEPT ![task[t].process].mm = task[t].mm]
  /\ Goto(t, "destroy", task[t].process)
  /\ UNCHANGED <<mms, image>>

-----------------------------------------------------------------------------
(* Destruction                                                             *)

\* A task exits or is killed.
Die(t) ==
  /\ "die" \in Ops /\ InUser(t)
  /\ task' = [task EXCEPT ![t].state = "dead"]
  /\ UNCHANGED <<process, mms, image, call>>

\* sched_reap_dead() detaches the process from a dead task,
Reap(t) ==
  /\ task[t].state = "dead"
  /\ task' = [task EXCEPT ![t] = [state |-> "reaping", process |-> NoProc, mm |-> NoProc]]
  /\ Goto(t, "destroy", task[t].process)
  /\ UNCHANGED <<process, mms, image>>

\* and the slot is free once process_destroy() has returned.
Destroyed(a) ==
  /\ Return(a)
  /\ task' = IF a \in Tasks /\ task[a].state = "reaping"
             THEN [task EXCEPT ![a] = NoTask] ELSE task

\* Mutant: every caller destroys.
DestroyUncounted(a) ==
  /\ At(a, "destroy")
  /\ LET p == call[a].p IN
     /\ call' = [call EXCEPT ![a].at = "mm", ![a].mm = process[p].mm, ![a].owned = process[p].owned]
     /\ process' = [process EXCEPT ![p].ref_count = 0, ![p].mm = NoProc, ![p].owned = {}]
     /\ UNCHANGED task
  /\ UNCHANGED <<mms, image>>

\* process_destroy(): all but the last caller only drop a reference,
Destroy(a) ==
  /\ At(a, "destroy")
  /\ LET p == call[a].p IN
     \/ /\ process[p].ref_count = 1
        /\ call' = [call EXCEPT ![a].at = "mm", ![a].mm = process[p].mm,
                                ![a].owned = process[p].owned]
        /\ process' = [process EXCEPT ![p].ref_count = 0, ![p].mm = NoProc, ![p].owned = {}]
        /\ UNCHANGED task
     \/ /\ process[p].ref_count > 1
        /\ process' = [process EXCEPT ![p].ref_count = @ - 1]
        /\ Destroyed(a)
     \/ process[p].ref_count = 0 /\ Destroyed(a) /\ UNCHANGED process
  /\ UNCHANGED <<mms, image>>

\* the last one destroys the context,
DestroyMm(a) ==
  /\ At(a, "mm")
  /\ mms' = mms \ {call[a].mm}
  /\ Goto(a, "images", call[a].p)
  /\ UNCHANGED <<process, image, task>>

\* and frees the images and the structure.
DestroyImages(a) ==
  /\ At(a, "images")
  /\ image' = image \ call[a].owned
  /\ process' = [process EXCEPT ![call[a].p] = Unmade]
  /\ Destroyed(a)
  /\ UNCHANGED mms

-----------------------------------------------------------------------------
(* The specification                                                       *)

Next ==
  \/ \E k \in Kernels : LoaderLoad(k) \/ LoaderCreate(k) \/ LoaderPublish(k)
  \/ \E t \in Tasks : \/ ThreadBegin(t) \/ ThreadTask(t) \/ Fork(t) \/ ForkTask(t)
                      \/ ExecBegin(t) \/ ExecLoad(t) \/ ExecCreate(t) \/ ExecSwap(t)
                      \/ Die(t) \/ Reap(t)
  \/ \E a \in Agents : Destroy(a) \/ DestroyMm(a) \/ DestroyImages(a)

Spec == Init /\ [][Next]_vars

-----------------------------------------------------------------------------
(* Properties                                                              *)

\* The process layer's data is well formed.
TypeOK ==
  /\ process \in [Procs -> ProcRec]
  /\ mms \subseteq Procs
  /\ image \subseteq Bufs
  /\ task \in [Tasks -> TaskRec]
  /\ call \in [Agents -> CallRec]

\* Those who will call process_destroy() for a reference of p: tasks that have it, calls
\* that have made it or are about to give it to a thread, and calls of process_destroy().
Holders(p) ==
  {<<t, "task">> : t \in {t \in Tasks : task[t].state \in {"live", "dead"} /\ task[t].process = p}}
  \cup {<<a, "call">> : a \in {a \in Agents : /\ call[a].p = p
                                              /\ call[a].at \in {"publish", "thread", "swap", "destroy"}}}

\* ref_count is the number of those who hold the process: threads created and refused,
\* tasks killed and reaped, execve() and failures all give back what they took, and a
\* structure without holders is on its way to be freed.
RefsExact ==
  \A p \in Procs : process[p].made =>
    /\ process[p].ref_count = Cardinality(Holders(p))
    /\ process[p].ref_count = 0 => \E a \in Agents : call[a].p = p /\ call[a].at \in {"mm", "images"}

\* The process and the address space of a task exist as long as the task does, and the
\* two belong together, as mmu_handle_page_fault() and the context switch need: threads,
\* execve() and the reaping of siblings never pull them away.
MemoryLive ==
  \A t \in Tasks : task[t].state \in {"live", "dead"} =>
    /\ process[task[t].process].made
    /\ task[t].mm \in mms
    /\ task[t].mm = process[task[t].process].mm

\* While a task is in execve() nobody else runs in, enters or is about to enter its
\* process, whatever clone() and exits happen on other CPUs.
ExecAlone ==
  \A t \in Tasks : task[t].state = "live" /\ call[t].at \in {"load", "create", "swap"} =>
    /\ process[task[t].process].exec_in_progress
    /\ \A u \in Tasks \ {t} : task[u].process # task[t].process /\ call[u].p # task[t].process

\* When every task is gone and no call is in progress, all processes and address spaces
\* have been given back.
NothingLeft ==
  (\A t \in Tasks : task[t].state = "free") /\ (\A a \in Agents : At(a, "user"))
    => mms = {} /\ \A p \in Procs : ~process[p].made

=============================================================================
