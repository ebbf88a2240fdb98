------------------------------ MODULE AddrSpace ------------------------------
(***************************************************************************)
(* The user side of src/src/kernel/mmu_vmsa.c: page tables, the ownership  *)
(* list of a context, lazy faults, copy-on-write, fork, munmap, and copies *)
(* between kernel and user, for contexts that several CPUs run.  Each      *)
(* section with mm->lock held is one step, and so is a hardware access; an *)
(* exception is taken in one step and handled in a later one.  The levels  *)
(* above the L3 tables are one table, Upper; table pages are counted and   *)
(* have no names.  Where a page belongs to and what it holds at first is   *)
(* given by Region: the vm_regions, the heap below brk and the stack.      *)
(***************************************************************************)
EXTENDS Integers, FiniteSets, FiniteSetsExt, Sequences

CONSTANTS
  Mms,         \* contexts; each belongs to one process
  NoMm,
  Cpus,
  Vas,         \* virtual pages, numbered
  PerTable,    \* entries of an L3 table
  Frames,      \* the pages user data can be in, numbered
  NumPages,    \* what page_alloc() can give out: data pages and table pages
  MaxTracked,  \* MM_MAX_TRACKED_PAGES
  Vals,        \* what programs store
  MaxForks,    \* bound on the clones
  Region,      \* page -> [w |-> writable, init |-> first contents], or no region
  NoRegion,
  Copied,      \* the pages that a copying system call spans
  Ops          \* "copy", "munmap": the system calls of this workload

\* What a data page can hold.
Contents == Vals \cup {0} \cup {Region[va].init : va \in {x \in Vas : Region[x] # NoRegion}}

\* Any page that page_alloc() has can be a data page, and the first page of an L3 table is
\* one of Vas if another is.
ASSUME ConstantsOK ==
  /\ IsFiniteSet(Mms) /\ NoMm \notin Mms
  /\ IsFiniteSet(Vas) /\ Vas \subseteq Nat /\ Vas # {} /\ PerTable \in Nat \ {0}
  /\ \A va \in Vas : PerTable * (va \div PerTable) \in Vas
  /\ IsFiniteSet(Frames) /\ Frames \subseteq Nat \ {0}
  /\ NumPages \in Nat /\ NumPages <= Cardinality(Frames) /\ MaxTracked \in Nat
  /\ \A va \in Vas : Region[va] # NoRegion => Region[va].w \in BOOLEAN
  /\ NoRegion \notin Contents
  /\ Copied \in Seq(Vas) /\ Copied # <<>>

VARIABLES
  live,   \* the contexts that exist
  pt,     \* L3 descriptors
  tables, \* the tables of a context
  pages,  \* mm->pages: the data pages it owns
  ref,    \* page_alloc.c's ref_count of the data pages; 0 is free
  mem,    \* contents of the data pages; page_alloc() hands them out zeroed
  tlb,    \* the translations each CPU holds
  run,    \* the context each CPU runs a thread of
  pc,     \* what each CPU's thread is in
  forks

vars == <<live, pt, tables, pages, ref, mem, tlb, run, pc, forks>>
spaceVars == <<pt, tables, pages, ref, mem>>

NoEntry == [f |-> 0, w |-> FALSE, cow |-> FALSE]
Entry(f, w) == [f |-> f, w |-> w, cow |-> FALSE]
NoTlb == [va \in Vas |-> NoEntry]
User == [at |-> "user", va |-> 0, vas |-> <<>>, v |-> 0, w |-> FALSE, perm |-> FALSE]

\* The tables of a context, numbered in the order of a walk.
Root == 0
Upper == 1
L3(va) == 2 + (va \div PerTable)
TableIds == {Root, Upper} \cup {L3(va) : va \in Vas}
Path(va) == {Upper, L3(va)}

Init ==
  /\ live = {}
  /\ pt = [m \in Mms |-> NoTlb]
  /\ tables = [m \in Mms |-> {}]
  /\ pages = [m \in Mms |-> {}]
  /\ ref = [f \in Frames |-> 0]
  /\ mem = [f \in Frames |-> 0]
  /\ tlb = [c \in Cpus |-> NoTlb]
  /\ run = [c \in Cpus |-> NoMm]
  /\ pc = [c \in Cpus |-> User]
  /\ forks = 0

-----------------------------------------------------------------------------
(* Pages and ownership                                                     *)

\* The table pages of all contexts, and what page_alloc() has left.
TablePages == {p \in Mms \X TableIds : p[2] \in tables[p[1]]}
FreePages == NumPages - Cardinality({f \in Frames : ref[f] > 0}) - Cardinality(TablePages)
FreeFrame == Min({f \in Frames : ref[f] = 0})

\* The room mmu_context_add_page_locked() finds in the ownership list.
Room(m) == MaxTracked - Cardinality(pages[m]) - Cardinality(tables[m])

\* mmu_context_create(): the root page is the first one owned.
MmuContextCreate(m) ==
  /\ m \notin live /\ FreePages > 0
  /\ live' = live \cup {m}
  /\ tables' = [tables EXCEPT ![m] = {Root}]
  /\ UNCHANGED <<pt, pages, ref, mem, tlb, run, pc, forks>>

\* The contents once the pages in F that have one reference lose it.
Scrubbed(F) == [f \in Frames |-> IF f \in F /\ ref[f] = 1 THEN 0 ELSE mem[f]]

\* mmu_context_release(), when no CPU runs the context: page_free() drops one reference
\* of every page in the list.
MmuContextRelease(m) ==
  /\ m \in live /\ \A c \in Cpus : run[c] # m
  /\ live' = live \ {m}
  /\ ref' = [f \in Frames |-> IF f \in pages[m] THEN ref[f] - 1 ELSE ref[f]]
  /\ pages' = [pages EXCEPT ![m] = {}]
  /\ tables' = [tables EXCEPT ![m] = {}]
  /\ pt' = [pt EXCEPT ![m] = NoTlb]
  /\ mem' = Scrubbed(pages[m])
  /\ UNCHANGED <<tlb, run, pc, forks>>

\* mmu_context_switch() on a CPU whose thread is in no call: the TLB is flushed.
MmuContextSwitch(c, m) ==
  /\ pc[c] = User
  /\ run[c] # m /\ m \in live \cup {NoMm}
  /\ run' = [run EXCEPT ![c] = m]
  /\ tlb' = [tlb EXCEPT ![c] = NoTlb]
  /\ UNCHANGED <<live, spaceVars, pc, forks>>

\* The TLBs without what the CPUs that run m hold for the pages in S.
Tlbi(m, S) ==
  [c \in Cpus |-> [va \in Vas |-> IF run[c] = m /\ va \in S THEN NoEntry ELSE tlb[c][va]]]

-----------------------------------------------------------------------------
(* Hardware                                                                *)

\* A walk of the tables loads a translation.
Walk(c, va) ==
  /\ run[c] # NoMm /\ tlb[c][va] = NoEntry
  /\ pt[run[c]][va] # NoEntry
  /\ tlb' = [tlb EXCEPT ![c][va] = pt[run[c]][va]]
  /\ UNCHANGED <<live, spaceVars, run, pc, forks>>

\* A store of the program.
Store(c, va, v) ==
  /\ pc[c] = User /\ tlb[c][va].w
  /\ mem' = [mem EXCEPT ![tlb[c][va].f] = v]
  /\ UNCHANGED <<live, pt, tables, pages, ref, tlb, run, pc, forks>>

\* An access takes a translation fault or, if it is a store, a permission fault.
Abort(c, va, w) ==
  /\ pc[c] = User /\ run[c] # NoMm
  /\ \/ tlb[c][va] = NoEntry /\ pt[run[c]][va] = NoEntry
     \/ w /\ tlb[c][va] # NoEntry /\ ~tlb[c][va].w
  /\ pc' = [pc EXCEPT ![c] = [User EXCEPT !.at = "fault", !.va = va, !.w = w,
                                          !.perm = tlb[c][va] # NoEntry]]
  /\ UNCHANGED <<live, spaceVars, tlb, run, forks>>

-----------------------------------------------------------------------------
(* mmu_handle_process_page_fault(), with process->lock and mm->lock held    *)

Faulting(c) == pc[c].at \in {"fault", "copy_fault"}

\* The handler returns to the access, or to mmu_copy_user_range(), which tries again.
Resolved(c) ==
  /\ pc' = [pc EXCEPT ![c] = IF @.at = "fault" THEN User ELSE [@ EXCEPT !.at = "copy"]]
  /\ UNCHANGED run

\* It refuses: the task is made to exit, or the copy fails.
Refused(c) ==
  /\ pc' = [pc EXCEPT ![c] = User]
  /\ IF pc[c].at = "fault"
     THEN /\ run' = [run EXCEPT ![c] = NoMm]
          /\ tlb' = [tlb EXCEPT ![c] = NoTlb]
     ELSE UNCHANGED <<run, tlb>>
  /\ UNCHANGED <<live, forks>>

\* A translation fault that another thread has resolved meanwhile.
AlreadyMapped(c) ==
  /\ Faulting(c) /\ ~pc[c].perm
  /\ pt[run[c]][pc[c].va] # NoEntry
  /\ Resolved(c)
  /\ UNCHANGED <<live, spaceVars, tlb, forks>>

\* mmu_map_user_page_locked() of frame f, which the caller has just had tracked in the
\* list: the tables that are missing are allocated from the top down, those that were
\* stay when one cannot be had, and the caller takes f back.
MapUserPage(c, m, va, f, first, w) ==
  LET missing == Path(va) \ tables[m]
      got == Min({Cardinality(missing), FreePages - 1, Room(m) - 1})
      made == IF got = Cardinality(missing) THEN missing
              ELSE IF got = 1 THEN {Upper} ELSE {}
  IN /\ tables' = [tables EXCEPT ![m] = @ \cup made]
     /\ mem' = [mem EXCEPT ![f] = first]
     /\ IF made = missing
        THEN /\ pt' = [pt EXCEPT ![m][va] = Entry(f, w)]
             /\ pages' = [pages EXCEPT ![m] = @ \cup {f}]
             /\ ref' = [ref EXCEPT ![f] = 1]
             /\ tlb' = Tlbi(m, {va})
             /\ Resolved(c) /\ UNCHANGED <<live, forks>>
        ELSE UNCHANGED <<pt, pages, ref>> /\ Refused(c)

\* A page of a region, of the heap or of the stack is touched for the first time.
LazyLoad(c) ==
  LET m == run[c]  va == pc[c].va
  IN /\ Faulting(c) /\ ~pc[c].perm
     /\ pt[m][va] = NoEntry
     /\ Region[va] # NoRegion
     /\ FreePages > 0 /\ Room(m) > 0
     /\ MapUserPage(c, m, va, FreeFrame, Region[va].init, Region[va].w)

Cow(c) == pt[run[c]][pc[c].va].cow

\* A store to a copy-on-write page that no other context shares any more.
CowUpgrade(c) ==
  LET m == run[c]  va == pc[c].va
  IN /\ Faulting(c) /\ pc[c].perm /\ Cow(c)
     /\ ref[pt[m][va].f] = 1
     /\ pt' = [pt EXCEPT ![m][va] = Entry(@.f, TRUE)]
     /\ tlb' = Tlbi(m, {va})
     /\ Resolved(c)
     /\ UNCHANGED <<live, tables, pages, ref, mem, forks>>

\* A store to one that is shared: the copy is tracked, mapped, and the old page dropped.
CowCopy(c) ==
  LET m == run[c]  va == pc[c].va  old == pt[m][va].f
  IN /\ Faulting(c) /\ pc[c].perm /\ Cow(c)
     /\ ref[old] # 1 /\ FreePages > 0 /\ Room(m) > 0
     /\ pt' = [pt EXCEPT ![m][va] = Entry(FreeFrame, TRUE)]
     /\ mem' = [mem EXCEPT ![FreeFrame] = mem[old]]
     /\ pages' = [pages EXCEPT ![m] = (@ \cup {FreeFrame}) \ {old}]
     /\ ref' = [ref EXCEPT ![FreeFrame] = 1, ![old] = @ - 1]
     /\ tlb' = Tlbi(m, {va})
     /\ Resolved(c)
     /\ UNCHANGED <<live, tables, forks>>

\* The handler fails: no memory or no room in the list; a page of no region; a store to
\* a page that is not, or no longer, marked copy-on-write.
Fail(c) ==
  LET m == run[c]  va == pc[c].va
  IN /\ Faulting(c)
     /\ IF pc[c].perm
        THEN \/ ~Cow(c)
             \/ Cow(c) /\ ref[pt[m][va].f] # 1 /\ (FreePages = 0 \/ Room(m) = 0)
        ELSE /\ pt[m][va] = NoEntry
             /\ Region[va] = NoRegion \/ FreePages = 0 \/ Room(m) = 0
     /\ Refused(c)
     /\ UNCHANGED spaceVars

PageFault(c) == AlreadyMapped(c) \/ LazyLoad(c) \/ CowUpgrade(c) \/ CowCopy(c) \/ Fail(c)

-----------------------------------------------------------------------------
(* mmu_context_clone()                                                     *)

Leaves(m) == {va \in Vas : pt[m][va] # NoEntry}
L3Tables(m) == tables[m] \ {Root, Upper}

\* The tables and the leaves mmu_clone_walk_locked() meets up to and with an L3 table, or
\* a leaf, in the order of the walk.
TablesUpTo(m, t) == 1 + Cardinality({u \in L3Tables(m) : u <= t})
ItemsUpToTable(m, t) == TablesUpTo(m, t) + Cardinality({x \in Leaves(m) : L3(x) < t})
ItemsUpToLeaf(m, va) == TablesUpTo(m, L3(va)) + Cardinality({x \in Leaves(m) : x <= va})

\* The walk gets there if the pages of the tables can be had and the new context, which
\* has its root already, can track all it is given.
Reaches(items, tabs) == items < MaxTracked /\ tabs < FreePages
ClonedLeaves(m) == {va \in Leaves(m) : Reaches(ItemsUpToLeaf(m, va), TablesUpTo(m, L3(va)))}
CloneOk(m) ==
  /\ Upper \in tables[m] => Reaches(1, 1)
  /\ \A t \in L3Tables(m) : Reaches(ItemsUpToTable(m, t), TablesUpTo(m, t))
  /\ ClonedLeaves(m) = Leaves(m)

CowEntry(e) == [e EXCEPT !.w = FALSE, !.cow = TRUE]
Cowed(m) == [va \in Vas |-> IF va \in ClonedLeaves(m) THEN CowEntry(pt[m][va]) ELSE pt[m][va]]

\* Mutant: the parent's translations are not flushed.
CloneNoFlush(c, n) ==
  LET m == run[c]
  IN /\ pc[c] = User /\ m # NoMm /\ n \notin live
     /\ forks < MaxForks /\ forks' = forks + 1
     /\ FreePages > 0 /\ CloneOk(m)
     /\ live' = live \cup {n}
     /\ pt' = [pt EXCEPT ![m] = Cowed(m), ![n] = Cowed(m)]
     /\ tables' = [tables EXCEPT ![n] = tables[m]]
     /\ pages' = [pages EXCEPT ![n] = pages[m]]
     /\ ref' = [f \in Frames |-> IF f \in pages[m] THEN ref[f] + 1 ELSE ref[f]]
     /\ UNCHANGED <<mem, run, pc, tlb>>

\* fork() of a thread of m makes n.  The leaves the walk has met are copy-on-write in m,
\* whether it comes to its end or not, and m's ASID is flushed.  A walk that fails has
\* what it gave to n taken back.
MmuContextClone(c, n) ==
  LET m == run[c]
  IN /\ pc[c] = User /\ m # NoMm /\ n \notin live
     /\ forks < MaxForks /\ forks' = forks + 1
     /\ FreePages > 0
     /\ tlb' = Tlbi(m, Vas)
     /\ IF CloneOk(m)
        THEN /\ live' = live \cup {n}
             /\ pt' = [pt EXCEPT ![m] = Cowed(m), ![n] = Cowed(m)]
             /\ tables' = [tables EXCEPT ![n] = tables[m]]
             /\ pages' = [pages EXCEPT ![n] = pages[m]]
             /\ ref' = [f \in Frames |-> IF f \in pages[m] THEN ref[f] + 1 ELSE ref[f]]
        ELSE /\ pt' = [pt EXCEPT ![m] = Cowed(m)]
             /\ UNCHANGED <<live, tables, pages, ref>>
     /\ UNCHANGED <<mem, run, pc>>

-----------------------------------------------------------------------------
(* munmap                                                                  *)

\* mmu_find_pte_locked() returns the table and not the entry of va in it, and
\* mmu_unmap_user_range() clears what that points to: the first entry of the table.
FirstEntry(va) == PerTable * (va \div PerTable)

\* Mutant: the references of the pages are kept.
UnmapKeepsReference(c, lo, hi) ==
  LET m == run[c]
      cleared == {va \in Vas : lo <= va /\ va <= hi /\ pt[m][va] # NoEntry}
  IN /\ "munmap" \in Ops /\ pc[c] = User /\ m # NoMm /\ lo <= hi
     /\ pt' = [pt EXCEPT ![m] = [va \in Vas |-> IF va \in cleared THEN NoEntry ELSE @[va]]]
     /\ tlb' = Tlbi(m, cleared)
     /\ UNCHANGED <<live, tables, pages, ref, mem, run, pc, forks>>

\* The range lo .. hi.  Ownership goes first, then the reference, then the translation
\* of the page the loop has come to.
MmuUnmapUserRange(c, lo, hi) ==
  LET m == run[c]
      range == {va \in Vas : lo <= va /\ va <= hi}
      hit == {va \in range : pt[m][FirstEntry(va)] # NoEntry
                             /\ \A x \in range : x < va => L3(x) # L3(va)}
      cleared == {FirstEntry(va) : va \in hit}
      dropped == {pt[m][va].f : va \in cleared}
  IN /\ "munmap" \in Ops /\ pc[c] = User /\ m # NoMm /\ lo <= hi
     /\ pt' = [pt EXCEPT ![m] = [va \in Vas |-> IF va \in cleared THEN NoEntry ELSE @[va]]]
     /\ pages' = [pages EXCEPT ![m] = @ \ dropped]
     /\ ref' = [f \in Frames |-> IF f \in dropped THEN ref[f] - 1 ELSE ref[f]]
     /\ mem' = Scrubbed(dropped)
     /\ tlb' = Tlbi(m, hit)
     /\ UNCHANGED <<live, tables, run, pc, forks>>

-----------------------------------------------------------------------------
(* Copies between kernel and user                                          *)

\* A system call copies the pages vas from, or for w with v to, its caller's memory.
CopyUser(c, vas, v, w) ==
  /\ "copy" \in Ops /\ pc[c] = User /\ run[c] # NoMm
  /\ pc' = [pc EXCEPT ![c] = [User EXCEPT !.at = "copy", !.vas = vas, !.v = v, !.w = w]]
  /\ UNCHANGED <<live, spaceVars, tlb, run, forks>>

\* Mutant: the copy writes to pages that are not writable.
CopyIgnoresCow(c) ==
  LET m == run[c]  va == Head(pc[c].vas)  e == pt[m][va]
  IN /\ pc[c].at = "copy"
     /\ IF e = NoEntry
        THEN pc' = [pc EXCEPT ![c].at = "copy_fault", ![c].va = va, ![c].perm = FALSE]
             /\ UNCHANGED mem
        ELSE /\ mem' = IF pc[c].w THEN [mem EXCEPT ![e.f] = pc[c].v] ELSE mem
             /\ pc' = [pc EXCEPT ![c] = IF Len(@.vas) = 1 THEN User
                                        ELSE [@ EXCEPT !.vas = Tail(pc[c].vas)]]
     /\ UNCHANGED <<live, pt, tables, pages, ref, tlb, run, forks>>

\* One round of mmu_copy_user_range() with mm->lock held: the page is copied, or a fault
\* is handled once the lock is dropped.
MmuCopyUserRange(c) ==
  LET m == run[c]  va == Head(pc[c].vas)  e == pt[m][va]
  IN /\ pc[c].at = "copy"
     /\ IF e = NoEntry \/ (pc[c].w /\ ~e.w)
        THEN /\ pc' = [pc EXCEPT ![c].at = "copy_fault", ![c].va = va, ![c].perm = (e # NoEntry)]
             /\ UNCHANGED mem
        ELSE /\ mem' = IF pc[c].w THEN [mem EXCEPT ![e.f] = pc[c].v] ELSE mem
             /\ pc' = [pc EXCEPT ![c] = IF Len(@.vas) = 1 THEN User
                                        ELSE [@ EXCEPT !.vas = Tail(pc[c].vas)]]
     /\ UNCHANGED <<live, pt, tables, pages, ref, tlb, run, forks>>

-----------------------------------------------------------------------------

Next ==
  \/ \E m \in Mms : MmuContextCreate(m) \/ MmuContextRelease(m)
  \/ \E c \in Cpus, m \in Mms \cup {NoMm} : MmuContextSwitch(c, m)
  \/ \E c \in Cpus, n \in Mms : MmuContextClone(c, n)
  \/ \E c \in Cpus, va \in Vas :
       \/ Walk(c, va)
       \/ \E v \in Vals : Store(c, va, v)
       \/ \E w \in BOOLEAN : Abort(c, va, w)
       \/ \E hi \in Vas : MmuUnmapUserRange(c, va, hi)
  \/ \E c \in Cpus, v \in Vals, w \in BOOLEAN : CopyUser(c, Copied, v, w)
  \/ \E c \in Cpus : PageFault(c) \/ MmuCopyUserRange(c)

Spec == Init /\ [][Next]_vars

-----------------------------------------------------------------------------
(* Properties                                                              *)

\* Types of the state, within the ownership list's and the memory's limits.
TypeOK ==
  /\ live \subseteq Mms
  /\ pt \in [Mms -> [Vas -> [f : Frames \cup {0}, w : BOOLEAN, cow : BOOLEAN]]]
  /\ tables \in [Mms -> SUBSET TableIds] /\ pages \in [Mms -> SUBSET Frames]
  /\ ref \in [Frames -> 0 .. Cardinality(Mms)]
  /\ tlb \in [Cpus -> [Vas -> [f : Frames \cup {0}, w : BOOLEAN, cow : BOOLEAN]]]
  /\ run \in [Cpus -> Mms \cup {NoMm}]
  /\ FreePages >= 0
  /\ \A m \in Mms : Room(m) >= 0

\* The three records of a page agree: a context owns exactly the pages its tables map,
\* each at one address, and the allocator counts its owners.  Forks that fail half way,
\* faults that run out of memory and copies leave no reference behind and take none.
OwnershipExact ==
  /\ \A m \in Mms : /\ pages[m] = {pt[m][va].f : va \in Leaves(m)}
                    /\ Cardinality(pages[m]) = Cardinality(Leaves(m))
                    /\ Leaves(m) # {} => m \in live
  /\ \A f \in Frames : ref[f] = Cardinality({m \in Mms : f \in pages[m]})

\* What a CPU's TLB holds is what the tables of the context it runs say.
TlbCoherent ==
  \A c \in Cpus, va \in Vas :
    tlb[c][va] # NoEntry => run[c] # NoMm /\ tlb[c][va] = pt[run[c]][va]

\* The memory of each program, as its tables have it.
Gone == [va \in Vas |-> NoRegion]
FreshPage(va) == IF Region[va] = NoRegion THEN 0 ELSE Region[va].init
Space == [m \in Mms |-> IF m \notin live THEN Gone
                        ELSE [va \in Vas |-> IF pt[m][va] = NoEntry THEN FreshPage(va)
                                             ELSE mem[pt[m][va].f]]]
Mem == INSTANCE UserMemory WITH space <- Space, Fresh <- FreshPage

\* Every program has memory of its own, "Parent/Child isolation via CoW": the lazily
\* loaded, shared and copied pages implement module UserMemory.
ImplementsMemory == Mem!Spec

=============================================================================
