----------------------------- MODULE PageAlloc ------------------------------
(***************************************************************************)
(* The physical page allocator, page_alloc.c.                              *)
(*                                                                         *)
(* The managed pages are 1 .. NPages in address order, and 0 is the null   *)
(* address.  The free list is threaded through the pages themselves: the   *)
(* first word of a free page is the address of the next one.  Each         *)
(* critical section of page_lock is one action; page_alloc() scrubs its    *)
(* page after the lock is released, in a step of its own.                  *)
(*                                                                         *)
(* The clients are the page tables, the copy-on-write code, the kernel     *)
(* stacks and the heap.  They drop a reference they hold, with page_free() *)
(* or page_ref_dec(), free a run they were given as a whole, and write     *)
(* only to pages they hold.  They may also free what nobody holds, which   *)
(* the allocator is to ignore.                                             *)
(***************************************************************************)
EXTENDS Integers, FiniteSets

CONSTANTS
  NPages,     \* managed pages
  MaxRef,     \* the largest ref_count, 65535
  MaxHolds,   \* bound: references the clients take to one page
  MaxStray    \* bound: frees of what nobody holds

ASSUME PagesAssumption ==
  /\ NPages \in Nat /\ MaxRef \in Nat \ {0} /\ MaxStray \in Nat
  /\ MaxHolds \in 1 .. MaxRef

Pages == 1 .. NPages
NULL == 0

\* The word a client stores in a page it holds: neither zero nor an address.
Data == -1

VARIABLES
  state,              \* pages[].state of the managed pages
  ref_count,          \* pages[].ref_count
  word,               \* the first word of each page
  page_free_list_pa,  \* the head of the free list
  free_pages,         \* the counter of free pages
  invalid_free_count,
  double_free_count,
  scrub,              \* pages that page_alloc() has yet to zero
  holds,              \* references the clients hold to each page
  runs,               \* <<first, count>> of the runs the clients hold
  written             \* pages the present holders have written to

vars == <<state, ref_count, word, page_free_list_pa, free_pages, invalid_free_count,
          double_free_count, scrub, holds, runs, written>>
counts == <<invalid_free_count, double_free_count>>

FreePages == {p \in Pages : state[p] = "FREE"}
RunOf(r) == r[1] .. r[1] + r[2] - 1
InRuns == UNION {RunOf(r) : r \in runs}

(***************************************************************************)
(* Helpers.                                                                *)
(***************************************************************************)
\* The lowest page of S above p, or the null address.
NextAbove(S, p) ==
  IF \E q \in S : q > p
    THEN CHOOSE q \in S : q > p /\ \A r \in S : r > p => q <= r
    ELSE NULL

\* Mutant: the page at managed_start is not looked at.
RebuildSkipsFirst(st, w) ==
  LET free == {p \in Pages : st[p] = "FREE" /\ p > 1} IN
    /\ word' = [p \in Pages |-> IF p \in free THEN NextAbove(free, p) ELSE w[p]]
    /\ page_free_list_pa' = NextAbove(free, 0)

\* page_allocator_rebuild_free_list(): every FREE page, in address order; st and
\* w are the states and the words when it is called.
Rebuild(st, w) ==
  LET free == {p \in Pages : st[p] = "FREE"} IN
    /\ word' = [p \in Pages |-> IF p \in free THEN NextAbove(free, p) ELSE w[p]]
    /\ page_free_list_pa' = NextAbove(free, 0)

\* The page becomes the head of the free list.
Push(p) ==
  /\ word' = [word EXCEPT ![p] = page_free_list_pa]
  /\ page_free_list_pa' = p
  /\ state' = [state EXCEPT ![p] = "FREE"]
  /\ free_pages' = free_pages + 1

\* The length of the run of FREE pages that ends at each page, as the scan of
\* page_alloc_contiguous() counts it, and the run where it first reaches n.
RunLength[p \in 0 .. NPages] ==
  IF p = 0 THEN 0 ELSE IF state[p] = "FREE" THEN RunLength[p - 1] + 1 ELSE 0

\* Mutant: the count starts again only at the end of the scan.
ScanNoReset(n) ==
  LET ends == {p \in Pages : Cardinality({q \in FreePages : q <= p}) = n} IN
    IF ends = {} THEN NULL ELSE NextAbove(ends, 0) - n + 1

Scan(n) ==
  LET ends == {p \in Pages : RunLength[p] = n} IN
    IF ends = {} THEN NULL ELSE NextAbove(ends, 0) - n + 1

\* The lowest page that starts n FREE pages.
FirstFit(n) ==
  NextAbove({p \in Pages : p + n - 1 <= NPages /\ p .. p + n - 1 \subseteq FreePages}, 0)

(***************************************************************************)
(* Operations.                                                             *)
(***************************************************************************)
\* page_allocator_init(): every managed page is pushed, in address order.
Init ==
  /\ state = [p \in Pages |-> "FREE"]
  /\ ref_count = [p \in Pages |-> 0]
  /\ word = [p \in Pages |-> p - 1]
  /\ page_free_list_pa = NPages
  /\ free_pages = NPages
  /\ invalid_free_count = 0 /\ double_free_count = 0
  /\ scrub = {} /\ runs = {} /\ written = {}
  /\ holds = [p \in Pages |-> 0]

\* page_alloc() to the unlock: the head of the list is popped.
PageAlloc ==
  /\ page_free_list_pa # NULL
  /\ LET p == page_free_list_pa IN
       /\ page_free_list_pa' = word[p]
       /\ state' = [state EXCEPT ![p] = "ALLOCATED"]
       /\ ref_count' = [ref_count EXCEPT ![p] = 1]
       /\ scrub' = scrub \cup {p}
       /\ holds' = [holds EXCEPT ![p] = @ + 1]
  /\ free_pages' = free_pages - 1
  /\ UNCHANGED <<word, counts, runs, written>>

\* zero_page() outside the lock, and page_alloc() returns the page.
ZeroPage(p) ==
  /\ p \in scrub
  /\ word' = [word EXCEPT ![p] = 0]
  /\ scrub' = scrub \ {p}
  /\ UNCHANGED <<state, ref_count, page_free_list_pa, free_pages, counts, holds, runs, written>>

\* Mutant: the pages of the run are not scrubbed.
AllocContiguousDirty(n) ==
  LET f == Scan(n)
      run == f .. f + n - 1
      st == [p \in Pages |-> IF p \in run THEN "ALLOCATED" ELSE state[p]]
  IN /\ n <= free_pages /\ f # NULL
     /\ state' = st
     /\ ref_count' = [p \in Pages |-> IF p \in run THEN 1 ELSE ref_count[p]]
     /\ free_pages' = free_pages - n
     /\ Rebuild(st, word)
     /\ runs' = runs \cup {<<f, n>>}
     /\ UNCHANGED <<counts, scrub, holds, written>>

\* page_alloc_contiguous(): the run is taken and scrubbed, the list is rebuilt.
PageAllocContiguous(n) ==
  LET f == Scan(n)
      run == f .. f + n - 1
      st == [p \in Pages |-> IF p \in run THEN "ALLOCATED" ELSE state[p]]
  IN /\ n <= free_pages /\ f # NULL
     /\ state' = st
     /\ ref_count' = [p \in Pages |-> IF p \in run THEN 1 ELSE ref_count[p]]
     /\ free_pages' = free_pages - n
     /\ Rebuild(st, [p \in Pages |-> IF p \in run THEN 0 ELSE word[p]])
     /\ runs' = runs \cup {<<f, n>>}
     /\ UNCHANGED <<counts, scrub, holds, written>>

\* Mutant: a shared page goes back to the free list.
FreeShared(p) ==
  \/ /\ state[p] # "ALLOCATED"
     /\ double_free_count' = double_free_count + 1
     /\ UNCHANGED <<state, ref_count, word, page_free_list_pa, free_pages, invalid_free_count>>
  \/ /\ state[p] = "ALLOCATED"
     /\ ref_count' = [ref_count EXCEPT ![p] = 0]
     /\ Push(p)
     /\ UNCHANGED counts

\* page_free() of a managed page: a page that is not allocated is only counted, a
\* shared one loses a reference, the last reference pushes the page.
PageFree(p) ==
  \/ /\ state[p] # "ALLOCATED"
     /\ double_free_count' = double_free_count + 1
     /\ UNCHANGED <<state, ref_count, word, page_free_list_pa, free_pages, invalid_free_count>>
  \/ /\ state[p] = "ALLOCATED" /\ ref_count[p] > 1
     /\ ref_count' = [ref_count EXCEPT ![p] = @ - 1]
     /\ UNCHANGED <<state, word, page_free_list_pa, free_pages, counts>>
  \/ /\ state[p] = "ALLOCATED" /\ ref_count[p] <= 1
     /\ ref_count' = [ref_count EXCEPT ![p] = 0]
     /\ Push(p)
     /\ UNCHANGED counts

\* page_ref_inc(): a saturated count stays where it is.
PageRefInc(p) ==
  /\ ref_count' = IF state[p] = "ALLOCATED" /\ ref_count[p] \in 1 .. MaxRef - 1
                    THEN [ref_count EXCEPT ![p] = @ + 1] ELSE ref_count
  /\ UNCHANGED <<state, word, page_free_list_pa, free_pages, counts>>

\* page_ref_dec(): the last reference pushes the page in the same critical section.
PageRefDec(p) ==
  /\ ref_count' = IF state[p] = "ALLOCATED" /\ ref_count[p] # 0
                    THEN [ref_count EXCEPT ![p] = @ - 1] ELSE ref_count
  /\ IF state[p] = "ALLOCATED" /\ ref_count[p] = 1
       THEN Push(p)
       ELSE UNCHANGED <<state, word, page_free_list_pa, free_pages>>
  /\ UNCHANGED counts

\* Mutant: the pages up to the first one that is not allocated are freed.
FreeRunPartly(f, n) ==
  LET run == {p \in Pages \cap (f .. f + n - 1) : \A q \in f .. p : state[q] = "ALLOCATED"}
      st == [p \in Pages |-> IF p \in run THEN "FREE" ELSE state[p]]
  IN /\ state' = st
     /\ free_pages' = free_pages + Cardinality(run)
     /\ Rebuild(st, word)
     /\ UNCHANGED <<ref_count, counts>>

\* page_free_contiguous(): all the pages of a run or none; ref_count is not looked at.
PageFreeContiguous(f, n) ==
  LET run == f .. f + n - 1
      st == [p \in Pages |-> IF p \in run THEN "FREE" ELSE state[p]]
  IN \/ /\ f + n - 1 > NPages
        /\ invalid_free_count' = invalid_free_count + 1
        /\ UNCHANGED <<state, ref_count, word, page_free_list_pa, free_pages, double_free_count>>
     \/ /\ f + n - 1 <= NPages /\ \E p \in run : state[p] # "ALLOCATED"
        /\ double_free_count' = double_free_count + 1
        /\ UNCHANGED <<state, ref_count, word, page_free_list_pa, free_pages, invalid_free_count>>
     \/ /\ f + n - 1 <= NPages /\ \A p \in run : state[p] = "ALLOCATED"
        /\ state' = st
        /\ free_pages' = free_pages + n
        /\ Rebuild(st, word)
        /\ UNCHANGED <<ref_count, counts>>

\* page_free() and page_free_contiguous() of an address that is unaligned or not managed.
InvalidFree ==
  /\ invalid_free_count' = invalid_free_count + 1
  /\ UNCHANGED <<state, ref_count, word, page_free_list_pa, free_pages, double_free_count>>

(***************************************************************************)
(* The clients.                                                            *)
(***************************************************************************)
\* A reference to p that its holder may use: page_alloc() has returned.
Held(p) == holds[p] > 0 /\ p \notin scrub

Release(p) ==
  /\ holds' = [holds EXCEPT ![p] = @ - 1]
  /\ written' = IF holds[p] = 1 THEN written \ {p} ELSE written
  /\ UNCHANGED <<scrub, runs>>

\* A copy-on-write sharer takes a reference.
ShareClient(p) ==
  /\ Held(p) /\ holds[p] < MaxHolds
  /\ PageRefInc(p)
  /\ holds' = [holds EXCEPT ![p] = @ + 1]
  /\ UNCHANGED <<scrub, runs, written>>

FreeClient(p) == Held(p) /\ PageFree(p) /\ Release(p)
RefDecClient(p) == Held(p) /\ PageRefDec(p) /\ Release(p)

\* The reaper gives back a kernel stack.
RunClient(r) ==
  /\ PageFreeContiguous(r[1], r[2])
  /\ runs' = runs \ {r}
  /\ written' = written \ RunOf(r)
  /\ UNCHANGED <<scrub, holds>>

\* A holder writes to its page.
WriteClient(p) ==
  /\ Held(p) \/ p \in InRuns
  /\ word' = [word EXCEPT ![p] = Data]
  /\ written' = written \cup {p}
  /\ UNCHANGED <<state, ref_count, page_free_list_pa, free_pages, counts, scrub, holds, runs>>

\* A free of what nobody holds: a managed page, a run with such a page in it, or an
\* address that names no page.
StrayClient ==
  /\ invalid_free_count + double_free_count < MaxStray
  /\ LET unheld == {p \in Pages : holds[p] = 0} \ InRuns IN
       \/ \E p \in unheld : PageFree(p)
       \/ \E f \in Pages, n \in 1 .. NPages :
            /\ f + n - 1 > NPages \/ f .. f + n - 1 \cap unheld # {}
            /\ PageFreeContiguous(f, n)
       \/ InvalidFree
  /\ UNCHANGED <<scrub, holds, runs, written>>

Next ==
  \/ PageAlloc
  \/ \E p \in Pages : ZeroPage(p)
  \/ \E n \in 1 .. NPages : PageAllocContiguous(n)
  \/ \E p \in Pages : ShareClient(p) \/ FreeClient(p) \/ RefDecClient(p) \/ WriteClient(p)
  \/ \E r \in runs : RunClient(r)
  \/ StrayClient

Spec == Init /\ [][Next]_vars

(***************************************************************************)
(* Properties.                                                             *)
(***************************************************************************)
\* The variables keep the types of page_alloc.c: ref_count fits its 16 bits, and the
\* head and the links of the list are null or managed pages.
TypeOK ==
  /\ state \in [Pages -> {"FREE", "ALLOCATED"}]
  /\ ref_count \in [Pages -> 0 .. MaxRef]
  /\ word \in [Pages -> Pages \cup {0, Data}]
  /\ page_free_list_pa \in Pages \cup {NULL}
  /\ free_pages \in 0 .. NPages
  /\ invalid_free_count \in Nat /\ double_free_count \in Nat
  /\ scrub \subseteq Pages /\ written \subseteq Pages
  /\ holds \in [Pages -> Nat]
  /\ runs \subseteq Pages \X Pages

\* The nodes count_free_list_nodes() visits, one after the other.
Node[i \in 0 .. NPages] ==
  IF i = 0 THEN page_free_list_pa
  ELSE IF Node[i - 1] \in Pages THEN word[Node[i - 1]] ELSE Node[i - 1]

\* page_allocator_check_consistency() finds no mismatch whenever page_lock is free: the
\* links lead from the head through every FREE page and end, and the counter agrees.
FreeListOK ==
  /\ {Node[i] : i \in 0 .. NPages} \ {NULL} = FreePages
  /\ Node[NPages] = NULL
  /\ free_pages = Cardinality(FreePages)

\* A page is allocated exactly while somebody holds it, alone or in one run, and its
\* ref_count is the number of references held: no page is handed out twice, freed
\* under a holder, or leaked.
RefsExact ==
  /\ \A p \in Pages : /\ state[p] = "ALLOCATED" <=> holds[p] > 0 \/ p \in InRuns
                      /\ holds[p] > 0 => ref_count[p] = holds[p] /\ p \notin InRuns
                      /\ p \in InRuns => ref_count[p] = 1
  /\ \A r, s \in runs : r # s => RunOf(r) \cap RunOf(s) = {}

\* A holder finds a page it has not written zeroed and one it has written as it left
\* it: page_alloc() scrubs outside the lock, and the allocator's links never show.
PagesClean ==
  \A p \in Pages : state[p] = "ALLOCATED" /\ p \notin scrub =>
    word[p] = IF p \in written THEN Data ELSE 0

\* The scan of page_alloc_contiguous() finds the lowest run of every length, and finds
\* none only where there is none.
ScanIsFirstFit == \A n \in 1 .. NPages : Scan(n) = FirstFit(n)

\* The allocator implements the promise of PageSpec.
Promise == INSTANCE PageSpec WITH
  Page <- Pages,
  refs <- [p \in Pages |-> IF state[p] = "ALLOCATED" THEN ref_count[p] ELSE 0]

\* Pages are handed out with no reference outstanding and come back with the last one.
ImplementsPromise == Promise!Spec
=============================================================================
