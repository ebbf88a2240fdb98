-------------------------- MODULE AddrSpaceProofs ---------------------------
(***************************************************************************)
(* The address spaces for any number of contexts, CPUs and pages: the      *)
(* records of a page agree, TLBs hold what the tables say, and UserMemory  *)
(* is implemented.                                                         *)
(***************************************************************************)
EXTENDS AddrSpace, FiniteSetTheorems, WellFoundedInduction, TLAPS

(***************************************************************************)
(* The inductive invariant.                                                *)
(***************************************************************************)
Entries == [f : Frames \cup {0}, w : BOOLEAN, cow : BOOLEAN]

\* A thread is in user mode, or in a call with the arguments that its steps use.
Calls == [at : {"user", "fault", "copy", "copy_fault"}, va : Nat, vas : Seq(Vas),
          v : Contents, w : BOOLEAN, perm : BOOLEAN]

CallOK(p) ==
  \/ p = User
  \/ p.at = "fault" /\ p.va \in Vas
  \/ /\ p.at = "copy" \/ (p.at = "copy_fault" /\ p.va \in Vas)
     /\ p.vas # <<>> /\ (p.w => p.v \in Vals)

CallsOK == pc \in [Cpus -> Calls] /\ \A c \in Cpus : CallOK(pc[c])

Types ==
  /\ live \subseteq Mms
  /\ pt \in [Mms -> [Vas -> Entries]]
  /\ tables \in [Mms -> SUBSET TableIds]
  /\ pages \in [Mms -> SUBSET Frames]
  /\ ref \in [Frames -> Nat]
  /\ mem \in [Frames -> Contents]
  /\ tlb \in [Cpus -> [Vas -> Entries]]
  /\ run \in [Cpus -> Mms \cup {NoMm}]
  /\ CallsOK

\* The tables t of a context lead to the pages P it owns, each from one address.
Leads(t, P) ==
  /\ \A va \in Vas : IF t[va].f = 0 THEN t[va] = NoEntry ELSE t[va].f \in P
  /\ \A f \in P : \E va \in Vas : t[va].f = f
  /\ \A va, vb \in Vas : t[va].f = t[vb].f /\ t[va].f # 0 => va = vb

Owners(f) == {m \in Mms : f \in pages[m]}

RefsOK == \A f \in Frames : ref[f] = Cardinality(Owners(f))

\* A context that does not exist owns nothing, and no CPU runs it; a call is made by a
\* thread of one that does.
LiveOK ==
  /\ \A m \in Mms : m \notin live => pages[m] = {} /\ tables[m] = {}
  /\ \A c \in Cpus : run[c] # NoMm => run[c] \in live
  /\ \A c \in Cpus : pc[c] # User => run[c] # NoMm

OwnInv == Types /\ (\A m \in Mms : Leads(pt[m], pages[m])) /\ RefsOK /\ LiveOK

(***************************************************************************)
(* Pages.                                                                  *)
(***************************************************************************)
LEMMA Finite == IsFiniteSet(Mms) /\ IsFiniteSet(Vas) /\ IsFiniteSet(Frames) /\ IsFiniteSet(TableIds)
<1> DEFINE T == {L3(va) : va \in Vas}
           h == [va \in Vas |-> L3(va)]
<1>1. h \in Surjection(Vas, T)
  BY Zenon DEF Surjection
<1>2. IsFiniteSet(T)
  BY <1>1, FS_Surjection, ConstantsOK, Zenon
<1>3. IsFiniteSet({Root}) /\ IsFiniteSet({Upper})
  BY FS_Singleton, Zenon
<1>4. IsFiniteSet({Root} \cup ({Upper} \cup T))
  BY <1>2, <1>3, FS_Union, Zenon
<1>5. TableIds = {Root} \cup ({Upper} \cup T)
  BY Zenon DEF TableIds
<1>6. QED BY Zenon, <1>4, <1>5, ConstantsOK

LEMMA LeastExists ==
  ASSUME NEW S, S \subseteq Nat, S # {}
  PROVE  \E q \in S : \A r \in S : q <= r
<1>1. PICK q \in S : \A r \in S : ~(<<r, q>> \in OpToRel(<, Nat))
  BY NatLessThanWellFounded, WFMin, Zenon
<1>2. \A r \in S : <<r, q>> \in Nat \X Nat
  BY Zenon
<1>3. \A r \in S : ~(r < q)
  BY Zenon, <1>1, <1>2 DEF OpToRel
<1>4. QED BY <1>3

LEMMA MinOf == ASSUME NEW S, S \subseteq Nat, S # {} PROVE Min(S) \in S /\ \A r \in S : Min(S) <= r
BY Zenon, LeastExists DEF Min

LEMMA Counts ==
  ASSUME Types
  PROVE  /\ IsFiniteSet({f \in Frames : ref[f] > 0}) /\ IsFiniteSet(TablePages)
         /\ Cardinality({f \in Frames : ref[f] > 0}) \in Nat
         /\ Cardinality(TablePages) \in Nat
<1> DEFINE U == {f \in Frames : ref[f] > 0}
<1>1. U \in SUBSET Frames /\ TablePages \in SUBSET (Mms \X TableIds)
  BY Zenon DEF TablePages
<1>2. IsFiniteSet(Mms \X TableIds)
  BY Zenon, Finite, FS_Product
<1> HIDE DEF U
<1>3. IsFiniteSet(U) /\ IsFiniteSet(TablePages)
  BY Zenon, <1>1, <1>2, Finite, FS_Subset
<1>4. Cardinality(U) \in Nat /\ Cardinality(TablePages) \in Nat
  BY Zenon, <1>3, FS_CardinalityType
<1>5. QED BY Zenon, <1>3, <1>4 DEF U

\* page_alloc() has a page for user data when it has one left.
LEMMA FrameFree ==
  ASSUME Types, FreePages > 0
  PROVE  FreeFrame \in Frames /\ ref[FreeFrame] = 0
<1> DEFINE S == {f \in Frames : ref[f] = 0}
           U == {f \in Frames : ref[f] > 0}
<1>1. S \subseteq Nat
  BY Zenon, ConstantsOK
<1>2. S # {}
  <2>1. SUFFICES ASSUME S = {} PROVE FALSE
    BY Zenon
  <2>2. U = Frames
    <3>1. \A f \in Frames : ref[f] \in Nat /\ ref[f] # 0
      BY Zenon, <2>1 DEF Types
    <3>2. QED BY <3>1
  <2>3. PICK k, p : k = Cardinality(Frames) /\ p = Cardinality(TablePages)
    BY Zenon
  <2>4. k \in Nat /\ p \in Nat
    BY Zenon, <2>2, <2>3, Counts
  <2>5. FreePages = NumPages - k - p
    BY Zenon, <2>2, <2>3 DEF FreePages
  <2>6. NumPages \in Nat /\ NumPages <= k
    BY Zenon, <2>3, ConstantsOK
  <2>7. QED BY <2>4, <2>5, <2>6
<1>3. Min(S) \in S
  BY Zenon, <1>1, <1>2, MinOf
<1>4. QED BY Zenon, <1>3 DEF FreeFrame

LEMMA OwnersFinite == ASSUME NEW f PROVE IsFiniteSet(Owners(f)) /\ Cardinality(Owners(f)) \in Nat
<1>1. Owners(f) \in SUBSET Mms
  BY Zenon DEF Owners
<1>2. IsFiniteSet(Owners(f))
  BY Zenon, <1>1, Finite, FS_Subset
<1>3. QED BY Zenon, <1>2, FS_CardinalityType

LEMMA Unowned ==
  ASSUME RefsOK, NEW f \in Frames, ref[f] = 0, NEW m \in Mms
  PROVE  f \notin pages[m]
<1>1. Owners(f) = {}
  BY Zenon, OwnersFinite, FS_EmptySet DEF RefsOK
<1>2. QED BY Zenon, <1>1 DEF Owners

LEMMA OneOwner ==
  ASSUME RefsOK, NEW f \in Frames, ref[f] = 1, NEW m \in Mms, f \in pages[m],
         NEW n \in Mms, f \in pages[n]
  PROVE  n = m
<1>1. PICK x : Owners(f) = {x}
  BY Zenon, OwnersFinite, FS_Singleton DEF RefsOK
<1>2. QED BY <1>1 DEF Owners

\* The owners of f when context m owns P.
LEMMA OwnersChange ==
  ASSUME Types, RefsOK, NEW m \in Mms, NEW P, pages' = [pages EXCEPT ![m] = P],
         NEW f \in Frames
  PROVE  /\ f \in P /\ f \notin pages[m] => Cardinality(Owners(f))' = ref[f] + 1
         /\ f \notin P /\ f \in pages[m] => Cardinality(Owners(f))' = ref[f] - 1 /\ ref[f] > 0
         /\ (f \in P <=> f \in pages[m]) => Cardinality(Owners(f))' = ref[f]
<1> DEFINE O == Owners(f)
           Q == Owners(f)'
<1>1. O = {k \in Mms : f \in pages[k]} /\ Q = {k \in Mms : f \in pages'[k]}
  BY Zenon DEF Owners
<1>2. pages'[m] = P /\ \A k \in Mms : k # m => pages'[k] = pages[k]
  BY Zenon DEF Types
<1>3. IsFiniteSet(O) /\ ref[f] = Cardinality(O) /\ ref[f] \in Nat
  BY Zenon, OwnersFinite DEF RefsOK, Types
<1> HIDE DEF O, Q
<1>4. CASE f \in P /\ f \notin pages[m]
  <2>1. Q = O \cup {m} /\ m \notin O
    BY Zenon, <1>1, <1>2, <1>4
  <2>2. Cardinality(Q) = Cardinality(O) + 1
    BY Zenon, <1>3, <2>1, FS_AddElement
  <2>3. QED BY Zenon, <1>3, <1>4, <2>2 DEF Q
<1>5. CASE f \notin P /\ f \in pages[m]
  <2>1. Q = O \ {m} /\ m \in O
    BY Zenon, <1>1, <1>2, <1>5
  <2>2. Cardinality(Q) = Cardinality(O) - 1 /\ Cardinality(O) # 0
    BY Zenon, <1>3, <2>1, FS_RemoveElement, FS_EmptySet
  <2>3. QED BY <1>3, <1>5, <2>2 DEF Q
<1>6. CASE f \in P <=> f \in pages[m]
  <2>1. Q = O
    BY Zenon, <1>1, <1>2, <1>6
  <2>2. QED BY Zenon, <1>3, <1>6, <2>1 DEF Q
<1>7. QED BY Zenon, <1>4, <1>5, <1>6

(***************************************************************************)
(* Tables.                                                                 *)
(***************************************************************************)
LEMMA EntryFacts ==
  /\ NoEntry \in Entries /\ NoEntry.f = 0 /\ NoEntry.w = FALSE /\ NoEntry.cow = FALSE
  /\ \A f \in Frames, w \in BOOLEAN :
       Entry(f, w) \in Entries /\ Entry(f, w).f = f /\ Entry(f, w).w = w /\ f # 0
  /\ \A e \in Entries : CowEntry(e) \in Entries /\ CowEntry(e).f = e.f /\ CowEntry(e).w = FALSE
BY Zenon, ConstantsOK DEF Entries, NoEntry, Entry, CowEntry

LEMMA MapLeads ==
  ASSUME NEW t \in [Vas -> Entries], NEW P \in SUBSET Frames, Leads(t, P),
         NEW va \in Vas, t[va] = NoEntry, NEW f \in Frames, f \notin P, NEW w \in BOOLEAN
  PROVE  Leads([t EXCEPT ![va] = Entry(f, w)], P \cup {f})
<1> DEFINE u == [t EXCEPT ![va] = Entry(f, w)]
<1>1. u[va].f = f /\ f # 0 /\ t[va].f = 0 /\ \A x \in Vas : x # va => u[x] = t[x]
  BY EntryFacts
<1> HIDE DEF u
<1>2. \A x \in Vas : IF u[x].f = 0 THEN u[x] = NoEntry ELSE u[x].f \in P \cup {f}
  BY <1>1 DEF Leads
<1>3. \A g \in P \cup {f} : \E x \in Vas : u[x].f = g
  <2>1. ASSUME NEW g \in P PROVE \E x \in Vas : u[x].f = g
    <3>1. PICK x \in Vas : t[x].f = g
      BY Zenon, <2>1 DEF Leads
    <3>2. g # 0
      BY Zenon, ConstantsOK
    <3>3. QED BY Zenon, <1>1, <3>1, <3>2
  <2>2. QED BY Zenon, <1>1, <2>1
<1>4. \A x, y \in Vas : u[x].f = u[y].f /\ u[x].f # 0 => x = y
  BY <1>1 DEF Leads
<1>5. QED BY Zenon, <1>2, <1>3, <1>4 DEF Leads, u

LEMMA SwapLeads ==
  ASSUME NEW t \in [Vas -> Entries], NEW P \in SUBSET Frames, Leads(t, P),
         NEW va \in Vas, t[va].f # 0, NEW f \in Frames, f \notin P, NEW w \in BOOLEAN
  PROVE  /\ t[va].f \in P
         /\ Leads([t EXCEPT ![va] = Entry(f, w)], (P \cup {f}) \ {t[va].f})
<1> DEFINE u == [t EXCEPT ![va] = Entry(f, w)]
<1>1. u[va].f = f /\ f # 0 /\ \A x \in Vas : x # va => u[x] = t[x]
  BY EntryFacts
<1>2. PICK old : old = t[va].f
  BY Zenon
<1>3. old \in P /\ old # f /\ \A x \in Vas : x # va => t[x].f # old
  BY Zenon, <1>2 DEF Leads
<1> HIDE DEF u
<1>4. \A x \in Vas : IF u[x].f = 0 THEN u[x] = NoEntry ELSE u[x].f \in (P \cup {f}) \ {old}
  BY <1>1, <1>3 DEF Leads
<1>5. \A g \in (P \cup {f}) \ {old} : \E x \in Vas : u[x].f = g
  BY <1>1, <1>2 DEF Leads
<1>6. \A x, y \in Vas : u[x].f = u[y].f /\ u[x].f # 0 => x = y
  BY <1>1 DEF Leads
<1>7. QED BY Zenon, <1>2, <1>3, <1>4, <1>5, <1>6 DEF Leads, u

LEMMA ClearLeads ==
  ASSUME NEW t \in [Vas -> Entries], NEW P \in SUBSET Frames, Leads(t, P),
         NEW S \in SUBSET Vas, \A x \in S : t[x] # NoEntry
  PROVE  /\ {t[x].f : x \in S} \subseteq P
         /\ Leads([x \in Vas |-> IF x \in S THEN NoEntry ELSE t[x]], P \ {t[x].f : x \in S})
<1> DEFINE u == [x \in Vas |-> IF x \in S THEN NoEntry ELSE t[x]]
           D == {t[x].f : x \in S}
<1>1. \A x \in Vas : IF x \in S THEN u[x] = NoEntry /\ u[x].f = 0 ELSE u[x] = t[x]
  BY Zenon, EntryFacts
<1>2. D \subseteq P
  BY DEF Leads
<1>3. \A x \in Vas : x \notin S /\ t[x].f # 0 => t[x].f \notin D
  BY Zenon DEF Leads
<1>4. \A x \in S : t[x].f \in D
  BY Zenon
<1> HIDE DEF u, D
<1>5. \A x \in Vas : IF u[x].f = 0 THEN u[x] = NoEntry ELSE u[x].f \in P \ D
  BY Zenon, <1>1, <1>3 DEF Leads
<1>6. \A g \in P \ D : \E x \in Vas : u[x].f = g
  <2>1. SUFFICES ASSUME NEW g \in P \ D PROVE \E x \in Vas : u[x].f = g
    BY Zenon
  <2>2. PICK x \in Vas : t[x].f = g
    BY Zenon DEF Leads
  <2>3. QED BY Zenon, <1>1, <1>4, <2>2
<1>7. \A x, y \in Vas : u[x].f = u[y].f /\ u[x].f # 0 => x = y
  BY Zenon, <1>1 DEF Leads
<1>8. QED BY Zenon, <1>2, <1>5, <1>6, <1>7 DEF Leads, u, D

LEMMA SameLeads ==
  ASSUME NEW t \in [Vas -> Entries], NEW P, Leads(t, P), NEW u,
         \A x \in Vas : u[x].f = t[x].f /\ (t[x] = NoEntry => u[x] = NoEntry)
  PROVE  Leads(u, P)
BY EntryFacts DEF Leads

\* An entry that is in use leads to a page of its context.
LEMMA Mapped ==
  ASSUME OwnInv, NEW m \in Mms, NEW va \in Vas
  PROVE  /\ pt[m] \in [Vas -> Entries] /\ pages[m] \in SUBSET Frames /\ Leads(pt[m], pages[m])
         /\ pt[m][va] \in Entries
         /\ pt[m][va] # NoEntry <=> pt[m][va].f # 0
         /\ pt[m][va] # NoEntry => pt[m][va].f \in pages[m] /\ pt[m][va].f \in Frames
         /\ pt[m][va].w \/ pt[m][va].cow => pt[m][va] # NoEntry
<1>1. pt[m] \in [Vas -> Entries] /\ pages[m] \in SUBSET Frames /\ Leads(pt[m], pages[m])
  BY Zenon DEF OwnInv, Types
<1>2. pt[m][va] \in Entries
  BY Zenon, <1>1
<1>3. IF pt[m][va].f = 0 THEN pt[m][va] = NoEntry ELSE pt[m][va].f \in pages[m]
  BY Zenon, <1>1 DEF Leads
<1>4. QED BY Zenon, <1>1, <1>2, <1>3, EntryFacts

(***************************************************************************)
(* Threads.                                                                *)
(***************************************************************************)
LEMMA UserCall == User \in Calls /\ CallOK(User) /\ User.at = "user"
<1>1. 0 \in Contents
  BY Zenon DEF Contents
<1>2. QED BY <1>1 DEF User, Calls, CallOK

\* What the handler leaves a thread in.
LEMMA ResolvedCall ==
  ASSUME CallsOK, NEW c \in Cpus, Faulting(c), Resolved(c)
  PROVE  CallsOK' /\ \A d \in Cpus : pc'[d] # User => pc[d] # User
<1>1. pc[c] \in Calls /\ CallOK(pc[c]) /\ pc[c] # User
  BY Zenon, UserCall DEF CallsOK, Faulting
<1> DEFINE q == IF pc[c].at = "fault" THEN User ELSE [pc[c] EXCEPT !.at = "copy"]
<1>2. q \in Calls /\ CallOK(q)
  <2>1. CASE pc[c].at = "fault"
    BY Zenon, <2>1, UserCall
  <2>2. CASE pc[c].at # "fault"
    <3>1. pc[c].at = "copy_fault"
      BY Zenon, <2>2 DEF Faulting
    <3>2. pc[c].vas # <<>> /\ (pc[c].w => pc[c].v \in Vals)
      BY Zenon, <1>1, <3>1 DEF CallOK
    <3>3. q = [pc[c] EXCEPT !.at = "copy"]
      BY Zenon, <2>2
    <3>4. q \in Calls /\ q.at = "copy" /\ q.vas = pc[c].vas /\ q.w = pc[c].w /\ q.v = pc[c].v
      BY Zenon, <1>1, <3>3 DEF Calls
    <3>5. QED BY Zenon, <3>2, <3>4 DEF CallOK
  <2>3. QED BY Zenon, <2>1, <2>2
<1>3. pc' = [pc EXCEPT ![c] = q]
  BY Zenon DEF Resolved
<1> HIDE DEF q
<1>4. QED BY Zenon, <1>1, <1>2, <1>3 DEF CallsOK

LEMMA UserAgain ==
  ASSUME CallsOK, NEW c \in Cpus, pc' = [pc EXCEPT ![c] = User]
  PROVE  CallsOK' /\ (\A d \in Cpus : pc'[d] # User => pc[d] # User) /\ pc'[c] = User
BY Zenon, UserCall DEF CallsOK

(***************************************************************************)
(* Steps.                                                                  *)
(***************************************************************************)
\* Context m has the tables t and owns P, and the allocator counts that.
LEMMA ContextChange ==
  ASSUME OwnInv, NEW m \in Mms, NEW t \in [Vas -> Entries], NEW P \in SUBSET Frames,
         Leads(t, P), pt' = [pt EXCEPT ![m] = t], pages' = [pages EXCEPT ![m] = P],
         ref' = [f \in Frames |-> ref'[f]],
         \A f \in Frames : ref'[f] = IF f \in P /\ f \notin pages[m] THEN ref[f] + 1
                                     ELSE IF f \notin P /\ f \in pages[m] THEN ref[f] - 1
                                     ELSE ref[f]
  PROVE  /\ pt' \in [Mms -> [Vas -> Entries]] /\ pages' \in [Mms -> SUBSET Frames]
         /\ ref' \in [Frames -> Nat] /\ RefsOK'
         /\ \A k \in Mms : Leads(pt'[k], pages'[k])
<1>1. pt' \in [Mms -> [Vas -> Entries]] /\ pages' \in [Mms -> SUBSET Frames]
  BY Zenon DEF OwnInv, Types
<1>2. ASSUME NEW f \in Frames
      PROVE  ref'[f] = Cardinality(Owners(f))' /\ ref'[f] \in Nat
  <2>1. ref[f] \in Nat
    BY Zenon DEF OwnInv, Types
  <2>2. PICK n : n = Cardinality(Owners(f))'
    BY Zenon
  <2>3. /\ f \in P /\ f \notin pages[m] => n = ref[f] + 1
        /\ f \notin P /\ f \in pages[m] => n = ref[f] - 1 /\ ref[f] > 0
        /\ (f \in P <=> f \in pages[m]) => n = ref[f]
    BY Zenon, <2>2, OwnersChange DEF OwnInv
  <2>4. ref'[f] = n /\ ref'[f] \in Nat
    BY <2>1, <2>3
  <2>5. QED BY Zenon, <2>2, <2>4
<1>3. ref' \in [Frames -> Nat]
  BY Zenon, <1>2
<1>4. ASSUME NEW k \in Mms PROVE Leads(pt'[k], pages'[k])
  <2>1. CASE k = m
    <3>1. pt'[k] = t /\ pages'[k] = P
      BY Zenon, <2>1 DEF OwnInv, Types
    <3>2. QED BY Zenon, <3>1
  <2>2. CASE k # m
    <3>1. pt'[k] = pt[k] /\ pages'[k] = pages[k]
      BY Zenon, <2>2 DEF OwnInv, Types
    <3>2. QED BY Zenon, <3>1 DEF OwnInv
  <2>3. QED BY Zenon, <2>1, <2>2
<1>5. QED BY Zenon, <1>1, <1>2, <1>3, <1>4 DEF RefsOK

\* No context changes.
LEMMA SpacesKept ==
  ASSUME OwnInv, UNCHANGED <<live, pt, tables, pages, ref>>,
         mem' \in [Frames -> Contents], tlb' \in [Cpus -> [Vas -> Entries]],
         run' \in [Cpus -> Mms \cup {NoMm}], CallsOK',
         \A c \in Cpus : run'[c] # NoMm => run'[c] \in live,
         \A c \in Cpus : pc'[c] # User => run'[c] # NoMm
  PROVE  OwnInv'
<1>1. Types'
  BY Zenon DEF OwnInv, Types
<1>2. RefsOK'
  BY Zenon DEF OwnInv, RefsOK, Owners
<1>3. LiveOK'
  BY Zenon DEF OwnInv, LiveOK
<1>4. \A m \in Mms : Leads(pt'[m], pages'[m])
  BY Zenon DEF OwnInv
<1>5. QED BY Zenon, <1>1, <1>2, <1>3, <1>4 DEF OwnInv

LEMMA TlbiTyped ==
  ASSUME Types, NEW m, NEW S PROVE Tlbi(m, S) \in [Cpus -> [Vas -> Entries]]
BY EntryFacts DEF Types, Tlbi

LEMMA NoTlbTyped == NoTlb \in [Vas -> Entries] /\ \A va \in Vas : NoTlb[va] = NoEntry
BY Zenon, EntryFacts DEF NoTlb

\* What a thread that is refused leaves.
LEMMA RefusedCall ==
  ASSUME OwnInv, NEW c \in Cpus, Faulting(c), Refused(c)
  PROVE  /\ CallsOK' /\ tlb' \in [Cpus -> [Vas -> Entries]]
         /\ run' \in [Cpus -> Mms \cup {NoMm}]
         /\ \A d \in Cpus : run'[d] # NoMm => run'[d] \in live
         /\ \A d \in Cpus : pc'[d] # User => run'[d] # NoMm
<1>1. CallsOK' /\ (\A d \in Cpus : pc'[d] # User => pc[d] # User) /\ pc'[c] = User
  BY Zenon, UserAgain DEF Refused, OwnInv, Types
<1>2. tlb' \in [Cpus -> [Vas -> Entries]] /\ run' \in [Cpus -> Mms \cup {NoMm}]
  BY Zenon, NoTlbTyped DEF Refused, OwnInv, Types
<1>3. \A d \in Cpus : run'[d] = run[d] \/ (d = c /\ run'[d] = NoMm)
  BY Zenon DEF Refused, OwnInv, Types
<1>4. QED BY Zenon, <1>1, <1>2, <1>3 DEF OwnInv, LiveOK

LEMMA CreateOwn ==
  ASSUME OwnInv, NEW m \in Mms, MmuContextCreate(m) PROVE OwnInv'
<1> USE DEF MmuContextCreate
<1>1. Types'
  <2>1. {Root} \in SUBSET TableIds
    BY Zenon DEF TableIds
  <2>2. tables' \in [Mms -> SUBSET TableIds]
    BY Zenon, <2>1 DEF OwnInv, Types
  <2>3. CallsOK'
    BY Zenon DEF OwnInv, Types, CallsOK
  <2>4. QED BY Zenon, <2>2, <2>3 DEF OwnInv, Types
<1>2. RefsOK'
  BY Zenon DEF OwnInv, RefsOK, Owners
<1>3. LiveOK'
  BY Zenon DEF OwnInv, LiveOK, Types
<1>4. QED BY Zenon, <1>1, <1>2, <1>3 DEF OwnInv

LEMMA ReleaseOwn ==
  ASSUME OwnInv, NEW m \in Mms, MmuContextRelease(m) PROVE OwnInv'
<1> USE DEF MmuContextRelease
<1>1. Leads(NoTlb, {})
  BY Zenon, NoTlbTyped, EntryFacts DEF Leads
<1>2. /\ pt' \in [Mms -> [Vas -> Entries]] /\ pages' \in [Mms -> SUBSET Frames]
      /\ ref' \in [Frames -> Nat] /\ RefsOK' /\ \A k \in Mms : Leads(pt'[k], pages'[k])
  <2>1. ref' = [f \in Frames |-> ref'[f]]
    BY Zenon
  <2>2. \A f \in Frames : ref'[f] = IF f \in {} /\ f \notin pages[m] THEN ref[f] + 1
                                    ELSE IF f \notin {} /\ f \in pages[m] THEN ref[f] - 1
                                    ELSE ref[f]
    BY Zenon
  <2>3. pt' = [pt EXCEPT ![m] = NoTlb] /\ pages' = [pages EXCEPT ![m] = {}] /\ {} \in SUBSET Frames
    BY Zenon
  <2>4. QED BY Zenon, <1>1, <2>1, <2>2, <2>3, NoTlbTyped, ContextChange
<1>3. Types'
  <2>1. mem' \in [Frames -> Contents]
    BY Zenon DEF OwnInv, Types, Scrubbed, Contents
  <2>2. CallsOK' /\ tables' \in [Mms -> SUBSET TableIds] /\ live' \subseteq Mms
    BY Zenon DEF OwnInv, Types, CallsOK
  <2>3. QED BY Zenon, <1>2, <2>1, <2>2 DEF OwnInv, Types
<1>4. LiveOK'
  BY Zenon DEF OwnInv, LiveOK, Types
<1>5. QED BY Zenon, <1>2, <1>3, <1>4 DEF OwnInv

LEMMA SwitchOwn ==
  ASSUME OwnInv, NEW c \in Cpus, NEW m \in Mms \cup {NoMm}, MmuContextSwitch(c, m) PROVE OwnInv'
<1>1. UNCHANGED <<live, pt, tables, pages, ref, mem, pc>>
  BY Zenon DEF MmuContextSwitch, spaceVars
<1>2. /\ tlb' \in [Cpus -> [Vas -> Entries]] /\ run' \in [Cpus -> Mms \cup {NoMm}]
      /\ \A d \in Cpus : run'[d] = run[d] \/ (d = c /\ run'[d] \in live \cup {NoMm} /\ pc[d] = User)
  BY Zenon, NoTlbTyped DEF MmuContextSwitch, OwnInv, Types
<1>3. mem' \in [Frames -> Contents] /\ CallsOK'
  BY Zenon, <1>1 DEF OwnInv, Types, CallsOK
<1>4. /\ \A d \in Cpus : run'[d] # NoMm => run'[d] \in live
      /\ \A d \in Cpus : pc'[d] # User => run'[d] # NoMm
  BY Zenon, <1>1, <1>2 DEF OwnInv, LiveOK
<1>5. QED BY Zenon, <1>1, <1>2, <1>3, <1>4, SpacesKept

LEMMA WalkOwn ==
  ASSUME OwnInv, NEW c \in Cpus, NEW va \in Vas, Walk(c, va) PROVE OwnInv'
<1>1. UNCHANGED <<live, pt, tables, pages, ref, mem, run, pc>>
  BY Zenon DEF Walk, spaceVars
<1>2. run[c] \in Mms
  BY Zenon DEF Walk, OwnInv, Types
<1>3. tlb' \in [Cpus -> [Vas -> Entries]]
  BY <1>2 DEF Walk, OwnInv, Types
<1>4. mem' \in [Frames -> Contents] /\ CallsOK' /\ run' \in [Cpus -> Mms \cup {NoMm}]
  BY Zenon, <1>1 DEF OwnInv, Types, CallsOK
<1>5. /\ \A d \in Cpus : run'[d] # NoMm => run'[d] \in live
      /\ \A d \in Cpus : pc'[d] # User => run'[d] # NoMm
  BY Zenon, <1>1 DEF OwnInv, LiveOK
<1>6. QED BY Zenon, <1>1, <1>3, <1>4, <1>5, SpacesKept

LEMMA StoreOwn ==
  ASSUME OwnInv, NEW c \in Cpus, NEW va \in Vas, NEW v \in Vals, Store(c, va, v) PROVE OwnInv'
<1>1. UNCHANGED <<live, pt, tables, pages, ref, tlb, run, pc>>
  BY Zenon DEF Store
<1>2. mem' \in [Frames -> Contents]
  BY Zenon DEF Store, OwnInv, Types, Contents
<1>3. CallsOK' /\ tlb' \in [Cpus -> [Vas -> Entries]] /\ run' \in [Cpus -> Mms \cup {NoMm}]
  BY Zenon, <1>1 DEF OwnInv, Types, CallsOK
<1>4. /\ \A d \in Cpus : run'[d] # NoMm => run'[d] \in live
      /\ \A d \in Cpus : pc'[d] # User => run'[d] # NoMm
  BY Zenon, <1>1 DEF OwnInv, LiveOK
<1>5. QED BY Zenon, <1>1, <1>2, <1>3, <1>4, SpacesKept

\* A thread enters or leaves a call and nothing but pages is written.
LEMMA CallStep ==
  ASSUME OwnInv, NEW c \in Cpus, NEW q \in Calls, CallOK(q), q # User => run[c] # NoMm,
         pc' = [pc EXCEPT ![c] = q], mem' \in [Frames -> Contents],
         UNCHANGED <<live, pt, tables, pages, ref, tlb, run>>
  PROVE  OwnInv'
<1>1. CallsOK' /\ \A d \in Cpus : pc'[d] = pc[d] \/ (d = c /\ pc'[d] = q)
  BY Zenon DEF OwnInv, Types, CallsOK
<1>2. tlb' \in [Cpus -> [Vas -> Entries]] /\ run' \in [Cpus -> Mms \cup {NoMm}]
  BY Zenon DEF OwnInv, Types
<1>3. /\ \A d \in Cpus : run'[d] # NoMm => run'[d] \in live
      /\ \A d \in Cpus : pc'[d] # User => run'[d] # NoMm
  BY Zenon, <1>1 DEF OwnInv, LiveOK
<1>4. QED BY Zenon, <1>1, <1>2, <1>3, SpacesKept

LEMMA AbortOwn ==
  ASSUME OwnInv, NEW c \in Cpus, NEW va \in Vas, NEW w \in BOOLEAN, Abort(c, va, w) PROVE OwnInv'
<1> DEFINE q == [User EXCEPT !.at = "fault", !.va = va, !.w = w, !.perm = tlb[c][va] # NoEntry]
<1>1. q \in Calls /\ q.at = "fault" /\ q.va = va
  BY Zenon, UserCall, ConstantsOK DEF User, Calls
<1>2. CallOK(q)
  BY Zenon, <1>1 DEF CallOK
<1>3. /\ UNCHANGED <<live, pt, tables, pages, ref, mem, tlb, run>>
      /\ pc' = [pc EXCEPT ![c] = q] /\ run[c] # NoMm
  BY Zenon DEF Abort, spaceVars
<1>4. mem' \in [Frames -> Contents]
  BY Zenon, <1>3 DEF OwnInv, Types
<1> HIDE DEF q
<1>5. QED BY Zenon, <1>1, <1>2, <1>3, <1>4, CallStep

LEMMA CopyUserOwn ==
  ASSUME OwnInv, NEW c \in Cpus, NEW v \in Vals, NEW w \in BOOLEAN, CopyUser(c, Copied, v, w)
  PROVE  OwnInv'
<1> DEFINE q == [User EXCEPT !.at = "copy", !.vas = Copied, !.v = v, !.w = w]
<1>1. /\ q \in Calls /\ q.at = "copy" /\ q.vas = Copied /\ q.v = v
  BY Zenon, UserCall, ConstantsOK DEF User, Calls, Contents
<1>2. CallOK(q)
  BY Zenon, <1>1, ConstantsOK DEF CallOK
<1>3. /\ UNCHANGED <<live, pt, tables, pages, ref, mem, tlb, run>>
      /\ pc' = [pc EXCEPT ![c] = q] /\ run[c] # NoMm
  BY Zenon DEF CopyUser, spaceVars
<1>4. mem' \in [Frames -> Contents]
  BY Zenon, <1>3 DEF OwnInv, Types
<1> HIDE DEF q
<1>5. QED BY Zenon, <1>1, <1>2, <1>3, <1>4, CallStep

\* A copy in progress is of a page of Vas, by a thread of a context.
LEMMA Copying ==
  ASSUME OwnInv, NEW c \in Cpus, pc[c].at = "copy"
  PROVE  /\ pc[c] \in Calls /\ pc[c].vas \in Seq(Vas) /\ pc[c].vas # <<>>
         /\ pc[c].w => pc[c].v \in Vals
         /\ Head(pc[c].vas) \in Vas /\ run[c] \in Mms /\ run[c] \in live /\ pc[c] # User
<1>1. pc[c] \in Calls /\ CallOK(pc[c])
  BY Zenon DEF OwnInv, Types, CallsOK
<1>2. pc[c] # User
  BY Zenon, UserCall
<1>3. pc[c].vas \in Seq(Vas) /\ pc[c].vas # <<>> /\ (pc[c].w => pc[c].v \in Vals)
  BY Zenon, <1>1, <1>2 DEF CallOK, Calls
<1>4. Head(pc[c].vas) \in Vas
  BY <1>3
<1>5. run[c] \in Mms /\ run[c] \in live
  BY Zenon, <1>2 DEF OwnInv, Types, LiveOK
<1>6. QED BY Zenon, <1>1, <1>2, <1>3, <1>4, <1>5

LEMMA CopyRangeOwn ==
  ASSUME OwnInv, NEW c \in Cpus, MmuCopyUserRange(c) PROVE OwnInv'
<1> DEFINE va == Head(pc[c].vas)  e == pt[run[c]][va]
           q == [pc[c] EXCEPT !.at = "copy_fault", !.va = va, !.perm = (e # NoEntry)]
           r == IF Len(pc[c].vas) = 1 THEN User ELSE [pc[c] EXCEPT !.vas = Tail(pc[c].vas)]
<1>1. pc[c].at = "copy" /\ UNCHANGED <<live, pt, tables, pages, ref, tlb, run>>
  BY Zenon DEF MmuCopyUserRange
<1>2. /\ pc[c] \in Calls /\ pc[c].vas \in Seq(Vas) /\ pc[c].vas # <<>>
      /\ pc[c].w => pc[c].v \in Vals
      /\ va \in Vas /\ run[c] \in Mms
  BY Zenon, <1>1, Copying
<1>3. run[c] # NoMm /\ va \in Nat
  BY Zenon, <1>2, ConstantsOK
<1>4. q \in Calls /\ CallOK(q)
  <2>1. q \in Calls /\ q.at = "copy_fault" /\ q.va = va /\ q.vas = pc[c].vas /\ q.w = pc[c].w
                    /\ q.v = pc[c].v
    BY Zenon, <1>2, <1>3 DEF Calls
  <2>2. QED BY Zenon, <1>2, <2>1 DEF CallOK
<1>5. r \in Calls /\ CallOK(r)
  <2>1. CASE Len(pc[c].vas) = 1
    BY Zenon, <2>1, UserCall
  <2>2. CASE Len(pc[c].vas) # 1
    <3>1. Tail(pc[c].vas) \in Seq(Vas) /\ Tail(pc[c].vas) # <<>>
      <4>1. PICK y, n : y = Tail(pc[c].vas) /\ n = Len(pc[c].vas)
        BY Zenon
      <4>2. n \in Nat /\ n # 0 /\ n # 1 /\ y \in Seq(Vas) /\ Len(y) = n - 1
        BY <1>2, <2>2, <4>1
      <4>3. Len(y) # 0
        BY <4>2
      <4>4. y # <<>>
        BY <4>3
      <4>5. QED BY Zenon, <4>1, <4>2, <4>4
    <3>2. PICK y : y = Tail(pc[c].vas)
      BY Zenon
    <3>3. r = [pc[c] EXCEPT !.vas = y]
      BY Zenon, <2>2, <3>2
    <3>4. r \in Calls /\ r.at = "copy" /\ r.vas = y /\ r.w = pc[c].w /\ r.v = pc[c].v
      BY Zenon, <1>1, <1>2, <3>1, <3>2, <3>3 DEF Calls
    <3>5. QED BY Zenon, <1>2, <3>1, <3>2, <3>4 DEF CallOK
  <2>3. QED BY Zenon, <2>1, <2>2
<1>6. /\ pc' = [pc EXCEPT ![c] = q] \/ pc' = [pc EXCEPT ![c] = r]
      /\ mem' = mem \/ (pc[c].w /\ mem' = [mem EXCEPT ![e.f] = pc[c].v])
  <2>1. CASE e = NoEntry \/ (pc[c].w /\ ~e.w)
    BY Zenon, <2>1 DEF MmuCopyUserRange
  <2>2. CASE ~(e = NoEntry \/ (pc[c].w /\ ~e.w))
    <3>1. mem' = IF pc[c].w THEN [mem EXCEPT ![e.f] = pc[c].v] ELSE mem
      BY <2>2, Zenon DEF MmuCopyUserRange
    <3>2. pc' = [pc EXCEPT ![c] = r]
      BY <2>2, Zenon DEF MmuCopyUserRange
    <3>3. QED BY Zenon, <3>1, <3>2
  <2>3. QED BY Zenon, <2>1, <2>2
<1>7. mem' \in [Frames -> Contents]
  BY Zenon, <1>2, <1>6 DEF OwnInv, Types, Contents
<1> HIDE DEF q, r, e, va
<1>8. QED BY Zenon, <1>1, <1>3, <1>4, <1>5, <1>6, <1>7, CallStep

\* A fault being handled is on a page of Vas, by a thread of a context.
LEMMA InFault ==
  ASSUME OwnInv, NEW c \in Cpus, Faulting(c)
  PROVE  pc[c].va \in Vas /\ run[c] \in Mms /\ run[c] \in live /\ pc[c] # User /\ CallsOK
<1>1. pc[c] \in Calls /\ CallOK(pc[c]) /\ CallsOK
  BY Zenon DEF OwnInv, Types, CallsOK
<1>2. pc[c] # User /\ pc[c].at \in {"fault", "copy_fault"}
  BY Zenon, UserCall DEF Faulting
<1>3. pc[c].va \in Vas
  BY Zenon, <1>1, <1>2 DEF CallOK
<1>4. run[c] \in Mms /\ run[c] \in live
  BY Zenon, <1>2 DEF OwnInv, Types, LiveOK
<1>5. QED BY Zenon, <1>1, <1>2, <1>3, <1>4

LEMMA AlreadyOwn ==
  ASSUME OwnInv, NEW c \in Cpus, AlreadyMapped(c) PROVE OwnInv'
<1>1. Faulting(c) /\ Resolved(c) /\ UNCHANGED <<live, pt, tables, pages, ref, mem, tlb, run>>
  BY Zenon DEF AlreadyMapped, Resolved, spaceVars
<1>2. CallsOK' /\ \A d \in Cpus : pc'[d] # User => pc[d] # User
  BY Zenon, <1>1, InFault, ResolvedCall
<1>3. /\ mem' \in [Frames -> Contents] /\ tlb' \in [Cpus -> [Vas -> Entries]]
      /\ run' \in [Cpus -> Mms \cup {NoMm}]
  BY Zenon, <1>1 DEF OwnInv, Types
<1>4. /\ \A d \in Cpus : run'[d] # NoMm => run'[d] \in live
      /\ \A d \in Cpus : pc'[d] # User => run'[d] # NoMm
  BY Zenon, <1>1, <1>2 DEF OwnInv, LiveOK
<1>5. QED BY Zenon, <1>1, <1>2, <1>3, <1>4, SpacesKept

LEMMA FailOwn ==
  ASSUME OwnInv, NEW c \in Cpus, Fail(c) PROVE OwnInv'
<1>1. Faulting(c) /\ Refused(c) /\ UNCHANGED <<live, pt, tables, pages, ref, mem>>
  BY Zenon DEF Fail, Refused, spaceVars
<1>2. mem' \in [Frames -> Contents]
  BY Zenon, <1>1 DEF OwnInv, Types
<1>3. QED BY Zenon, <1>1, <1>2, RefusedCall, SpacesKept

\* The handler has changed the tables of the faulting context, and returns.
LEMMA FaultOwn ==
  ASSUME OwnInv, NEW c \in Cpus, Faulting(c), Resolved(c), live' = live,
         NEW t \in [Vas -> Entries], NEW P \in SUBSET Frames, Leads(t, P),
         pt' = [pt EXCEPT ![run[c]] = t], pages' = [pages EXCEPT ![run[c]] = P],
         ref' = [f \in Frames |-> ref'[f]],
         \A f \in Frames : ref'[f] = IF f \in P /\ f \notin pages[run[c]] THEN ref[f] + 1
                                     ELSE IF f \notin P /\ f \in pages[run[c]] THEN ref[f] - 1
                                     ELSE ref[f],
         NEW T \in SUBSET TableIds, tables' = [tables EXCEPT ![run[c]] = T],
         mem' \in [Frames -> Contents], NEW S, tlb' = Tlbi(run[c], S)
  PROVE  OwnInv'
<1>1. run[c] \in Mms /\ run[c] \in live /\ CallsOK /\ run' = run
  BY Zenon, InFault DEF Resolved
<1>2. CallsOK' /\ \A d \in Cpus : pc'[d] # User => pc[d] # User
  BY Zenon, <1>1, ResolvedCall
<1>3. /\ pt' \in [Mms -> [Vas -> Entries]] /\ pages' \in [Mms -> SUBSET Frames]
      /\ ref' \in [Frames -> Nat] /\ RefsOK' /\ \A k \in Mms : Leads(pt'[k], pages'[k])
  BY Zenon, <1>1, ContextChange
<1>4. tlb' \in [Cpus -> [Vas -> Entries]]
  BY Zenon, TlbiTyped DEF OwnInv
<1>5. Types'
  BY Zenon, <1>1, <1>2, <1>3, <1>4 DEF OwnInv, Types
<1>6. LiveOK'
  <2>1. \A m \in Mms : m \notin live => pages'[m] = pages[m] /\ tables'[m] = tables[m]
    BY Zenon, <1>1 DEF OwnInv, Types
  <2>2. QED BY Zenon, <1>1, <1>2, <2>1 DEF OwnInv, LiveOK
<1>7. QED BY Zenon, <1>3, <1>5, <1>6 DEF OwnInv

\* mmu_map_user_page_locked() makes tables of the path to va, or none.
LEMMA LazyCases ==
  ASSUME OwnInv, NEW c \in Cpus, LazyLoad(c)
  PROVE  \E T \in SUBSET TableIds :
           /\ tables' = [tables EXCEPT ![run[c]] = T]
           /\ mem' = [mem EXCEPT ![FreeFrame] = Region[pc[c].va].init]
           /\ Faulting(c) /\ live' = live /\ forks' = forks
           /\ pt[run[c]][pc[c].va] = NoEntry /\ Region[pc[c].va] # NoRegion /\ FreePages > 0
           /\ \/ /\ pt' = [pt EXCEPT ![run[c]][pc[c].va] = Entry(FreeFrame, Region[pc[c].va].w)]
                 /\ pages' = [pages EXCEPT ![run[c]] = @ \cup {FreeFrame}]
                 /\ ref' = [ref EXCEPT ![FreeFrame] = 1]
                 /\ tlb' = Tlbi(run[c], {pc[c].va}) /\ Resolved(c)
              \/ UNCHANGED <<pt, pages, ref>> /\ Refused(c)
<1> DEFINE m == run[c]  va == pc[c].va
           missing == Path(va) \ tables[m]
           got == Min({Cardinality(missing), FreePages - 1, Room(m) - 1})
           made == IF got = Cardinality(missing) THEN missing
                   ELSE IF got = 1 THEN {Upper} ELSE {}
<1>1. m \in Mms /\ va \in Vas
  BY Zenon, InFault DEF LazyLoad
<1>2. MapUserPage(c, m, va, FreeFrame, Region[va].init, Region[va].w)
  BY Zenon DEF LazyLoad
<1>3. Path(va) \subseteq TableIds /\ Upper \in TableIds
  BY Zenon, <1>1 DEF Path, TableIds
<1>4. made \subseteq TableIds
  BY Zenon, <1>3
<1>5. tables[m] \cup made \in SUBSET TableIds
  BY Zenon, <1>1, <1>4 DEF OwnInv, Types
<1>6. tables' = [tables EXCEPT ![m] = tables[m] \cup made] /\ live' = live /\ forks' = forks
  BY Zenon, <1>2 DEF MapUserPage, Refused
<1>7. \/ /\ pt' = [pt EXCEPT ![m][va] = Entry(FreeFrame, Region[va].w)]
         /\ pages' = [pages EXCEPT ![m] = @ \cup {FreeFrame}]
         /\ ref' = [ref EXCEPT ![FreeFrame] = 1]
         /\ tlb' = Tlbi(m, {va}) /\ Resolved(c)
      \/ UNCHANGED <<pt, pages, ref>> /\ Refused(c)
  BY Zenon, <1>2 DEF MapUserPage
<1>8. mem' = [mem EXCEPT ![FreeFrame] = Region[va].init]
  BY Zenon, <1>2 DEF MapUserPage
<1>9. Faulting(c) /\ pt[m][va] = NoEntry /\ Region[va] # NoRegion /\ FreePages > 0
  BY Zenon DEF LazyLoad
<1> HIDE DEF made
<1>10. QED BY Zenon, <1>5, <1>6, <1>7, <1>8, <1>9

LEMMA LazyOwn ==
  ASSUME OwnInv, NEW c \in Cpus, LazyLoad(c) PROVE OwnInv'
<1> DEFINE m == run[c]  va == pc[c].va
<1>1. PICK T \in SUBSET TableIds :
           /\ tables' = [tables EXCEPT ![m] = T]
           /\ mem' = [mem EXCEPT ![FreeFrame] = Region[va].init]
           /\ Faulting(c) /\ live' = live /\ forks' = forks
           /\ pt[m][va] = NoEntry /\ Region[va] # NoRegion /\ FreePages > 0
           /\ \/ /\ pt' = [pt EXCEPT ![m][va] = Entry(FreeFrame, Region[va].w)]
                 /\ pages' = [pages EXCEPT ![m] = @ \cup {FreeFrame}]
                 /\ ref' = [ref EXCEPT ![FreeFrame] = 1]
                 /\ tlb' = Tlbi(m, {va}) /\ Resolved(c)
              \/ UNCHANGED <<pt, pages, ref>> /\ Refused(c)
  BY Zenon, LazyCases
<1>2. m \in Mms /\ m \in live /\ va \in Vas
  BY Zenon, <1>1, InFault
<1>3. PICK f, w, t, P : /\ f = FreeFrame /\ w = Region[va].w
                        /\ t = [pt[m] EXCEPT ![va] = Entry(f, w)] /\ P = pages[m] \cup {f}
  BY Zenon
<1>4. f \in Frames /\ ref[f] = 0 /\ f \notin pages[m] /\ w \in BOOLEAN
  BY Zenon, <1>1, <1>2, <1>3, FrameFree, Unowned, ConstantsOK DEF OwnInv
<1>5. mem' \in [Frames -> Contents]
  <2>1. Region[va].init \in Contents
    BY Zenon, <1>1, <1>2 DEF Contents
  <2>2. QED BY Zenon, <1>1, <2>1 DEF OwnInv, Types
<1>6. pt[m] \in [Vas -> Entries] /\ pages[m] \in SUBSET Frames /\ Leads(pt[m], pages[m])
  BY Zenon, <1>2, Mapped
<1>7. t \in [Vas -> Entries] /\ P \in SUBSET Frames
  BY Zenon, <1>2, <1>3, <1>4, <1>6, EntryFacts
<1>8. CASE /\ pt' = [pt EXCEPT ![m][va] = Entry(FreeFrame, Region[va].w)]
           /\ pages' = [pages EXCEPT ![m] = @ \cup {FreeFrame}]
           /\ ref' = [ref EXCEPT ![FreeFrame] = 1]
           /\ tlb' = Tlbi(m, {va}) /\ Resolved(c)
  <2>1. Leads(t, P)
    BY Zenon, <1>1, <1>2, <1>3, <1>4, <1>6, MapLeads
  <2>2. pt' = [pt EXCEPT ![m] = t] /\ pages' = [pages EXCEPT ![m] = P]
    BY Zenon, <1>2, <1>3, <1>8
  <2>3. ref' = [g \in Frames |-> ref'[g]]
    BY Zenon, <1>8 DEF OwnInv, Types
  <2>4. \A g \in Frames : ref'[g] = IF g \in P /\ g \notin pages[m] THEN ref[g] + 1
                                    ELSE IF g \notin P /\ g \in pages[m] THEN ref[g] - 1
                                    ELSE ref[g]
    BY <1>3, <1>4, <1>8 DEF OwnInv, Types
  <2>5. QED BY Zenon, <1>1, <1>5, <1>7, <1>8, <2>1, <2>2, <2>3, <2>4, FaultOwn
<1>9. CASE UNCHANGED <<pt, pages, ref>> /\ Refused(c)
  <2>1. /\ CallsOK' /\ tlb' \in [Cpus -> [Vas -> Entries]]
        /\ run' \in [Cpus -> Mms \cup {NoMm}]
        /\ \A d \in Cpus : run'[d] # NoMm => run'[d] \in live
        /\ \A d \in Cpus : pc'[d] # User => run'[d] # NoMm
    BY Zenon, <1>1, <1>9, RefusedCall
  <2>2. Types'
    BY Zenon, <1>1, <1>2, <1>5, <1>9, <2>1 DEF OwnInv, Types
  <2>3. LiveOK'
    <3>1. \A k \in Mms : k \notin live => tables'[k] = tables[k]
      BY Zenon, <1>1, <1>2 DEF OwnInv, Types
    <3>2. QED BY Zenon, <1>1, <1>9, <2>1, <3>1 DEF OwnInv, LiveOK
  <2>4. RefsOK'
    BY Zenon, <1>9 DEF OwnInv, RefsOK, Owners
  <2>5. QED BY Zenon, <1>9, <2>2, <2>3, <2>4 DEF OwnInv
<1>10. QED BY Zenon, <1>1, <1>8, <1>9

\* What a handler of a copy-on-write fault starts from.
LEMMA CowFault ==
  ASSUME OwnInv, NEW c \in Cpus, Faulting(c), Cow(c)
  PROVE  /\ run[c] \in Mms /\ run[c] \in live /\ pc[c].va \in Vas
         /\ pt[run[c]] \in [Vas -> Entries] /\ pages[run[c]] \in SUBSET Frames
         /\ Leads(pt[run[c]], pages[run[c]])
         /\ pt[run[c]][pc[c].va].f # 0 /\ pt[run[c]][pc[c].va].f \in pages[run[c]]
         /\ pt[run[c]][pc[c].va].f \in Frames /\ tables[run[c]] \in SUBSET TableIds
<1>1. run[c] \in Mms /\ run[c] \in live /\ pc[c].va \in Vas
  BY Zenon, InFault
<1>2. tables[run[c]] \in SUBSET TableIds
  BY Zenon, <1>1 DEF OwnInv, Types
<1>3. QED BY Zenon, <1>1, <1>2, Mapped DEF Cow

LEMMA UpgradeOwn ==
  ASSUME OwnInv, NEW c \in Cpus, CowUpgrade(c) PROVE OwnInv'
<1> DEFINE m == run[c]  va == pc[c].va
<1>1. Faulting(c) /\ Cow(c) /\ Resolved(c) /\ tlb' = Tlbi(m, {va})
      /\ UNCHANGED <<live, tables, pages, ref, mem>>
      /\ pt' = [pt EXCEPT ![m][va] = Entry(@.f, TRUE)]
  BY Zenon DEF CowUpgrade
<1>2. /\ m \in Mms /\ m \in live /\ va \in Vas
      /\ pt[m] \in [Vas -> Entries] /\ pages[m] \in SUBSET Frames /\ Leads(pt[m], pages[m])
      /\ pt[m][va].f # 0 /\ pt[m][va].f \in pages[m] /\ pt[m][va].f \in Frames
      /\ tables[m] \in SUBSET TableIds
  BY Zenon, <1>1, CowFault
<1>3. PICK t, e : t = [pt[m] EXCEPT ![va] = e] /\ e = Entry(pt[m][va].f, TRUE)
  BY Zenon
<1>4. e \in Entries /\ e.f = pt[m][va].f
  BY Zenon, <1>2, <1>3, EntryFacts
<1>5. t \in [Vas -> Entries] /\ t[va] = e /\ \A x \in Vas : x # va => t[x] = pt[m][x]
  BY Zenon, <1>2, <1>3, <1>4
<1>6. Leads(t, pages[m])
  <2>1. pt[m][va] # NoEntry
    BY Zenon, <1>2, EntryFacts
  <2>2. \A x \in Vas : t[x].f = pt[m][x].f /\ (pt[m][x] = NoEntry => t[x] = NoEntry)
    BY Zenon, <1>4, <1>5, <2>1
  <2>3. QED BY Zenon, <1>2, <2>2, SameLeads
<1>7. /\ pt' = [pt EXCEPT ![m] = t] /\ pages' = [pages EXCEPT ![m] = pages[m]]
      /\ tables' = [tables EXCEPT ![m] = tables[m]]
      /\ ref' = [g \in Frames |-> ref'[g]] /\ mem' \in [Frames -> Contents]
  BY Zenon, <1>1, <1>2, <1>3 DEF OwnInv, Types
<1>8. \A g \in Frames : ref'[g] = IF g \in pages[m] /\ g \notin pages[m] THEN ref[g] + 1
                                  ELSE IF g \notin pages[m] /\ g \in pages[m] THEN ref[g] - 1
                                  ELSE ref[g]
  BY Zenon, <1>1
<1>9. QED BY Zenon, <1>1, <1>2, <1>5, <1>6, <1>7, <1>8, FaultOwn

LEMMA CowCopyOwn ==
  ASSUME OwnInv, NEW c \in Cpus, CowCopy(c) PROVE OwnInv'
<1> DEFINE m == run[c]  va == pc[c].va
<1>1. PICK f, old : f = FreeFrame /\ old = pt[m][va].f
  BY Zenon
<1>2. /\ Faulting(c) /\ Cow(c) /\ Resolved(c) /\ tlb' = Tlbi(m, {va})
      /\ UNCHANGED <<live, tables>> /\ FreePages > 0
      /\ pt' = [pt EXCEPT ![m][va] = Entry(f, TRUE)]
      /\ mem' = [mem EXCEPT ![f] = mem[old]]
      /\ pages' = [pages EXCEPT ![m] = (@ \cup {f}) \ {old}]
      /\ ref' = [ref EXCEPT ![f] = 1, ![old] = @ - 1]
  BY Zenon, <1>1 DEF CowCopy
<1>3. /\ m \in Mms /\ m \in live /\ va \in Vas
      /\ pt[m] \in [Vas -> Entries] /\ pages[m] \in SUBSET Frames /\ Leads(pt[m], pages[m])
      /\ old # 0 /\ old \in pages[m] /\ old \in Frames
      /\ tables[m] \in SUBSET TableIds
  BY Zenon, <1>1, <1>2, CowFault
<1>4. f \in Frames /\ ref[f] = 0 /\ f \notin pages[m] /\ f # old
  BY Zenon, <1>1, <1>2, <1>3, FrameFree, Unowned DEF OwnInv
<1>5. PICK t, P : t = [pt[m] EXCEPT ![va] = Entry(f, TRUE)] /\ P = (pages[m] \cup {f}) \ {old}
  BY Zenon
<1>6. t \in [Vas -> Entries] /\ P \in SUBSET Frames
  BY Zenon, <1>3, <1>4, <1>5, EntryFacts
<1>7. Leads(t, P)
  BY Zenon, <1>1, <1>3, <1>4, <1>5, SwapLeads
<1>8. /\ pt' = [pt EXCEPT ![m] = t] /\ pages' = [pages EXCEPT ![m] = P]
      /\ tables' = [tables EXCEPT ![m] = tables[m]] /\ mem' \in [Frames -> Contents]
  BY Zenon, <1>2, <1>3, <1>5 DEF OwnInv, Types
<1>9. ref' = [g \in Frames |-> ref'[g]]
  BY Zenon, <1>2 DEF OwnInv, Types
<1>10. \A g \in Frames : ref'[g] = IF g \in P /\ g \notin pages[m] THEN ref[g] + 1
                                   ELSE IF g \notin P /\ g \in pages[m] THEN ref[g] - 1
                                   ELSE ref[g]
  <2>1. /\ ref'[f] = 1 /\ ref'[old] = ref[old] - 1
        /\ \A g \in Frames : g # f /\ g # old => ref'[g] = ref[g]
    BY Zenon, <1>2, <1>3, <1>4 DEF OwnInv, Types
  <2>2. QED BY <1>3, <1>4, <1>5, <2>1
<1>11. QED BY Zenon, <1>2, <1>3, <1>6, <1>7, <1>8, <1>9, <1>10, FaultOwn

LEMMA CowedTyped ==
  ASSUME OwnInv, NEW m \in Mms
  PROVE  /\ Cowed(m) \in [Vas -> Entries] /\ Leads(Cowed(m), pages[m])
         /\ \A va \in Vas : /\ Cowed(m)[va].f = pt[m][va].f
                            /\ Cowed(m)[va] = NoEntry <=> pt[m][va] = NoEntry
                            /\ Cowed(m)[va].w => Cowed(m)[va] = pt[m][va]
                            /\ va \in ClonedLeaves(m) => ~Cowed(m)[va].w
<1>1. pt[m] \in [Vas -> Entries] /\ Leads(pt[m], pages[m])
  BY Zenon DEF OwnInv, Types
<1>2. ASSUME NEW va \in Vas
      PROVE  /\ Cowed(m)[va] \in Entries /\ Cowed(m)[va].f = pt[m][va].f
             /\ Cowed(m)[va] = NoEntry <=> pt[m][va] = NoEntry
             /\ Cowed(m)[va].w => Cowed(m)[va] = pt[m][va]
             /\ va \in ClonedLeaves(m) => ~Cowed(m)[va].w
  <2>1. /\ pt[m][va] \in Entries
        /\ pt[m][va] # NoEntry <=> pt[m][va].f # 0
    BY Zenon, Mapped
  <2>2. CASE va \in ClonedLeaves(m)
    <3>1. Cowed(m)[va] = CowEntry(pt[m][va]) /\ pt[m][va] # NoEntry
      BY Zenon, <2>2 DEF Cowed, ClonedLeaves, Leaves
    <3>2. QED BY <2>1, <3>1, EntryFacts
  <2>3. CASE va \notin ClonedLeaves(m)
    <3>1. Cowed(m)[va] = pt[m][va]
      BY Zenon, <2>3 DEF Cowed
    <3>2. QED BY Zenon, <2>1, <2>3, <3>1
  <2>4. QED BY Zenon, <2>2, <2>3
<1>3. Cowed(m) \in [Vas -> Entries]
  <2>1. Cowed(m) = [va \in Vas |-> Cowed(m)[va]]
    BY Zenon DEF Cowed
  <2>2. QED BY Zenon, <1>2, <2>1
<1>4. Leads(Cowed(m), pages[m])
  <2>1. \A x \in Vas : Cowed(m)[x].f = pt[m][x].f /\ (pt[m][x] = NoEntry => Cowed(m)[x] = NoEntry)
    BY Zenon, <1>2
  <2>2. QED BY Zenon, <1>1, <2>1, SameLeads
<1>5. QED BY Zenon, <1>2, <1>3, <1>4

LEMMA CloneOwn ==
  ASSUME OwnInv, NEW c \in Cpus, NEW n \in Mms, MmuContextClone(c, n) PROVE OwnInv'
<1> DEFINE m == run[c]
<1>1. /\ m # NoMm /\ n \notin live /\ tlb' = Tlbi(m, Vas) /\ UNCHANGED <<mem, run, pc>>
  BY Zenon DEF MmuContextClone
<1>2. m \in Mms /\ m \in live /\ n # m
  BY Zenon, <1>1 DEF OwnInv, Types, LiveOK
<1>3. pages[n] = {} /\ pages[m] \in SUBSET Frames /\ tables[m] \in SUBSET TableIds
  BY Zenon, <1>1, <1>2 DEF OwnInv, LiveOK, Types
<1>4. Cowed(m) \in [Vas -> Entries] /\ Leads(Cowed(m), pages[m])
  BY Zenon, <1>2, CowedTyped
<1>5. tlb' \in [Cpus -> [Vas -> Entries]]
  BY Zenon, <1>1, TlbiTyped DEF OwnInv
<1>6. CallsOK'
  BY Zenon, <1>1 DEF OwnInv, Types, CallsOK
<1>7. CASE CloneOk(m)
  <2>1. /\ live' = live \cup {n}
        /\ pt' = [pt EXCEPT ![m] = Cowed(m), ![n] = Cowed(m)]
        /\ tables' = [tables EXCEPT ![n] = tables[m]]
        /\ pages' = [pages EXCEPT ![n] = pages[m]]
        /\ ref' = [f \in Frames |-> IF f \in pages[m] THEN ref[f] + 1 ELSE ref[f]]
    BY Zenon, <1>7 DEF MmuContextClone
  <2>2. ref' \in [Frames -> Nat]
    BY <2>1 DEF OwnInv, Types
  <2>3. Types'
    BY Zenon, <1>1, <1>2, <1>3, <1>4, <1>5, <1>6, <2>1, <2>2 DEF OwnInv, Types
  <2>4. ASSUME NEW f \in Frames PROVE ref'[f] = Cardinality(Owners(f))'
    <3>1. /\ f \in pages[m] /\ f \notin pages[n] => Cardinality(Owners(f))' = ref[f] + 1
          /\ (f \in pages[m] <=> f \in pages[n]) => Cardinality(Owners(f))' = ref[f]
      BY Zenon, <2>1, OwnersChange DEF OwnInv
    <3>2. QED BY Zenon, <1>3, <2>1, <3>1
  <2>5. ASSUME NEW k \in Mms PROVE Leads(pt'[k], pages'[k])
    <3>1. CASE k = n \/ k = m
      <4>1. pt'[k] = Cowed(m) /\ pages'[k] = pages[m]
        BY Zenon, <1>2, <2>1, <3>1 DEF OwnInv, Types
      <4>2. QED BY Zenon, <1>4, <4>1
    <3>2. CASE k # n /\ k # m
      <4>1. pt'[k] = pt[k] /\ pages'[k] = pages[k]
        BY Zenon, <2>1, <3>2 DEF OwnInv, Types
      <4>2. QED BY Zenon, <4>1 DEF OwnInv
    <3>3. QED BY Zenon, <3>1, <3>2
  <2>6. LiveOK'
    BY Zenon, <1>1, <2>1 DEF OwnInv, LiveOK, Types
  <2>7. QED BY Zenon, <2>3, <2>4, <2>5, <2>6 DEF OwnInv, RefsOK
<1>8. CASE ~CloneOk(m)
  <2>1. pt' = [pt EXCEPT ![m] = Cowed(m)] /\ UNCHANGED <<live, tables, pages, ref>>
    BY Zenon, <1>8 DEF MmuContextClone
  <2>2. Types'
    BY Zenon, <1>1, <1>2, <1>4, <1>5, <1>6, <2>1 DEF OwnInv, Types
  <2>3. RefsOK'
    BY Zenon, <2>1 DEF OwnInv, RefsOK, Owners
  <2>4. ASSUME NEW k \in Mms PROVE Leads(pt'[k], pages'[k])
    BY Zenon, <1>2, <1>4, <2>1 DEF OwnInv, Types
  <2>5. LiveOK'
    BY Zenon, <1>1, <2>1 DEF OwnInv, LiveOK
  <2>6. QED BY Zenon, <2>2, <2>3, <2>4, <2>5 DEF OwnInv
<1>9. QED BY Zenon, <1>7, <1>8

LEMMA FirstOfTable == \A va \in Vas : FirstEntry(va) \in Vas /\ (PerTable = 1 => FirstEntry(va) = va)
<1>1. ASSUME NEW va \in Vas PROVE FirstEntry(va) \in Vas
  BY Zenon, ConstantsOK DEF FirstEntry
<1>2. ASSUME NEW va \in Vas, PerTable = 1 PROVE FirstEntry(va) = va
  <2>1. va \in Nat
    BY Zenon, ConstantsOK
  <2>2. va \div 1 = va /\ 1 * va = va
    BY <2>1
  <2>3. QED BY Zenon, <1>2, <2>2 DEF FirstEntry
<1>3. QED BY Zenon, <1>1, <1>2

\* The step clears the entries S, which lead to the pages D, and flushes H.
Unmaps(m, S, D, H) ==
  /\ "munmap" \in Ops /\ m \in Mms /\ m \in live /\ D = {pt[m][x].f : x \in S}
  /\ (\A x \in S : pt[m][x] # NoEntry) /\ D \subseteq pages[m]
  /\ pt' = [pt EXCEPT ![m] = [x \in Vas |-> IF x \in S THEN NoEntry ELSE pt[m][x]]]
  /\ pages' = [pages EXCEPT ![m] = pages[m] \ D]
  /\ ref' = [f \in Frames |-> IF f \in D THEN ref[f] - 1 ELSE ref[f]]
  /\ mem' = Scrubbed(D) /\ tlb' = Tlbi(m, H)
  /\ UNCHANGED <<live, tables, run, pc, forks>>

LEMMA UnmapCases ==
  ASSUME OwnInv, NEW c \in Cpus, NEW lo \in Vas, NEW hi \in Vas, MmuUnmapUserRange(c, lo, hi)
  PROVE  \E S \in SUBSET Vas, D \in SUBSET Frames, H \in SUBSET Vas :
           Unmaps(run[c], S, D, H) /\ (PerTable = 1 => H = S)
<1> DEFINE m == run[c]
           range == {va \in Vas : lo <= va /\ va <= hi}
           hit == {va \in range : pt[m][FirstEntry(va)] # NoEntry
                                  /\ \A x \in range : x < va => L3(x) # L3(va)}
           S == {FirstEntry(va) : va \in hit}
           D == {pt[m][va].f : va \in S}
<1>1. hit \in SUBSET Vas
  BY Zenon
<1>2. m \in Mms /\ m \in live
  BY Zenon DEF MmuUnmapUserRange, OwnInv, Types, LiveOK
<1>3. S \in SUBSET Vas /\ \A x \in S : pt[m][x] # NoEntry
  BY Zenon, FirstOfTable
<1>4. D \subseteq pages[m] /\ pages[m] \in SUBSET Frames
  BY Zenon, <1>2, <1>3, Mapped
<1>5. PerTable = 1 => hit = S
  BY Zenon, <1>1, FirstOfTable
<1>6. /\ "munmap" \in Ops
      /\ pt' = [pt EXCEPT ![m] = [x \in Vas |-> IF x \in S THEN NoEntry ELSE pt[m][x]]]
      /\ pages' = [pages EXCEPT ![m] = pages[m] \ D]
      /\ ref' = [f \in Frames |-> IF f \in D THEN ref[f] - 1 ELSE ref[f]]
      /\ mem' = Scrubbed(D) /\ tlb' = Tlbi(m, hit)
      /\ UNCHANGED <<live, tables, run, pc, forks>>
  BY Zenon DEF MmuUnmapUserRange
<1>7. Unmaps(m, S, D, hit)
  BY Zenon, <1>2, <1>3, <1>4, <1>6 DEF Unmaps
<1>8. D \in SUBSET Frames
  BY Zenon, <1>4
<1> HIDE DEF hit, S, D, m
<1>9. QED BY Zenon, <1>1, <1>3, <1>5, <1>7, <1>8 DEF m

LEMMA UnmapOwn ==
  ASSUME OwnInv, NEW c \in Cpus, NEW lo \in Vas, NEW hi \in Vas, MmuUnmapUserRange(c, lo, hi)
  PROVE  OwnInv'
<1> DEFINE m == run[c]
<1>1. PICK S \in SUBSET Vas, D \in SUBSET Frames, H \in SUBSET Vas : Unmaps(m, S, D, H)
  BY Zenon, UnmapCases
<1> USE DEF Unmaps
<1>2. PICK t, P : t = [x \in Vas |-> IF x \in S THEN NoEntry ELSE pt[m][x]] /\ P = pages[m] \ D
  BY Zenon
<1>3. pt[m] \in [Vas -> Entries] /\ pages[m] \in SUBSET Frames /\ Leads(pt[m], pages[m])
  BY Zenon, <1>1 DEF OwnInv, Types
<1>4. t \in [Vas -> Entries] /\ P \in SUBSET Frames
  BY Zenon, <1>2, <1>3, EntryFacts
<1>5. Leads(t, P)
  BY Zenon, <1>1, <1>2, <1>3, ClearLeads
<1>6. \A f \in Frames : ref'[f] = IF f \in P /\ f \notin pages[m] THEN ref[f] + 1
                                  ELSE IF f \notin P /\ f \in pages[m] THEN ref[f] - 1
                                  ELSE ref[f]
  BY Zenon, <1>1, <1>2
<1>7. pt' = [pt EXCEPT ![m] = t] /\ pages' = [pages EXCEPT ![m] = P] /\ ref' = [f \in Frames |-> ref'[f]]
  BY Zenon, <1>1, <1>2
<1>8. /\ pt' \in [Mms -> [Vas -> Entries]] /\ pages' \in [Mms -> SUBSET Frames]
      /\ ref' \in [Frames -> Nat] /\ RefsOK' /\ \A k \in Mms : Leads(pt'[k], pages'[k])
  BY Zenon, <1>1, <1>4, <1>5, <1>6, <1>7, ContextChange
<1>9. mem' \in [Frames -> Contents]
  BY Zenon, <1>1 DEF OwnInv, Types, Scrubbed, Contents
<1>10. tlb' \in [Cpus -> [Vas -> Entries]]
  BY Zenon, <1>1, TlbiTyped DEF OwnInv
<1>11. Types'
  BY Zenon, <1>1, <1>8, <1>9, <1>10 DEF OwnInv, Types, CallsOK
<1>12. LiveOK'
  <2>1. \A k \in Mms : k \notin live => pages'[k] = pages[k]
    BY Zenon, <1>1 DEF OwnInv, Types
  <2>2. QED BY Zenon, <1>1, <2>1 DEF OwnInv, LiveOK
<1>13. QED BY Zenon, <1>8, <1>11, <1>12 DEF OwnInv

LEMMA OwnInit == Init => OwnInv
<1> SUFFICES ASSUME Init PROVE OwnInv
  BY Zenon
<1>1. Types
  <2>1. 0 \in Contents
    BY Zenon DEF Contents
  <2>2. CallsOK
    BY Zenon, UserCall DEF Init, CallsOK
  <2>3. QED BY Zenon, <2>1, <2>2, NoTlbTyped DEF Init, Types
<1>2. \A m \in Mms : Leads(pt[m], pages[m])
  BY Zenon, NoTlbTyped, EntryFacts DEF Init, Leads
<1>3. RefsOK
  <2>1. SUFFICES ASSUME NEW f \in Frames PROVE Cardinality(Owners(f)) = 0 /\ ref[f] = 0
    BY Zenon DEF RefsOK
  <2>2. Owners(f) = {}
    BY Zenon DEF Init, Owners
  <2>3. QED BY Zenon, <2>2, FS_EmptySet DEF Init
<1>4. LiveOK
  BY Zenon DEF Init, LiveOK
<1>5. QED BY Zenon, <1>1, <1>2, <1>3, <1>4 DEF OwnInv

LEMMA OwnStep == OwnInv /\ [Next]_vars => OwnInv'
<1> SUFFICES ASSUME OwnInv, [Next]_vars PROVE OwnInv'
  BY Zenon
<1>1. CASE UNCHANGED vars
  <2>1. UNCHANGED <<live, pt, tables, pages, ref, mem, tlb, run, pc>>
    BY Zenon, <1>1 DEF vars
  <2>2. /\ mem' \in [Frames -> Contents] /\ tlb' \in [Cpus -> [Vas -> Entries]]
        /\ run' \in [Cpus -> Mms \cup {NoMm}] /\ CallsOK'
    BY Zenon, <2>1 DEF OwnInv, Types, CallsOK
  <2>3. /\ \A c \in Cpus : run'[c] # NoMm => run'[c] \in live
        /\ \A c \in Cpus : pc'[c] # User => run'[c] # NoMm
    BY Zenon, <2>1 DEF OwnInv, LiveOK
  <2>4. QED BY Zenon, <2>1, <2>2, <2>3, SpacesKept
<1>2. ASSUME NEW m \in Mms, MmuContextCreate(m) PROVE OwnInv'
  BY Zenon, <1>2, CreateOwn
<1>3. ASSUME NEW m \in Mms, MmuContextRelease(m) PROVE OwnInv'
  BY Zenon, <1>3, ReleaseOwn
<1>4. ASSUME NEW c \in Cpus, NEW m \in Mms \cup {NoMm}, MmuContextSwitch(c, m) PROVE OwnInv'
  BY Zenon, <1>4, SwitchOwn
<1>5. ASSUME NEW c \in Cpus, NEW n \in Mms, MmuContextClone(c, n) PROVE OwnInv'
  BY Zenon, <1>5, CloneOwn
<1>6. ASSUME NEW c \in Cpus, NEW va \in Vas, Walk(c, va) PROVE OwnInv'
  BY Zenon, <1>6, WalkOwn
<1>7. ASSUME NEW c \in Cpus, NEW va \in Vas, NEW v \in Vals, Store(c, va, v) PROVE OwnInv'
  BY Zenon, <1>7, StoreOwn
<1>8. ASSUME NEW c \in Cpus, NEW va \in Vas, NEW w \in BOOLEAN, Abort(c, va, w) PROVE OwnInv'
  BY Zenon, <1>8, AbortOwn
<1>9. ASSUME NEW c \in Cpus, NEW va \in Vas, NEW hi \in Vas, MmuUnmapUserRange(c, va, hi)
      PROVE  OwnInv'
  BY Zenon, <1>9, UnmapOwn
<1>10. ASSUME NEW c \in Cpus, NEW v \in Vals, NEW w \in BOOLEAN, CopyUser(c, Copied, v, w)
       PROVE  OwnInv'
  BY Zenon, <1>10, CopyUserOwn
<1>11. ASSUME NEW c \in Cpus, PageFault(c) PROVE OwnInv'
  BY Zenon, <1>11, AlreadyOwn, LazyOwn, UpgradeOwn, CowCopyOwn, FailOwn DEF PageFault
<1>12. ASSUME NEW c \in Cpus, MmuCopyUserRange(c) PROVE OwnInv'
  BY Zenon, <1>12, CopyRangeOwn
<1>13. QED
  BY Zenon, <1>1, <1>2, <1>3, <1>4, <1>5, <1>6, <1>7, <1>8, <1>9, <1>10, <1>11, <1>12 DEF Next

LEMMA OwnAlways == Spec => []OwnInv
BY OwnInit, OwnStep, PTL DEF Spec

LEMMA OwnExact == OwnInv => OwnershipExact
<1> SUFFICES ASSUME OwnInv PROVE OwnershipExact
  BY Zenon
<1>1. ASSUME NEW m \in Mms
      PROVE  /\ pages[m] = {pt[m][va].f : va \in Leaves(m)}
             /\ Cardinality(pages[m]) = Cardinality(Leaves(m))
             /\ Leaves(m) # {} => m \in live
  <2> DEFINE g == [va \in Leaves(m) |-> pt[m][va].f]
  <2>1. /\ Leads(pt[m], pages[m]) /\ pages[m] \in SUBSET Frames
        /\ \A va \in Vas : /\ pt[m][va] # NoEntry <=> pt[m][va].f # 0
                           /\ pt[m][va] # NoEntry => pt[m][va].f \in pages[m]
    <3>1. Leads(pt[m], pages[m]) /\ pages[m] \in SUBSET Frames
      BY Zenon DEF OwnInv, Types
    <3>2. QED BY Zenon, <3>1, Mapped
  <2>2. \A f \in pages[m] : f # 0 /\ \E va \in Leaves(m) : pt[m][va].f = f
    <3>1. SUFFICES ASSUME NEW f \in pages[m] PROVE f # 0 /\ \E va \in Leaves(m) : pt[m][va].f = f
      BY Zenon
    <3>2. f # 0
      BY Zenon, <2>1, ConstantsOK
    <3>3. PICK va \in Vas : pt[m][va].f = f
      BY Zenon, <2>1 DEF Leads
    <3>4. va \in Leaves(m)
      BY Zenon, <2>1, <3>2, <3>3 DEF Leaves
    <3>5. QED BY Zenon, <3>2, <3>3, <3>4
  <2>3. \A va \in Leaves(m) : pt[m][va].f \in pages[m] /\ pt[m][va].f # 0 /\ va \in Vas
    BY Zenon, <2>1 DEF Leaves
  <2>4. pages[m] = {pt[m][va].f : va \in Leaves(m)}
    BY <2>2, <2>3
  <2>5. g \in Bijection(Leaves(m), pages[m])
    <3>1. g \in [Leaves(m) -> pages[m]] /\ \A f \in pages[m] : \E va \in Leaves(m) : g[va] = f
      BY Zenon, <2>2, <2>3
    <3>2. \A va, vb \in Leaves(m) : g[va] = g[vb] => va = vb
      BY Zenon, <2>1, <2>3 DEF Leads
    <3>3. QED BY Zenon, <3>1, <3>2 DEF Bijection, Injection, Surjection, IsInjective
  <2>6. IsFiniteSet(Leaves(m))
    <3>1. Leaves(m) \in SUBSET Vas
      BY Zenon DEF Leaves
    <3>2. QED BY Zenon, <3>1, Finite, FS_Subset
  <2>7. Cardinality(pages[m]) = Cardinality(Leaves(m))
    BY Zenon, <2>5, <2>6, FS_Bijection DEF ExistsBijection
  <2>8. Leaves(m) # {} => m \in live
    BY Zenon, <2>3 DEF OwnInv, LiveOK
  <2>9. QED BY Zenon, <2>4, <2>7, <2>8
<1>2. \A f \in Frames : ref[f] = Cardinality({m \in Mms : f \in pages[m]})
  BY Zenon DEF OwnInv, RefsOK, Owners
<1>3. QED BY Zenon, <1>1, <1>2 DEF OwnershipExact

\* For any number of contexts, CPUs and pages, the three records of a page agree: a
\* context owns the pages its tables map, each at one address, and page_alloc.c counts
\* its owners, after forks that fail half way, faults that run out of memory, unmaps that
\* clear another entry than the one asked for, copies and exits.
THEOREM OwnershipKept == Spec => []OwnershipExact
BY OwnAlways, OwnExact, PTL

(***************************************************************************)
(* The TLBs, and who may write to a page.                                  *)
(***************************************************************************)
\* The build in which munmap() flushes what it clears: a table has one entry, or no
\* program unmaps.
Flushes == PerTable = 1 \/ "munmap" \notin Ops

\* A page that some tables map writable has one owner.
WritesOK == \A m \in Mms, va \in Vas : pt[m][va].w => ref[pt[m][va].f] = 1

LEMMA Coherent ==
  ASSUME TlbCoherent,
         \A d \in Cpus, va \in Vas :
           \/ tlb'[d][va] = NoEntry
           \/ /\ tlb'[d][va] = tlb[d][va] /\ run'[d] = run[d]
              /\ run[d] # NoMm => pt'[run[d]][va] = pt[run[d]][va]
  PROVE  TlbCoherent'
BY DEF TlbCoherent

LEMMA TlbiEntry ==
  ASSUME NEW m, NEW S, NEW d \in Cpus, NEW va \in Vas
  PROVE  Tlbi(m, S)[d][va] = IF run[d] = m /\ va \in S THEN NoEntry ELSE tlb[d][va]
BY Zenon DEF Tlbi

\* The tables of one context change where they are flushed.
Flushed(m, t, S) ==
  /\ tlb' = Tlbi(m, S) /\ run' = run /\ pt' = [pt EXCEPT ![m] = t]
  /\ \A va \in Vas : va \notin S => t[va] = pt[m][va]

LEMMA CoherentFlush ==
  ASSUME OwnInv, TlbCoherent, NEW m \in Mms, NEW t, NEW S, Flushed(m, t, S) PROVE TlbCoherent'
<1> USE DEF Flushed
<1>1. ASSUME NEW d \in Cpus, NEW va \in Vas
      PROVE  \/ tlb'[d][va] = NoEntry
             \/ /\ tlb'[d][va] = tlb[d][va] /\ run'[d] = run[d]
                /\ run[d] # NoMm => pt'[run[d]][va] = pt[run[d]][va]
  <2>1. tlb'[d][va] = IF run[d] = m /\ va \in S THEN NoEntry ELSE tlb[d][va]
    BY TlbiEntry
  <2>2. ASSUME run[d] # NoMm, run[d] # m PROVE pt'[run[d]][va] = pt[run[d]][va]
    BY Zenon, <2>2 DEF OwnInv, Types
  <2>3. pt'[m] = t
    BY Zenon DEF OwnInv, Types
  <2>4. QED BY Zenon, <2>1, <2>2, <2>3
<1>2. QED BY Zenon, <1>1, Coherent

\* A thread that is refused loses its translations with its context.
LEMMA CoherentRefused ==
  ASSUME OwnInv, TlbCoherent, NEW c \in Cpus, Refused(c), pt' = pt PROVE TlbCoherent'
<1>1. ASSUME NEW d \in Cpus, NEW va \in Vas
      PROVE  tlb'[d][va] = NoEntry \/ (tlb'[d][va] = tlb[d][va] /\ run'[d] = run[d])
  <2>1. CASE pc[c].at = "fault" /\ d = c
    <3>1. tlb'[d] = NoTlb
      BY Zenon, <2>1 DEF Refused, OwnInv, Types
    <3>2. QED BY Zenon, <3>1, NoTlbTyped
  <2>2. CASE ~(pc[c].at = "fault" /\ d = c)
    BY Zenon, <2>2 DEF Refused, OwnInv, Types
  <2>3. QED BY Zenon, <2>1, <2>2
<1>2. QED BY Zenon, <1>1, Coherent

LEMMA MapLazyMem ==
  ASSUME OwnInv, TlbCoherent, WritesOK, NEW c \in Cpus, LazyLoad(c)
  PROVE  TlbCoherent' /\ WritesOK'
<1> DEFINE m == run[c]  va == pc[c].va
<1>1. /\ Faulting(c) /\ pt[m][va] = NoEntry /\ Region[va] # NoRegion /\ FreePages > 0
      /\ \/ /\ pt' = [pt EXCEPT ![m][va] = Entry(FreeFrame, Region[va].w)]
            /\ ref' = [ref EXCEPT ![FreeFrame] = 1]
            /\ tlb' = Tlbi(m, {va}) /\ Resolved(c)
         \/ UNCHANGED <<pt, pages, ref>> /\ Refused(c)
  BY Zenon, LazyCases
<1>2. m \in Mms /\ va \in Vas
  BY Zenon, <1>1, InFault
<1>3. CASE UNCHANGED <<pt, pages, ref>> /\ Refused(c)
  BY Zenon, <1>3, CoherentRefused DEF WritesOK
<1>4. CASE /\ pt' = [pt EXCEPT ![m][va] = Entry(FreeFrame, Region[va].w)]
           /\ ref' = [ref EXCEPT ![FreeFrame] = 1]
           /\ tlb' = Tlbi(m, {va}) /\ Resolved(c)
  <2>1. PICK f, e, t : /\ f = FreeFrame /\ e = Entry(f, Region[va].w)
                       /\ t = [pt[m] EXCEPT ![va] = e]
    BY Zenon
  <2>2. f \in Frames /\ ref[f] = 0 /\ Region[va].w \in BOOLEAN
    BY Zenon, <1>1, <1>2, <2>1, FrameFree, ConstantsOK DEF OwnInv
  <2>3. e.f = f
    BY Zenon, <2>1, <2>2, EntryFacts
  <2>4. pt' = [pt EXCEPT ![m] = t] /\ run' = run /\ \A x \in Vas : x \notin {va} => t[x] = pt[m][x]
    BY Zenon, <1>2, <1>4, <2>1 DEF OwnInv, Types, Resolved
  <2>5. TlbCoherent'
    <3>1. Flushed(m, t, {va})
      BY Zenon, <1>4, <2>4 DEF Flushed
    <3>2. QED BY Zenon, <1>2, <3>1, CoherentFlush
  <2>6. WritesOK'
    <3>1. SUFFICES ASSUME NEW k \in Mms, NEW x \in Vas, pt'[k][x].w
                   PROVE  ref'[pt'[k][x].f] = 1
      BY Zenon DEF WritesOK
    <3>2. CASE k = m /\ x = va
      <4>1. pt'[k][x] = e
        BY Zenon, <1>2, <2>1, <2>4, <3>2 DEF OwnInv, Types
      <4>2. QED BY Zenon, <1>4, <2>1, <2>2, <2>3, <4>1 DEF OwnInv, Types
    <3>3. CASE ~(k = m /\ x = va)
      <4>1. pt'[k][x] = pt[k][x]
        BY Zenon, <1>2, <2>1, <2>4, <3>3 DEF OwnInv, Types
      <4>2. ref[pt[k][x].f] = 1
        BY Zenon, <3>1, <4>1 DEF WritesOK
      <4>3. pt[k][x].f \in Frames
        BY Zenon, <3>1, <4>1, Mapped
      <4>4. QED BY Zenon, <1>4, <2>1, <2>2, <4>1, <4>2, <4>3 DEF OwnInv, Types
    <3>4. QED BY Zenon, <3>2, <3>3
  <2>7. QED BY Zenon, <2>5, <2>6
<1>5. QED BY Zenon, <1>1, <1>3, <1>4

LEMMA UpgradeMem ==
  ASSUME OwnInv, TlbCoherent, WritesOK, NEW c \in Cpus, CowUpgrade(c)
  PROVE  TlbCoherent' /\ WritesOK'
<1> DEFINE m == run[c]  va == pc[c].va
<1>1. /\ Faulting(c) /\ Cow(c) /\ Resolved(c) /\ tlb' = Tlbi(m, {va}) /\ ref' = ref
      /\ ref[pt[m][va].f] = 1 /\ pt' = [pt EXCEPT ![m][va] = Entry(@.f, TRUE)]
  BY Zenon DEF CowUpgrade
<1>2. m \in Mms /\ va \in Vas /\ pt[m] \in [Vas -> Entries] /\ pt[m][va].f \in Frames
  BY Zenon, <1>1, CowFault
<1>3. PICK e, t : e = Entry(pt[m][va].f, TRUE) /\ t = [pt[m] EXCEPT ![va] = e]
  BY Zenon
<1>4. e.f = pt[m][va].f
  BY Zenon, <1>2, <1>3, EntryFacts
<1>5. pt' = [pt EXCEPT ![m] = t] /\ run' = run /\ \A x \in Vas : x \notin {va} => t[x] = pt[m][x]
  BY Zenon, <1>1, <1>2, <1>3 DEF OwnInv, Types, Resolved
<1>6. TlbCoherent'
  <2>1. Flushed(m, t, {va})
    BY Zenon, <1>1, <1>5 DEF Flushed
  <2>2. QED BY Zenon, <1>2, <2>1, CoherentFlush
<1>7. \A k \in Mms, x \in Vas : pt'[k][x] = pt[k][x] \/ (k = m /\ x = va /\ pt'[k][x] = e)
  BY Zenon, <1>2, <1>3, <1>5 DEF OwnInv, Types
<1>8. WritesOK'
  BY Zenon, <1>1, <1>4, <1>7 DEF WritesOK
<1>9. QED BY Zenon, <1>6, <1>8

LEMMA CowCopyMem ==
  ASSUME OwnInv, TlbCoherent, WritesOK, NEW c \in Cpus, CowCopy(c)
  PROVE  TlbCoherent' /\ WritesOK'
<1> DEFINE m == run[c]  va == pc[c].va
<1>1. PICK f, old, e, t : /\ f = FreeFrame /\ old = pt[m][va].f /\ e = Entry(f, TRUE)
                          /\ t = [pt[m] EXCEPT ![va] = e]
  BY Zenon
<1>2. /\ Faulting(c) /\ Cow(c) /\ Resolved(c) /\ tlb' = Tlbi(m, {va}) /\ FreePages > 0
      /\ ref[old] # 1 /\ pt' = [pt EXCEPT ![m][va] = e]
      /\ ref' = [ref EXCEPT ![f] = 1, ![old] = @ - 1]
  BY Zenon, <1>1 DEF CowCopy
<1>3. /\ m \in Mms /\ va \in Vas /\ pt[m] \in [Vas -> Entries] /\ old \in Frames /\ old \in pages[m]
  BY Zenon, <1>1, <1>2, CowFault
<1>4. f \in Frames /\ ref[f] = 0 /\ f \notin pages[m]
  BY Zenon, <1>1, <1>2, <1>3, FrameFree, Unowned DEF OwnInv
<1>5. e.f = f /\ f # old
  BY Zenon, <1>1, <1>3, <1>4, EntryFacts
<1>6. pt' = [pt EXCEPT ![m] = t] /\ run' = run /\ \A x \in Vas : x \notin {va} => t[x] = pt[m][x]
  BY Zenon, <1>1, <1>2, <1>3 DEF OwnInv, Types, Resolved
<1>7. TlbCoherent'
  <2>1. Flushed(m, t, {va})
    BY Zenon, <1>2, <1>6 DEF Flushed
  <2>2. QED BY Zenon, <1>3, <2>1, CoherentFlush
<1>8. \A k \in Mms, x \in Vas : pt'[k][x] = pt[k][x] \/ (k = m /\ x = va /\ pt'[k][x] = e)
  BY Zenon, <1>1, <1>3, <1>6 DEF OwnInv, Types
<1>9. ref'[f] = 1 /\ \A g \in Frames : g # f /\ g # old => ref'[g] = ref[g]
  BY Zenon, <1>2, <1>3, <1>4, <1>5 DEF OwnInv, Types
<1>10. WritesOK'
  <2>1. SUFFICES ASSUME NEW k \in Mms, NEW x \in Vas, pt'[k][x].w PROVE ref'[pt'[k][x].f] = 1
    BY Zenon DEF WritesOK
  <2>2. CASE pt'[k][x] = e
    BY Zenon, <1>5, <1>9, <2>2
  <2>3. CASE pt'[k][x] = pt[k][x]
    <3>1. ref[pt[k][x].f] = 1 /\ pt[k][x].f \in Frames
      BY Zenon, <2>1, <2>3, Mapped DEF WritesOK
    <3>2. pt[k][x].f # f /\ pt[k][x].f # old
      BY <1>2, <1>4, <3>1
    <3>3. QED BY Zenon, <1>9, <2>3, <3>1, <3>2
  <2>4. QED BY Zenon, <1>8, <2>2, <2>3
<1>11. QED BY Zenon, <1>7, <1>10

LEMMA CloneMem ==
  ASSUME OwnInv, TlbCoherent, WritesOK, NEW c \in Cpus, NEW n \in Mms, MmuContextClone(c, n)
  PROVE  TlbCoherent' /\ WritesOK'
<1> DEFINE m == run[c]
<1>1. m # NoMm /\ n \notin live /\ tlb' = Tlbi(m, Vas) /\ run' = run
  BY Zenon DEF MmuContextClone
<1>2. m \in Mms /\ m \in live /\ n # m
  BY Zenon, <1>1 DEF OwnInv, Types, LiveOK
<1>3. /\ \A k \in Mms : k # m /\ k # n => pt'[k] = pt[k]
      /\ pt'[m] = Cowed(m) /\ (CloneOk(m) => pt'[n] = Cowed(m)) /\ (~CloneOk(m) => pt'[n] = pt[n])
      /\ CloneOk(m) => ref' = [f \in Frames |-> IF f \in pages[m] THEN ref[f] + 1 ELSE ref[f]]
      /\ ~CloneOk(m) => ref' = ref
  BY Zenon, <1>2 DEF MmuContextClone, OwnInv, Types
<1>4. TlbCoherent'
  <2>1. ASSUME NEW d \in Cpus, NEW va \in Vas
        PROVE  \/ tlb'[d][va] = NoEntry
               \/ /\ tlb'[d][va] = tlb[d][va] /\ run'[d] = run[d]
                  /\ run[d] # NoMm => pt'[run[d]][va] = pt[run[d]][va]
    <3>1. tlb'[d][va] = IF run[d] = m /\ va \in Vas THEN NoEntry ELSE tlb[d][va]
      BY <1>1, TlbiEntry
    <3>2. run[d] # NoMm => run[d] \in Mms /\ run[d] # n
      BY Zenon, <1>1 DEF OwnInv, Types, LiveOK
    <3>3. QED BY Zenon, <1>1, <1>3, <3>1, <3>2
  <2>2. QED BY Zenon, <2>1, Coherent
<1>5. ASSUME NEW k \in Mms, NEW x \in Vas, pt'[k][x].w PROVE ref'[pt'[k][x].f] = 1
  <2>1. /\ Cowed(m)[x].w => Cowed(m)[x] = pt[m][x]
        /\ x \in ClonedLeaves(m) => ~Cowed(m)[x].w
    BY Zenon, <1>2, CowedTyped
  <2>2. CASE CloneOk(m)
    <3>1. ~Cowed(m)[x].w
      <4>1. SUFFICES ASSUME Cowed(m)[x].w PROVE FALSE
        BY Zenon
      <4>2. pt[m][x] # NoEntry
        BY Zenon, <1>2, <2>1, <4>1, Mapped
      <4>3. x \in ClonedLeaves(m)
        BY Zenon, <2>2, <4>2 DEF CloneOk, Leaves
      <4>4. QED BY Zenon, <2>1, <4>1, <4>3
    <3>2. k # m /\ k # n /\ pt'[k][x] = pt[k][x]
      BY Zenon, <1>3, <1>5, <2>2, <3>1
    <3>3. ref[pt[k][x].f] = 1 /\ pt[k][x].f \in pages[k] /\ pt[k][x].f \in Frames
      BY Zenon, <1>5, <3>2, Mapped DEF WritesOK
    <3>4. pt[k][x].f \notin pages[m]
      BY Zenon, <1>2, <3>2, <3>3, OneOwner DEF OwnInv
    <3>5. QED BY <1>3, <2>2, <3>2, <3>3, <3>4
  <2>3. CASE ~CloneOk(m)
    <3>1. pt'[k][x] = pt[k][x]
      BY Zenon, <1>3, <1>5, <2>1, <2>3
    <3>2. QED BY <1>3, <1>5, <2>3, <3>1 DEF WritesOK
  <2>4. QED BY Zenon, <2>2, <2>3
<1>6. QED BY Zenon, <1>4, <1>5 DEF WritesOK

LEMMA UnmapMem ==
  ASSUME OwnInv, TlbCoherent, WritesOK, Flushes, NEW c \in Cpus, NEW lo \in Vas, NEW hi \in Vas,
         MmuUnmapUserRange(c, lo, hi)
  PROVE  TlbCoherent' /\ WritesOK'
<1> DEFINE m == run[c]
<1>1. PICK S \in SUBSET Vas, D \in SUBSET Frames, H \in SUBSET Vas :
        Unmaps(m, S, D, H) /\ (PerTable = 1 => H = S)
  BY Zenon, UnmapCases
<1>2. H = S /\ m \in Mms
  BY Zenon, <1>1 DEF Unmaps, Flushes
<1>3. PICK t : t = [x \in Vas |-> IF x \in S THEN NoEntry ELSE pt[m][x]]
  BY Zenon
<1>4. pt' = [pt EXCEPT ![m] = t] /\ \A x \in Vas : x \notin S => t[x] = pt[m][x]
  BY Zenon, <1>1, <1>3 DEF Unmaps
<1>5. TlbCoherent'
  <2>1. Flushed(m, t, S)
    BY Zenon, <1>1, <1>2, <1>4 DEF Flushed, Unmaps
  <2>2. QED BY Zenon, <1>2, <2>1, CoherentFlush
<1>6. ASSUME NEW k \in Mms, NEW x \in Vas, pt'[k][x].w PROVE ref'[pt'[k][x].f] = 1
  <2>1. pt'[k][x] = pt[k][x] /\ ~(k = m /\ x \in S)
    <3>1. CASE k = m
      <4>1. pt'[k][x] = t[x]
        BY Zenon, <1>2, <1>4, <3>1 DEF OwnInv, Types
      <4>2. x \notin S
        BY Zenon, <1>3, <1>6, <4>1, EntryFacts
      <4>3. QED BY Zenon, <1>4, <3>1, <4>1, <4>2
    <3>2. CASE k # m
      BY Zenon, <1>4, <3>2 DEF OwnInv, Types
    <3>3. QED BY Zenon, <3>1, <3>2
  <2>2. ref[pt[k][x].f] = 1 /\ pt[k][x].f \in pages[k] /\ pt[k][x].f \in Frames /\ pt[k][x].f # 0
    BY Zenon, <1>6, <2>1, Mapped DEF WritesOK
  <2>3. pt[k][x].f \notin D
    <3>1. SUFFICES ASSUME NEW y \in S, pt[m][y].f = pt[k][x].f PROVE FALSE
      BY Zenon, <1>1 DEF Unmaps
    <3>2. pt[m][y].f \in pages[m]
      BY Zenon, <1>1, <1>2, Mapped DEF Unmaps
    <3>3. k = m
      BY Zenon, <1>2, <2>2, <3>1, <3>2, OneOwner DEF OwnInv
    <3>4. x = y
      BY Zenon, <1>2, <2>2, <3>1, <3>3, Mapped DEF Leads
    <3>5. QED BY Zenon, <2>1, <3>3, <3>4
  <2>4. ref'[pt[k][x].f] = ref[pt[k][x].f]
    BY Zenon, <1>1, <2>2, <2>3 DEF Unmaps
  <2>5. QED BY Zenon, <2>1, <2>2, <2>4
<1>7. QED BY Zenon, <1>5, <1>6 DEF WritesOK

LEMMA ReleaseMem ==
  ASSUME OwnInv, TlbCoherent, WritesOK, NEW m \in Mms, MmuContextRelease(m)
  PROVE  TlbCoherent' /\ WritesOK'
<1>1. pt'[m] = NoTlb /\ \A k \in Mms : k # m => pt'[k] = pt[k]
  BY Zenon DEF MmuContextRelease, OwnInv, Types
<1>2. TlbCoherent'
  <2>1. ASSUME NEW d \in Cpus, NEW va \in Vas
        PROVE  /\ tlb'[d][va] = tlb[d][va] /\ run'[d] = run[d]
               /\ run[d] # NoMm => pt'[run[d]][va] = pt[run[d]][va]
    <3>1. run[d] # m /\ run[d] \in Mms \cup {NoMm} /\ UNCHANGED <<tlb, run>>
      BY Zenon DEF MmuContextRelease, OwnInv, Types
    <3>2. QED BY Zenon, <1>1, <3>1
  <2>2. QED BY Zenon, <2>1, Coherent
<1>3. ASSUME NEW k \in Mms, NEW x \in Vas, pt'[k][x].w PROVE ref'[pt'[k][x].f] = 1
  <2>1. k # m /\ pt'[k][x] = pt[k][x]
    BY <1>1, <1>3, NoTlbTyped, EntryFacts
  <2>2. ref[pt[k][x].f] = 1 /\ pt[k][x].f \in pages[k] /\ pt[k][x].f \in Frames
    BY Zenon, <1>3, <2>1, Mapped DEF WritesOK
  <2>3. pt[k][x].f \notin pages[m]
    BY Zenon, <2>1, <2>2, OneOwner DEF OwnInv
  <2>4. QED BY Zenon, <2>1, <2>2, <2>3 DEF MmuContextRelease
<1>4. QED BY Zenon, <1>2, <1>3 DEF WritesOK

LEMMA MemSame ==
  ASSUME TlbCoherent, WritesOK, UNCHANGED <<pt, ref, tlb, run>> PROVE TlbCoherent' /\ WritesOK'
BY Zenon DEF TlbCoherent, WritesOK

LEMMA SwitchMem ==
  ASSUME OwnInv, TlbCoherent, WritesOK, NEW c \in Cpus, NEW m \in Mms \cup {NoMm},
         MmuContextSwitch(c, m)
  PROVE  TlbCoherent' /\ WritesOK'
<1>1. /\ UNCHANGED <<pt, ref>>
      /\ \A d \in Cpus : d # c => tlb'[d] = tlb[d] /\ run'[d] = run[d]
  <2>1. tlb' = [tlb EXCEPT ![c] = NoTlb] /\ run' = [run EXCEPT ![c] = m] /\ UNCHANGED <<pt, ref>>
    BY Zenon DEF MmuContextSwitch, spaceVars
  <2>2. QED BY Zenon, <2>1 DEF OwnInv, Types
<1>2. \A va \in Vas : tlb'[c][va] = NoEntry
  BY Zenon, NoTlbTyped DEF MmuContextSwitch, OwnInv, Types
<1>3. \A d \in Cpus, va \in Vas :
        tlb'[d][va] = NoEntry \/ (tlb'[d][va] = tlb[d][va] /\ run'[d] = run[d])
  BY Zenon, <1>1, <1>2
<1>4. TlbCoherent'
  BY Zenon, <1>1, <1>3, Coherent
<1>5. QED BY Zenon, <1>1, <1>4 DEF WritesOK

LEMMA WalkMem ==
  ASSUME OwnInv, TlbCoherent, WritesOK, NEW c \in Cpus, NEW va \in Vas, Walk(c, va)
  PROVE  TlbCoherent' /\ WritesOK'
<1>1. UNCHANGED <<pt, ref, run>> /\ run[c] # NoMm
  BY Zenon DEF Walk, spaceVars
<1>2. \A d \in Cpus, x \in Vas :
        tlb'[d][x] = tlb[d][x] \/ (d = c /\ x = va /\ tlb'[d][x] = pt[run[c]][va])
  BY Zenon DEF Walk, OwnInv, Types
<1>3. TlbCoherent'
  BY <1>1, <1>2 DEF TlbCoherent
<1>4. QED BY Zenon, <1>1, <1>3 DEF WritesOK

MemInv == OwnInv /\ TlbCoherent /\ WritesOK

LEMMA MemStep ==
  ASSUME Flushes, MemInv, [Next]_vars PROVE MemInv'
<1> USE DEF MemInv
<1>1. OwnInv'
  BY Zenon, OwnStep
<1> DEFINE Goal == TlbCoherent' /\ WritesOK'
<1>2. ASSUME UNCHANGED vars PROVE Goal
  BY Zenon, <1>2, MemSame DEF vars
<1>3. ASSUME NEW m \in Mms, MmuContextCreate(m) PROVE Goal
  BY Zenon, <1>3, MemSame DEF MmuContextCreate
<1>4. ASSUME NEW m \in Mms, MmuContextRelease(m) PROVE Goal
  BY Zenon, <1>4, ReleaseMem
<1>5. ASSUME NEW c \in Cpus, NEW m \in Mms \cup {NoMm}, MmuContextSwitch(c, m) PROVE Goal
  BY Zenon, <1>5, SwitchMem
<1>6. ASSUME NEW c \in Cpus, NEW n \in Mms, MmuContextClone(c, n) PROVE Goal
  BY Zenon, <1>6, CloneMem
<1>7. ASSUME NEW c \in Cpus, NEW va \in Vas, Walk(c, va) PROVE Goal
  BY Zenon, <1>7, WalkMem
<1>8. ASSUME NEW c \in Cpus, NEW va \in Vas, NEW v \in Vals, Store(c, va, v) PROVE Goal
  BY Zenon, <1>8, MemSame DEF Store
<1>9. ASSUME NEW c \in Cpus, NEW va \in Vas, NEW w \in BOOLEAN, Abort(c, va, w) PROVE Goal
  BY Zenon, <1>9, MemSame DEF Abort, spaceVars
<1>10. ASSUME NEW c \in Cpus, NEW va \in Vas, NEW hi \in Vas, MmuUnmapUserRange(c, va, hi)
       PROVE  Goal
  BY Zenon, <1>10, UnmapMem
<1>11. ASSUME NEW c \in Cpus, NEW v \in Vals, NEW w \in BOOLEAN, CopyUser(c, Copied, v, w)
       PROVE  Goal
  BY Zenon, <1>11, MemSame DEF CopyUser, spaceVars
<1>12. ASSUME NEW c \in Cpus, AlreadyMapped(c) PROVE Goal
  BY Zenon, <1>12, MemSame DEF AlreadyMapped, Resolved, spaceVars
<1>13. ASSUME NEW c \in Cpus, LazyLoad(c) PROVE Goal
  BY Zenon, <1>13, MapLazyMem
<1>14. ASSUME NEW c \in Cpus, CowUpgrade(c) PROVE Goal
  BY Zenon, <1>14, UpgradeMem
<1>15. ASSUME NEW c \in Cpus, CowCopy(c) PROVE Goal
  BY Zenon, <1>15, CowCopyMem
<1>16. ASSUME NEW c \in Cpus, Fail(c) PROVE Goal
  <2>1. Refused(c) /\ pt' = pt /\ ref' = ref
    BY Zenon, <1>16 DEF Fail, spaceVars
  <2>2. QED BY Zenon, <2>1, CoherentRefused DEF WritesOK
<1>17. ASSUME NEW c \in Cpus, MmuCopyUserRange(c) PROVE Goal
  BY Zenon, <1>17, MemSame DEF MmuCopyUserRange
<1> HIDE DEF Goal
<1>18. Goal
  BY ZenonT(60), <1>2, <1>3, <1>4, <1>5, <1>6, <1>7, <1>8, <1>9, <1>10, <1>11, <1>12, <1>13,
     <1>14, <1>15, <1>16, <1>17 DEF Next, PageFault
<1>19. QED BY Zenon, <1>1, <1>18 DEF Goal

LEMMA MemInit == Init => MemInv
<1> SUFFICES ASSUME Init PROVE MemInv
  BY Zenon
<1>1. TlbCoherent
  BY Zenon, NoTlbTyped DEF Init, TlbCoherent
<1>2. WritesOK
  BY Zenon, NoTlbTyped, EntryFacts DEF Init, WritesOK
<1>3. QED BY Zenon, <1>1, <1>2, OwnInit DEF MemInv

LEMMA MemAlways == ASSUME Flushes PROVE Spec => []MemInv
BY MemInit, MemStep, PTL DEF Spec

\* For any number of contexts, CPUs and pages, what a CPU's TLB holds is what the tables
\* of the context it runs say, where munmap() flushes the entries that it clears.
THEOREM TlbsCoherent == ASSUME Flushes PROVE Spec => []TlbCoherent
<1>1. MemInv => TlbCoherent
  BY Zenon DEF MemInv
<1>2. QED BY <1>1, MemAlways, PTL

(***************************************************************************)
(* The refinement of UserMemory.                                           *)
(***************************************************************************)
\* What the program of context m finds in page va.
Shown(m, va) == IF pt[m][va] = NoEntry THEN FreshPage(va) ELSE mem[pt[m][va].f]

LEMMA SpaceOf ==
  ASSUME MemInv
  PROVE  /\ Space = [m \in Mms |-> IF m \notin live THEN Gone ELSE [va \in Vas |-> Shown(m, va)]]
         /\ \A m \in live : m \in Mms /\ Space[m] # Gone /\ Space[m] = [va \in Vas |-> Shown(m, va)]
<1>1. Space = [m \in Mms |-> IF m \notin live THEN Gone ELSE [va \in Vas |-> Shown(m, va)]]
  BY Zenon DEF Space, Shown
<1>2. ASSUME NEW m \in live
      PROVE  m \in Mms /\ Space[m] # Gone /\ Space[m] = [va \in Vas |-> Shown(m, va)]
  <2>1. m \in Mms
    BY Zenon DEF MemInv, OwnInv, Types
  <2>2. Space[m] = [va \in Vas |-> Shown(m, va)]
    BY Zenon, <1>1, <2>1
  <2>3. PICK va \in Vas : TRUE
    BY Zenon, ConstantsOK
  <2>4. Shown(m, va) \in Contents
    <3>1. CASE pt[m][va] = NoEntry
      BY Zenon, <3>1 DEF Shown, FreshPage, Contents
    <3>2. CASE pt[m][va] # NoEntry
      <4>1. pt[m][va].f \in Frames
        BY Zenon, <2>1, <3>2, Mapped DEF MemInv
      <4>2. QED BY Zenon, <3>2, <4>1 DEF Shown, MemInv, OwnInv, Types
    <3>3. QED BY Zenon, <3>1, <3>2
  <2>5. Space[m][va] # Gone[va]
    BY Zenon, <2>2, <2>4, ConstantsOK DEF Gone
  <2>6. QED BY Zenon, <2>1, <2>2, <2>5
<1>3. QED BY Zenon, <1>1, <1>2

LEMMA SpaceNext ==
  Space' = [m \in Mms |-> IF m \notin live' THEN Gone ELSE [va \in Vas |-> Shown(m, va)']]
BY Zenon DEF Space, Shown, Gone

\* Programs see no difference.
LEMMA Unseen ==
  ASSUME MemInv, live' = live, \A m \in live, va \in Vas : Shown(m, va)' = Shown(m, va)
  PROVE  Space' = Space
BY Zenon, SpaceOf, SpaceNext

\* Two entries that lead to a page with one owner are the same.
LEMMA SameEntry ==
  ASSUME OwnInv, NEW m \in Mms, NEW va \in Vas, NEW k \in Mms, NEW x \in Vas,
         pt[m][va] # NoEntry, ref[pt[m][va].f] = 1, pt[k][x].f = pt[m][va].f
  PROVE  k = m /\ x = va
<1>1. pt[m][va].f \in pages[m] /\ pt[m][va].f # 0 /\ pt[m][va].f \in Frames /\ Leads(pt[m], pages[m])
  BY Zenon, Mapped
<1>2. pt[k][x].f \in pages[k]
  BY Zenon, <1>1, Mapped
<1>3. k = m
  BY Zenon, <1>1, <1>2, OneOwner DEF OwnInv
<1>4. QED BY Zenon, <1>1, <1>3 DEF Leads

LEMMA WriteStep ==
  ASSUME MemInv, NEW m \in live, NEW va \in Vas, pt[m][va].w, NEW v \in Vals,
         mem' = [mem EXCEPT ![pt[m][va].f] = v], UNCHANGED <<live, pt>>
  PROVE  Mem!Store(m, va, v)
<1>1. m \in Mms
  BY Zenon DEF MemInv, OwnInv, Types
<1>2. pt[m][va] # NoEntry /\ pt[m][va].f \in Frames /\ ref[pt[m][va].f] = 1
  BY Zenon, <1>1, Mapped DEF MemInv, WritesOK
<1>3. \A k \in Mms, x \in Vas : Shown(k, x)' = IF k = m /\ x = va THEN v ELSE Shown(k, x)
  <2>1. SUFFICES ASSUME NEW k \in Mms, NEW x \in Vas
                 PROVE  Shown(k, x)' = IF k = m /\ x = va THEN v ELSE Shown(k, x)
    BY Zenon
  <2>2. pt[k][x].f = pt[m][va].f => k = m /\ x = va
    BY Zenon, <1>1, <1>2, SameEntry DEF MemInv
  <2>3. pt[k][x] # NoEntry => pt[k][x].f \in Frames
    BY Zenon, Mapped DEF MemInv
  <2>4. mem \in [Frames -> Contents]
    BY Zenon DEF MemInv, OwnInv, Types
  <2>5. QED BY Zenon, <1>2, <2>2, <2>3, <2>4 DEF Shown
<1>4. Space[m] # Gone
  BY Zenon, SpaceOf
<1>5. Space' = [Space EXCEPT ![m][va] = v]
  <2>1. \A k \in Mms : Space'[k] = IF k = m THEN [Space[m] EXCEPT ![va] = v] ELSE Space[k]
    BY <1>1, <1>3, SpaceOf, SpaceNext
  <2>2. QED BY Zenon, <1>1, <2>1, SpaceOf, SpaceNext
<1>6. QED BY Zenon, <1>4, <1>5 DEF Mem!Store

LEMMA LazySpace ==
  ASSUME MemInv, NEW c \in Cpus, LazyLoad(c) PROVE Space' = Space
<1> DEFINE m == run[c]  va == pc[c].va
<1>1. /\ mem' = [mem EXCEPT ![FreeFrame] = Region[va].init]
      /\ Faulting(c) /\ live' = live
      /\ pt[m][va] = NoEntry /\ Region[va] # NoRegion /\ FreePages > 0
      /\ \/ pt' = [pt EXCEPT ![m][va] = Entry(FreeFrame, Region[va].w)]
         \/ pt' = pt
  BY Zenon, LazyCases DEF MemInv
<1>2. m \in Mms /\ va \in Vas
  BY Zenon, <1>1, InFault DEF MemInv
<1>3. PICK f, e : f = FreeFrame /\ e = Entry(f, Region[va].w)
  BY Zenon
<1>4. f \in Frames /\ ref[f] = 0 /\ Region[va].w \in BOOLEAN
  BY Zenon, <1>1, <1>2, <1>3, FrameFree, ConstantsOK DEF MemInv, OwnInv
<1>5. e.f = f /\ e # NoEntry
  BY <1>3, <1>4, EntryFacts
<1>6. mem'[f] = Region[va].init /\ \A g \in Frames : g # f => mem'[g] = mem[g]
  BY Zenon, <1>1, <1>3, <1>4 DEF MemInv, OwnInv, Types
<1>7. ASSUME NEW k \in live, NEW x \in Vas PROVE Shown(k, x)' = Shown(k, x)
  <2>1. k \in Mms
    BY Zenon DEF MemInv, OwnInv, Types
  <2>2. pt[k][x] # NoEntry => pt[k][x].f \in Frames /\ pt[k][x].f # f
    BY Zenon, <1>4, <2>1, Mapped, Unowned DEF MemInv, OwnInv
  <2>3. pt'[k][x] = pt[k][x] \/ (k = m /\ x = va /\ pt'[k][x] = e)
    BY <1>1, <1>2, <1>3, <2>1 DEF MemInv, OwnInv, Types
  <2>4. CASE pt'[k][x] = pt[k][x]
    BY Zenon, <1>6, <2>2, <2>4 DEF Shown
  <2>5. CASE k = m /\ x = va /\ pt'[k][x] = e
    BY Zenon, <1>1, <1>5, <1>6, <2>5 DEF Shown, FreshPage
  <2>6. QED BY Zenon, <2>3, <2>4, <2>5
<1>8. QED BY Zenon, <1>1, <1>7, Unseen

LEMMA UpgradeSpace ==
  ASSUME MemInv, NEW c \in Cpus, CowUpgrade(c) PROVE Space' = Space
<1> DEFINE m == run[c]  va == pc[c].va
<1>1. /\ Faulting(c) /\ Cow(c) /\ UNCHANGED <<live, mem>>
      /\ pt' = [pt EXCEPT ![m][va] = Entry(@.f, TRUE)]
  BY Zenon DEF CowUpgrade
<1>2. m \in Mms /\ va \in Vas /\ pt[m][va].f \in Frames /\ pt[m][va].f # 0
  BY Zenon, <1>1, CowFault DEF MemInv
<1>3. PICK f, e : f = pt[m][va].f /\ e = Entry(f, TRUE)
  BY Zenon
<1>4. e.f = f /\ e # NoEntry /\ pt[m][va] # NoEntry
  <2>1. e.f = f
    BY Zenon, <1>2, <1>3, EntryFacts
  <2>2. QED BY Zenon, <1>2, <1>3, <2>1, EntryFacts
<1>5. \A k \in Mms, x \in Vas : pt'[k][x] = pt[k][x] \/ (k = m /\ x = va /\ pt'[k][x] = e)
  BY Zenon, <1>1, <1>2, <1>3 DEF MemInv, OwnInv, Types
<1>6. ASSUME NEW k \in Mms, NEW x \in Vas PROVE Shown(k, x)' = Shown(k, x)
  <2>1. mem' = mem
    BY Zenon, <1>1
  <2>2. CASE pt'[k][x] = pt[k][x]
    BY Zenon, <2>1, <2>2 DEF Shown, FreshPage
  <2>3. CASE k = m /\ x = va /\ pt'[k][x] = e
    BY Zenon, <1>3, <1>4, <2>1, <2>3 DEF Shown, FreshPage
  <2>4. QED BY Zenon, <1>5, <2>2, <2>3
<1>7. live \subseteq Mms
  BY Zenon DEF MemInv, OwnInv, Types
<1>8. QED BY Zenon, <1>1, <1>6, <1>7, Unseen

LEMMA CowCopySpace ==
  ASSUME MemInv, NEW c \in Cpus, CowCopy(c) PROVE Space' = Space
<1> DEFINE m == run[c]  va == pc[c].va
<1>1. PICK f, old, e : f = FreeFrame /\ old = pt[m][va].f /\ e = Entry(f, TRUE)
  BY Zenon
<1>2. /\ Faulting(c) /\ Cow(c) /\ live' = live /\ FreePages > 0
      /\ pt' = [pt EXCEPT ![m][va] = e] /\ mem' = [mem EXCEPT ![f] = mem[old]]
  BY Zenon, <1>1 DEF CowCopy
<1>3. m \in Mms /\ va \in Vas /\ old \in Frames /\ old # 0
  BY Zenon, <1>1, <1>2, CowFault DEF MemInv
<1>4. f \in Frames /\ ref[f] = 0
  BY Zenon, <1>1, <1>2, FrameFree DEF MemInv, OwnInv
<1>5. e.f = f /\ e # NoEntry /\ pt[m][va] # NoEntry
  BY Zenon, <1>1, <1>3, <1>4, EntryFacts
<1>6. mem'[f] = mem[old] /\ \A g \in Frames : g # f => mem'[g] = mem[g]
  BY Zenon, <1>2, <1>4 DEF MemInv, OwnInv, Types
<1>7. ASSUME NEW k \in live, NEW x \in Vas PROVE Shown(k, x)' = Shown(k, x)
  <2>1. k \in Mms
    BY Zenon DEF MemInv, OwnInv, Types
  <2>2. pt[k][x] # NoEntry => pt[k][x].f \in Frames /\ pt[k][x].f # f
    BY Zenon, <1>4, <2>1, Mapped, Unowned DEF MemInv, OwnInv
  <2>3. pt'[k][x] = pt[k][x] \/ (k = m /\ x = va /\ pt'[k][x] = e)
    BY Zenon, <1>2, <1>3, <2>1 DEF MemInv, OwnInv, Types
  <2>4. CASE pt'[k][x] = pt[k][x]
    BY Zenon, <1>6, <2>2, <2>4 DEF Shown
  <2>5. CASE k = m /\ x = va /\ pt'[k][x] = e
    BY Zenon, <1>1, <1>5, <1>6, <2>5 DEF Shown
  <2>6. QED BY Zenon, <2>3, <2>4, <2>5
<1>8. QED BY Zenon, <1>2, <1>7, Unseen

LEMMA CloneSpace ==
  ASSUME MemInv, NEW c \in Cpus, NEW n \in Mms, MmuContextClone(c, n)
  PROVE  Space' = Space \/ Mem!Fork(run[c], n)
<1> DEFINE m == run[c]
<1>1. m # NoMm /\ n \notin live /\ mem' = mem
  BY Zenon DEF MmuContextClone
<1>2. m \in Mms /\ m \in live /\ n # m /\ live \subseteq Mms
  BY Zenon, <1>1 DEF MemInv, OwnInv, Types, LiveOK
<1>3. \A x \in Vas : /\ Cowed(m)[x].f = pt[m][x].f
                     /\ Cowed(m)[x] = NoEntry <=> pt[m][x] = NoEntry
  BY Zenon, <1>2, CowedTyped DEF MemInv
<1>4. CASE CloneOk(m)
  <2>1. live' = live \cup {n} /\ pt' = [pt EXCEPT ![m] = Cowed(m), ![n] = Cowed(m)]
    BY Zenon, <1>4 DEF MmuContextClone
  <2>2. /\ pt'[m] = Cowed(m) /\ pt'[n] = Cowed(m)
        /\ \A k \in Mms : k # m /\ k # n => pt'[k] = pt[k]
    BY Zenon, <1>2, <2>1 DEF MemInv, OwnInv, Types
  <2>3. \A k \in Mms, x \in Vas : Shown(k, x)' = IF k = n THEN Shown(m, x) ELSE Shown(k, x)
    BY <1>1, <1>2, <1>3, <2>2 DEF Shown
  <2>4. Space[m] # Gone /\ Space[m] = [x \in Vas |-> Shown(m, x)] /\ Space[n] = Gone
    BY Zenon, <1>1, <1>2, SpaceOf
  <2>5. \A k \in Mms : Space'[k] = IF k = n THEN Space[m] ELSE Space[k]
    BY <1>2, <2>1, <2>3, <2>4, SpaceOf, SpaceNext
  <2>6. Space' = [Space EXCEPT ![n] = Space[m]]
    BY Zenon, <2>5, SpaceOf, SpaceNext
  <2>7. QED BY Zenon, <2>4, <2>6 DEF Mem!Fork
<1>5. CASE ~CloneOk(m)
  <2>1. live' = live /\ pt' = [pt EXCEPT ![m] = Cowed(m)]
    BY Zenon, <1>5 DEF MmuContextClone
  <2>2. pt'[m] = Cowed(m) /\ \A k \in Mms : k # m => pt'[k] = pt[k]
    BY Zenon, <1>2, <2>1 DEF MemInv, OwnInv, Types
  <2>3. \A k \in Mms, x \in Vas : Shown(k, x)' = Shown(k, x)
    BY Zenon, <1>1, <1>3, <2>2 DEF Shown
  <2>4. QED BY Zenon, <1>2, <2>1, <2>3, Unseen
<1>6. QED BY Zenon, <1>4, <1>5

LEMMA UnmapSpace ==
  ASSUME MemInv, NEW c \in Cpus, NEW lo \in Vas, NEW hi \in Vas, MmuUnmapUserRange(c, lo, hi)
  PROVE  \E S \in SUBSET Vas : Mem!Unmap(run[c], S)
<1> DEFINE m == run[c]
<1>1. PICK S \in SUBSET Vas, D \in SUBSET Frames, H \in SUBSET Vas : Unmaps(m, S, D, H)
  BY Zenon, UnmapCases DEF MemInv
<1>2. m \in Mms /\ m \in live
  BY Zenon, <1>1 DEF Unmaps
<1>3. /\ \A x \in Vas : pt'[m][x] = IF x \in S THEN NoEntry ELSE pt[m][x]
      /\ \A k \in Mms : k # m => pt'[k] = pt[k]
      /\ \A g \in Frames : mem'[g] = IF g \in D /\ ref[g] = 1 THEN 0 ELSE mem[g]
      /\ live' = live
  BY Zenon, <1>1, <1>2 DEF Unmaps, MemInv, OwnInv, Types, Scrubbed
<1>4. ASSUME NEW k \in Mms, NEW x \in Vas
      PROVE  Shown(k, x)' = IF k = m /\ x \in S THEN FreshPage(x) ELSE Shown(k, x)
  <2>1. CASE k = m /\ x \in S
    BY Zenon, <1>3, <2>1 DEF Shown
  <2>2. CASE ~(k = m /\ x \in S)
    <3>1. pt'[k][x] = pt[k][x]
      BY Zenon, <1>2, <1>3, <2>2
    <3>2. pt[k][x] # NoEntry => pt[k][x].f \in Frames
      BY Zenon, Mapped DEF MemInv
    <3>3. ~(pt[k][x].f \in D /\ ref[pt[k][x].f] = 1)
      <4>1. SUFFICES ASSUME NEW y \in S, pt[k][x].f = pt[m][y].f, ref[pt[m][y].f] = 1 PROVE FALSE
        BY Zenon, <1>1 DEF Unmaps
      <4>2. pt[m][y] # NoEntry
        BY Zenon, <1>1 DEF Unmaps
      <4>3. k = m /\ x = y
        BY <1>2, <4>1, <4>2, SameEntry DEF MemInv
      <4>4. QED BY Zenon, <2>2, <4>3
    <3>4. QED BY Zenon, <1>3, <2>2, <3>1, <3>2, <3>3 DEF Shown
  <2>3. QED BY Zenon, <2>1, <2>2
<1>5. Space[m] # Gone /\ Space[m] = [x \in Vas |-> Shown(m, x)]
  BY Zenon, <1>2, SpaceOf
<1>6. \A k \in Mms : Space'[k] = IF k = m THEN [x \in Vas |-> IF x \in S THEN FreshPage(x) ELSE Space[m][x]]
                                 ELSE Space[k]
  BY <1>2, <1>3, <1>4, <1>5, SpaceOf, SpaceNext
<1>7. Space' = [Space EXCEPT ![m] = [x \in Vas |-> IF x \in S THEN FreshPage(x) ELSE @[x]]]
  BY Zenon, <1>6, SpaceOf, SpaceNext
<1>8. Mem!Unmap(m, S)
  BY Zenon, <1>5, <1>7 DEF Mem!Unmap
<1>9. QED BY Zenon, <1>8

LEMMA CreateSpace ==
  ASSUME MemInv, NEW m \in Mms, MmuContextCreate(m) PROVE Mem!Create(m)
<1>1. m \notin live /\ live' = live \cup {m} /\ UNCHANGED <<pt, mem>>
  BY Zenon DEF MmuContextCreate
<1>2. ASSUME NEW x \in Vas PROVE pt[m][x] = NoEntry
  <2>1. pages[m] = {}
    BY Zenon, <1>1 DEF MemInv, OwnInv, LiveOK
  <2>2. QED BY Zenon, <2>1, Mapped DEF MemInv
<1>3. \A k \in Mms, x \in Vas : Shown(k, x)' = Shown(k, x)
  <2>1. pt' = pt /\ mem' = mem
    BY Zenon, <1>1
  <2>2. QED BY Zenon, <2>1 DEF Shown, FreshPage
<1>4. \A x \in Vas : Shown(m, x) = FreshPage(x)
  BY Zenon, <1>2 DEF Shown
<1>5. Space[m] = Gone
  BY Zenon, <1>1, SpaceOf
<1>6. \A k \in Mms : Space'[k] = IF k = m THEN [x \in Vas |-> FreshPage(x)] ELSE Space[k]
  BY <1>1, <1>3, <1>4, SpaceOf, SpaceNext
<1>7. Space' = [Space EXCEPT ![m] = [x \in Vas |-> FreshPage(x)]]
  BY Zenon, <1>6, SpaceOf, SpaceNext
<1>8. QED BY Zenon, <1>5, <1>7 DEF Mem!Create

LEMMA ReleaseSpace ==
  ASSUME MemInv, NEW m \in Mms, MmuContextRelease(m) PROVE Mem!Exit(m)
<1>1. /\ m \in live /\ live' = live \ {m} /\ \A k \in Mms : k # m => pt'[k] = pt[k]
      /\ \A g \in Frames : mem'[g] = IF g \in pages[m] /\ ref[g] = 1 THEN 0 ELSE mem[g]
  BY Zenon DEF MmuContextRelease, MemInv, OwnInv, Types, Scrubbed
<1>2. ASSUME NEW k \in Mms, k # m, NEW x \in Vas PROVE Shown(k, x)' = Shown(k, x)
  <2>1. pt'[k][x] = pt[k][x]
    BY Zenon, <1>1, <1>2
  <2>2. CASE pt[k][x] = NoEntry
    BY Zenon, <2>1, <2>2 DEF Shown, FreshPage
  <2>3. CASE pt[k][x] # NoEntry
    <3>1. pt[k][x].f \in Frames /\ pt[k][x].f \in pages[k]
      BY Zenon, <2>3, Mapped DEF MemInv
    <3>2. ~(pt[k][x].f \in pages[m] /\ ref[pt[k][x].f] = 1)
      BY Zenon, <1>2, <3>1, OneOwner DEF MemInv, OwnInv
    <3>3. mem'[pt[k][x].f] = mem[pt[k][x].f]
      BY Zenon, <1>1, <3>1, <3>2
    <3>4. QED BY Zenon, <2>1, <2>3, <3>3 DEF Shown
  <2>4. QED BY Zenon, <2>2, <2>3
<1>3. Space[m] # Gone
  BY Zenon, <1>1, SpaceOf
<1>4. \A k \in Mms : Space'[k] = IF k = m THEN Gone ELSE Space[k]
  BY <1>1, <1>2, SpaceOf, SpaceNext
<1>5. Space' = [Space EXCEPT ![m] = Gone]
  BY Zenon, <1>4, SpaceOf, SpaceNext
<1>6. QED BY Zenon, <1>3, <1>5 DEF Mem!Exit

LEMMA StoreSpace ==
  ASSUME MemInv, NEW c \in Cpus, NEW va \in Vas, NEW v \in Vals, Store(c, va, v)
  PROVE  \E m \in Mms : Mem!Store(m, va, v)
<1>1. tlb[c][va].w /\ mem' = [mem EXCEPT ![tlb[c][va].f] = v] /\ UNCHANGED <<live, pt>>
  BY Zenon DEF Store
<1>2. tlb[c][va] # NoEntry
  BY Zenon, <1>1, EntryFacts
<1>3. run[c] # NoMm /\ tlb[c][va] = pt[run[c]][va]
  BY Zenon, <1>2 DEF MemInv, TlbCoherent
<1>4. run[c] \in live /\ run[c] \in Mms
  BY Zenon, <1>3 DEF MemInv, OwnInv, LiveOK, Types
<1>5. Mem!Store(run[c], va, v)
  BY Zenon, <1>1, <1>3, <1>4, WriteStep
<1>6. QED BY Zenon, <1>4, <1>5

LEMMA CopySpace ==
  ASSUME MemInv, NEW c \in Cpus, MmuCopyUserRange(c)
  PROVE  Space' = Space \/ \E m \in Mms, va \in Vas, v \in Vals : Mem!Store(m, va, v)
<1>1. PICK m, va, e, v : m = run[c] /\ va = Head(pc[c].vas) /\ e = pt[m][va] /\ v = pc[c].v
  BY Zenon
<1>2. pc[c].at = "copy" /\ UNCHANGED <<live, pt>>
  BY Zenon DEF MmuCopyUserRange
<1>3. m \in Mms /\ m \in live /\ va \in Vas /\ (pc[c].w => v \in Vals)
  BY Zenon, <1>1, <1>2, Copying DEF MemInv
<1>4. mem' = mem \/ (pc[c].w /\ e.w /\ mem' = [mem EXCEPT ![e.f] = v])
  BY Zenon, <1>1 DEF MmuCopyUserRange
<1>5. CASE mem' = mem
  <2>1. \A k \in Mms, x \in Vas : Shown(k, x)' = Shown(k, x)
    BY Zenon, <1>2, <1>5 DEF Shown, FreshPage
  <2>2. live \subseteq Mms
    BY Zenon DEF MemInv, OwnInv, Types
  <2>3. QED BY Zenon, <1>2, <2>1, <2>2, Unseen
<1>6. CASE pc[c].w /\ e.w /\ mem' = [mem EXCEPT ![e.f] = v]
  <2>1. Mem!Store(m, va, v)
    BY Zenon, <1>1, <1>2, <1>3, <1>6, WriteStep
  <2>2. QED BY Zenon, <1>3, <1>6, <2>1
<1>7. QED BY Zenon, <1>4, <1>5, <1>6

LEMMA SameSpace ==
  ASSUME UNCHANGED <<live, pt, mem>> PROVE Space' = Space
BY Zenon DEF Space, FreshPage, Gone

LEMMA MemRefines ==
  ASSUME MemInv, [Next]_vars PROVE [Mem!Next]_Space
<1> DEFINE Goal == [Mem!Next]_Space
<1>1. ASSUME UNCHANGED vars PROVE Goal
  BY Zenon, <1>1, SameSpace DEF vars
<1>2. ASSUME NEW m \in Mms, MmuContextCreate(m) PROVE Goal
  BY Zenon, <1>2, CreateSpace DEF Mem!Next
<1>3. ASSUME NEW m \in Mms, MmuContextRelease(m) PROVE Goal
  BY Zenon, <1>3, ReleaseSpace DEF Mem!Next
<1>4. ASSUME NEW c \in Cpus, NEW m \in Mms \cup {NoMm}, MmuContextSwitch(c, m) PROVE Goal
  BY Zenon, <1>4, SameSpace DEF MmuContextSwitch, spaceVars
<1>5. ASSUME NEW c \in Cpus, NEW n \in Mms, MmuContextClone(c, n) PROVE Goal
  <2>1. run[c] \in Mms
    BY Zenon, <1>5 DEF MmuContextClone, MemInv, OwnInv, Types
  <2>2. QED BY Zenon, <1>5, <2>1, CloneSpace DEF Mem!Next
<1>6. ASSUME NEW c \in Cpus, NEW va \in Vas, Walk(c, va) PROVE Goal
  BY Zenon, <1>6, SameSpace DEF Walk, spaceVars
<1>7. ASSUME NEW c \in Cpus, NEW va \in Vas, NEW v \in Vals, Store(c, va, v) PROVE Goal
  BY Zenon, <1>7, StoreSpace DEF Mem!Next
<1>8. ASSUME NEW c \in Cpus, NEW va \in Vas, NEW w \in BOOLEAN, Abort(c, va, w) PROVE Goal
  BY Zenon, <1>8, SameSpace DEF Abort, spaceVars
<1>9. ASSUME NEW c \in Cpus, NEW va \in Vas, NEW hi \in Vas, MmuUnmapUserRange(c, va, hi)
      PROVE  Goal
  <2>1. run[c] \in Mms
    BY Zenon, <1>9 DEF MmuUnmapUserRange, MemInv, OwnInv, Types
  <2>2. QED BY Zenon, <1>9, <2>1, UnmapSpace DEF Mem!Next
<1>10. ASSUME NEW c \in Cpus, NEW v \in Vals, NEW w \in BOOLEAN, CopyUser(c, Copied, v, w)
       PROVE  Goal
  BY Zenon, <1>10, SameSpace DEF CopyUser, spaceVars
<1>11. ASSUME NEW c \in Cpus, AlreadyMapped(c) PROVE Goal
  BY Zenon, <1>11, SameSpace DEF AlreadyMapped, spaceVars
<1>12. ASSUME NEW c \in Cpus, LazyLoad(c) \/ CowUpgrade(c) \/ CowCopy(c) PROVE Goal
  BY Zenon, <1>12, LazySpace, UpgradeSpace, CowCopySpace
<1>13. ASSUME NEW c \in Cpus, Fail(c) PROVE Goal
  BY Zenon, <1>13, SameSpace DEF Fail, Refused, spaceVars
<1>14. ASSUME NEW c \in Cpus, MmuCopyUserRange(c) PROVE Goal
  BY Zenon, <1>14, CopySpace DEF Mem!Next
<1> HIDE DEF Goal
<1>15. Goal
  BY ZenonT(60), <1>1, <1>2, <1>3, <1>4, <1>5, <1>6, <1>7, <1>8, <1>9, <1>10, <1>11, <1>12,
     <1>13, <1>14 DEF Next, PageFault
<1>16. QED BY Zenon, <1>15 DEF Goal

\* For any number of contexts, CPUs and pages, every program has memory of its own: lazy
\* loading, copy-on-write after fork() and the copies of system calls implement module
\* UserMemory, where munmap() flushes the entries that it clears.
THEOREM MemoryPrivate == ASSUME Flushes PROVE Spec => ImplementsMemory
<1>1. Init => Mem!Init
  BY Zenon DEF Init, Space, Mem!Init
<1>2. MemInv /\ [Next]_vars => [Mem!Next]_Space
  BY Zenon, MemRefines
<1>3. QED BY <1>1, <1>2, MemAlways, PTL DEF Spec, ImplementsMemory, Mem!Spec
=============================================================================
