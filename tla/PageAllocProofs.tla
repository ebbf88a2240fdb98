-------------------------- MODULE PageAllocProofs ---------------------------
(***************************************************************************)
(* The page allocator for any number of pages: the free list threaded      *)
(* through the pages stays whole, the scan for a run is first fit,         *)
(* reference counts are exact, pages are clean, and PageSpec is            *)
(* implemented.                                                            *)
(***************************************************************************)
EXTENDS PageAlloc, FiniteSetTheorems, WellFoundedInduction, TLAPS

(***************************************************************************)
(* The inductive invariant.                                                *)
(***************************************************************************)
Types ==
  /\ state \in [Pages -> {"FREE", "ALLOCATED"}]
  /\ ref_count \in [Pages -> 0 .. MaxRef]
  /\ word \in [Pages -> Pages \cup {0, Data}]
  /\ invalid_free_count \in Nat /\ double_free_count \in Nat
  /\ scrub \subseteq Pages /\ written \subseteq Pages
  /\ holds \in [Pages -> 0 .. MaxHolds]
  /\ runs \subseteq Pages \X Pages
  /\ \A r \in runs : RunOf(r) \subseteq Pages

\* at lists the members of free without repetition, and the links w lead through them
\* from head to the null address.
Threads(free, w, head, m, at) ==
  /\ at \in [1 .. m + 1 -> free \cup {NULL}]
  /\ at[1] = head /\ at[m + 1] = NULL
  /\ \A i \in 1 .. m : at[i] \in free /\ w[at[i]] = at[i + 1]
  /\ \A i, j \in 1 .. m : at[i] = at[j] => i = j
  /\ \A p \in free : \E i \in 1 .. m : at[i] = p

\* The list is well formed: it leads through all FREE pages, each once, and ends.
ListShape(free, w, head) == \E m \in Nat : \E at : Threads(free, w, head, m, at)

LinksOK == ListShape(FreePages, word, page_free_list_pa)

CountOK == free_pages = Cardinality(FreePages)

\* A page being scrubbed is held by the caller of page_alloc() alone, and only
\* allocated pages count as written.
ScrubOK ==
  /\ \A p \in scrub : holds[p] > 0 /\ p \notin written
  /\ \A p \in written : state[p] = "ALLOCATED"

PagesInv == Types /\ LinksOK /\ CountOK /\ RefsExact /\ ScrubOK /\ PagesClean

(***************************************************************************)
(* The helpers.                                                            *)
(***************************************************************************)
LEMMA LeastExists ==
  ASSUME NEW S, S \subseteq Nat, S # {}
  PROVE  \E q \in S : \A r \in S : q <= r
<1>1. PICK q \in S : \A r \in S : ~(<<r, q>> \in OpToRel(<, Nat))
  BY NatLessThanWellFounded, WFMin, Zenon
<1>2. \A r \in S : <<r, q>> \in Nat \X Nat
  OBVIOUS
<1>3. \A r \in S : ~(r < q)
  BY Zenon, <1>1, <1>2 DEF OpToRel
<1>4. QED BY <1>3

\* A set of numbers that holds 0 and with each number the next holds all up to N.
LEMMA UpTo ==
  ASSUME NEW N \in Nat, NEW T, 0 \in T, \A n \in 0 .. N - 1 : n \in T => n + 1 \in T
  PROVE  0 .. N \subseteq T
<1> DEFINE B == {n \in 0 .. N : n \notin T}
<1>1. SUFFICES ASSUME B # {} PROVE FALSE
  OBVIOUS
<1>2. B \subseteq Nat
  OBVIOUS
<1> HIDE DEF B
<1>3. PICK q \in B : \A r \in B : q <= r
  BY <1>1, <1>2, LeastExists
<1>4. q \in 0 .. N /\ q \notin T /\ q # 0
  BY <1>3 DEF B
<1>5. q - 1 \in 0 .. N - 1 /\ q - 1 \notin B
  BY <1>3, <1>4
<1>6. QED BY <1>4, <1>5 DEF B

LEMMA NextAboveLeast ==
  ASSUME NEW S, S \subseteq Nat, NEW p \in Nat, NEW a, a = NextAbove(S, p)
  PROVE  \/ a = NULL /\ \A q \in S : ~(q > p)
         \/ a \in S /\ a > p /\ \A r \in S : r > p => a <= r
<1>1. CASE ~\E q \in S : q > p
  BY <1>1 DEF NextAbove
<1>2. CASE \E q \in S : q > p
  <2> DEFINE T == {q \in S : q > p}
  <2>1. PICK q \in T : \A r \in T : q <= r
    BY Zenon, <1>2, LeastExists
  <2>2. \E z \in S : z > p /\ \A r \in S : r > p => z <= r
    BY <2>1
  <2>3. QED BY <1>2, <2>2, Zenon DEF NextAbove
<1>3. QED BY <1>1, <1>2

\* The members of a set of pages in address order.
Ascends(S, m, at) ==
  /\ at \in [1 .. m -> S]
  /\ \A i, j \in 1 .. m : i < j => at[i] < at[j]
  /\ \A p \in S : \E i \in 1 .. m : at[i] = p

LEMMA AscendingList ==
  ASSUME NEW N \in Nat, NEW S, S \subseteq 1 .. N
  PROVE  \E m \in Nat : \E at : Ascends(S, m, at)
<1> DEFINE Listed(Q) == \E m \in Nat : \E at : Ascends(Q, m, at)
           T == {n \in Nat : \A Q \in SUBSET (1 .. n) : Listed(Q)}
<1>1. 0 \in T
  <2>1. Ascends({}, 0, [i \in 1 .. 0 |-> i])
    BY DEF Ascends
  <2>2. Listed({})
    BY <2>1
  <2>3. \A Q \in SUBSET (1 .. 0) : Q = {}
    OBVIOUS
  <2> HIDE DEF Listed
  <2>4. QED BY <2>2, <2>3
<1>2. ASSUME NEW n \in 0 .. N - 1, n \in T PROVE n + 1 \in T
  <2>1. SUFFICES ASSUME NEW Q \in SUBSET (1 .. n + 1) PROVE Listed(Q)
    OBVIOUS
  <2>2. CASE n + 1 \notin Q
    <3>1. Q \in SUBSET (1 .. n)
      BY <2>2
    <3>2. QED BY <1>2, <3>1
  <2>3. CASE n + 1 \in Q
    <3>1. Q \ {n + 1} \in SUBSET (1 .. n)
      OBVIOUS
    <3>m. PICK m \in Nat : \E at : Ascends(Q \ {n + 1}, m, at)
      BY <1>2, <3>1
    <3>2. PICK at : Ascends(Q \ {n + 1}, m, at)
      BY <3>m
    <3> DEFINE b == [i \in 1 .. m + 1 |-> IF i = m + 1 THEN n + 1 ELSE at[i]]
    <3>3. \A i \in 1 .. m : b[i] = at[i] /\ at[i] \in Q /\ at[i] \in 1 .. n
      <4>1. \A i \in 1 .. m : at[i] \in Q \ {n + 1}
        BY <3>2 DEF Ascends
      <4>2. \A i \in 1 .. m : b[i] = at[i]
        OBVIOUS
      <4> HIDE DEF b
      <4>3. \A i \in 1 .. m : at[i] \in Q /\ at[i] \in 1 .. n
        BY <3>1, <4>1
      <4>4. QED BY <4>2, <4>3
    <3>4. b[m + 1] = n + 1
      OBVIOUS
    <3>5. b \in [1 .. m + 1 -> Q]
      <4>1. \A i \in 1 .. m + 1 : i \in 1 .. m \/ i = m + 1
        OBVIOUS
      <4>2. \A i \in 1 .. m + 1 : (IF i = m + 1 THEN n + 1 ELSE at[i]) \in Q
        BY <2>3, <3>3, <4>1
      <4>3. QED BY <4>2
    <3> HIDE DEF b
    <3>6. ASSUME NEW i \in 1 .. m + 1, NEW j \in 1 .. m + 1, i < j PROVE b[i] < b[j]
      <4>1. i \in 1 .. m /\ (j \in 1 .. m \/ j = m + 1)
        BY <3>6
      <4>2. CASE j \in 1 .. m
        <5>1. at[i] < at[j]
          BY <3>2, <3>6, <4>1, <4>2 DEF Ascends
        <5>2. QED BY <3>3, <4>1, <4>2, <5>1
      <4>3. CASE j = m + 1
        <5>1. b[i] \in 1 .. n
          BY <3>3, <4>1
        <5>2. QED BY <3>4, <4>3, <5>1
      <4>4. QED BY <4>1, <4>2, <4>3
    <3>7. ASSUME NEW p \in Q PROVE \E i \in 1 .. m + 1 : b[i] = p
      <4>1. CASE p = n + 1
        BY <3>4, <4>1
      <4>2. CASE p # n + 1
        <5>1. PICK i \in 1 .. m : at[i] = p
          BY <3>2, <4>2 DEF Ascends
        <5>2. i \in 1 .. m + 1 /\ b[i] = p
          BY <3>3, <5>1
        <5>3. QED BY <5>2
      <4>3. QED BY <4>1, <4>2
    <3>8. Ascends(Q, m + 1, b)
      BY <3>5, <3>6, <3>7 DEF Ascends
    <3>9. QED BY <3>8
  <2>4. QED BY <2>2, <2>3
<1> HIDE DEF T
<1>3. N \in T
  <2>1. 0 .. N \subseteq T
    BY <1>1, <1>2, UpTo
  <2>2. QED BY <2>1
<1>4. QED BY <1>3 DEF T

\* The list that page_allocator_rebuild_free_list() builds.
LEMMA RebuildShape ==
  ASSUME NEW free, free \subseteq Pages, NEW w,
         NEW x, x = [p \in Pages |-> IF p \in free THEN NextAbove(free, p) ELSE w[p]]
  PROVE  ListShape(free, x, NextAbove(free, 0))
<1>0. free \subseteq Nat /\ \A p \in free : p > 0 /\ x[p] = NextAbove(free, p)
  BY PagesAssumption DEF Pages
<1>m. PICK m \in Nat : \E at : Ascends(free, m, at)
  BY PagesAssumption, AscendingList DEF Pages
<1>1. PICK at : Ascends(free, m, at)
  BY <1>m
<1> DEFINE b == [i \in 1 .. m + 1 |-> IF i = m + 1 THEN NULL ELSE at[i]]
<1>2. \A i \in 1 .. m : b[i] = at[i] /\ at[i] \in free
  BY <1>1 DEF Ascends
<1>3. b[m + 1] = NULL
  OBVIOUS
<1>4. b \in [1 .. m + 1 -> free \cup {NULL}]
  <2>1. \A i \in 1 .. m + 1 : i \in 1 .. m \/ i = m + 1
    OBVIOUS
  <2>2. \A i \in 1 .. m + 1 : (IF i = m + 1 THEN NULL ELSE at[i]) \in free \cup {NULL}
    BY <1>2, <2>1
  <2>3. QED BY <2>2
<1> HIDE DEF b
<1>5. \A q \in free : \E j \in 1 .. m : at[j] = q
  BY <1>1 DEF Ascends
<1>6. \A i, j \in 1 .. m : i < j => at[i] < at[j]
  BY <1>1 DEF Ascends
<1>7. b[1] = NextAbove(free, 0)
  <2>1. PICK a : a = NextAbove(free, 0)
    OBVIOUS
  <2>2. \/ a = NULL /\ \A q \in free : ~(q > 0)
        \/ a \in free /\ \A r \in free : r > 0 => a <= r
    BY <1>0, <2>1, NextAboveLeast, Zenon
  <2>3. CASE m = 0
    <3>1. free = {}
      BY <1>5, <2>3
    <3>2. QED BY <1>3, <2>1, <2>2, <2>3, <3>1
  <2>4. CASE m > 0
    <3>1. 1 \in 1 .. m
      BY <2>4
    <3>2. at[1] \in free /\ at[1] > 0 /\ b[1] = at[1]
      BY <1>0, <1>2, <3>1
    <3>3. a \in free /\ a <= at[1]
      BY Zenon, <2>2, <3>2
    <3>4. PICK j \in 1 .. m : at[j] = a
      BY <1>5, <3>3
    <3>5. j = 1
      <4>1. 1 < j => at[1] < at[j]
        BY <1>6, <3>1
      <4>2. at[1] \in Nat /\ a \in Nat
        BY <1>0, <3>2, <3>3
      <4>3. QED BY <3>3, <3>4, <4>1, <4>2
    <3>6. QED BY <2>1, <3>2, <3>4, <3>5
  <2>5. QED BY <2>3, <2>4
<1>8. ASSUME NEW i \in 1 .. m PROVE x[b[i]] = b[i + 1]
  <2>1. PICK p : p = at[i]
    OBVIOUS
  <2>2. p \in free /\ p \in Nat /\ b[i] = p /\ x[b[i]] = NextAbove(free, p)
    BY <1>0, <1>2, <2>1
  <2>3. PICK a : a = NextAbove(free, p)
    OBVIOUS
  <2>4. \/ a = NULL /\ \A q \in free : ~(q > p)
        \/ a \in free /\ a > p /\ \A r \in free : r > p => a <= r
    BY <1>0, <2>2, <2>3, NextAboveLeast, Zenon
  <2>5. ASSUME NEW j \in 1 .. m, at[j] > p PROVE j > i
    <3>1. at[j] \in Nat
      BY <1>0, <1>2
    <3>2. (j < i => at[j] < at[i])
      BY <1>6
    <3>3. QED BY <2>1, <2>2, <2>5, <3>1, <3>2
  <2>6. CASE i = m
    <3>1. \A q \in free : ~(q > p)
      BY <1>5, <2>5, <2>6
    <3>2. a = NULL
      BY Zenon, <2>4, <3>1
    <3>3. QED BY <1>3, <2>2, <2>3, <2>6, <3>2
  <2>7. CASE i < m
    <3>1. i + 1 \in 1 .. m
      BY <2>7
    <3>2. at[i + 1] \in free /\ at[i + 1] > p /\ b[i + 1] = at[i + 1]
      BY <1>2, <1>6, <2>1, <3>1
    <3>3. a \in free /\ a > p /\ a <= at[i + 1]
      BY Zenon, <2>4, <3>2
    <3>4. PICK j \in 1 .. m : at[j] = a
      BY <1>5, <3>3
    <3>5. j > i /\ (i + 1 < j => at[i + 1] < a)
      BY <1>6, <2>5, <3>1, <3>3, <3>4
    <3>6. j = i + 1
      <4>1. a \in Nat /\ at[i + 1] \in Nat
        BY <1>0, <3>2, <3>3
      <4>2. QED BY <3>3, <3>5, <4>1
    <3>7. QED BY <2>2, <2>3, <3>2, <3>4, <3>6
  <2>8. QED BY <2>6, <2>7
<1>9. ASSUME NEW i \in 1 .. m, NEW j \in 1 .. m, b[i] = b[j] PROVE i = j
  <2>1. at[i] = at[j] /\ at[i] \in Nat
    BY <1>0, <1>2, <1>9
  <2>2. (i < j => at[i] < at[j]) /\ (j < i => at[j] < at[i])
    BY <1>6
  <2>3. QED BY <2>1, <2>2
<1>10. \A p \in free : \E i \in 1 .. m : b[i] = p
  BY <1>2, <1>5
<1>11. \A i \in 1 .. m : b[i] \in free
  BY <1>2
<1>12. PICK h : h = NextAbove(free, 0)
  OBVIOUS
<1>13. Threads(free, x, h, m, b)
  BY <1>3, <1>4, <1>7, <1>8, <1>9, <1>10, <1>11, <1>12, Zenon DEF Threads
<1>14. QED BY <1>12, <1>13 DEF ListShape

\* A page that was not free becomes the head.
LEMMA PushShape ==
  ASSUME NEW free, NEW w, NEW head, ListShape(free, w, head),
         NEW p, p \notin free, p # NULL, NEW x, x[p] = head, \A q \in free : x[q] = w[q]
  PROVE  ListShape(free \cup {p}, x, p)
<1>m. PICK m \in Nat : \E at : Threads(free, w, head, m, at)
  BY DEF ListShape
<1>1. PICK at : Threads(free, w, head, m, at)
  BY <1>m
<1> DEFINE b == [i \in 1 .. m + 2 |-> IF i = 1 THEN p ELSE at[i - 1]]
<1>2. b \in [1 .. m + 2 -> free \cup {p, NULL}] /\ b[1] = p /\ b[m + 2] = NULL
  BY <1>1 DEF Threads
<1>3. ASSUME NEW i \in 1 .. m + 1
      PROVE b[i] \in free \cup {p} /\ x[b[i]] = b[i + 1]
  <2>1. CASE i = 1
    BY <1>1, <2>1 DEF Threads
  <2>2. CASE i > 1
    <3>1. i - 1 \in 1 .. m
      BY <2>2
    <3>2. at[i - 1] \in free /\ w[at[i - 1]] = at[(i - 1) + 1]
      BY Zenon, <1>1, <3>1 DEF Threads
    <3>3. x[at[i - 1]] = at[i] /\ b[i] = at[i - 1] /\ b[i + 1] = at[i]
      BY <2>2, <3>2
    <3>4. QED BY <3>2, <3>3
  <2>3. QED BY <2>1, <2>2
<1>4. ASSUME NEW i \in 1 .. m + 1, NEW j \in 1 .. m + 1, b[i] = b[j] PROVE i = j
  BY <1>1, <1>4 DEF Threads
<1>5. ASSUME NEW q \in free \cup {p} PROVE \E i \in 1 .. m + 1 : b[i] = q
  <2>1. CASE q = p
    BY <2>1
  <2>2. CASE q \in free
    <3>1. PICK i \in 1 .. m : at[i] = q
      BY <1>1, <2>2 DEF Threads
    <3>2. i + 1 \in 1 .. m + 1 /\ b[i + 1] = q
      BY <3>1
    <3>3. QED BY <3>2
  <2>3. QED BY <2>1, <2>2
<1> HIDE DEF b
<1>6. Threads(free \cup {p}, x, p, m + 1, b)
  BY <1>2, <1>3, <1>4, <1>5 DEF Threads
<1>7. QED BY <1>6 DEF ListShape

\* The head of the list is taken off.
LEMMA PopShape ==
  ASSUME NEW free, NEW w, NEW head, ListShape(free, w, head), head # NULL
  PROVE  ListShape(free \ {head}, w, w[head])
<1>m. PICK m \in Nat : \E at : Threads(free, w, head, m, at)
  BY DEF ListShape
<1>1. PICK at : Threads(free, w, head, m, at)
  BY <1>m
<1>2. m > 0
  BY <1>1 DEF Threads
<1> DEFINE b == [i \in 1 .. m |-> at[i + 1]]
<1>3. \A i \in 1 .. m - 1 : at[i + 1] \in free /\ at[i + 1] # head
  BY <1>1, <1>2 DEF Threads
<1>4. b[1] = w[head] /\ b[m] = NULL
  BY <1>1, <1>2 DEF Threads
<1>5. b \in [1 .. m -> (free \ {head}) \cup {NULL}]
  <2>1. \A i \in 1 .. m : i \in 1 .. m - 1 \/ i = m
    BY <1>2
  <2>2. QED BY <1>3, <1>4, <2>1
<1>6. ASSUME NEW i \in 1 .. m - 1
      PROVE b[i] \in free \ {head} /\ w[b[i]] = b[i + 1]
  <2>1. i + 1 \in 1 .. m /\ i \in 1 .. m
    OBVIOUS
  <2>2. QED BY <1>1, <1>3, <2>1 DEF Threads
<1>7. ASSUME NEW i \in 1 .. m - 1, NEW j \in 1 .. m - 1, b[i] = b[j] PROVE i = j
  BY <1>1, <1>7 DEF Threads
<1>8. ASSUME NEW q \in free \ {head} PROVE \E i \in 1 .. m - 1 : b[i] = q
  <2>1. PICK i \in 1 .. m : at[i] = q
    BY <1>1 DEF Threads
  <2>2. i - 1 \in 1 .. m - 1 /\ b[i - 1] = q
    BY <1>1, <2>1 DEF Threads
  <2>3. QED BY <2>2
<1> HIDE DEF b
<1>9. Threads(free \ {head}, w, w[head], m - 1, b)
  BY <1>4, <1>5, <1>6, <1>7, <1>8 DEF Threads
<1>10. QED BY <1>2, <1>9 DEF ListShape

\* Words of pages that are not free do not matter.
LEMMA SameShape ==
  ASSUME NEW free, NEW w, NEW head, ListShape(free, w, head),
         NEW x, \A q \in free : x[q] = w[q]
  PROVE  ListShape(free, x, head)
<1>m. PICK m \in Nat : \E at : Threads(free, w, head, m, at)
  BY DEF ListShape
<1>1. PICK at : Threads(free, w, head, m, at)
  BY <1>m
<1>2. Threads(free, x, head, m, at)
  BY <1>1, Zenon DEF Threads
<1>3. QED BY <1>2 DEF ListShape

\* The head is a FREE page or the null address.
LEMMA HeadShape ==
  ASSUME NEW free, NEW w, NEW head, ListShape(free, w, head)
  PROVE  head \in free \cup {NULL}
BY DEF ListShape, Threads

LEMMA PagesFinite == IsFiniteSet(Pages) /\ Cardinality(Pages) = NPages
BY FS_Interval, PagesAssumption DEF Pages

\* A list without repetition is no longer than memory.
LEMMA ListBound ==
  ASSUME NEW free, free \subseteq Pages, NEW w, NEW head, NEW m \in Nat, NEW at,
         Threads(free, w, head, m, at)
  PROVE  m <= NPages
<1>1. SUFFICES ASSUME m > NPages PROVE FALSE
  BY PagesAssumption
<1> DEFINE f == [i \in 1 .. m |-> at[i]]
<1>2. f \in [1 .. m -> Pages]
  BY DEF Threads
<1>3. \A i, j \in 1 .. m : f[i] = f[j] => i = j
  BY DEF Threads
<1> HIDE DEF f
<1>4. IsFiniteSet(1 .. m) /\ Cardinality(1 .. m) = m
  BY FS_Interval
<1>5. \E i, j \in 1 .. m : i # j /\ f[i] = f[j]
  BY <1>1, <1>2, <1>4, PagesFinite, FS_PigeonHole
<1>6. QED BY <1>3, <1>5

\* The walk of count_free_list_nodes() visits the list and stays at its end.
LEMMA NodeList ==
  ASSUME NEW m \in Nat, NEW at, Threads(FreePages, word, page_free_list_pa, m, at)
  PROVE  \A i \in 0 .. NPages : Node[i] = IF i <= m THEN at[i + 1] ELSE NULL
<1> DEFINE g == [i \in 0 .. NPages |-> IF i <= m THEN at[i + 1] ELSE NULL]
<1>0. NPages \in Nat /\ NULL \notin Pages /\ FreePages \subseteq Pages
  BY PagesAssumption DEF Pages, NULL, FreePages
<1>1. g[0] = page_free_list_pa
  BY <1>0 DEF Threads
<1>2. ASSUME NEW i \in 1 .. NPages
      PROVE  g[i] = IF g[i - 1] \in Pages THEN word[g[i - 1]] ELSE g[i - 1]
  <2>1. i - 1 \in 0 .. NPages /\ i \in 0 .. NPages
    BY <1>0
  <2>2. g[i] = (IF i <= m THEN at[i + 1] ELSE NULL)
    BY <2>1
  <2>3. g[i - 1] = (IF i - 1 <= m THEN at[(i - 1) + 1] ELSE NULL)
    BY <2>1
  <2> HIDE DEF g
  <2>4. CASE i <= m
    <3>1. i \in 1 .. m
      BY <2>4
    <3>2. at[i] \in Pages /\ word[at[i]] = at[i + 1]
      BY <1>0, <3>1 DEF Threads
    <3>3. g[i - 1] = at[i] /\ g[i] = at[i + 1]
      BY <2>2, <2>3, <2>4
    <3>4. QED BY <3>2, <3>3
  <2>5. CASE i > m
    <3>1. g[i] = NULL
      BY <2>2, <2>5
    <3>2. g[i - 1] = NULL
      <4>1. at[m + 1] = NULL
        BY DEF Threads
      <4>2. i - 1 <= m => i = m + 1
        BY <2>5
      <4>3. QED BY <2>3, <4>1, <4>2
    <3>3. QED BY <1>0, <3>1, <3>2
  <2>6. QED BY <2>4, <2>5
<1>3. g = [i \in 0 .. NPages |-> IF i = 0 THEN page_free_list_pa
                                 ELSE IF g[i - 1] \in Pages THEN word[g[i - 1]] ELSE g[i - 1]]
  <2>1. ASSUME NEW i \in 0 .. NPages
        PROVE g[i] = IF i = 0 THEN page_free_list_pa
                     ELSE IF g[i - 1] \in Pages THEN word[g[i - 1]] ELSE g[i - 1]
    <3>1. i = 0 \/ i \in 1 .. NPages
      BY <1>0
    <3>2. QED BY <1>1, <1>2, <3>1
  <2>2. QED BY <2>1
<1>4. Node = [i \in 0 .. NPages |-> IF i = 0 THEN page_free_list_pa
                 ELSE IF Node[i - 1] \in Pages THEN word[Node[i - 1]] ELSE Node[i - 1]]
  <2> HIDE DEF g
  <2>1. QED BY Zenon, <1>3 DEF Node
<1> DEFINE T == {i \in 0 .. NPages : Node[i] = g[i]}
<1>5. 0 \in T
  <2>1. Node[0] = page_free_list_pa
    BY <1>0, <1>4
  <2>2. QED BY <1>0, <1>1, <2>1
<1>6. ASSUME NEW i \in 0 .. NPages - 1, i \in T PROVE i + 1 \in T
  <2>1. i + 1 \in 1 .. NPages /\ i + 1 \in 0 .. NPages /\ (i + 1) - 1 = i /\ i + 1 # 0
    BY <1>0
  <2>2. Node[i + 1] = IF Node[i] \in Pages THEN word[Node[i]] ELSE Node[i]
    BY <1>4, <2>1
  <2> HIDE DEF g
  <2>3. g[i + 1] = IF g[i] \in Pages THEN word[g[i]] ELSE g[i]
    BY <1>2, <2>1
  <2>4. QED BY <1>6, <2>1, <2>2, <2>3
<1> HIDE DEF g, T
<1>7. 0 .. NPages \subseteq T
  BY <1>0, <1>5, <1>6, UpTo
<1>8. QED BY <1>7 DEF T, g

\* A well formed list passes page_allocator_check_consistency().
LEMMA ListConsistent ==
  ASSUME ListShape(FreePages, word, page_free_list_pa), free_pages = Cardinality(FreePages)
  PROVE  FreeListOK
<1>0. NPages \in Nat /\ NULL \notin Pages /\ FreePages \subseteq Pages
  BY PagesAssumption DEF Pages, NULL, FreePages
<1>m. PICK m \in Nat : \E at : Threads(FreePages, word, page_free_list_pa, m, at)
  BY DEF ListShape
<1>1. PICK at : Threads(FreePages, word, page_free_list_pa, m, at)
  BY <1>m
<1>2. PICK n : n = Node
  OBVIOUS
<1>3. \A i \in 0 .. NPages : n[i] = IF i <= m THEN at[i + 1] ELSE NULL
  BY <1>1, <1>2, NodeList
<1>4. m <= NPages
  BY <1>0, <1>1, ListBound, Zenon
<1>5. at[m + 1] = NULL
  BY <1>1 DEF Threads
<1>6. n[NPages] = NULL
  BY <1>0, <1>3, <1>4, <1>5
<1>7. ASSUME NEW i \in 0 .. NPages, n[i] # NULL PROVE n[i] \in FreePages
  <2>1. i <= m /\ n[i] = at[i + 1]
    BY <1>3, <1>7
  <2>2. i + 1 \in 1 .. m + 1
    BY <2>1
  <2>3. QED BY <1>1, <1>7, <2>1, <2>2 DEF Threads
<1>8. ASSUME NEW p \in FreePages PROVE \E i \in 0 .. NPages : n[i] = p
  <2>1. PICK j \in 1 .. m : at[j] = p
    BY <1>1 DEF Threads
  <2>2. j - 1 \in 0 .. NPages /\ j - 1 <= m /\ (j - 1) + 1 = j
    BY <1>0, <1>4
  <2>3. n[j - 1] = p
    BY <1>3, <2>1, <2>2
  <2>4. QED BY <2>2, <2>3
<1>9. {n[i] : i \in 0 .. NPages} \ {NULL} = FreePages
  BY <1>0, <1>7, <1>8
<1>10. QED BY <1>2, <1>6, <1>9 DEF FreeListOK

(***************************************************************************)
(* The scan for a run.                                                     *)
(***************************************************************************)
LEMMA RunLengthDef ==
  \A p \in 0 .. NPages : RunLength[p] =
    IF p = 0 THEN 0 ELSE IF state[p] = "FREE" THEN RunLength[p - 1] + 1 ELSE 0
<1> DEFINE Counts(f, n) ==
             f = [p \in 0 .. n |-> IF p = 0 THEN 0
                                   ELSE IF state[p] = "FREE" THEN f[p - 1] + 1 ELSE 0]
           T == {n \in Nat : \E f : Counts(f, n)}
<1>1. 0 \in T
  <2>1. Counts([p \in 0 .. 0 |-> 0], 0)
    OBVIOUS
  <2>2. QED BY <2>1
<1>2. ASSUME NEW n \in 0 .. NPages - 1, n \in T PROVE n + 1 \in T
  <2>1. PICK f : Counts(f, n)
    BY <1>2
  <2> DEFINE g == [p \in 0 .. n + 1 |-> IF p <= n THEN f[p]
                                        ELSE IF state[p] = "FREE" THEN f[p - 1] + 1 ELSE 0]
  <2>2. ASSUME NEW p \in 0 .. n + 1
        PROVE g[p] = IF p = 0 THEN 0 ELSE IF state[p] = "FREE" THEN g[p - 1] + 1 ELSE 0
    <3>1. CASE p = 0
      <4>1. f[0] = 0
        BY <2>1
      <4>2. QED BY <3>1, <4>1
    <3>2. CASE p \in 1 .. n
      <4>1. p \in 0 .. n /\ p # 0 /\ g[p] = f[p] /\ g[p - 1] = f[p - 1]
        BY <3>2
      <4>2. f[p] = IF state[p] = "FREE" THEN f[p - 1] + 1 ELSE 0
        BY <2>1, <4>1
      <4>3. QED BY <4>1, <4>2
    <3>3. CASE p = n + 1
      <4>1. p # 0 /\ ~(p <= n) /\ p - 1 \in 0 .. n + 1 /\ p - 1 <= n
        BY <3>3
      <4>2. g[p - 1] = f[p - 1] /\ g[p] = IF state[p] = "FREE" THEN f[p - 1] + 1 ELSE 0
        BY <4>1
      <4>3. QED BY <4>1, <4>2
    <3>4. QED BY <3>1, <3>2, <3>3
  <2>3. Counts(g, n + 1)
    <3>1. g = [p \in 0 .. n + 1 |-> g[p]]
      OBVIOUS
    <3> HIDE DEF g
    <3>2. QED BY <2>2, <3>1
  <2>4. n + 1 \in Nat /\ \E h : Counts(h, n + 1)
    <3> HIDE DEF Counts
    <3>1. QED BY <2>3, PagesAssumption
  <2>5. QED BY <2>4
<1> HIDE DEF T
<1>3. 0 .. NPages \subseteq T
  BY <1>1, <1>2, PagesAssumption, UpTo
<1>4. PICK f : Counts(f, NPages)
  <2>1. NPages \in T
    BY <1>3, PagesAssumption
  <2>2. QED BY <2>1 DEF T
<1>5. Counts(RunLength, NPages)
  BY Zenon, <1>4 DEF RunLength
<1>6. QED BY <1>5

\* RunLength[p] is the length of the longest run of FREE pages that ends at p.
LEMMA RunLengthIs ==
  \A p \in 0 .. NPages :
    /\ RunLength[p] \in 0 .. p
    /\ p - RunLength[p] + 1 .. p \subseteq FreePages
    /\ p - RunLength[p] \notin FreePages
<1>1. PICK L : L = RunLength
  OBVIOUS
<1>2. \A p \in 0 .. NPages :
        L[p] = IF p = 0 THEN 0 ELSE IF state[p] = "FREE" THEN L[p - 1] + 1 ELSE 0
  BY <1>1, RunLengthDef
<1>3. NPages \in Nat /\ 0 \notin FreePages
  BY PagesAssumption DEF FreePages, Pages
<1> DEFINE T == {p \in 0 .. NPages : /\ L[p] \in 0 .. p /\ p - L[p] + 1 .. p \subseteq FreePages
                                     /\ p - L[p] \notin FreePages}
<1>4. 0 \in T
  <2>1. L[0] = 0
    BY <1>2, <1>3
  <2>2. QED BY <1>3, <2>1
<1>5. ASSUME NEW n \in 0 .. NPages - 1, n \in T PROVE n + 1 \in T
  <2>1. /\ n + 1 \in 0 .. NPages /\ n + 1 # 0 /\ (n + 1) - 1 = n
        /\ L[n] \in 0 .. n /\ n - L[n] + 1 .. n \subseteq FreePages /\ n - L[n] \notin FreePages
        /\ n + 1 \in Pages
    BY <1>3, <1>5 DEF Pages
  <2>2. L[n + 1] = IF state[n + 1] = "FREE" THEN L[n] + 1 ELSE 0
    BY <1>2, <2>1
  <2>3. CASE state[n + 1] = "FREE"
    <3>1. L[n + 1] = L[n] + 1 /\ n + 1 \in FreePages
      BY <2>1, <2>2, <2>3 DEF FreePages
    <3>2. (n + 1) - L[n + 1] = n - L[n]
      BY <2>1, <3>1
    <3>3. (n + 1) - L[n + 1] + 1 .. n + 1 \subseteq FreePages
      BY <2>1, <3>1, <3>2
    <3>4. L[n + 1] \in 0 .. n + 1
      BY <2>1, <3>1
    <3>5. QED BY <2>1, <3>2, <3>3, <3>4
  <2>4. CASE state[n + 1] # "FREE"
    <3>1. L[n + 1] = 0 /\ n + 1 \notin FreePages
      BY <2>2, <2>4 DEF FreePages
    <3>2. QED BY <2>1, <3>1
  <2>5. QED BY <2>3, <2>4
<1> HIDE DEF T
<1>6. 0 .. NPages \subseteq T
  BY <1>3, <1>4, <1>5, UpTo
<1>7. QED BY <1>1, <1>6 DEF T

\* page_alloc_contiguous() finds the lowest run of n FREE pages.
LEMMA ScanFirstFit == ASSUME NEW n \in 1 .. NPages PROVE Scan(n) = FirstFit(n)
<1> DEFINE starts == {p \in Pages : p + n - 1 <= NPages /\ p .. p + n - 1 \subseteq FreePages}
<1>0. NPages \in Nat /\ Pages = 1 .. NPages /\ 0 \notin FreePages
  BY PagesAssumption DEF Pages, FreePages
<1>1. PICK L : L = RunLength
  OBVIOUS
<1>2. \A p \in 0 .. NPages : /\ L[p] \in 0 .. p
                             /\ p - L[p] + 1 .. p \subseteq FreePages
                             /\ p - L[p] \notin FreePages
  BY <1>1, RunLengthIs
<1> DEFINE ends == {p \in Pages : L[p] = n}
<1>3. ASSUME NEW e \in ends PROVE e - n + 1 \in starts
  <2>1. e \in 1 .. NPages /\ L[e] = n
    BY <1>0
  <2>2. n \in 0 .. e /\ e - n + 1 .. e \subseteq FreePages
    BY <1>2, <2>1
  <2>3. (e - n + 1) + n - 1 = e /\ e - n + 1 \in 1 .. NPages
    BY <1>0, <2>1, <2>2
  <2>4. QED BY <1>0, <2>1, <2>2, <2>3
<1>4. ASSUME NEW s \in starts PROVE \E e \in ends : e <= s + n - 1
  <2>1. s \in 1 .. NPages /\ s + n - 1 \in 0 .. NPages /\ s .. s + n - 1 \subseteq FreePages
    BY <1>0
  <2>2. PICK z \in Nat : z = s + n - 1 - L[s + n - 1]
    BY <1>2, <2>1
  <2>3. z \notin FreePages /\ z + 1 .. s + n - 1 \subseteq FreePages
    <3>1. s + n - 1 - L[s + n - 1] + 1 = z + 1
      BY <2>2
    <3>2. QED BY <1>2, <2>1, <2>2, <3>1
  <2>4. z < s
    BY <2>1, <2>2, <2>3, <1>2
  <2>5. PICK e \in 1 .. NPages : e = z + n
    BY <1>0, <2>1, <2>4
  <2>6. e - n = z /\ e <= s + n - 1 /\ e \in 0 .. NPages
    BY <1>0, <2>1, <2>4, <2>5
  <2>7. L[e] \in 0 .. e /\ e - L[e] + 1 .. e \subseteq FreePages /\ e - L[e] \notin FreePages
    BY <1>2, <2>6
  <2>8. L[e] = n
    <3>1. ~(L[e] > n)
      <4>1. SUFFICES ASSUME L[e] > n PROVE FALSE
        OBVIOUS
      <4>2. z \in e - L[e] + 1 .. e
        BY <2>5, <2>7, <4>1
      <4>3. QED BY <2>3, <2>7, <4>2
    <3>2. ~(L[e] < n)
      <4>1. SUFFICES ASSUME L[e] < n PROVE FALSE
        OBVIOUS
      <4>2. e - L[e] \in z + 1 .. s + n - 1
        BY <1>0, <2>1, <2>4, <2>5, <2>6, <2>7, <4>1
      <4>3. QED BY <2>3, <2>7, <4>2
    <3>3. QED BY <2>7, <3>1, <3>2
  <2>9. QED BY <1>0, <2>6, <2>8
<1>5. /\ Scan(n) = (IF ends = {} THEN NULL ELSE NextAbove(ends, 0) - n + 1)
      /\ FirstFit(n) = NextAbove(starts, 0)
  BY <1>1 DEF Scan, FirstFit
<1>6. /\ starts \subseteq Nat /\ \A s \in starts : s > 0
      /\ ends \subseteq Nat /\ \A e \in ends : e > 0
  BY <1>0
<1> HIDE DEF starts, ends
<1>7. PICK a, b : a = NextAbove(starts, 0) /\ b = NextAbove(ends, 0)
  OBVIOUS
<1>8. \/ a = NULL /\ \A q \in starts : ~(q > 0)
      \/ a \in starts /\ a > 0 /\ \A r \in starts : r > 0 => a <= r
  BY <1>6, <1>7, NextAboveLeast, Zenon
<1>9. \/ b = NULL /\ \A q \in ends : ~(q > 0)
      \/ b \in ends /\ b > 0 /\ \A r \in ends : r > 0 => b <= r
  BY <1>6, <1>7, NextAboveLeast, Zenon
<1>10. CASE ends = {}
  <2>1. starts = {}
    BY <1>4, <1>10
  <2>2. a = NULL
    BY Zenon, <1>8, <2>1
  <2>3. QED BY <1>5, <1>7, <1>10, <2>2
<1>11. CASE ends # {}
  <2>1. b \in ends /\ \A r \in ends : b <= r
    BY Zenon, <1>6, <1>9, <1>11
  <2>2. b - n + 1 \in starts
    BY <1>3, <2>1
  <2>3. a \in starts /\ a <= b - n + 1
    BY Zenon, <1>6, <1>8, <2>2
  <2>4. PICK e \in ends : e <= a + n - 1
    BY <1>4, <2>3
  <2>5. a \in Nat /\ b \in Nat /\ e \in Nat /\ b <= e
    BY <1>6, <2>1, <2>3, <2>4
  <2>6. a = b - n + 1
    BY <1>0, <2>3, <2>4, <2>5
  <2>7. QED BY <1>5, <1>7, <1>11, <2>6
<1>12. QED BY <1>10, <1>11

(***************************************************************************)
(* Counting the free pages.                                                *)
(***************************************************************************)


LEMMA FreeFinite == IsFiniteSet(FreePages) /\ Cardinality(FreePages) \in 0 .. NPages
<1>1. FreePages \in SUBSET Pages
  BY DEF FreePages
<1>2. QED BY <1>1, PagesFinite, FS_Subset, FS_CardinalityType, PagesAssumption

(***************************************************************************)
(* The steps.                                                              *)
(***************************************************************************)
LEMMA InvInit == Init => PagesInv
<1> SUFFICES ASSUME Init PROVE PagesInv
  OBVIOUS
<1>0. NPages \in Nat /\ FreePages = Pages /\ InRuns = {}
  BY PagesAssumption DEF Init, FreePages, InRuns
<1>1. Types
  BY PagesAssumption DEF Init, Types, Pages, RunOf
<1>2. LinksOK
  <2> DEFINE at == [i \in 1 .. NPages + 1 |-> NPages + 1 - i]
  <2>1. at \in [1 .. NPages + 1 -> Pages \cup {0}] /\ at[1] = NPages /\ at[NPages + 1] = 0
    BY <1>0 DEF Pages
  <2>2. \A i \in 1 .. NPages : at[i] \in Pages /\ word[at[i]] = at[i + 1]
    BY <1>0 DEF Init, Pages
  <2>3. \A i, j \in 1 .. NPages : at[i] = at[j] => i = j
    BY <1>0
  <2>4. ASSUME NEW p \in Pages PROVE \E i \in 1 .. NPages : at[i] = p
    <3>1. NPages + 1 - p \in 1 .. NPages /\ at[NPages + 1 - p] = p
      BY <1>0 DEF Pages
    <3>2. QED BY <3>1
  <2> HIDE DEF at
  <2>5. Threads(FreePages, word, page_free_list_pa, NPages, at)
    BY <1>0, <2>1, <2>2, <2>3, <2>4 DEF Init, Threads, NULL
  <2>6. QED BY <1>0, <2>5 DEF LinksOK, ListShape
<1>3. CountOK
  BY <1>0, PagesFinite DEF Init, CountOK
<1>4. RefsExact
  BY <1>0 DEF Init, RefsExact
<1>5. ScrubOK /\ PagesClean
  BY DEF Init, ScrubOK, PagesClean
<1>6. QED BY <1>1, <1>2, <1>3, <1>4, <1>5 DEF PagesInv

\* A page is free or allocated, and the null address is no page.
LEMMA PageCases ==
  ASSUME Types, NEW p \in Pages
  PROVE  /\ p # NULL
         /\ p \in FreePages <=> state[p] # "ALLOCATED"
         /\ state[p] \in {"FREE", "ALLOCATED"}
BY DEF Types, FreePages, Pages, NULL

LEMMA PageAllocInv == ASSUME PagesInv, PageAlloc PROVE PagesInv'
<1> DEFINE h == page_free_list_pa
<1>1. h \in FreePages /\ h \in Pages /\ state[h] = "FREE"
  BY HeadShape DEF PagesInv, LinksOK, PageAlloc, FreePages
<1>2. holds[h] = 0 /\ h \notin InRuns /\ h \notin scrub /\ h \notin written
  BY <1>1 DEF PagesInv, RefsExact, ScrubOK, Types
<1>3. FreePages' = FreePages \ {h}
  BY <1>1 DEF PageAlloc, FreePages, PagesInv, Types
<1>4. Types'
  <2>1. /\ state' \in [Pages -> {"FREE", "ALLOCATED"}]
        /\ ref_count' \in [Pages -> 0 .. MaxRef]
        /\ scrub' \subseteq Pages
    BY <1>1, PagesAssumption DEF PageAlloc, PagesInv, Types
  <2>2. holds' \in [Pages -> 0 .. MaxHolds]
    BY <1>1, <1>2, PagesAssumption DEF PageAlloc, PagesInv, Types
  <2>3. QED BY <2>1, <2>2 DEF PageAlloc, PagesInv, Types, counts, RunOf
<1>5. LinksOK'
  BY <1>1, <1>3, PopShape DEF LinksOK, PagesInv, PageAlloc
<1>6. CountOK'
  BY Zenon, <1>1, <1>3, FreeFinite, FS_RemoveElement DEF CountOK, PagesInv, PageAlloc
<1>7. InRuns' = InRuns
  BY DEF InRuns, PageAlloc, RunOf
<1>8. RefsExact'
  BY <1>1, <1>2, <1>7 DEF RefsExact, PagesInv, PageAlloc, Types, RunOf
<1>9. ScrubOK' /\ PagesClean'
  BY <1>1, <1>2 DEF ScrubOK, PagesClean, PagesInv, PageAlloc, Types
<1>10. QED BY <1>4, <1>5, <1>6, <1>8, <1>9 DEF PagesInv

LEMMA ZeroPageInv == ASSUME PagesInv, NEW p \in Pages, ZeroPage(p) PROVE PagesInv'
<1>1. /\ holds[p] > 0 /\ p \notin written
      /\ state[p] = "ALLOCATED" /\ p \notin FreePages
  BY PageCases DEF ZeroPage, PagesInv, ScrubOK, RefsExact
<1>2. FreePages' = FreePages /\ InRuns' = InRuns
  BY DEF ZeroPage, FreePages, InRuns, RunOf
<1>3. Types'
  BY DEF ZeroPage, PagesInv, Types, counts, RunOf
<1>4. LinksOK'
  <2>1. \A q \in FreePages : word'[q] = word[q]
    BY <1>1 DEF ZeroPage, PagesInv, Types, FreePages
  <2>2. QED BY Zenon, <1>2, <2>1, SameShape DEF LinksOK, PagesInv, ZeroPage
<1>5. CountOK' /\ RefsExact'
  BY <1>2 DEF CountOK, RefsExact, PagesInv, ZeroPage, RunOf
<1>6. ScrubOK' /\ PagesClean'
  BY <1>1 DEF ScrubOK, PagesClean, PagesInv, ZeroPage, Types
<1>7. QED BY <1>3, <1>4, <1>5, <1>6 DEF PagesInv

LEMMA WriteInv == ASSUME PagesInv, NEW p \in Pages, WriteClient(p) PROVE PagesInv'
<1>1. state[p] = "ALLOCATED" /\ p \notin FreePages /\ p \notin scrub
  BY PageCases DEF WriteClient, Held, PagesInv, ScrubOK, RefsExact
<1>2. FreePages' = FreePages /\ InRuns' = InRuns
  BY DEF WriteClient, FreePages, InRuns, RunOf
<1>3. Types'
  BY DEF WriteClient, PagesInv, Types, counts, RunOf
<1>4. LinksOK'
  <2>1. \A q \in FreePages : word'[q] = word[q]
    BY <1>1 DEF WriteClient, PagesInv, Types, FreePages
  <2>2. QED BY Zenon, <1>2, <2>1, SameShape DEF LinksOK, PagesInv, WriteClient
<1>5. CountOK' /\ RefsExact'
  BY <1>2 DEF CountOK, RefsExact, PagesInv, WriteClient, RunOf
<1>6. ScrubOK' /\ PagesClean'
  BY <1>1 DEF ScrubOK, PagesClean, PagesInv, WriteClient, Types
<1>7. QED BY <1>3, <1>4, <1>5, <1>6 DEF PagesInv

\* What a holder knows of its page.
LEMMA HeldPage ==
  ASSUME PagesInv, NEW p \in Pages, Held(p)
  PROVE  /\ state[p] = "ALLOCATED" /\ p \notin FreePages /\ p \notin InRuns
         /\ ref_count[p] = holds[p] /\ holds[p] \in 1 .. MaxHolds /\ p \notin scrub
<1>1. holds[p] \in 0 .. MaxHolds /\ holds[p] > 0 /\ p \notin scrub
  BY DEF PagesInv, Types, Held
<1>2. state[p] = "ALLOCATED" /\ p \notin InRuns /\ ref_count[p] = holds[p]
  BY <1>1 DEF PagesInv, RefsExact
<1>3. QED BY <1>1, <1>2, PagesAssumption, PageCases DEF PagesInv

\* A reference to a shared page goes.
LEMMA UnshareInv ==
  ASSUME PagesInv, NEW p \in Pages, Held(p), holds[p] > 1, Release(p),
         ref_count' = [ref_count EXCEPT ![p] = @ - 1],
         UNCHANGED <<state, word, page_free_list_pa, free_pages, counts>>
  PROVE  PagesInv'
<1>1. /\ state[p] = "ALLOCATED" /\ p \notin InRuns /\ ref_count[p] = holds[p]
      /\ holds[p] \in 2 .. MaxHolds /\ p \notin scrub
  BY HeldPage, PagesAssumption
<1>2. FreePages' = FreePages /\ InRuns' = InRuns /\ written' = written
  BY <1>1 DEF FreePages, InRuns, RunOf, Release
<1>3. Types'
  <2>1. ref_count' \in [Pages -> 0 .. MaxRef] /\ holds' \in [Pages -> 0 .. MaxHolds]
    BY <1>1, PagesAssumption DEF PagesInv, Types, Release
  <2>2. QED BY <1>2, <2>1 DEF PagesInv, Types, Release, counts, RunOf
<1>4. LinksOK' /\ CountOK'
  BY <1>2 DEF LinksOK, CountOK, PagesInv
<1>5. RefsExact'
  BY <1>1, <1>2 DEF RefsExact, PagesInv, Types, Release, RunOf
<1>6. ScrubOK' /\ PagesClean'
  BY <1>1, <1>2 DEF ScrubOK, PagesClean, PagesInv, Types, Release
<1>7. QED BY <1>3, <1>4, <1>5, <1>6 DEF PagesInv

\* The last reference to a page goes.
LEMMA DropInv ==
  ASSUME PagesInv, NEW p \in Pages, Held(p), holds[p] = 1, Release(p), Push(p),
         ref_count' = [ref_count EXCEPT ![p] = 0], UNCHANGED counts
  PROVE  PagesInv'
<1>1. /\ state[p] = "ALLOCATED" /\ p \notin InRuns /\ p \notin FreePages /\ p \notin scrub
      /\ p # NULL
  BY HeldPage, PageCases DEF PagesInv
<1>2. FreePages' = FreePages \cup {p}
  BY <1>1 DEF FreePages, Push, PagesInv, Types
<1>3. InRuns' = InRuns /\ written' = written \ {p}
  BY DEF InRuns, RunOf, Release
<1>4. Types'
  <2>1. /\ state' \in [Pages -> {"FREE", "ALLOCATED"}]
        /\ ref_count' \in [Pages -> 0 .. MaxRef] /\ holds' \in [Pages -> 0 .. MaxHolds]
    BY PagesAssumption DEF PagesInv, Types, Release, Push
  <2>2. page_free_list_pa \in Pages \cup {0}
    BY HeadShape DEF PagesInv, LinksOK, FreePages, NULL
  <2>3. word' \in [Pages -> Pages \cup {0, Data}]
    BY <2>2 DEF PagesInv, Types, Push
  <2>4. QED BY <1>3, <2>1, <2>3 DEF PagesInv, Types, Release, counts, RunOf
<1>5. LinksOK'
  <2>1. word'[p] = page_free_list_pa /\ \A q \in FreePages : word'[q] = word[q]
    BY <1>1 DEF PagesInv, Types, Push, FreePages
  <2>2. QED BY Zenon, <1>1, <1>2, <2>1, PushShape DEF LinksOK, PagesInv, Push
<1>6. CountOK'
  BY Zenon, <1>1, <1>2, FreeFinite, FS_AddElement DEF CountOK, PagesInv, Push
<1>7. RefsExact'
  BY <1>1, <1>3 DEF RefsExact, PagesInv, Types, Release, Push, RunOf
<1>8. ScrubOK' /\ PagesClean'
  BY <1>1, <1>3 DEF ScrubOK, PagesClean, PagesInv, Types, Release, Push
<1>9. QED BY <1>4, <1>5, <1>6, <1>7, <1>8 DEF PagesInv

LEMMA FreeClientInv == ASSUME PagesInv, NEW p \in Pages, FreeClient(p) PROVE PagesInv'
<1>1. Held(p) /\ Release(p) /\ PageFree(p)
  BY DEF FreeClient
<1>2. state[p] = "ALLOCATED" /\ ref_count[p] = holds[p] /\ holds[p] \in 1 .. MaxHolds
  BY <1>1, HeldPage
<1>3. CASE holds[p] > 1
  <2>1. /\ ref_count' = [ref_count EXCEPT ![p] = @ - 1]
        /\ UNCHANGED <<state, word, page_free_list_pa, free_pages, counts>>
    BY <1>1, <1>2, <1>3, PagesAssumption DEF PageFree
  <2>2. QED BY Zenon, <1>1, <1>3, <2>1, UnshareInv
<1>4. CASE holds[p] = 1
  <2>1. ref_count' = [ref_count EXCEPT ![p] = 0] /\ Push(p) /\ UNCHANGED counts
    BY <1>1, <1>2, <1>4 DEF PageFree
  <2>2. QED BY Zenon, <1>1, <1>4, <2>1, DropInv
<1>5. QED BY <1>2, <1>3, <1>4, PagesAssumption

LEMMA RefDecClientInv == ASSUME PagesInv, NEW p \in Pages, RefDecClient(p) PROVE PagesInv'
<1>1. Held(p) /\ Release(p) /\ PageRefDec(p)
  BY DEF RefDecClient
<1>2. state[p] = "ALLOCATED" /\ ref_count[p] = holds[p] /\ holds[p] \in 1 .. MaxHolds
  BY <1>1, HeldPage
<1>3. CASE holds[p] > 1
  <2>1. /\ ref_count' = [ref_count EXCEPT ![p] = @ - 1]
        /\ UNCHANGED <<state, word, page_free_list_pa, free_pages, counts>>
    BY <1>1, <1>2, <1>3, PagesAssumption DEF PageRefDec
  <2>2. QED BY Zenon, <1>1, <1>3, <2>1, UnshareInv
<1>4. CASE holds[p] = 1
  <2>1. ref_count' = [ref_count EXCEPT ![p] = 0] /\ Push(p) /\ UNCHANGED counts
    BY <1>1, <1>2, <1>4 DEF PageRefDec
  <2>2. QED BY Zenon, <1>1, <1>4, <2>1, DropInv
<1>5. QED BY <1>2, <1>3, <1>4, PagesAssumption

LEMMA ShareClientInv == ASSUME PagesInv, NEW p \in Pages, ShareClient(p) PROVE PagesInv'
<1>1. /\ state[p] = "ALLOCATED" /\ p \notin InRuns /\ ref_count[p] = holds[p]
      /\ holds[p] \in 1 .. MaxHolds - 1 /\ p \notin scrub
  BY HeldPage, PagesAssumption DEF ShareClient
<1>2. FreePages' = FreePages /\ InRuns' = InRuns
  BY DEF FreePages, InRuns, RunOf, ShareClient, PageRefInc
<1>3. ref_count' = [ref_count EXCEPT ![p] = @ + 1]
  BY <1>1, PagesAssumption DEF ShareClient, PageRefInc
<1>4. Types'
  <2>1. ref_count' \in [Pages -> 0 .. MaxRef] /\ holds' \in [Pages -> 0 .. MaxHolds]
    BY <1>1, <1>3, PagesAssumption DEF PagesInv, Types, ShareClient
  <2>2. QED BY <2>1 DEF PagesInv, Types, ShareClient, PageRefInc, counts, RunOf
<1>5. LinksOK' /\ CountOK'
  BY <1>2 DEF LinksOK, CountOK, PagesInv, ShareClient, PageRefInc
<1>6. RefsExact'
  BY <1>1, <1>2, <1>3 DEF RefsExact, PagesInv, Types, ShareClient, PageRefInc, RunOf
<1>7. ScrubOK' /\ PagesClean'
  BY <1>1 DEF ScrubOK, PagesClean, PagesInv, Types, ShareClient, PageRefInc
<1>8. QED BY <1>4, <1>5, <1>6, <1>7 DEF PagesInv

\* Disjoint sets of pages add up.
LEMMA AddRun ==
  ASSUME NEW S, S \subseteq Pages, NEW f \in Pages, NEW n \in Pages,
         f + n - 1 <= NPages, S \cap (f .. f + n - 1) = {}
  PROVE  Cardinality(S \cup (f .. f + n - 1)) = Cardinality(S) + n
<1> DEFINE T == f .. f + n - 1
<1>1. IsFiniteSet(T) /\ Cardinality(T) = n
  BY FS_Interval, PagesAssumption DEF Pages
<1>2. IsFiniteSet(S) /\ Cardinality(S) \in Nat
  BY PagesFinite, FS_Subset, FS_CardinalityType
<1>3. Cardinality(S \cap T) = 0
  BY FS_EmptySet
<1> HIDE DEF T
<1>4. Cardinality(S \cup T) = Cardinality(S) + Cardinality(T) - Cardinality(S \cap T)
  BY <1>1, <1>2, FS_Union
<1>5. Cardinality(S \cup T) = Cardinality(S) + n
  BY <1>1, <1>2, <1>3, <1>4, PagesAssumption DEF Pages
<1>6. QED BY <1>5 DEF T

LEMMA FirstFitRun ==
  ASSUME NEW n \in Pages, NEW f, f = FirstFit(n), f # NULL
  PROVE  f \in Pages /\ f + n - 1 <= NPages /\ f .. f + n - 1 \subseteq FreePages
<1> DEFINE S == {p \in Pages : p + n - 1 <= NPages /\ p .. p + n - 1 \subseteq FreePages}
<1>1. S \subseteq Nat /\ 0 \in Nat /\ f = NextAbove(S, 0)
  BY DEF Pages, FirstFit
<1> HIDE DEF S
<1>2. f \in S
  BY Zenon, <1>1, NextAboveLeast
<1>3. QED BY <1>2 DEF S

LEMMA AllocContiguousInv ==
  ASSUME PagesInv, NEW n \in Pages, PageAllocContiguous(n) PROVE PagesInv'
<1>1. PICK f : f = FirstFit(n)
  OBVIOUS
<1> DEFINE run == f .. f + n - 1
           st == [p \in Pages |-> IF p \in run THEN "ALLOCATED" ELSE state[p]]
           x == [p \in Pages |-> IF p \in run THEN 0 ELSE word[p]]
<1>2. /\ f # NULL /\ state' = st /\ Rebuild(st, x) /\ free_pages' = free_pages - n
      /\ ref_count' = [p \in Pages |-> IF p \in run THEN 1 ELSE ref_count[p]]
      /\ runs' = runs \cup {<<f, n>>}
      /\ UNCHANGED <<counts, scrub, holds, written>>
  BY <1>1, ScanFirstFit DEF PageAllocContiguous, Pages
<1>3. /\ f \in Pages /\ f + n - 1 <= NPages /\ run \subseteq FreePages /\ run \subseteq Pages
      /\ RunOf(<<f, n>>) = run
  BY <1>1, <1>2, FirstFitRun DEF FreePages, RunOf
<1> HIDE DEF run
<1>4. \A p \in run : p \in Pages /\ state[p] = "FREE" /\ holds[p] = 0 /\ p \notin InRuns
                     /\ p \notin scrub /\ p \notin written
  BY <1>3 DEF PagesInv, Types, RefsExact, ScrubOK, FreePages
<1>5. FreePages' = FreePages \ run /\ FreePages' = {p \in Pages : st[p] = "FREE"}
  BY <1>2, <1>3 DEF FreePages
<1>6. /\ word' = [p \in Pages |-> IF p \in FreePages' THEN NextAbove(FreePages', p) ELSE x[p]]
      /\ page_free_list_pa' = NextAbove(FreePages', 0)
  BY <1>2, <1>5 DEF Rebuild
<1>7. LinksOK'
  <2>1. PICK fr, w : fr = FreePages' /\ w = word'
    OBVIOUS
  <2>2. fr \subseteq Pages
    BY <1>5, <2>1 DEF FreePages
  <2>3. ListShape(fr, w, NextAbove(fr, 0))
    BY <1>6, <2>1, <2>2, RebuildShape
  <2>4. QED BY <1>6, <2>1, <2>3 DEF LinksOK
<1>8. Types'
  <2>1. state' \in [Pages -> {"FREE", "ALLOCATED"}] /\ ref_count' \in [Pages -> 0 .. MaxRef]
    BY <1>2, PagesAssumption DEF PagesInv, Types
  <2>2. word' \in [Pages -> Pages \cup {0, Data}]
    <3>1. ASSUME NEW p \in FreePages' PROVE NextAbove(FreePages', p) \in Pages \cup {0}
      <4>1. PICK fr : fr = FreePages'
        OBVIOUS
      <4>2. fr \subseteq Pages /\ fr \subseteq Nat /\ p \in Nat
        BY <1>5, <3>1, <4>1 DEF FreePages, Pages
      <4>3. NextAbove(fr, p) \in fr \cup {0}
        BY Zenon, <4>2, NextAboveLeast DEF NULL
      <4>4. QED BY <4>1, <4>2, <4>3
    <3>2. \A p \in Pages : x[p] \in Pages \cup {0, Data}
      BY DEF PagesInv, Types
    <3>3. QED BY <1>6, <3>1, <3>2
  <2>3. runs' \subseteq Pages \X Pages /\ \A r \in runs' : RunOf(r) \subseteq Pages
    BY <1>2, <1>3 DEF PagesInv, Types
  <2>4. QED BY <1>2, <2>1, <2>2, <2>3 DEF PagesInv, Types, counts, RunOf
<1>9. CountOK'
  <2>1. FreePages' \subseteq Pages /\ FreePages' \cap run = {} /\ FreePages = FreePages' \cup run
    BY <1>3, <1>5 DEF FreePages
  <2>2. Cardinality(FreePages) = Cardinality(FreePages') + n
    BY <1>3, <2>1, AddRun DEF run
  <2>3. Cardinality(FreePages') \in Nat /\ n \in Nat
    <3>1. PICK S : S = FreePages'
      OBVIOUS
    <3>2. S \in SUBSET Pages
      BY <2>1, <3>1
    <3>3. Cardinality(S) \in Nat
      BY <3>2, PagesFinite, FS_Subset, FS_CardinalityType
    <3>4. QED BY <3>1, <3>3 DEF Pages
  <2>4. QED BY <1>2, <2>2, <2>3 DEF CountOK, PagesInv
<1>10. InRuns' = InRuns \cup run
  BY Zenon, <1>2, <1>3 DEF InRuns, RunOf
<1>11. RefsExact'
  <2>1. ASSUME NEW p \in Pages
        PROVE /\ state'[p] = "ALLOCATED" <=> (holds'[p] > 0 \/ p \in InRuns')
              /\ holds'[p] > 0 => (ref_count'[p] = holds'[p] /\ p \notin InRuns')
              /\ p \in InRuns' => ref_count'[p] = 1
    BY <1>2, <1>4, <1>10 DEF PagesInv, RefsExact
  <2>2. ASSUME NEW r \in runs PROVE RunOf(r) \cap run = {}
    BY <1>4, <2>2 DEF InRuns
  <2>3. \A r, s \in runs' : r # s => RunOf(r) \cap RunOf(s) = {}
    BY Zenon, <1>2, <1>3, <2>2 DEF PagesInv, RefsExact
  <2>4. \A r \in runs' : RunOf(r)' = RunOf(r)
    BY DEF RunOf
  <2>5. QED BY <2>1, <2>3 DEF RefsExact, RunOf
<1>12. ScrubOK'
  BY <1>2, <1>4 DEF ScrubOK, PagesInv, Types
<1>13. PagesClean'
  <2>1. ASSUME NEW p \in Pages, state'[p] = "ALLOCATED", p \notin scrub'
        PROVE word'[p] = IF p \in written' THEN Data ELSE 0
    <3>1. p \notin FreePages' /\ word'[p] = x[p]
      BY <1>6, <2>1 DEF FreePages
    <3>2. QED BY <1>2, <1>4, <2>1, <3>1 DEF PagesInv, PagesClean
  <2>2. QED BY <2>1 DEF PagesClean
<1>14. QED BY <1>7, <1>8, <1>9, <1>11, <1>12, <1>13 DEF PagesInv

LEMMA RunClientInv == ASSUME PagesInv, NEW r \in runs, RunClient(r) PROVE PagesInv'
<1> DEFINE run == RunOf(r)
           st == [p \in Pages |-> IF p \in run THEN "FREE" ELSE state[p]]
<1>1. r[1] \in Pages /\ r[2] \in Pages /\ run \subseteq Pages /\ run \subseteq InRuns
  BY DEF PagesInv, Types, InRuns
<1>2. /\ run = r[1] .. r[1] + r[2] - 1 /\ r[1] + r[2] - 1 <= NPages
      /\ \A p \in run : state[p] = "ALLOCATED"
  <2>1. r[1] + r[2] - 1 \in run
    BY <1>1, PagesAssumption DEF RunOf, Pages
  <2>2. QED BY <1>1, <2>1, PagesAssumption DEF RunOf, Pages, PagesInv, RefsExact
<1>3. /\ state' = st /\ Rebuild(st, word) /\ free_pages' = free_pages + r[2]
      /\ UNCHANGED <<ref_count, counts, scrub, holds>>
      /\ runs' = runs \ {r} /\ written' = written \ run
  BY <1>1, <1>2, PagesAssumption DEF RunClient, PageFreeContiguous, Pages
<1> HIDE DEF run
<1>4. \A p \in run : p \in Pages /\ holds[p] = 0 /\ p \notin scrub /\ p \notin FreePages
  BY <1>1, <1>2 DEF PagesInv, Types, RefsExact, ScrubOK, FreePages
<1>5. FreePages' = FreePages \cup run /\ FreePages' = {p \in Pages : st[p] = "FREE"}
  BY <1>1, <1>3 DEF FreePages
<1>6. /\ word' = [p \in Pages |-> IF p \in FreePages' THEN NextAbove(FreePages', p) ELSE word[p]]
      /\ page_free_list_pa' = NextAbove(FreePages', 0)
  BY Zenon, <1>3, <1>5 DEF Rebuild
<1>7. PICK fr : fr = FreePages' /\ fr \subseteq Pages /\ fr \subseteq Nat
  <2>1. FreePages' \subseteq Pages /\ Pages \subseteq Nat
    BY <1>5 DEF FreePages, Pages
  <2>2. QED BY Zenon, <2>1
<1>8. LinksOK'
  <2>1. PICK w, x : w = word /\ x = word'
    OBVIOUS
  <2>2. ListShape(fr, x, NextAbove(fr, 0))
    BY Zenon, <1>6, <1>7, <2>1, RebuildShape
  <2>3. QED BY <1>6, <1>7, <2>1, <2>2 DEF LinksOK
<1>9. Types'
  <2>1. state' \in [Pages -> {"FREE", "ALLOCATED"}]
    BY <1>3 DEF PagesInv, Types
  <2>2. word' \in [Pages -> Pages \cup {0, Data}]
    <3>1. ASSUME NEW p \in fr PROVE NextAbove(fr, p) \in Pages \cup {0}
      BY Zenon, <1>7, <3>1, NextAboveLeast DEF NULL
    <3>2. QED BY <1>6, <1>7, <3>1 DEF PagesInv, Types
  <2>3. QED BY <1>3, <2>1, <2>2 DEF PagesInv, Types, counts, RunOf
<1>10. CountOK'
  <2>1. FreePages \subseteq Pages /\ FreePages \cap run = {}
    BY <1>4 DEF FreePages
  <2>2. Cardinality(FreePages') = Cardinality(FreePages) + r[2]
    <3>1. PICK f, n, S : f = r[1] /\ n = r[2] /\ S = FreePages
      OBVIOUS
    <3>2. Cardinality(S \cup (f .. f + n - 1)) = Cardinality(S) + n
      BY Zenon, <1>1, <1>2, <2>1, <3>1, AddRun
    <3>3. QED BY <1>2, <1>5, <3>1, <3>2
  <2>3. QED BY <1>3, <2>2 DEF CountOK, PagesInv
<1>11. InRuns' = InRuns \ run
  BY <1>3 DEF InRuns, RunOf, PagesInv, RefsExact, run
<1>12. RefsExact'
  <2>1. ASSUME NEW p \in Pages
        PROVE /\ state'[p] = "ALLOCATED" <=> (holds'[p] > 0 \/ p \in InRuns')
              /\ holds'[p] > 0 => (ref_count'[p] = holds'[p] /\ p \notin InRuns')
              /\ p \in InRuns' => ref_count'[p] = 1
    BY <1>3, <1>4, <1>11 DEF PagesInv, RefsExact
  <2>2. \A q, s \in runs' : q # s => RunOf(q) \cap RunOf(s) = {}
    BY <1>3 DEF PagesInv, RefsExact
  <2>3. QED BY <2>1, <2>2 DEF RefsExact, RunOf
<1>13. ScrubOK'
  BY <1>3, <1>4 DEF ScrubOK, PagesInv, Types
<1>14. PagesClean'
  <2>1. ASSUME NEW p \in Pages, state'[p] = "ALLOCATED", p \notin scrub'
        PROVE word'[p] = IF p \in written' THEN Data ELSE 0
    <3>1. p \notin FreePages' /\ word'[p] = word[p] /\ p \notin run /\ state[p] = "ALLOCATED"
      BY <1>3, <1>6, <2>1 DEF FreePages
    <3>2. QED BY <1>3, <2>1, <3>1 DEF PagesInv, PagesClean
  <2>2. QED BY <2>1 DEF PagesClean
<1>15. QED BY <1>8, <1>9, <1>10, <1>12, <1>13, <1>14 DEF PagesInv

\* A free of what nobody holds only counts.
LEMMA StrayOnlyCounts ==
  ASSUME PagesInv, StrayClient
  PROVE  /\ UNCHANGED <<state, ref_count, word, page_free_list_pa, free_pages, scrub, holds,
                        runs, written>>
         /\ invalid_free_count' \in Nat /\ double_free_count' \in Nat
<1> DEFINE unheld == {p \in Pages : holds[p] = 0} \ InRuns
<1>0. /\ invalid_free_count \in Nat /\ double_free_count \in Nat
      /\ UNCHANGED <<scrub, holds, runs, written>>
      /\ \A p \in unheld : p \in Pages /\ state[p] # "ALLOCATED"
  BY SMTT(30) DEF StrayClient, PagesInv, Types, RefsExact
<1>1. CASE \E p \in unheld : PageFree(p)
  BY <1>0, <1>1 DEF PageFree
<1>2. ASSUME NEW f \in Pages, NEW n \in 1 .. NPages, PageFreeContiguous(f, n),
             f + n - 1 > NPages \/ (f .. f + n - 1) \cap unheld # {}
      PROVE  /\ UNCHANGED <<state, ref_count, word, page_free_list_pa, free_pages>>
             /\ invalid_free_count' \in Nat /\ double_free_count' \in Nat
  <2>1. f + n - 1 > NPages \/ \E p \in f .. f + n - 1 : state[p] # "ALLOCATED"
    BY <1>0, <1>2
  <2> HIDE DEF unheld
  <2>2. ~(f + n - 1 <= NPages /\ \A p \in f .. f + n - 1 : state[p] = "ALLOCATED")
    BY <2>1, PagesAssumption DEF Pages
  <2>3. QED BY <1>0, <1>2, <2>2 DEF PageFreeContiguous
<1>3. CASE InvalidFree
  BY <1>0, <1>3 DEF InvalidFree
<1>4. QED BY <1>0, <1>1, <1>2, <1>3 DEF StrayClient

LEMMA StrayInv == ASSUME PagesInv, StrayClient PROVE PagesInv'
<1>1. /\ UNCHANGED <<state, ref_count, word, page_free_list_pa, free_pages, scrub, holds,
                     runs, written>>
      /\ invalid_free_count' \in Nat /\ double_free_count' \in Nat
  BY StrayOnlyCounts
<1>2. Types' /\ ScrubOK' /\ PagesClean'
  BY <1>1 DEF PagesInv, Types, ScrubOK, PagesClean, RunOf
<1>3. LinksOK' /\ CountOK' /\ RefsExact'
  BY <1>1 DEF PagesInv, LinksOK, CountOK, RefsExact, FreePages, InRuns, RunOf
<1>4. QED BY <1>2, <1>3 DEF PagesInv

LEMMA InvStep == PagesInv /\ [Next]_vars => PagesInv'
<1> SUFFICES ASSUME PagesInv, [Next]_vars PROVE PagesInv'
  OBVIOUS
<1>1. CASE PageAlloc
  BY <1>1, PageAllocInv
<1>2. ASSUME NEW p \in Pages, ZeroPage(p) PROVE PagesInv'
  BY <1>2, ZeroPageInv
<1>3. ASSUME NEW n \in 1 .. NPages, PageAllocContiguous(n) PROVE PagesInv'
  BY <1>3, AllocContiguousInv DEF Pages
<1>4. ASSUME NEW p \in Pages, ShareClient(p) \/ FreeClient(p) \/ RefDecClient(p) \/ WriteClient(p)
      PROVE PagesInv'
  BY <1>4, ShareClientInv, FreeClientInv, RefDecClientInv, WriteInv
<1>5. ASSUME NEW r \in runs, RunClient(r) PROVE PagesInv'
  BY <1>5, RunClientInv
<1>6. CASE StrayClient
  BY <1>6, StrayInv
<1>7. CASE UNCHANGED vars
  <2>1. Types' /\ ScrubOK' /\ PagesClean'
    BY <1>7 DEF vars, PagesInv, Types, ScrubOK, PagesClean, RunOf
  <2>2. LinksOK' /\ CountOK' /\ RefsExact'
    BY <1>7 DEF vars, PagesInv, LinksOK, CountOK, RefsExact, FreePages, InRuns, RunOf
  <2>3. QED BY <2>1, <2>2 DEF PagesInv
<1>8. QED BY <1>1, <1>2, <1>3, <1>4, <1>5, <1>6, <1>7 DEF Next

LEMMA InvAlways == Spec => []PagesInv
BY InvInit, InvStep, PTL DEF Spec

(***************************************************************************)
(* The theorems.                                                           *)
(***************************************************************************)
\* For any number of pages the variables of page_alloc.c keep their types: ref_count
\* stays in its range and the free counter between zero and the number of pages.
THEOREM PagesTyped == Spec => []TypeOK
<1>1. PagesInv => TypeOK
  <2> SUFFICES ASSUME PagesInv PROVE TypeOK
    OBVIOUS
  <2>1. page_free_list_pa \in Pages \cup {NULL}
    BY HeadShape DEF PagesInv, LinksOK, FreePages
  <2>2. free_pages \in 0 .. NPages
    BY FreeFinite DEF PagesInv, CountOK
  <2>3. holds \in [Pages -> Nat]
    BY PagesAssumption DEF PagesInv, Types
  <2>4. QED BY <2>1, <2>2, <2>3 DEF PagesInv, Types, TypeOK
<1>2. QED BY <1>1, InvAlways, PTL

\* page_alloc() and page_alloc_contiguous() never hand out a page that somebody holds,
\* page_free(), page_ref_dec() and page_free_contiguous() never free one under a holder,
\* and ref_count is the number of references held.
THEOREM PagesExact == Spec => []RefsExact
<1>1. PagesInv => RefsExact
  BY DEF PagesInv
<1>2. QED BY <1>1, InvAlways, PTL

\* A page reaches its holder zeroed, although page_alloc() scrubs it after the unlock,
\* and the links of the free list never overwrite what a holder has written.
THEOREM PagesStayClean == Spec => []PagesClean
<1>1. PagesInv => PagesClean
  BY DEF PagesInv
<1>2. QED BY <1>1, InvAlways, PTL

\* The free list that is threaded through the pages, pushed, popped and rebuilt any number
\* of times, passes page_allocator_check_consistency() whenever page_lock is free: a walk
\* from the head meets every FREE page and ends, and free_pages is their number.
THEOREM FreeListAlways == Spec => []FreeListOK
<1>1. PagesInv => FreeListOK
  BY ListConsistent DEF PagesInv, LinksOK, CountOK
<1>2. QED BY <1>1, InvAlways, PTL

\* In memory of any size page_alloc_contiguous() finds the lowest run that fits, at the
\* first page, at the last one and between allocated pages alike, and fails only when
\* there is none.
THEOREM ScanAlways == Spec => []ScanIsFirstFit
<1>1. ScanIsFirstFit
  BY ScanFirstFit DEF ScanIsFirstFit
<1>2. QED BY <1>1, PTL

(***************************************************************************)
(* The refinement.                                                         *)
(***************************************************************************)
Refs == [p \in Pages |-> IF state[p] = "ALLOCATED" THEN ref_count[p] ELSE 0]

LEMMA RefinesInit == Init => Promise!Init
BY DEF Init, Promise!Init

LEMMA RefsValue ==
  ASSUME PagesInv, NEW p \in Pages
  PROVE  Refs[p] = (IF state[p] = "ALLOCATED" THEN ref_count[p] ELSE 0) /\ Refs[p] \in Nat
BY PagesAssumption DEF Refs, PagesInv, Types

LEMMA RefinesPop == ASSUME PagesInv, PageAlloc PROVE \E S \in SUBSET Pages : Promise!Take(S)
<1>0. PICK h : h = page_free_list_pa
  OBVIOUS
<1>1. h \in Pages /\ state[h] = "FREE"
  BY <1>0, HeadShape DEF PagesInv, LinksOK, PageAlloc, FreePages
<1>2. Refs' = [p \in Pages |-> IF p \in {h} THEN 1 ELSE Refs[p]]
  BY <1>0, <1>1 DEF PagesInv, Types, PageAlloc, Refs
<1>3. Promise!Take({h})
  BY <1>1, <1>2 DEF Promise!Take, Refs
<1>4. {h} \in SUBSET Pages
  BY <1>1
<1>5. QED BY <1>3, <1>4

LEMMA RefinesRun ==
  ASSUME PagesInv, NEW n \in Pages, PageAllocContiguous(n)
  PROVE  \E S \in SUBSET Pages : Promise!Take(S)
<1>1. PICK f : f = FirstFit(n)
  OBVIOUS
<1> DEFINE run == f .. f + n - 1
<1>2. /\ f # NULL
      /\ state' = [p \in Pages |-> IF p \in run THEN "ALLOCATED" ELSE state[p]]
      /\ ref_count' = [p \in Pages |-> IF p \in run THEN 1 ELSE ref_count[p]]
  BY <1>1, ScanFirstFit DEF PageAllocContiguous, Pages
<1>3. run \subseteq Pages /\ \A p \in run : state[p] = "FREE"
  BY <1>1, <1>2, FirstFitRun DEF FreePages
<1> HIDE DEF run
<1>4. Refs' = [p \in Pages |-> IF p \in run THEN 1 ELSE Refs[p]]
  BY <1>2 DEF Refs
<1>5. Promise!Take(run)
  BY <1>3, <1>4 DEF Promise!Take, Refs
<1>6. QED BY <1>3, <1>5

LEMMA RefinesRelease ==
  ASSUME PagesInv, NEW p \in Pages, FreeClient(p) \/ RefDecClient(p)
  PROVE  \/ \E S \in SUBSET Pages : Promise!Drop(S)
         \/ Promise!Unshare(p)
<1>1. Held(p) /\ (PageFree(p) \/ PageRefDec(p))
  BY DEF FreeClient, RefDecClient
<1>2. state[p] = "ALLOCATED" /\ ref_count[p] = holds[p] /\ holds[p] \in 1 .. MaxHolds
  BY <1>1, HeldPage
<1>3. CASE holds[p] > 1
  <2>1. ref_count' = [ref_count EXCEPT ![p] = @ - 1] /\ state' = state
    BY <1>1, <1>2, <1>3, PagesAssumption DEF PageFree, PageRefDec
  <2>2. Refs' = [Refs EXCEPT ![p] = @ - 1] /\ Refs[p] > 1
    BY Zenon, <1>2, <1>3, <2>1 DEF Refs, PagesInv, Types
  <2>3. Promise!Unshare(p)
    BY <2>2 DEF Promise!Unshare, Refs
  <2>4. QED BY <2>3
<1>4. CASE holds[p] = 1
  <2>1. /\ ref_count' = [ref_count EXCEPT ![p] = 0]
        /\ state' = [state EXCEPT ![p] = "FREE"]
    BY <1>1, <1>2, <1>4 DEF PageFree, PageRefDec, Push
  <2>2. Refs' = [q \in Pages |-> IF q \in {p} THEN 0 ELSE Refs[q]] /\ Refs[p] = 1
    BY <1>2, <1>4, <2>1 DEF Refs, PagesInv, Types
  <2>3. Promise!Drop({p})
    BY <2>2 DEF Promise!Drop, Refs
  <2>4. QED BY <2>3
<1>5. QED BY <1>2, <1>3, <1>4, PagesAssumption

LEMMA RefinesShare == ASSUME PagesInv, NEW p \in Pages, ShareClient(p) PROVE Promise!Share(p)
<1>1. state[p] = "ALLOCATED" /\ ref_count[p] = holds[p] /\ holds[p] \in 1 .. MaxHolds - 1
  BY HeldPage, PagesAssumption DEF ShareClient
<1>2. ref_count' = [ref_count EXCEPT ![p] = @ + 1] /\ state' = state
  BY <1>1, PagesAssumption DEF ShareClient, PageRefInc
<1>3. Refs' = [Refs EXCEPT ![p] = @ + 1] /\ Refs[p] > 0
  <2>1. Refs[p] = ref_count[p] /\ ref_count[p] > 0
    BY <1>1, PagesAssumption DEF Refs
  <2>2. Refs' = [Refs EXCEPT ![p] = @ + 1]
    BY Zenon, <1>1, <1>2 DEF Refs, PagesInv, Types
  <2>3. QED BY <2>1, <2>2
<1>4. QED BY <1>3 DEF Promise!Share, Refs

LEMMA RefinesRunFree ==
  ASSUME PagesInv, NEW r \in runs, RunClient(r)
  PROVE  \E S \in SUBSET Pages : Promise!Drop(S)
<1> DEFINE run == RunOf(r)
<1>1. run \subseteq Pages /\ run \subseteq InRuns /\ r[1] \in Pages /\ r[2] \in Pages
  BY DEF PagesInv, Types, InRuns
<1>2. /\ run = r[1] .. r[1] + r[2] - 1 /\ r[1] + r[2] - 1 <= NPages
      /\ \A p \in run : state[p] = "ALLOCATED" /\ ref_count[p] = 1
  <2>1. r[1] + r[2] - 1 \in run
    BY <1>1, PagesAssumption DEF RunOf, Pages
  <2>2. QED BY <1>1, <2>1, PagesAssumption DEF RunOf, Pages, PagesInv, RefsExact
<1>3. /\ state' = [p \in Pages |-> IF p \in run THEN "FREE" ELSE state[p]]
      /\ ref_count' = ref_count
  BY <1>1, <1>2, PagesAssumption DEF RunClient, PageFreeContiguous, Pages
<1> HIDE DEF run
<1>4. Refs' = [p \in Pages |-> IF p \in run THEN 0 ELSE Refs[p]]
  BY <1>3 DEF Refs
<1>5. Promise!Drop(run)
  BY <1>1, <1>2, <1>4 DEF Promise!Drop, Refs
<1>6. QED BY <1>1, <1>5

LEMMA RefinesStep == PagesInv /\ [Next]_vars => [Promise!Next]_Refs
<1> SUFFICES ASSUME PagesInv, [Next]_vars PROVE Promise!Next \/ Refs' = Refs
  OBVIOUS
<1>1. CASE PageAlloc
  BY <1>1, RefinesPop DEF Promise!Next
<1>2. ASSUME NEW p \in Pages, ZeroPage(p) \/ WriteClient(p) PROVE Refs' = Refs
  BY <1>2 DEF ZeroPage, WriteClient, Refs
<1>3. ASSUME NEW n \in 1 .. NPages, PageAllocContiguous(n) PROVE Promise!Next
  BY <1>3, RefinesRun DEF Promise!Next, Pages
<1>4. ASSUME NEW p \in Pages, ShareClient(p) PROVE Promise!Next
  BY <1>4, RefinesShare DEF Promise!Next
<1>5. ASSUME NEW p \in Pages, FreeClient(p) \/ RefDecClient(p) PROVE Promise!Next
  BY <1>5, RefinesRelease DEF Promise!Next
<1>6. ASSUME NEW r \in runs, RunClient(r) PROVE Promise!Next
  BY <1>6, RefinesRunFree DEF Promise!Next
<1>7. CASE StrayClient
  BY <1>7, StrayOnlyCounts DEF Refs
<1>8. CASE UNCHANGED vars
  BY <1>8 DEF vars, Refs
<1>9. QED BY <1>1, <1>2, <1>3, <1>4, <1>5, <1>6, <1>7, <1>8 DEF Next

\* page_alloc.c implements PageSpec: each critical section of page_lock hands out pages
\* with no reference, shares or unshares one, takes back last references, or changes
\* nothing the clients can tell.
THEOREM PagesImplement == Spec => ImplementsPromise
<1>1. PagesInv /\ [Next]_vars => [Promise!Next]_Refs
  BY RefinesStep
<1>2. QED BY <1>1, RefinesInit, InvAlways, PTL DEF Spec, ImplementsPromise, Promise!Spec, Refs
=============================================================================
