---------------------------- MODULE SchedProofs ----------------------------
(***************************************************************************)
(* What the locked helpers of the scheduler do to the task table and the   *)
(* run queues, what calls and returns do to a stack of frames, and type    *)
(* correctness, for every number of CPUs and task slots.                   *)
(***************************************************************************)
EXTENDS SchedInv, TLAPS

(***************************************************************************)
(* Sequences.                                                              *)
(***************************************************************************)
LEMMA SeqFacts ==
  ASSUME NEW S, NEW q \in Seq(S)
  PROVE  Len(q) \in Nat /\ q \in [1 .. Len(q) -> S] /\ DOMAIN q = 1 .. Len(q)
OBVIOUS

LEMMA SeqElement ==
  ASSUME NEW S, NEW q \in Seq(S), NEW i \in 1 .. Len(q)
  PROVE  q[i] \in S
OBVIOUS

LEMMA SameSeq ==
  ASSUME NEW S, NEW q \in Seq(S), NEW r \in Seq(S), Len(q) = Len(r),
         \A i \in 1 .. Len(q) : q[i] = r[i]
  PROVE  q = r
BY SeqFacts

LEMMA ConcatFacts ==
  ASSUME NEW S, NEW q \in Seq(S), NEW r \in Seq(S)
  PROVE  /\ q \o r \in Seq(S) /\ Len(q \o r) = Len(q) + Len(r)
         /\ \A i \in 1 .. Len(q) + Len(r) :
              (q \o r)[i] = IF i <= Len(q) THEN q[i] ELSE r[i - Len(q)]
OBVIOUS

LEMMA ConcatThree ==
  ASSUME NEW S, NEW q \in Seq(S), NEW r \in Seq(S), NEW z \in Seq(S)
  PROVE  (q \o r) \o z = q \o (r \o z)
OBVIOUS

LEMMA HeadFacts ==
  ASSUME NEW S, NEW q \in Seq(S), q # <<>>
  PROVE  /\ Head(q) \in S /\ Tail(q) \in Seq(S) /\ Len(Tail(q)) = Len(q) - 1
         /\ \A i \in 1 .. Len(Tail(q)) : Tail(q)[i] = q[i + 1]
OBVIOUS

LEMMA AppendFacts ==
  ASSUME NEW S, NEW q \in Seq(S), NEW e \in S
  PROVE  /\ Append(q, e) \in Seq(S) /\ Append(q, e) # <<>>
         /\ Len(Append(q, e)) = Len(q) + 1
         /\ \A i \in 1 .. Len(q) : Append(q, e)[i] = q[i]
         /\ Append(q, e)[Len(q) + 1] = e
OBVIOUS

LEMMA SubSeqFacts ==
  ASSUME NEW S, NEW q, NEW m \in Int, NEW n \in Int, \A i \in m .. n : q[i] \in S
  PROVE  /\ SubSeq(q, m, n) \in Seq(S)
         /\ Len(SubSeq(q, m, n)) = IF m <= n THEN n - m + 1 ELSE 0
         /\ \A i \in 1 .. n - m + 1 : SubSeq(q, m, n)[i] = q[m + i - 1]
OBVIOUS

LEMMA NoSeq ==
  ASSUME NEW S
  PROVE  /\ <<>> \in Seq(S) /\ Len(<<>>) = 0
         /\ \A q \in Seq(S) : q # <<>> => Len(q) \in Nat \ {0}
OBVIOUS

(***************************************************************************)
(* The locked helpers keep the state typed.                                *)
(***************************************************************************)
LEMMA SlotFacts ==
  /\ Slots \subseteq Tasks /\ Cpus \subseteq Tasks /\ Cpus \subseteq Nat
  /\ 0 \in Cpus /\ NoCpu \notin Cpus /\ Tasks \subseteq Nat
  /\ \A t \in Tasks : t \in Slots <=> t \notin Cpus
  /\ \A c \in Cpus : c < NCpus
BY ConstantsOK DEF Slots, Tasks, Cpus, NoCpu

LEMMA StateFields ==
  ASSUME NEW s \in SchedState
  PROVE  /\ s.task \in [Tasks -> TaskRec] /\ s.rq \in [Cpus -> Seq(Slots)]
         /\ s.need \in [Cpus -> BOOLEAN] /\ s.nxt \in Cpus
BY Zenon DEF SchedState

LEMMA TypedTask ==
  ASSUME NEW s, SchedTyped(s), NEW t \in Tasks
  PROVE  s.task[t] \in TaskRec
BY Zenon, StateFields DEF SchedTyped

LEMMA UpdateTyped ==
  ASSUME NEW s, SchedTyped(s), NEW t \in Tasks, NEW r \in TaskRec, r.id = s.task[t].id
  PROVE  SchedTyped([s EXCEPT !.task[t] = r])
<1>1. [s.task EXCEPT ![t] = r] \in [Tasks -> TaskRec]
  BY Zenon, StateFields DEF SchedTyped
<1>2. [s EXCEPT !.task[t] = r] \in SchedState
  BY Zenon, <1>1, StateFields DEF SchedTyped, SchedState
<1>3. QED BY Zenon, <1>2, StateFields, SlotFacts DEF SchedTyped, SchedState

LEMMA QueueTyped ==
  ASSUME NEW s, SchedTyped(s), NEW c \in Cpus, NEW q \in Seq(Slots)
  PROVE  SchedTyped([s EXCEPT !.rq[c] = q])
<1>1. [s.rq EXCEPT ![c] = q] \in [Cpus -> Seq(Slots)]
  BY Zenon, StateFields DEF SchedTyped
<1>2. QED BY Zenon, <1>1, StateFields DEF SchedTyped, SchedState

LEMMA NeedTyped ==
  ASSUME NEW s, SchedTyped(s), NEW c \in Cpus, NEW b \in BOOLEAN
  PROVE  SchedTyped([s EXCEPT !.need[c] = b])
<1>1. [s.need EXCEPT ![c] = b] \in [Cpus -> BOOLEAN]
  BY Zenon, StateFields DEF SchedTyped
<1>2. QED BY Zenon, <1>1, StateFields DEF SchedTyped, SchedState

LEMMA RqEnqueueTyped ==
  ASSUME NEW s, SchedTyped(s), NEW t \in Tasks, NEW c \in Cpus
  PROVE  SchedTyped(RqEnqueue(s, t, c))
<1>1. CASE s.task[t].id < NCpus \/ s.task[t].on_rq
  BY Zenon, <1>1 DEF RqEnqueue
<1>2. CASE ~(s.task[t].id < NCpus \/ s.task[t].on_rq)
  <2> DEFINE r == [s.task[t] EXCEPT !.rq_cpu = c, !.on_rq = TRUE]
  <2>1. t \in Slots
    BY Zenon, <1>2, SlotFacts DEF SchedTyped
  <2>2. r \in TaskRec /\ r.id = s.task[t].id
    BY Zenon, TypedTask DEF TaskRec
  <2>3. SchedTyped([s EXCEPT !.task[t] = r])
    BY Zenon, <2>2, UpdateTyped
  <2>4. Append(s.rq[c], t) \in Seq(Slots)
    BY <2>1, StateFields DEF SchedTyped
  <2>5. RqEnqueue(s, t, c)
        = [[s EXCEPT !.task[t] = r] EXCEPT !.rq[c] = Append(s.rq[c], t)]
    BY Zenon, <1>2, StateFields DEF RqEnqueue, SchedTyped, SchedState
  <2> DEFINE s1 == [s EXCEPT !.task[t] = r]
  <2>6. RqEnqueue(s, t, c) = [s1 EXCEPT !.rq[c] = Append(s.rq[c], t)] /\ SchedTyped(s1)
    BY Zenon, <2>3, <2>5
  <2> HIDE DEF s1
  <2> DEFINE q == Append(s.rq[c], t)
  <2> HIDE DEF q
  <2>7. SchedTyped([s1 EXCEPT !.rq[c] = q])
    BY Zenon, <2>4, <2>6, QueueTyped DEF q
  <2>8. QED BY Zenon, <2>6, <2>7 DEF q
<1>3. QED BY Zenon, <1>1, <1>2

LEMMA SubSeqTyped ==
  ASSUME NEW S, NEW q \in Seq(S), NEW n \in 0 .. Len(q)
  PROVE  /\ SubSeq(q, n + 1, Len(q)) \in Seq(S)
         /\ Len(SubSeq(q, n + 1, Len(q))) = Len(q) - n
         /\ \A i \in 1 .. Len(q) - n : SubSeq(q, n + 1, Len(q))[i] = q[n + i]
<1>1. Len(q) \in Nat
  BY Zenon, SeqFacts
<1>2. \A i \in n + 1 .. Len(q) : q[i] \in S
  BY <1>1, SeqElement
<1>3. QED BY <1>1, <1>2, SubSeqFacts

LEMMA RqDequeueTyped ==
  ASSUME NEW s, SchedTyped(s), NEW c \in Cpus, NEW n \in 0 .. Len(s.rq[c])
  PROVE  SchedTyped(RqDequeue(s, c, n))
<1> DEFINE off(u) == [s.task[u] EXCEPT !.on_rq = FALSE]
           tk == [u \in Tasks |-> IF \E j \in 1 .. n : s.rq[c][j] = u
                                  THEN off(u) ELSE s.task[u]]
           q == [s.rq EXCEPT ![c] = SubSeq(@, n + 1, Len(@))]
<1>1. \A u \in Tasks : off(u) \in TaskRec /\ off(u).id = s.task[u].id
  BY ZenonT(60), TypedTask DEF TaskRec
<1>2. tk \in [Tasks -> TaskRec] /\ \A u \in Tasks : tk[u].id = s.task[u].id
  BY Zenon, <1>1, TypedTask
<1>3. q \in [Cpus -> Seq(Slots)]
  BY Zenon, SubSeqTyped, StateFields DEF SchedTyped
<1>4. RqDequeue(s, c, n) = [[s EXCEPT !.rq = q] EXCEPT !.task = tk]
  BY Zenon DEF RqDequeue
<1> HIDE DEF tk, q
<1>5. QED BY Zenon, <1>2, <1>3, <1>4, StateFields, SlotFacts DEF SchedTyped, SchedState

LEMMA CutAtTyped ==
  ASSUME NEW S, NEW q \in Seq(S), NEW i \in 1 .. Len(q)
  PROVE  /\ CutAt(q, i) \in Seq(S) /\ Len(CutAt(q, i)) = Len(q) - 1
         /\ \A j \in 1 .. Len(q) - 1 :
              CutAt(q, i)[j] = IF j < i THEN q[j] ELSE q[j + 1]
<1>1. Len(q) \in Nat /\ Len(q) - 1 \in Nat
  BY SeqFacts
<1>2. \A j \in 1 .. Len(q) : q[j] \in S
  BY Zenon, SeqElement
<1>3. CutAt(q, i) \in [1 .. Len(q) - 1 -> S]
  BY <1>1, <1>2 DEF CutAt
<1>4. QED BY <1>1, <1>3, SeqFacts DEF CutAt

LEMMA RqRemoveTyped ==
  ASSUME NEW s, SchedTyped(s), NEW t \in Tasks
  PROVE  SchedTyped(RqRemove(s, t)) /\ RqRemove(s, t).task[t].id = s.task[t].id
<1> DEFINE c == s.task[t].rq_cpu
           off == [s.task[t] EXCEPT !.on_rq = FALSE]
           s1 == [s EXCEPT !.task[t] = off]
<1>1. off \in TaskRec /\ off.id = s.task[t].id
  BY Zenon, TypedTask DEF TaskRec
<1>2. SchedTyped(s1) /\ s1.rq = s.rq /\ s1.task[t].id = s.task[t].id
  <2>1. SchedTyped(s1)
    BY Zenon, <1>1, UpdateTyped
  <2>2. s1.rq = s.rq /\ s1.task[t] = off
    BY Zenon, StateFields DEF SchedTyped, SchedState
  <2>3. QED BY Zenon, <1>1, <2>1, <2>2
<1>3. CASE ~s.task[t].on_rq \/ c \notin Cpus
  BY SMTT(30), <1>3 DEF RqRemove
<1>4. CASE ~(~s.task[t].on_rq \/ c \notin Cpus)
           /\ ~\E i \in 1 .. Len(s.rq[c]) : s.rq[c][i] = t
  BY Zenon, <1>2, <1>4 DEF RqRemove
<1>5. CASE ~(~s.task[t].on_rq \/ c \notin Cpus)
           /\ \E i \in 1 .. Len(s.rq[c]) : s.rq[c][i] = t
  <2> DEFINE k == CHOOSE i \in 1 .. Len(s.rq[c]) : s.rq[c][i] = t
  <2>1. k \in 1 .. Len(s.rq[c])
    BY Zenon, <1>5
  <2>2. s.rq[c] \in Seq(Slots)
    BY Zenon, <1>5, StateFields DEF SchedTyped
  <2> HIDE DEF k
  <2>3. CutAt(s.rq[c], k) \in Seq(Slots)
    BY SMTT(30), <2>1, <2>2, CutAtTyped
  <2>4. RqRemove(s, t) = [s1 EXCEPT !.rq[c] = CutAt(s.rq[c], k)]
    BY Zenon, <1>2, <1>5 DEF RqRemove, k
  <2> HIDE DEF s1
  <2>5. SchedTyped(RqRemove(s, t))
    BY <1>2, <1>5, <2>3, <2>4, QueueTyped
  <2>6. RqRemove(s, t).task = s1.task
    BY Zenon, <1>2, <2>4 DEF SchedTyped, SchedState
  <2>7. QED BY Zenon, <1>2, <2>5, <2>6
<1>6. QED BY Zenon, <1>3, <1>4, <1>5

LEMMA ReadyTyped ==
  ASSUME NEW s, SchedTyped(s), NEW t \in Tasks, NEW st \in States
  PROVE  SchedTyped([s EXCEPT !.task[t].state = st])
<1>1. [s.task[t] EXCEPT !.state = st] \in TaskRec
      /\ [s.task[t] EXCEPT !.state = st].id = s.task[t].id
  BY Zenon, TypedTask DEF TaskRec
<1>2. QED BY Zenon, <1>1, UpdateTyped

LEMMA MakeReadyTyped ==
  ASSUME NEW s, SchedTyped(s), NEW t \in Tasks, NEW c \in Cpus
  PROVE  SchedTyped(MakeReady(s, t, c))
<1>1. CASE s.task[t].id < NCpus
  BY Zenon, <1>1 DEF MakeReady
<1>2. CASE ~(s.task[t].id < NCpus)
  <2> DEFINE s1 == [s EXCEPT !.task[t].state = "READY"]
             s2 == RqEnqueue(s1, t, c)
             n == IF c + 1 = NCpus THEN 0 ELSE c + 1
  <2>1. SchedTyped(s1)
    BY Zenon, ReadyTyped DEF States
  <2> HIDE DEF s1
  <2>2. SchedTyped(s2)
    BY Zenon, <2>1, RqEnqueueTyped
  <2>3. n \in Cpus
    BY ConstantsOK DEF Cpus
  <2>4. MakeReady(s, t, c) = [s2 EXCEPT !.need[c] = TRUE, !.nxt = n]
    BY Zenon, <1>2 DEF MakeReady, s1
  <2> HIDE DEF s2, n
  <2>5. SchedTyped([s2 EXCEPT !.need[c] = TRUE])
    BY Zenon, <2>2, StateFields DEF SchedTyped, SchedState
  <2>6. QED BY Zenon, <2>3, <2>4, <2>5 DEF SchedTyped, SchedState
<1>3. QED BY Zenon, <1>1, <1>2

LEMMA OutgoingTyped ==
  ASSUME NEW s, SchedTyped(s), NEW t \in Tasks, NEW c \in Cpus
  PROVE  SchedTyped(Outgoing(s, t, c))
<1> DEFINE kr == [s.task[t] EXCEPT !.kill = FALSE, !.state = "DEAD"]
           k == IF s.task[t].id >= NCpus /\ s.task[t].kill
                THEN [s EXCEPT !.task[t] = kr] ELSE s
           cl == [k EXCEPT !.need[c] = FALSE]
           q == IF cl.task[t].state = "RUNNING"
                THEN RqEnqueue([cl EXCEPT !.task[t].state = "READY"], t, c) ELSE cl
           r == [q.task[t] EXCEPT !.cpu = NoCpu]
<1>1. kr \in TaskRec /\ kr.id = s.task[t].id
  BY ZenonT(60), TypedTask DEF TaskRec, States
<1>2. SchedTyped(k)
  BY Zenon, <1>1, UpdateTyped
<1>3. SchedTyped(cl)
  <2> HIDE DEF k
  <2> QED BY Zenon, <1>2, NeedTyped, SlotFacts
<1>4. SchedTyped(q)
  <2> HIDE DEF cl
  <2> QED BY Zenon, <1>3, ReadyTyped, RqEnqueueTyped DEF States
<1>5. r \in TaskRec /\ r.id = q.task[t].id
  <2> HIDE DEF q
  <2> QED BY <1>4, TypedTask DEF TaskRec
<1>6. SchedTyped([q EXCEPT !.task[t] = r])
  <2> HIDE DEF q, r
  <2> QED BY Zenon, <1>4, <1>5, UpdateTyped
<1>7. Outgoing(s, t, c) = IF s.task[t].id < NCpus THEN cl ELSE [q EXCEPT !.task[t] = r]
  BY Zenon DEF Outgoing
<1>8. QED
  <2> HIDE DEF q, r, cl
  <2> QED BY Zenon, <1>3, <1>6, <1>7

LEMMA DequeueReadyTyped ==
  ASSUME NEW s, SchedTyped(s), NEW b \in Cpus, NEW idle \in Cpus,
         NEW p \in DequeueReady(s, b, idle)
  PROVE  SchedTyped(p.s) /\ p.next \in Tasks
<1>1. s.rq[b] \in Seq(Slots)
  BY Zenon, StateFields DEF SchedTyped
<1>2. Len(s.rq[b]) \in Nat /\ \A i \in 1 .. Len(s.rq[b]) : s.rq[b][i] \in Tasks
  BY Zenon, <1>1, SeqFacts, SeqElement, SlotFacts
<1>3. CASE AnyReady(s, b)
  <2>1. PICK i \in FirstReady(s, b) : p = [next |-> s.rq[b][i], s |-> RqDequeue(s, b, i)]
    BY Zenon, <1>3 DEF DequeueReady
  <2>2. p.next = s.rq[b][i] /\ p.s = RqDequeue(s, b, i)
    BY Zenon, <2>1
  <2>3. i \in 1 .. Len(s.rq[b]) /\ i \in 0 .. Len(s.rq[b])
    BY <1>2, <2>1 DEF FirstReady
  <2>4. QED BY Zenon, <1>2, <2>2, <2>3, RqDequeueTyped
<1>4. CASE ~AnyReady(s, b)
  <2>1. p.next = idle /\ p.s = RqDequeue(s, b, Len(s.rq[b]))
    BY <1>4 DEF DequeueReady
  <2>2. Len(s.rq[b]) \in 0 .. Len(s.rq[b])
    BY <1>2
  <2>3. QED BY Zenon, <2>1, <2>2, RqDequeueTyped, SlotFacts
<1>5. QED BY Zenon, <1>3, <1>4

LEMMA PickNextTyped ==
  ASSUME NEW s, SchedTyped(s), NEW c \in Cpus, NEW p \in PickNext(s, c)
  PROVE  SchedTyped(p.s) /\ p.next \in Tasks
<1>1. CASE AnyReady(s, c)
  BY Zenon, <1>1, DequeueReadyTyped DEF PickNext
<1>2. CASE ~AnyReady(s, c)
  <2> DEFINE z == RqDequeue(s, c, Len(s.rq[c]))
             e == [next |-> c, s |-> z]
  <2>1. e \in DequeueReady(s, c, c)
    BY Zenon, <1>2 DEF DequeueReady
  <2>2. e.next = c /\ e.s = z
    BY Zenon
  <2> HIDE DEF e
  <2>3. SchedTyped(z)
    BY Zenon, <2>1, <2>2, DequeueReadyTyped
  <2>4. CASE p = e
    BY Zenon, <2>2, <2>3, <2>4, SlotFacts
  <2>5. CASE \E b \in Busiest(z, c) : \E q \in DequeueReady(z, b, c) : p = Stolen(q, c)
    <3> HIDE DEF z
    <3>1. PICK b \in Busiest(z, c) : \E q \in DequeueReady(z, b, c) : p = Stolen(q, c)
      BY Zenon, <2>5
    <3>2. PICK q \in DequeueReady(z, b, c) : p = Stolen(q, c)
      BY Zenon, <3>1
    <3>3. SchedTyped(q.s) /\ q.next \in Tasks
      BY Zenon, <2>3, <3>2, DequeueReadyTyped DEF Busiest
    <3>4. CASE q.next = c
      BY Zenon, <3>2, <3>3, <3>4 DEF Stolen
    <3>5. CASE q.next # c
      <4> DEFINE r == [q.s.task[q.next] EXCEPT !.rq_cpu = c]
                 y == [q.s EXCEPT !.task[q.next].rq_cpu = c]
      <4>1. p.next = q.next /\ p.s = y
        BY Zenon, <3>2, <3>5 DEF Stolen
      <4>2. r \in TaskRec /\ r.id = q.s.task[q.next].id
        BY <3>3, TypedTask DEF TaskRec
      <4>3. SchedTyped(y)
        BY Zenon, <3>3, <4>2, UpdateTyped
      <4>4. QED BY Zenon, <3>3, <4>1, <4>3
    <3>6. QED BY Zenon, <3>4, <3>5
  <2>6. QED BY Zenon, <1>2, <2>4, <2>5 DEF PickNext, e
<1>3. QED BY Zenon, <1>1, <1>2

(***************************************************************************)
(* Pushing and popping frames.                                             *)
(***************************************************************************)
LEMMA PushOK ==
  ASSUME NEW q, FramesOK(q), NEW f \in Frame, f.at \notin BaseAt,
         f.at \in SlotAt => f.arg \in Slots
  PROVE  /\ FramesOK(<<f>> \o q)
         /\ Len(<<f>> \o q) = Len(q) + 1 /\ (<<f>> \o q)[1] = f
         /\ \A i \in 1 .. Len(q) : (<<f>> \o q)[i + 1] = q[i]
<1> DEFINE z == <<f>> \o q
<1>1. q \in Seq(Frame) /\ Len(q) \in Nat \ {0} /\ <<f>> \in Seq(Frame) /\ Len(<<f>>) = 1
  BY NoSeq DEF FramesOK
<1>2. /\ z \in Seq(Frame) /\ Len(z) = Len(q) + 1
      /\ \A i \in 1 .. Len(q) + 1 : z[i] = IF i <= 1 THEN <<f>>[i] ELSE q[i - 1]
  BY <1>1, ConcatFacts
<1> HIDE DEF z
<1>3. z[1] = f /\ \A i \in 1 .. Len(q) : z[i + 1] = q[i]
  BY <1>1, <1>2
<1>4. z # <<>>
  BY <1>1, <1>2, NoSeq
<1>5. \A i \in 1 .. Len(z) : i = 1 \/ (i - 1 \in 1 .. Len(q) /\ z[i] = q[i - 1])
  BY <1>1, <1>2
<1>6. \A i \in 1 .. Len(z) : /\ z[i].at \in BaseAt <=> i = Len(z)
                             /\ z[i].at \in SlotAt => z[i].arg \in Slots
  <2>1. TAKE i \in 1 .. Len(z)
  <2>2. CASE i = 1
    BY <1>1, <1>2, <1>3, <2>2
  <2>3. CASE i # 1
    <3>1. i - 1 \in 1 .. Len(q) /\ z[i] = q[i - 1]
      BY Zenon, <1>5, <2>3
    <3>2. q[i - 1].at \in BaseAt <=> i - 1 = Len(q)
      BY Zenon, <3>1 DEF FramesOK
    <3>3. q[i - 1].at \in SlotAt => q[i - 1].arg \in Slots
      BY Zenon, <3>1 DEF FramesOK
    <3>4. QED BY <1>1, <1>2, <3>1, <3>2, <3>3
  <2>4. QED BY Zenon, <2>2, <2>3
<1>7. QED BY Zenon, <1>2, <1>3, <1>4, <1>6 DEF FramesOK, z

LEMMA PopOK ==
  ASSUME NEW q, FramesOK(q), Head(q).at \notin BaseAt
  PROVE  /\ FramesOK(Tail(q)) /\ Len(q) \in Nat /\ Len(Tail(q)) = Len(q) - 1
         /\ \A i \in 1 .. Len(q) - 1 : Tail(q)[i] = q[i + 1]
<1>1. q \in Seq(Frame) /\ q # <<>> /\ Len(q) \in Nat \ {0}
  BY Zenon, NoSeq DEF FramesOK
<1>2. /\ Tail(q) \in Seq(Frame) /\ Len(Tail(q)) = Len(q) - 1
      /\ \A i \in 1 .. Len(q) - 1 : Tail(q)[i] = q[i + 1]
  BY Zenon, <1>1, HeadFacts
<1>3. Head(q) = q[1] /\ 1 \in 1 .. Len(q)
  BY <1>1
<1>4. Len(q) # 1
  <2>1. q[1].at \in BaseAt <=> 1 = Len(q)
    BY Zenon, <1>3 DEF FramesOK
  <2>2. QED BY Zenon, <1>3, <2>1
<1>5. Tail(q) # <<>>
  <2>1. Len(Tail(q)) # 0
    BY <1>1, <1>2, <1>4
  <2>2. Len(<<>>) = 0
    BY Zenon
  <2>3. QED BY <2>1, <2>2, Zenon
<1>6. \A i \in 1 .. Len(Tail(q)) : /\ Tail(q)[i].at \in BaseAt <=> i = Len(Tail(q))
                                   /\ Tail(q)[i].at \in SlotAt => Tail(q)[i].arg \in Slots
  <2>1. TAKE i \in 1 .. Len(Tail(q))
  <2>2. i + 1 \in 1 .. Len(q) /\ Tail(q)[i] = q[i + 1]
    BY <1>1, <1>2
  <2>3. /\ q[i + 1].at \in BaseAt <=> i + 1 = Len(q)
        /\ q[i + 1].at \in SlotAt => q[i + 1].arg \in Slots
    BY Zenon, <2>2 DEF FramesOK
  <2>4. i = Len(Tail(q)) <=> i + 1 = Len(q)
    BY <1>1, <1>2
  <2>5. QED BY Zenon, <2>2, <2>3, <2>4
<1>7. QED BY Zenon, <1>1, <1>2, <1>5, <1>6 DEF FramesOK

(***************************************************************************)
(* What the helpers do to the queues and to the tasks.                     *)
(***************************************************************************)
LEMMA QueueEntries ==
  ASSUME NEW s, SchedTyped(s)
  PROVE  \A c \in Cpus : \A i \in 1 .. Len(s.rq[c]) : s.rq[c][i] \in Slots /\ s.rq[c][i] \in Tasks
<1>1. s.rq \in [Cpus -> Seq(Slots)]
  BY Zenon, StateFields DEF SchedTyped
<1>2. QED BY Zenon, <1>1, SeqElement, SlotFacts

LEMMA EnqueueEffect ==
  ASSUME NEW s, SchedTyped(s), QueuesAgree(s), NEW t \in Tasks, NEW c \in Cpus,
         s.task[t].used, s.task[t].state # "REAPING"
  PROVE  LET z == RqEnqueue(s, t, c)
         IN /\ QueuesAgree(z) /\ SameLife(s, z) /\ z.need = s.need /\ z.nxt = s.nxt
            /\ s.task[t].id >= NCpus => z.task[t].on_rq
            /\ \A u \in Tasks : u # t => z.task[u].on_rq = s.task[u].on_rq
<1> DEFINE z == RqEnqueue(s, t, c)
<1>1. CASE s.task[t].id < NCpus \/ s.task[t].on_rq
  <2>1. z = s
    BY Zenon, <1>1 DEF RqEnqueue
  <2>2. s.task[t].id >= NCpus => s.task[t].on_rq
    BY <1>1, TypedTask, ConstantsOK DEF TaskRec
  <2> HIDE DEF z
  <2>3. QED BY Zenon, <2>1, <2>2 DEF SameLife, z
<1>2. CASE ~(s.task[t].id < NCpus \/ s.task[t].on_rq)
  <2> DEFINE r == [s.task[t] EXCEPT !.rq_cpu = c, !.on_rq = TRUE]
  <2>1. t \in Slots
    BY Zenon, <1>2, SlotFacts DEF SchedTyped
  <2>2. z.task = [s.task EXCEPT ![t] = r]
    BY Zenon, <1>2, StateFields DEF RqEnqueue, SchedTyped, SchedState
  <2>3. z.rq = [s.rq EXCEPT ![c] = Append(s.rq[c], t)]
    BY Zenon, <1>2, StateFields DEF RqEnqueue, SchedTyped, SchedState
  <2>3a. z.need = s.need /\ z.nxt = s.nxt
    BY Zenon, <1>2, StateFields DEF RqEnqueue, SchedTyped, SchedState
  <2>4. /\ r.on_rq /\ r.rq_cpu = c /\ r.id = s.task[t].id /\ r.used = s.task[t].used
        /\ r.state = s.task[t].state /\ r.cpu = s.task[t].cpu
    BY ZenonT(60), TypedTask DEF TaskRec
  <2>5. s.rq \in [Cpus -> Seq(Slots)] /\ s.task \in [Tasks -> TaskRec]
    BY Zenon, StateFields DEF SchedTyped
  <2> HIDE DEF z, r
  <2>6. /\ z.task[t] = r /\ \A u \in Tasks : u # t => z.task[u] = s.task[u]
        /\ \A d \in Cpus : d # c => z.rq[d] = s.rq[d]
    BY Zenon, <2>2, <2>3, <2>5
  <2>7. /\ Len(z.rq[c]) = Len(s.rq[c]) + 1 /\ z.rq[c][Len(s.rq[c]) + 1] = t
        /\ \A i \in 1 .. Len(s.rq[c]) : z.rq[c][i] = s.rq[c][i]
        /\ Len(s.rq[c]) \in Nat
    BY <2>1, <2>3, <2>5, AppendFacts
  <2>8. \A d \in Cpus : \A i \in 1 .. Len(s.rq[d]) : s.rq[d][i] \in Slots /\ s.rq[d][i] # t
    BY <1>2, <2>5, SeqElement DEF QueuesAgree
  <2>9. \A d \in Cpus : \A i \in 1 .. Len(z.rq[d]) :
          \/ i \in 1 .. Len(s.rq[d]) /\ z.rq[d][i] = s.rq[d][i]
          \/ d = c /\ i = Len(s.rq[c]) + 1 /\ z.rq[d][i] = t
    BY SMTT(30), <2>6, <2>7
  <2>10. QueuesAgree(z)
    <3>1. \A d \in Cpus : \A i, j \in 1 .. Len(z.rq[d]) : z.rq[d][i] = z.rq[d][j] => i = j
      <4>1. \A d \in Cpus : \A i, j \in 1 .. Len(s.rq[d]) : s.rq[d][i] = s.rq[d][j] => i = j
        BY Zenon DEF QueuesAgree
      <4>2. QED BY SMTT(30), <2>8, <2>9, <4>1
    <3>2. \A d \in Cpus : \A i \in 1 .. Len(z.rq[d]) :
            z.task[z.rq[d][i]].on_rq /\ z.task[z.rq[d][i]].rq_cpu = d
      <4>1. \A d \in Cpus : \A i \in 1 .. Len(s.rq[d]) :
              s.task[s.rq[d][i]].on_rq /\ s.task[s.rq[d][i]].rq_cpu = d
        BY Zenon DEF QueuesAgree
      <4>2a. TAKE d \in Cpus
      <4>2b. TAKE i \in 1 .. Len(z.rq[d])
      <4>3. CASE i \in 1 .. Len(s.rq[d]) /\ z.rq[d][i] = s.rq[d][i]
        <5>1. z.task[s.rq[d][i]] = s.task[s.rq[d][i]]
          BY Zenon, <2>6, <2>8, <4>3, SlotFacts
        <5>2. QED BY <4>1, <4>3, <5>1
      <4>4. CASE d = c /\ z.rq[d][i] = t
        BY Zenon, <2>4, <2>6, <4>4
      <4>5. QED BY Zenon, <2>9, <4>3, <4>4
    <3>3. \A u \in Slots : z.task[u].on_rq =>
            \E d \in Cpus : \E i \in 1 .. Len(z.rq[d]) : z.rq[d][i] = u
      <4>1. \E d \in Cpus : \E i \in 1 .. Len(z.rq[d]) : z.rq[d][i] = t
        BY <2>7
      <4>2. \A d \in Cpus : \A i \in 1 .. Len(s.rq[d]) :
              i \in 1 .. Len(z.rq[d]) /\ z.rq[d][i] = s.rq[d][i]
        BY <2>6, <2>7
      <4>3. \A u \in Slots : s.task[u].on_rq =>
              \E d \in Cpus : \E i \in 1 .. Len(s.rq[d]) : s.rq[d][i] = u
        BY Zenon DEF QueuesAgree
      <4>4. \A u \in Slots : u # t /\ z.task[u].on_rq => s.task[u].on_rq
        BY Zenon, <2>6, SlotFacts
      <4>5. TAKE u \in Slots
      <4>6. HAVE z.task[u].on_rq
      <4>7. CASE u = t
        BY Zenon, <4>1, <4>7
      <4>8. CASE u # t
        <5>1. PICK d \in Cpus : \E i \in 1 .. Len(s.rq[d]) : s.rq[d][i] = u
          BY Zenon, <4>3, <4>4, <4>6, <4>8
        <5>2. PICK i \in 1 .. Len(s.rq[d]) : s.rq[d][i] = u
          BY Zenon, <5>1
        <5>3. i \in 1 .. Len(z.rq[d]) /\ z.rq[d][i] = u
          BY Zenon, <4>2, <5>2
        <5>4. QED BY Zenon, <5>3
      <4>9. QED BY Zenon, <4>7, <4>8
    <3>4. \A u \in Slots : ~z.task[u].used \/ z.task[u].state = "REAPING" => ~z.task[u].on_rq
      <4>1. \A u \in Slots : ~s.task[u].used \/ s.task[u].state = "REAPING" => ~s.task[u].on_rq
        BY Zenon DEF QueuesAgree
      <4>2. QED BY Zenon, <2>4, <2>6, <4>1, SlotFacts
    <3>5. QED BY Zenon, <3>1, <3>2, <3>3, <3>4 DEF QueuesAgree
  <2>11. QED BY Zenon, <2>3a, <2>4, <2>6, <2>10 DEF SameLife, z
<1>3. QED BY Zenon, <1>1, <1>2

LEMMA DequeueEffect ==
  ASSUME NEW s, SchedTyped(s), QueuesAgree(s), NEW c \in Cpus,
         NEW n \in 0 .. Len(s.rq[c])
  PROVE  LET z == RqDequeue(s, c, n)
         IN /\ QueuesAgree(z) /\ SameLife(s, z)
            /\ \A d \in Cpus : d # c => z.rq[d] = s.rq[d]
            /\ \A j \in 1 .. n : ~z.task[s.rq[c][j]].on_rq
            /\ \A u \in Tasks : \/ z.task[u].on_rq = s.task[u].on_rq
                                \/ \E j \in 1 .. n : s.rq[c][j] = u
<1> DEFINE z == RqDequeue(s, c, n)
           gone(u) == \E j \in 1 .. n : s.rq[c][j] = u
<1>1. s.rq \in [Cpus -> Seq(Slots)] /\ s.task \in [Tasks -> TaskRec]
  BY Zenon, StateFields DEF SchedTyped
<1>2. z.task = [u \in Tasks |-> IF gone(u) THEN [s.task[u] EXCEPT !.on_rq = FALSE]
                                ELSE s.task[u]]
  BY Zenon DEF RqDequeue, SchedTyped, SchedState
<1>3. z.rq = [s.rq EXCEPT ![c] = SubSeq(s.rq[c], n + 1, Len(s.rq[c]))]
  BY Zenon DEF RqDequeue, SchedTyped, SchedState
<1> HIDE DEF z
<1>4. /\ Len(s.rq[c]) \in Nat /\ Len(z.rq[c]) = Len(s.rq[c]) - n
      /\ \A i \in 1 .. Len(s.rq[c]) - n : z.rq[c][i] = s.rq[c][n + i]
  BY <1>1, <1>3, SubSeqTyped, SeqFacts
<1>5. \A d \in Cpus : d # c => z.rq[d] = s.rq[d]
  BY Zenon, <1>1, <1>3
<1>6. \A d \in Cpus : \A i \in 1 .. Len(s.rq[d]) : s.rq[d][i] \in Slots
  BY Zenon, <1>1, SeqElement
<1>7. \A u \in Tasks : ~gone(u) => z.task[u] = s.task[u]
  BY Zenon, <1>2
<1>8. \A u \in Tasks : gone(u) =>
        /\ ~z.task[u].on_rq /\ z.task[u].id = s.task[u].id /\ z.task[u].used = s.task[u].used
        /\ z.task[u].state = s.task[u].state /\ z.task[u].cpu = s.task[u].cpu
  BY <1>1, <1>2 DEF TaskRec
<1>9. SameLife(s, z)
  BY Zenon, <1>7, <1>8 DEF SameLife
<1>10. \A i, j \in 1 .. Len(s.rq[c]) : s.rq[c][i] = s.rq[c][j] => i = j
  BY Zenon DEF QueuesAgree
<1>11. \A d \in Cpus : \A i \in 1 .. Len(s.rq[d]) :
         s.task[s.rq[d][i]].on_rq /\ s.task[s.rq[d][i]].rq_cpu = d
  BY Zenon DEF QueuesAgree
<1>12. \A i \in 1 .. Len(s.rq[c]) - n : ~gone(s.rq[c][n + i])
  <2>1. TAKE i \in 1 .. Len(s.rq[c]) - n
  <2>2. n + i \in 1 .. Len(s.rq[c]) /\ \A j \in 1 .. n : j \in 1 .. Len(s.rq[c]) /\ j # n + i
    BY <1>4
  <2>3. QED BY Zenon, <1>10, <2>2
<1>13. \A d \in Cpus : d # c => \A i \in 1 .. Len(s.rq[d]) : ~gone(s.rq[d][i])
  <2>1. \A j \in 1 .. n : j \in 1 .. Len(s.rq[c])
    BY <1>4
  <2>2. QED BY SMTT(30), <1>11, <2>1
<1>14. QueuesAgree(z)
  <2>1. \A d \in Cpus : \A i, j \in 1 .. Len(z.rq[d]) : z.rq[d][i] = z.rq[d][j] => i = j
    <3>1. \A i, j \in 1 .. Len(z.rq[c]) : z.rq[c][i] = z.rq[c][j] => i = j
      <4>1. TAKE i, j \in 1 .. Len(z.rq[c])
      <4>2. n + i \in 1 .. Len(s.rq[c]) /\ n + j \in 1 .. Len(s.rq[c])
        BY SMTT(30), <1>4
      <4>3. QED BY <1>4, <1>10, <4>2
    <3>2. QED BY <1>5, <3>1 DEF QueuesAgree
  <2>2. \A d \in Cpus : \A i \in 1 .. Len(z.rq[d]) :
          /\ z.rq[d][i] \in Tasks /\ ~gone(z.rq[d][i])
          /\ s.task[z.rq[d][i]].on_rq /\ s.task[z.rq[d][i]].rq_cpu = d
    <3>1. TAKE d \in Cpus
    <3>2. TAKE i \in 1 .. Len(z.rq[d])
    <3>3. CASE d = c
      <4>1. i \in 1 .. Len(s.rq[c]) - n /\ n + i \in 1 .. Len(s.rq[c])
        BY <1>4, <3>3
      <4>2. z.rq[d][i] = s.rq[c][n + i] /\ s.rq[c][n + i] \in Tasks
        BY Zenon, <1>4, <1>6, <3>3, <4>1, SlotFacts
      <4>3. s.task[s.rq[c][n + i]].on_rq /\ s.task[s.rq[c][n + i]].rq_cpu = c
        BY SMTT(30), <1>11, <4>1
      <4>4. ~gone(s.rq[c][n + i])
        BY Zenon, <1>12, <4>1
      <4> HIDE DEF gone
      <4>5. QED BY Zenon, <3>3, <4>2, <4>3, <4>4
    <3>4. CASE d # c
      <4>1. z.rq[d] = s.rq[d] /\ i \in 1 .. Len(s.rq[d]) /\ s.rq[d][i] \in Tasks
        BY Zenon, <1>5, <1>6, <3>4, SlotFacts
      <4>2. ~gone(s.rq[d][i])
        BY Zenon, <1>13, <3>4, <4>1
      <4> HIDE DEF gone
      <4>3. QED BY <1>11, <4>1, <4>2
    <3>5. QED BY Zenon, <3>3, <3>4
  <2>3. \A d \in Cpus : \A i \in 1 .. Len(z.rq[d]) :
          z.task[z.rq[d][i]].on_rq /\ z.task[z.rq[d][i]].rq_cpu = d
    BY SMTT(30), <1>7, <2>2
  <2>4. \A u \in Slots : z.task[u].on_rq =>
          \E d \in Cpus : \E i \in 1 .. Len(z.rq[d]) : z.rq[d][i] = u
    <3>1. TAKE u \in Slots
    <3>2. HAVE z.task[u].on_rq
    <3>3. ~gone(u) /\ s.task[u].on_rq
      BY Zenon, <1>7, <1>8, <3>2, SlotFacts
    <3>4. PICK d \in Cpus : \E i \in 1 .. Len(s.rq[d]) : s.rq[d][i] = u
      BY Zenon, <3>3 DEF QueuesAgree
    <3>5. PICK i \in 1 .. Len(s.rq[d]) : s.rq[d][i] = u
      BY Zenon, <3>4
    <3>6. CASE d = c
      <4>1. i > n
        BY <1>4, <3>3, <3>5, <3>6
      <4>2. i - n \in 1 .. Len(z.rq[c]) /\ z.rq[c][i - n] = u
        BY <1>4, <3>5, <3>6, <4>1
      <4>3. QED BY Zenon, <4>2
    <3>7. CASE d # c
      BY Zenon, <1>5, <3>5, <3>7
    <3>8. QED BY Zenon, <3>6, <3>7
  <2>5. \A u \in Slots : ~z.task[u].used \/ z.task[u].state = "REAPING" => ~z.task[u].on_rq
    <3>1. \A u \in Slots : ~s.task[u].used \/ s.task[u].state = "REAPING" => ~s.task[u].on_rq
      BY Zenon DEF QueuesAgree
    <3>2. QED BY Zenon, <1>7, <1>8, <3>1, SlotFacts
  <2>6. QED BY Zenon, <2>1, <2>3, <2>4, <2>5 DEF QueuesAgree
<1>15. \A j \in 1 .. n : s.rq[c][j] \in Tasks /\ gone(s.rq[c][j])
  <2>1. \A j \in 1 .. n : j \in 1 .. Len(s.rq[c])
    BY <1>4
  <2>2. \A j \in 1 .. n : s.rq[c][j] \in Tasks
    BY Zenon, <1>6, <2>1, SlotFacts
  <2>3. \A j \in 1 .. n : gone(s.rq[c][j])
    BY Zenon
  <2>4. QED BY Zenon, <2>2, <2>3
<1>16. QED BY Zenon, <1>5, <1>7, <1>8, <1>9, <1>14, <1>15 DEF z

LEMMA RemoveEffect ==
  ASSUME NEW s, SchedTyped(s), QueuesAgree(s), NEW t \in Slots
  PROVE  LET z == RqRemove(s, t)
         IN /\ QueuesAgree(z) /\ SameLife(s, z) /\ ~z.task[t].on_rq
            /\ \A u \in Tasks : u # t => z.task[u].on_rq = s.task[u].on_rq
<1> DEFINE z == RqRemove(s, t)
           c == s.task[t].rq_cpu
<1>1. CASE ~s.task[t].on_rq
  <2>1. z = s
    BY Zenon, <1>1 DEF RqRemove
  <2> HIDE DEF z
  <2>2. QED BY Zenon, <1>1, <2>1 DEF SameLife, z
<1>2. CASE s.task[t].on_rq
  <2> DEFINE off == [s.task[t] EXCEPT !.on_rq = FALSE]
             k == CHOOSE i \in 1 .. Len(s.rq[c]) : s.rq[c][i] = t
  <2>1. c \in Cpus /\ \E i \in 1 .. Len(s.rq[c]) : s.rq[c][i] = t
    BY <1>2 DEF QueuesAgree
  <2>2. k \in 1 .. Len(s.rq[c]) /\ s.rq[c][k] = t
    BY Zenon, <2>1
  <2>3. s.rq \in [Cpus -> Seq(Slots)] /\ s.task \in [Tasks -> TaskRec]
    BY Zenon, StateFields DEF SchedTyped
  <2>4. z.task = [s.task EXCEPT ![t] = off]
    BY Zenon, <1>2, <2>1 DEF RqRemove, SchedTyped, SchedState
  <2>5. z.rq = [s.rq EXCEPT ![c] = CutAt(s.rq[c], k)]
    BY Zenon, <1>2, <2>1 DEF RqRemove, SchedTyped, SchedState
  <2>6. /\ ~off.on_rq /\ off.id = s.task[t].id /\ off.used = s.task[t].used
        /\ off.state = s.task[t].state /\ off.cpu = s.task[t].cpu
    BY <2>3, SlotFacts DEF TaskRec
  <2> HIDE DEF z, off, k
  <2>7. z.task[t] = off /\ \A u \in Tasks : u # t => z.task[u] = s.task[u]
    BY Zenon, <2>3, <2>4, SlotFacts
  <2> HIDE DEF c
  <2>8. \A d \in Cpus : d # c => z.rq[d] = s.rq[d]
    BY Zenon, <2>3, <2>5
  <2>9. /\ Len(s.rq[c]) \in Nat /\ Len(z.rq[c]) = Len(s.rq[c]) - 1
        /\ \A j \in 1 .. Len(s.rq[c]) - 1 :
             z.rq[c][j] = IF j < k THEN s.rq[c][j] ELSE s.rq[c][j + 1]
    <3>1. s.rq[c] \in Seq(Slots) /\ z.rq[c] = CutAt(s.rq[c], k)
      BY Zenon, <2>1, <2>3, <2>5
    <3>2. QED BY Zenon, <2>2, <3>1, CutAtTyped, SeqFacts
  <2>10. \A d \in Cpus : \A i \in 1 .. Len(s.rq[d]) : s.rq[d][i] \in Slots
    BY Zenon, <2>3, SeqElement
  <2>11. \A d \in Cpus : \A i, j \in 1 .. Len(s.rq[d]) : s.rq[d][i] = s.rq[d][j] => i = j
    BY Zenon DEF QueuesAgree
  <2>12. \A d \in Cpus : \A i \in 1 .. Len(s.rq[d]) :
           s.task[s.rq[d][i]].on_rq /\ s.task[s.rq[d][i]].rq_cpu = d
    BY Zenon DEF QueuesAgree
  <2>13. \A j \in 1 .. Len(z.rq[c]) : \E i \in 1 .. Len(s.rq[c]) :
           i # k /\ z.rq[c][j] = s.rq[c][i] /\ i = (IF j < k THEN j ELSE j + 1)
    <3>1. TAKE j \in 1 .. Len(z.rq[c])
    <3>2. CASE j < k
      <4>1. j \in 1 .. Len(s.rq[c]) /\ z.rq[c][j] = s.rq[c][j] /\ j # k
        BY <2>2, <2>9, <3>2
      <4>2. QED BY Zenon, <3>2, <4>1
    <3>3. CASE ~(j < k)
      <4>1. j + 1 \in 1 .. Len(s.rq[c]) /\ z.rq[c][j] = s.rq[c][j + 1] /\ j + 1 # k
        BY SMTT(30), <2>2, <2>9, <3>3
      <4>2. QED BY Zenon, <3>3, <4>1
    <3>4. QED BY Zenon, <3>2, <3>3
  <2>14. QueuesAgree(z)
    <3>1. \A d \in Cpus : \A i, j \in 1 .. Len(z.rq[d]) : z.rq[d][i] = z.rq[d][j] => i = j
      <4>1. \A i, j \in 1 .. Len(z.rq[c]) : z.rq[c][i] = z.rq[c][j] => i = j
        <5>1. TAKE i, j \in 1 .. Len(z.rq[c])
        <5>2. HAVE z.rq[c][i] = z.rq[c][j]
        <5>3. (IF i < k THEN i ELSE i + 1) = (IF j < k THEN j ELSE j + 1)
          BY Zenon, <2>1, <2>11, <2>13, <5>2
        <5>4. QED BY <2>2, <2>9, <5>3
      <4>2. QED BY Zenon, <2>8, <2>11, <4>1
    <3>2. \A d \in Cpus : \A j \in 1 .. Len(z.rq[d]) :
            \E i \in 1 .. Len(s.rq[d]) : z.rq[d][j] = s.rq[d][i] /\ s.rq[d][i] # t
      <4>1. TAKE d \in Cpus
      <4>2. TAKE j \in 1 .. Len(z.rq[d])
      <4>3. CASE d = c
        BY <2>1, <2>2, <2>11, <2>13, <4>3
      <4>4. CASE d # c
        <5>1. j \in 1 .. Len(s.rq[d]) /\ z.rq[d][j] = s.rq[d][j]
          BY Zenon, <2>8, <4>4
        <5>2. s.rq[d][j] # t
          BY SMTT(30), <2>1, <2>2, <2>12, <4>4, <5>1
        <5>3. QED BY Zenon, <5>1, <5>2
      <4>5. QED BY Zenon, <4>3, <4>4
    <3>3. \A d \in Cpus : \A j \in 1 .. Len(z.rq[d]) :
            z.task[z.rq[d][j]].on_rq /\ z.task[z.rq[d][j]].rq_cpu = d
      <4>1. TAKE d \in Cpus
      <4>2. TAKE j \in 1 .. Len(z.rq[d])
      <4>3. PICK i \in 1 .. Len(s.rq[d]) : z.rq[d][j] = s.rq[d][i] /\ s.rq[d][i] # t
        BY Zenon, <3>2
      <4>4. z.task[s.rq[d][i]] = s.task[s.rq[d][i]]
        BY Zenon, <2>7, <2>10, <4>3, SlotFacts
      <4>5. QED BY <2>12, <4>3, <4>4
    <3>4. \A u \in Slots : z.task[u].on_rq =>
            \E d \in Cpus : \E i \in 1 .. Len(z.rq[d]) : z.rq[d][i] = u
      <4>1. TAKE u \in Slots
      <4>2. HAVE z.task[u].on_rq
      <4>3. u # t /\ s.task[u].on_rq
        BY Zenon, <2>6, <2>7, <4>2, SlotFacts
      <4>4. PICK d \in Cpus : \E i \in 1 .. Len(s.rq[d]) : s.rq[d][i] = u
        BY Zenon, <4>3 DEF QueuesAgree
      <4>5. PICK i \in 1 .. Len(s.rq[d]) : s.rq[d][i] = u
        BY Zenon, <4>4
      <4>6. CASE d # c
        BY Zenon, <2>8, <4>5, <4>6
      <4>7. CASE d = c /\ i < k
        <5>1. i \in 1 .. Len(z.rq[c]) /\ z.rq[c][i] = u
          BY <2>2, <2>9, <4>5, <4>7
        <5>2. QED BY Zenon, <2>1, <5>1
      <4>8. CASE d = c /\ ~(i < k)
        <5>1. i # k
          BY Zenon, <2>2, <4>3, <4>5, <4>8
        <5>2. i - 1 \in 1 .. Len(z.rq[c]) /\ z.rq[c][i - 1] = u
          BY <2>2, <2>9, <4>5, <4>8, <5>1
        <5>3. QED BY Zenon, <2>1, <5>2
      <4>9. QED BY Zenon, <4>6, <4>7, <4>8
    <3>5. \A u \in Slots : ~z.task[u].used \/ z.task[u].state = "REAPING" => ~z.task[u].on_rq
      <4>1. \A u \in Slots : ~s.task[u].used \/ s.task[u].state = "REAPING" => ~s.task[u].on_rq
        BY SMTT(30) DEF QueuesAgree
      <4>2. QED BY Zenon, <2>6, <2>7, <4>1, SlotFacts
    <3>6. QED BY Zenon, <3>1, <3>3, <3>4, <3>5 DEF QueuesAgree
  <2>15. QED BY SMTT(30), <2>6, <2>7, <2>14, SlotFacts DEF SameLife, z
<1>3. QED BY Zenon, <1>1, <1>2

LEMMA MakeReadyEffect ==
  ASSUME NEW s, SchedTyped(s), QueuesAgree(s), NEW t \in Tasks, NEW c \in Cpus,
         s.task[t].used, s.task[t].state # "REAPING"
  PROVE  LET z == MakeReady(s, t, c)
         IN /\ QueuesAgree(z)
            /\ s.task[t].id >= NCpus => z.task[t].on_rq
            /\ \A u \in Tasks : /\ z.task[u].id = s.task[u].id
                                /\ z.task[u].used = s.task[u].used
                                /\ z.task[u].cpu = s.task[u].cpu
            /\ \A u \in Tasks : u # t => /\ z.task[u].on_rq = s.task[u].on_rq
                                         /\ z.task[u].state = s.task[u].state
            /\ z.task[t].state = IF s.task[t].id < NCpus THEN s.task[t].state ELSE "READY"
<1> DEFINE z == MakeReady(s, t, c)
<1>0. s.task[t].id \in Nat /\ NCpus \in Nat
  BY Zenon, TypedTask, ConstantsOK DEF TaskRec
<1>1. CASE s.task[t].id < NCpus
  <2>1. z = s
    BY SMTT(30), <1>1 DEF MakeReady
  <2> HIDE DEF z
  <2>2. QED BY <1>0, <1>1, <2>1 DEF z
<1>2. CASE ~(s.task[t].id < NCpus)
  <2> DEFINE r == [s.task[t] EXCEPT !.state = "READY"]
             s1 == [s EXCEPT !.task[t].state = "READY"]
             s2 == RqEnqueue(s1, t, c)
  <2>1. SchedTyped(s1)
    BY Zenon, ReadyTyped DEF States
  <2>2. s1.task = [s.task EXCEPT ![t] = r] /\ s1.rq = s.rq
    BY Zenon DEF SchedTyped, SchedState
  <2>3. /\ r.id = s.task[t].id /\ r.used = s.task[t].used /\ r.cpu = s.task[t].cpu
        /\ r.on_rq = s.task[t].on_rq /\ r.rq_cpu = s.task[t].rq_cpu /\ r.state = "READY"
    BY ZenonT(60), TypedTask DEF TaskRec
  <2> HIDE DEF r, s1
  <2>4. s1.task[t] = r /\ \A u \in Tasks : u # t => s1.task[u] = s.task[u]
    BY SMTT(30), <2>2, StateFields DEF SchedTyped
  <2>5. QueuesAgree(s1)
    <3>1. \A u \in Tasks : /\ s1.task[u].on_rq = s.task[u].on_rq
                           /\ s1.task[u].rq_cpu = s.task[u].rq_cpu
                           /\ s1.task[u].used = s.task[u].used
      BY ZenonT(60), <2>3, <2>4
    <3>2. \A d \in Cpus : \A i \in 1 .. Len(s.rq[d]) : s.rq[d][i] \in Tasks
      BY Zenon, QueueEntries
    <3>3. \A d \in Cpus : \A i \in 1 .. Len(s.rq[d]) :
            s1.task[s.rq[d][i]].on_rq /\ s1.task[s.rq[d][i]].rq_cpu = d
      <4>1. \A d \in Cpus : \A i \in 1 .. Len(s.rq[d]) :
              s.task[s.rq[d][i]].on_rq /\ s.task[s.rq[d][i]].rq_cpu = d
        BY Zenon DEF QueuesAgree
      <4>2. QED BY <3>1, <3>2, <4>1
    <3>4. \A u \in Slots : s1.task[u].on_rq =>
            \E d \in Cpus : \E i \in 1 .. Len(s.rq[d]) : s.rq[d][i] = u
      BY Zenon, <3>1, SlotFacts DEF QueuesAgree
    <3>5. \A u \in Slots : ~s1.task[u].used \/ s1.task[u].state = "REAPING"
                           => ~s1.task[u].on_rq
      <4>1. \A u \in Slots : ~s.task[u].used \/ s.task[u].state = "REAPING"
                             => ~s.task[u].on_rq
        BY Zenon DEF QueuesAgree
      <4>2. QED BY Zenon, <2>3, <2>4, <3>1, <4>1, SlotFacts
    <3>6. \A d \in Cpus : \A i, j \in 1 .. Len(s.rq[d]) : s.rq[d][i] = s.rq[d][j] => i = j
      BY Zenon DEF QueuesAgree
    <3>7. QED BY <2>2, <3>3, <3>4, <3>5, <3>6 DEF QueuesAgree
  <2>6. /\ QueuesAgree(s2) /\ SameLife(s1, s2) /\ SchedTyped(s2)
        /\ s1.task[t].id >= NCpus => s2.task[t].on_rq
        /\ \A u \in Tasks : u # t => s2.task[u].on_rq = s1.task[u].on_rq
    BY ZenonT(60), <2>1, <2>3, <2>4, <2>5, EnqueueEffect, RqEnqueueTyped
  <2>7. z = [s2 EXCEPT !.need[c] = TRUE, !.nxt = IF c + 1 = NCpus THEN 0 ELSE c + 1]
    BY Zenon, <1>2 DEF MakeReady, s1
  <2> HIDE DEF s2, z
  <2>8. z.task = s2.task /\ z.rq = s2.rq
    BY Zenon, <2>6, <2>7 DEF SchedTyped, SchedState
  <2>9. QueuesAgree(z)
    BY <2>6, <2>8 DEF QueuesAgree
  <2>10. \A u \in Tasks : /\ z.task[u].id = s1.task[u].id /\ z.task[u].used = s1.task[u].used
                          /\ z.task[u].cpu = s1.task[u].cpu
                          /\ z.task[u].state = s1.task[u].state
    BY <2>6, <2>8 DEF SameLife
  <2>11. \A u \in Tasks : /\ s1.task[u].id = s.task[u].id /\ s1.task[u].used = s.task[u].used
                          /\ s1.task[u].cpu = s.task[u].cpu
                          /\ s1.task[u].on_rq = s.task[u].on_rq
    BY Zenon, <2>3, <2>4
  <2>12. \A u \in Tasks : u # t => /\ z.task[u].on_rq = s.task[u].on_rq
                                   /\ z.task[u].state = s.task[u].state
    BY <2>4, <2>6, <2>8, <2>10
  <2>13. z.task[t].on_rq /\ z.task[t].state = "READY"
    BY SMTT(30), <1>0, <1>2, <2>3, <2>4, <2>6, <2>8, <2>10
  <2>14. QED BY SMTT(30), <1>2, <2>9, <2>10, <2>11, <2>12, <2>13 DEF z
<1>3. QED BY Zenon, <1>1, <1>2

\* QueuesAgree depends only on the queues, on_rq, rq_cpu and which slots are live.
LEMMA QueuesSame ==
  ASSUME NEW s, NEW z, SchedTyped(s), QueuesAgree(s), z.rq = s.rq,
         \A u \in Tasks : /\ z.task[u].on_rq = s.task[u].on_rq
                          /\ s.task[u].on_rq => z.task[u].rq_cpu = s.task[u].rq_cpu,
         \A u \in Slots : /\ ~z.task[u].used \/ z.task[u].state = "REAPING"
                          /\ z.task[u].on_rq
                          => ~s.task[u].used \/ s.task[u].state = "REAPING"
  PROVE  QueuesAgree(z)
<1>1. \A d \in Cpus : \A i \in 1 .. Len(s.rq[d]) :
        z.task[s.rq[d][i]].on_rq /\ z.task[s.rq[d][i]].rq_cpu = d
  <2>1. \A d \in Cpus : \A i \in 1 .. Len(s.rq[d]) :
          s.task[s.rq[d][i]].on_rq /\ s.task[s.rq[d][i]].rq_cpu = d
    BY Zenon DEF QueuesAgree
  <2>2. QED BY SMTT(30), <2>1, QueueEntries
<1>2. \A u \in Slots : z.task[u].on_rq =>
        \E d \in Cpus : \E i \in 1 .. Len(s.rq[d]) : s.rq[d][i] = u
  <2>1. \A u \in Slots : s.task[u].on_rq =>
          \E d \in Cpus : \E i \in 1 .. Len(s.rq[d]) : s.rq[d][i] = u
    BY Zenon DEF QueuesAgree
  <2>2. QED BY Zenon, <2>1, SlotFacts
<1>3. \A u \in Slots : ~z.task[u].used \/ z.task[u].state = "REAPING" => ~z.task[u].on_rq
  <2>1. \A u \in Slots : ~s.task[u].used \/ s.task[u].state = "REAPING" => ~s.task[u].on_rq
    BY Zenon DEF QueuesAgree
  <2>2. QED BY Zenon, <2>1, SlotFacts
<1>4. \A d \in Cpus : \A i, j \in 1 .. Len(s.rq[d]) : s.rq[d][i] = s.rq[d][j] => i = j
  BY Zenon DEF QueuesAgree
<1>5. QED BY SMTT(30), <1>1, <1>2, <1>3, <1>4 DEF QueuesAgree

LEMMA DequeueReadyEffect ==
  ASSUME NEW s, SchedTyped(s), QueuesAgree(s), NEW R, R \subseteq Slots,
         \A u \in R : s.task[u].state = "READY" => s.task[u].on_rq,
         NEW b \in Cpus, NEW idle \in Cpus, NEW p \in DequeueReady(s, b, idle)
  PROVE  /\ SchedTyped(p.s) /\ QueuesAgree(p.s) /\ SameLife(s, p.s)
         /\ \/ p.next = idle
            \/ /\ p.next \in Slots /\ s.task[p.next].state = "READY"
               /\ ~p.s.task[p.next].on_rq
         /\ \A u \in R : u # p.next /\ s.task[u].state = "READY" => p.s.task[u].on_rq
<1>1. Len(s.rq[b]) \in Nat
  BY SMTT(30), StateFields, SeqFacts DEF SchedTyped
<1>2. CASE AnyReady(s, b)
  <2>1. PICK i \in FirstReady(s, b) : p = [next |-> s.rq[b][i], s |-> RqDequeue(s, b, i)]
    BY Zenon, <1>2 DEF DequeueReady
  <2> DEFINE z == RqDequeue(s, b, i)
  <2>2. p.next = s.rq[b][i] /\ p.s = z
    BY Zenon, <2>1
  <2>3. i \in 1 .. Len(s.rq[b]) /\ i \in 0 .. Len(s.rq[b])
    BY SMTT(30), <1>1, <2>1 DEF FirstReady
  <2>4. /\ s.task[s.rq[b][i]].state = "READY"
        /\ \A j \in 1 .. i - 1 : s.task[s.rq[b][j]].state # "READY"
    BY SMTT(30), <2>1 DEF FirstReady, IsReady
  <2>5. /\ SchedTyped(z) /\ QueuesAgree(z) /\ SameLife(s, z)
        /\ \A j \in 1 .. i : ~z.task[s.rq[b][j]].on_rq
        /\ \A u \in Tasks : \/ z.task[u].on_rq = s.task[u].on_rq
                            \/ \E j \in 1 .. i : s.rq[b][j] = u
    BY <2>3, RqDequeueTyped, DequeueEffect
  <2> HIDE DEF z
  <2>6. \A u \in R : u # s.rq[b][i] /\ s.task[u].state = "READY" => z.task[u].on_rq
    <3>1. TAKE u \in R
    <3>2. HAVE u # s.rq[b][i] /\ s.task[u].state = "READY"
    <3>3. \A j \in 1 .. i : s.rq[b][j] # u
      BY SMTT(30), <2>3, <2>4, <3>2
    <3>4. QED BY Zenon, <2>5, <3>2, <3>3, SlotFacts
  <2>7. s.rq[b][i] \in Slots /\ ~z.task[s.rq[b][i]].on_rq
    BY <2>3, <2>5, QueueEntries
  <2>8. QED BY SMTT(30), <2>2, <2>4, <2>5, <2>6, <2>7
<1>3. CASE ~AnyReady(s, b)
  <2> DEFINE n == Len(s.rq[b])
             z == RqDequeue(s, b, n)
  <2>1. p = [next |-> idle, s |-> z]
    BY Zenon, <1>3 DEF DequeueReady
  <2>2. p.next = idle /\ p.s = z
    BY Zenon, <2>1
  <2>3. n \in 0 .. Len(s.rq[b])
    BY SMTT(30), <1>1
  <2>4. /\ SchedTyped(z) /\ QueuesAgree(z) /\ SameLife(s, z)
        /\ \A u \in Tasks : \/ z.task[u].on_rq = s.task[u].on_rq
                            \/ \E j \in 1 .. n : s.rq[b][j] = u
    BY <2>3, RqDequeueTyped, DequeueEffect
  <2>5. \A j \in 1 .. n : s.task[s.rq[b][j]].state # "READY"
    BY Zenon, <1>3 DEF AnyReady, IsReady
  <2> HIDE DEF z
  <2>6. \A u \in R : s.task[u].state = "READY" => z.task[u].on_rq
    BY SMTT(30), <2>4, <2>5, SlotFacts
  <2>7. QED BY Zenon, <2>2, <2>4, <2>6
<1>4. QED BY Zenon, <1>2, <1>3

LEMMA PickNextEffect ==
  ASSUME NEW s, SchedTyped(s), QueuesAgree(s), ReadyQueued(s),
         NEW c \in Cpus, NEW p \in PickNext(s, c)
  PROVE  /\ SchedTyped(p.s) /\ QueuesAgree(p.s) /\ SameLife(s, p.s)
         /\ \/ p.next = c
            \/ /\ p.next \in Slots /\ s.task[p.next].state = "READY"
               /\ ~p.s.task[p.next].on_rq
         /\ \A u \in Slots : u # p.next /\ s.task[u].state = "READY" => p.s.task[u].on_rq
<1>1. \A u \in Slots : s.task[u].state = "READY" => s.task[u].on_rq
  BY Zenon DEF ReadyQueued
<1>2. CASE AnyReady(s, c)
  <2>1. p \in DequeueReady(s, c, c)
    BY SMTT(30), <1>2 DEF PickNext
  <2>2. QED BY Zenon, <1>1, <2>1, DequeueReadyEffect
<1>3. CASE ~AnyReady(s, c)
  <2> DEFINE n == Len(s.rq[c])
             z == RqDequeue(s, c, n)
             e == [next |-> c, s |-> z]
  <2>1. e \in DequeueReady(s, c, c)
    BY Zenon, <1>3 DEF DequeueReady
  <2>2. e.next = c /\ e.s = z
    BY SMTT(30)
  <2> HIDE DEF e
  <2>3. /\ SchedTyped(z) /\ QueuesAgree(z) /\ SameLife(s, z)
        /\ \A u \in Slots : u # c /\ s.task[u].state = "READY" => z.task[u].on_rq
    BY SMTT(30), <1>1, <2>1, <2>2, DequeueReadyEffect
  <2>4. \A u \in Slots : z.task[u].state = "READY" => z.task[u].on_rq
    BY SMTT(30), <2>3, SlotFacts DEF SameLife
  <2>5. CASE p = e
    BY SMTT(30), <2>2, <2>3, <2>5, SlotFacts
  <2>6. CASE \E b \in Busiest(z, c) : \E q \in DequeueReady(z, b, c) : p = Stolen(q, c)
    <3> HIDE DEF z
    <3>1. PICK b \in Busiest(z, c) : \E q \in DequeueReady(z, b, c) : p = Stolen(q, c)
      BY Zenon, <2>6
    <3>2. PICK q \in DequeueReady(z, b, c) : p = Stolen(q, c)
      BY Zenon, <3>1
    <3>3. b \in Cpus
      BY SMTT(30) DEF Busiest
    <3>4. /\ SchedTyped(q.s) /\ QueuesAgree(q.s) /\ SameLife(z, q.s)
          /\ \/ q.next = c
             \/ /\ q.next \in Slots /\ z.task[q.next].state = "READY"
                /\ ~q.s.task[q.next].on_rq
          /\ \A u \in Slots : u # q.next /\ z.task[u].state = "READY" => q.s.task[u].on_rq
      BY SMTT(30), <2>3, <2>4, <3>2, <3>3, DequeueReadyEffect
    <3>5. /\ SameLife(s, q.s)
          /\ q.next # c => s.task[q.next].state = "READY"
          /\ \A u \in Slots : u # q.next /\ s.task[u].state = "READY" => q.s.task[u].on_rq
      BY ZenonT(60), <2>3, <3>4, SlotFacts DEF SameLife
    <3>6. CASE q.next = c
      BY Zenon, <3>2, <3>4, <3>5, <3>6 DEF Stolen
    <3>7. CASE q.next # c
      <4> DEFINE r == [q.s.task[q.next] EXCEPT !.rq_cpu = c]
                 y == [q.s EXCEPT !.task[q.next].rq_cpu = c]
      <4>1. p.next = q.next /\ p.s = y
        BY Zenon, <3>2, <3>7 DEF Stolen
      <4>2. q.next \in Slots /\ q.next \in Tasks /\ ~q.s.task[q.next].on_rq
        BY Zenon, <3>4, <3>7, SlotFacts
      <4>3. /\ r \in TaskRec /\ r.id = q.s.task[q.next].id /\ r.used = q.s.task[q.next].used
            /\ r.state = q.s.task[q.next].state /\ r.cpu = q.s.task[q.next].cpu
            /\ r.on_rq = q.s.task[q.next].on_rq
        BY <3>4, <4>2, TypedTask DEF TaskRec
      <4>4. y.task = [q.s.task EXCEPT ![q.next] = r] /\ y.rq = q.s.rq
        BY Zenon, <3>4 DEF SchedTyped, SchedState
      <4>5. SchedTyped(y)
        BY Zenon, <3>4, <4>2, <4>3, UpdateTyped
      <4> HIDE DEF r, y
      <4>6. y.task[q.next] = r /\ \A u \in Tasks : u # q.next => y.task[u] = q.s.task[u]
        BY SMTT(30), <3>4, <4>2, <4>4, StateFields DEF SchedTyped
      <4>7. \A u \in Tasks : /\ y.task[u].id = q.s.task[u].id
                             /\ y.task[u].used = q.s.task[u].used
                             /\ y.task[u].state = q.s.task[u].state
                             /\ y.task[u].cpu = q.s.task[u].cpu
                             /\ y.task[u].on_rq = q.s.task[u].on_rq
                             /\ q.s.task[u].on_rq => y.task[u].rq_cpu = q.s.task[u].rq_cpu
        BY SMTT(30), <4>2, <4>3, <4>6
      <4>8. QueuesAgree(y)
        BY ZenonT(60), <3>4, <4>4, <4>7, QueuesSame, SlotFacts
      <4>9. SameLife(s, y)
        BY Zenon, <3>5, <4>7 DEF SameLife
      <4>10. \A u \in Slots : u # q.next /\ s.task[u].state = "READY" => y.task[u].on_rq
        BY Zenon, <3>5, <4>7, SlotFacts
      <4>11. ~y.task[q.next].on_rq
        BY Zenon, <4>2, <4>7
      <4>12. QED BY Zenon, <3>5, <3>7, <4>1, <4>2, <4>5, <4>8, <4>9, <4>10, <4>11
    <3>8. QED BY Zenon, <3>6, <3>7
  <2>7. QED BY SMTT(30), <1>3, <2>5, <2>6 DEF PickNext, e
<1>4. QED BY Zenon, <1>2, <1>3

\* One task record changes, and neither its queue fields nor its slot's liveness.
LEMMA UpdateEffect ==
  ASSUME NEW s, SchedTyped(s), QueuesAgree(s), NEW t \in Tasks, NEW r \in TaskRec,
         r.id = s.task[t].id, r.used \/ ~s.task[t].used, r.on_rq = s.task[t].on_rq,
         r.rq_cpu = s.task[t].rq_cpu, r.state # "REAPING"
  PROVE  LET z == [s EXCEPT !.task[t] = r]
         IN /\ SchedTyped(z) /\ QueuesAgree(z) /\ z.task[t] = r
            /\ \A u \in Tasks : u # t => z.task[u] = s.task[u]
<1> DEFINE z == [s EXCEPT !.task[t] = r]
<1>1. SchedTyped(z)
  BY Zenon, UpdateTyped
<1>2. z.rq = s.rq /\ z.task = [s.task EXCEPT ![t] = r]
  BY Zenon DEF SchedTyped, SchedState
<1> HIDE DEF z
<1>3. z.task[t] = r /\ \A u \in Tasks : u # t => z.task[u] = s.task[u]
  BY Zenon, <1>2, StateFields DEF SchedTyped
<1>4. \A u \in Tasks : /\ z.task[u].on_rq = s.task[u].on_rq
                       /\ s.task[u].on_rq => z.task[u].rq_cpu = s.task[u].rq_cpu
  BY Zenon, <1>3
<1>5. \A u \in Slots : /\ ~z.task[u].used \/ z.task[u].state = "REAPING"
                       /\ z.task[u].on_rq
                       => ~s.task[u].used \/ s.task[u].state = "REAPING"
  BY Zenon, <1>3, SlotFacts
<1>6. QueuesAgree(z)
  BY Zenon, <1>2, <1>4, <1>5, QueuesSame
<1>7. QED BY Zenon, <1>1, <1>3, <1>6 DEF z

LEMMA KillEffect ==
  ASSUME NEW s, SchedTyped(s), QueuesAgree(s), NEW t \in Tasks
  PROVE  LET r == [s.task[t] EXCEPT !.kill = FALSE, !.state = "DEAD"]
             z == [s EXCEPT !.task[t] = r]
         IN /\ SchedTyped(z) /\ QueuesAgree(z) /\ z.task[t] = r
            /\ \A u \in Tasks : u # t => z.task[u] = s.task[u]
<1> DEFINE r == [s.task[t] EXCEPT !.kill = FALSE, !.state = "DEAD"]
<1>1. s.task[t] \in TaskRec
  BY Zenon, TypedTask
<1>2. /\ r \in TaskRec /\ r.id = s.task[t].id /\ r.used = s.task[t].used
      /\ r.on_rq = s.task[t].on_rq /\ r.rq_cpu = s.task[t].rq_cpu /\ r.state # "REAPING"
  BY Zenon, <1>1 DEF TaskRec, States
<1> HIDE DEF r
<1>3. r.used \/ ~s.task[t].used
  BY Zenon, <1>2
<1> DEFINE z == [s EXCEPT !.task[t] = r]
<1>4. /\ SchedTyped(z) /\ QueuesAgree(z) /\ z.task[t] = r
      /\ \A u \in Tasks : u # t => z.task[u] = s.task[u]
  BY SMTT(60), <1>2, <1>3, UpdateEffect
<1>5. QED BY Zenon, <1>4 DEF r

LEMMA NeedEffect ==
  ASSUME NEW s, SchedTyped(s), QueuesAgree(s), NEW c \in Cpus
  PROVE  LET z == [s EXCEPT !.need[c] = FALSE]
         IN SchedTyped(z) /\ QueuesAgree(z) /\ z.task = s.task
<1> DEFINE z == [s EXCEPT !.need[c] = FALSE]
<1>1. z.task = s.task /\ z.rq = s.rq
  BY Zenon DEF SchedTyped, SchedState
<1>2. SchedTyped(z)
  BY ZenonT(60), NeedTyped
<1>3. QueuesAgree(z)
  BY <1>1 DEF QueuesAgree
<1>4. QED BY Zenon, <1>1, <1>2, <1>3

LEMMA OutgoingEffect ==
  ASSUME NEW s, SchedTyped(s), QueuesAgree(s), NEW t \in Tasks, NEW c \in Cpus,
         s.task[t].used, s.task[t].state # "REAPING",
         s.task[t].id >= NCpus /\ s.task[t].state = "READY" => s.task[t].on_rq
  PROVE  LET z == Outgoing(s, t, c)
         IN /\ SchedTyped(z) /\ QueuesAgree(z)
            /\ \A u \in Tasks : z.task[u].id = s.task[u].id /\ z.task[u].used = s.task[u].used
            /\ \A u \in Tasks : u # t => /\ z.task[u].on_rq = s.task[u].on_rq
                                         /\ z.task[u].state = s.task[u].state
                                         /\ z.task[u].cpu = s.task[u].cpu
            /\ z.task[t].state # "REAPING"
            /\ s.task[t].id < NCpus => /\ z.task[t].cpu = s.task[t].cpu
                                       /\ z.task[t].state = s.task[t].state
                                       /\ z.task[t].on_rq = s.task[t].on_rq
            /\ s.task[t].id >= NCpus => /\ z.task[t].cpu = NoCpu
                                        /\ z.task[t].state = "READY" => z.task[t].on_rq
<1> DEFINE kr == [s.task[t] EXCEPT !.kill = FALSE, !.state = "DEAD"]
           k == IF s.task[t].id >= NCpus /\ s.task[t].kill
                THEN [s EXCEPT !.task[t] = kr] ELSE s
           cl == [k EXCEPT !.need[c] = FALSE]
           rr == [cl.task[t] EXCEPT !.state = "READY"]
           s1 == [cl EXCEPT !.task[t] = rr]
           q == IF cl.task[t].state = "RUNNING" THEN RqEnqueue(s1, t, c) ELSE cl
           nr == [q.task[t] EXCEPT !.cpu = NoCpu]
           z == Outgoing(s, t, c)
<1>0. s.task[t].id \in Nat /\ NCpus \in Nat /\ s.task[t] \in TaskRec
  BY Zenon, TypedTask, ConstantsOK DEF TaskRec
<1>1. z = IF s.task[t].id < NCpus THEN cl ELSE [q EXCEPT !.task[t] = nr]
  BY Zenon DEF Outgoing
<1>2. /\ kr \in TaskRec /\ kr.id = s.task[t].id /\ kr.used = s.task[t].used
      /\ kr.on_rq = s.task[t].on_rq /\ kr.rq_cpu = s.task[t].rq_cpu /\ kr.state = "DEAD"
      /\ kr.cpu = s.task[t].cpu
  BY Zenon, <1>0 DEF TaskRec, States
<1> HIDE DEF kr
<1>3. /\ SchedTyped(k) /\ QueuesAgree(k)
      /\ \A u \in Tasks : u # t => k.task[u] = s.task[u]
      /\ k.task[t] \in {s.task[t], kr}
      /\ s.task[t].id < NCpus => k.task[t] = s.task[t]
  <2>1. CASE s.task[t].id >= NCpus /\ s.task[t].kill
    <3>1. k = [s EXCEPT !.task[t] = kr]
      BY Zenon, <2>1
    <3> HIDE DEF k
    <3>2. kr.state # "REAPING"
      BY Zenon, <1>2
    <3>3. /\ SchedTyped(k) /\ QueuesAgree(k) /\ k.task[t] = kr
          /\ \A u \in Tasks : u # t => k.task[u] = s.task[u]
      <4> DEFINE y == [s EXCEPT !.task[t] = kr]
      <4>1. /\ SchedTyped(y) /\ QueuesAgree(y) /\ y.task[t] = kr
            /\ \A u \in Tasks : u # t => y.task[u] = s.task[u]
        BY Zenon, KillEffect DEF kr
      <4> HIDE DEF y
      <4>2. k = y
        BY Zenon, <3>1 DEF y
      <4>3. QED BY Zenon, <4>1, <4>2
    <3>4. QED BY <1>0, <2>1, <3>3
  <2>2. CASE ~(s.task[t].id >= NCpus /\ s.task[t].kill)
    BY Zenon, <2>2
  <2>3. QED BY Zenon, <2>1, <2>2
<1> HIDE DEF k
<1>4. SchedTyped(cl) /\ QueuesAgree(cl) /\ cl.task = k.task
  BY Zenon, <1>3, NeedEffect
<1> HIDE DEF cl
<1>5. /\ cl.task[t] \in TaskRec /\ cl.task[t].id = s.task[t].id /\ cl.task[t].used
      /\ cl.task[t].on_rq = s.task[t].on_rq /\ cl.task[t].cpu = s.task[t].cpu
      /\ cl.task[t].state \in {s.task[t].state, "DEAD"}
  BY Zenon, <1>2, <1>3, <1>4, TypedTask
<1>6. CASE s.task[t].id < NCpus
  <2>1. z = cl
    BY Zenon, <1>1, <1>6
  <2> HIDE DEF z
  <2>2. z.task[t] = s.task[t] /\ \A u \in Tasks : u # t => z.task[u] = s.task[u]
    BY Zenon, <1>3, <1>4, <1>6, <2>1
  <2>3. QED BY <1>0, <1>4, <1>6, <2>1, <2>2 DEF z
<1>7. CASE s.task[t].id >= NCpus
  <2>1. z = [q EXCEPT !.task[t] = nr]
    BY <1>0, <1>1, <1>7
  <2>2. /\ rr \in TaskRec /\ rr.id = s.task[t].id /\ rr.used /\ rr.used = cl.task[t].used
        /\ rr.on_rq = s.task[t].on_rq /\ rr.rq_cpu = cl.task[t].rq_cpu /\ rr.state = "READY"
    BY ZenonT(60), <1>5 DEF TaskRec, States
  <2> HIDE DEF rr, z
  <2>3. /\ SchedTyped(s1) /\ QueuesAgree(s1) /\ s1.task[t] = rr
        /\ \A u \in Tasks : u # t => s1.task[u] = cl.task[u]
    <3>1. rr.id = cl.task[t].id /\ rr.on_rq = cl.task[t].on_rq /\ rr.state # "REAPING"
      BY Zenon, <1>5, <2>2
    <3>2. QED BY SMTT(60), <1>4, <2>2, <3>1, UpdateEffect DEF s1
  <2> HIDE DEF s1
  <2>4. /\ SchedTyped(q) /\ QueuesAgree(q)
        /\ \A u \in Tasks : u # t => /\ q.task[u].id = s.task[u].id
                                     /\ q.task[u].used = s.task[u].used
                                     /\ q.task[u].on_rq = s.task[u].on_rq
                                     /\ q.task[u].state = s.task[u].state
                                     /\ q.task[u].cpu = s.task[u].cpu
        /\ q.task[t].id = s.task[t].id /\ q.task[t].used
        /\ q.task[t].state = "READY" => q.task[t].on_rq
        /\ q.task[t].state # "REAPING"
    <3>1. CASE cl.task[t].state = "RUNNING"
      <4>1. q = RqEnqueue(s1, t, c)
        BY Zenon, <3>1
      <4>2. SchedTyped(q)
        BY Zenon, <2>3, <4>1, RqEnqueueTyped
      <4> HIDE DEF q
      <4>3. /\ QueuesAgree(q) /\ SameLife(s1, q) /\ q.task[t].on_rq
            /\ \A u \in Tasks : u # t => q.task[u].on_rq = s1.task[u].on_rq
        <5>1. s1.task[t].used /\ s1.task[t].state # "REAPING" /\ s1.task[t].id >= NCpus
          BY Zenon, <1>7, <2>2, <2>3
        <5>2. QED BY Zenon, <2>3, <4>1, <5>1, EnqueueEffect
      <4>4. \A u \in Tasks : u # t => s1.task[u] = s.task[u]
        BY Zenon, <1>3, <1>4, <2>3
      <4>5. QED BY <2>2, <2>3, <4>2, <4>3, <4>4 DEF SameLife
    <3>2. CASE cl.task[t].state # "RUNNING"
      <4>1. q = cl
        BY Zenon, <3>2
      <4> HIDE DEF q
      <4>2. QED BY SMTT(30), <1>3, <1>4, <1>5, <1>7, <4>1
    <3>3. QED BY Zenon, <3>1, <3>2
  <2> HIDE DEF q
  <2>5. /\ nr \in TaskRec /\ nr.id = q.task[t].id /\ nr.used = q.task[t].used
        /\ nr.on_rq = q.task[t].on_rq /\ nr.rq_cpu = q.task[t].rq_cpu
        /\ nr.state = q.task[t].state /\ nr.cpu = NoCpu
    <3>1. q.task[t] \in TaskRec
      BY Zenon, <2>4, TypedTask
    <3>2. QED BY Zenon, <3>1 DEF TaskRec
  <2> HIDE DEF nr
  <2>6. /\ SchedTyped(z) /\ QueuesAgree(z) /\ z.task[t] = nr
        /\ \A u \in Tasks : u # t => z.task[u] = q.task[u]
    <3>1. nr.state # "REAPING"
      BY Zenon, <2>4, <2>5
    <3> DEFINE y == [q EXCEPT !.task[t] = nr]
    <3>2. /\ SchedTyped(y) /\ QueuesAgree(y) /\ y.task[t] = nr
          /\ \A u \in Tasks : u # t => y.task[u] = q.task[u]
      BY Zenon, <2>4, <2>5, <3>1, UpdateEffect
    <3> HIDE DEF y
    <3>3. z = y
      BY Zenon, <2>1 DEF y
    <3>4. QED BY SMTT(30), <3>2, <3>3
  <2>7. /\ \A u \in Tasks : z.task[u].id = s.task[u].id /\ z.task[u].used = s.task[u].used
        /\ \A u \in Tasks : u # t => /\ z.task[u].on_rq = s.task[u].on_rq
                                     /\ z.task[u].state = s.task[u].state
                                     /\ z.task[u].cpu = s.task[u].cpu
    BY Zenon, <2>4, <2>5, <2>6
  <2>8. /\ z.task[t].state # "REAPING" /\ z.task[t].cpu = NoCpu
        /\ z.task[t].state = "READY" => z.task[t].on_rq
    BY Zenon, <2>4, <2>5, <2>6
  <2>9. ~(s.task[t].id < NCpus)
    BY <1>0, <1>7
  <2>10. QED BY Zenon, <2>6, <2>7, <2>8, <2>9 DEF z
<1>8. s.task[t].id < NCpus \/ s.task[t].id >= NCpus
  BY <1>0
<1>9. QED BY Zenon, <1>6, <1>7, <1>8

(***************************************************************************)
(* TypeInv is inductive.                                                   *)
(***************************************************************************)
LEMMA NowFields ==
  /\ Now.task = task /\ Now.rq = rq /\ Now.need = need_resched /\ Now.nxt = next_enqueue_cpu
  /\ Now' = [task |-> task', rq |-> rq', need |-> need_resched', nxt |-> next_enqueue_cpu']
BY Zenon DEF Now

LEMMA TaskTyped ==
  ASSUME TypeInv
  PROVE  /\ task \in [Tasks -> TaskRec] /\ rq \in [Cpus -> Seq(Slots)]
         /\ need_resched \in [Cpus -> BOOLEAN] /\ next_enqueue_cpu \in Cpus
         /\ \A c \in Cpus : task[c].id = c
BY Zenon, NowFields, StateFields DEF TypeInv, SchedTyped

LEMMA SetSchedTyped ==
  ASSUME NEW s, SchedTyped(s), SetSched(s)
  PROVE  SchedTyped(Now)'
<1>1. /\ task' \in [Tasks -> TaskRec] /\ rq' \in [Cpus -> Seq(Slots)]
      /\ need_resched' \in [Cpus -> BOOLEAN] /\ next_enqueue_cpu' \in Cpus
      /\ \A c \in Cpus : task'[c].id = c
  BY Zenon, StateFields DEF SetSched, SchedTyped
<1>2. QED BY Zenon, <1>1, NowFields DEF SchedTyped, SchedState

LEMMA SameSchedTyped ==
  ASSUME TypeInv, UNCHANGED lockVars
  PROVE  SchedTyped(Now)'
BY Zenon, NowFields DEF TypeInv, lockVars, Now, SchedTyped, SchedState

\* One task record changes, and keeps its id.
LEMMA TaskUpdateTyped ==
  ASSUME TypeInv, NEW t \in Tasks, NEW r \in TaskRec, r.id = task[t].id,
         task' = [task EXCEPT ![t] = r], UNCHANGED <<rq, need_resched, next_enqueue_cpu>>
  PROVE  SchedTyped(Now)'
<1>1. task' \in [Tasks -> TaskRec] /\ \A c \in Cpus : task'[c].id = c
  BY Zenon, TaskTyped, SlotFacts
<1>2. QED BY Zenon, <1>1, TaskTyped, NowFields DEF SchedTyped, SchedState

LEMMA GotoOK ==
  ASSUME TypeInv, NEW c \in Cpus, NEW q, FramesOK(q), Goto(c, q)
  PROVE  StacksOK'
BY Zenon DEF TypeInv, StacksOK, Goto, FramesOK

LEMMA TopFacts ==
  ASSUME TypeInv, NEW c \in Cpus
  PROVE  /\ FramesOK(stack[c]) /\ Top(c) \in Frame /\ Top(c) = stack[c][1]
         /\ Top(c).at \in SlotAt
            => Top(c).arg \in Slots /\ Top(c).arg \in Tasks /\ Top(c).arg \in Int
         /\ Top(c).at \notin BaseAt => FramesOK(Below(c))
         /\ cur[c] \in Tasks
<1>1. FramesOK(stack[c]) /\ cur[c] \in Tasks
  BY Zenon DEF TypeInv, StacksOK
<1>2. stack[c] \in Seq(Frame) /\ stack[c] # <<>>
  BY Zenon, <1>1 DEF FramesOK
<1>3. Top(c) \in Frame /\ Top(c) = stack[c][1] /\ 1 \in 1 .. Len(stack[c])
  BY <1>2, NoSeq DEF Top
<1>4. Top(c).at \in SlotAt => Top(c).arg \in Slots
  BY Zenon, <1>1, <1>3 DEF FramesOK
<1>5. Top(c).at \notin BaseAt => FramesOK(Below(c))
  BY Zenon, <1>1, PopOK DEF Top, Below
<1>6. \A t \in Slots : t \in Tasks /\ t \in Int
  BY SlotFacts
<1>7. QED BY Zenon, <1>1, <1>3, <1>4, <1>5, <1>6

LEMMA FrameTyped ==
  ASSUME NEW at \in At, NEW arg \in Int, NEW m \in BOOLEAN
  PROVE  /\ F(at, arg, m) \in Frame /\ F(at, arg, m).at = at /\ F(at, arg, m).arg = arg
         /\ F(at, arg, m).masked = m
BY Zenon DEF F, Frame

\* Call pushes a frame, Become replaces the top one, Return pops it.
LEMMA CallOK ==
  ASSUME TypeInv, NEW c \in Cpus, NEW at \in At \ BaseAt, NEW arg \in Int,
         at \in SlotAt => arg \in Slots, Call(c, at, arg)
  PROVE  StacksOK'
<1> DEFINE m == Top(c).masked \/ task[cur[c]].user
<1>1. m \in BOOLEAN
  BY Zenon, TopFacts, TaskTyped DEF Frame, TaskRec
<1>2. Enter(c, at, arg) = F(at, arg, m)
  BY Zenon DEF Enter
<1> HIDE DEF m
<1>3. FramesOK(<<F(at, arg, m)>> \o stack[c])
  BY <1>1, FrameTyped, TopFacts, PushOK
<1>4. QED BY Zenon, <1>2, <1>3, GotoOK DEF Call

LEMMA BecomeOK ==
  ASSUME TypeInv, NEW c \in Cpus, NEW at \in At \ BaseAt, NEW arg \in Int,
         Top(c).at \notin BaseAt,
         at \in SlotAt => arg \in Slots, Become(c, at, arg)
  PROVE  StacksOK'
<1> DEFINE m == Top(c).masked
<1>1. m \in BOOLEAN
  BY Zenon, TopFacts DEF Frame
<1> HIDE DEF m
<1>2. FramesOK(<<F(at, arg, m)>> \o Below(c))
  BY <1>1, FrameTyped, TopFacts, PushOK
<1>3. QED BY Zenon, <1>2, GotoOK DEF Become, m

LEMMA ReturnOK ==
  ASSUME TypeInv, NEW c \in Cpus, Top(c).at \notin BaseAt, Return(c)
  PROVE  StacksOK'
BY Zenon, TopFacts, GotoOK DEF Return

LEMMA SingleOK ==
  ASSUME NEW f \in Frame, f.at \in BaseAt
  PROVE  FramesOK(<<f>>)
<1> DEFINE q == <<f>>
<1>1. q \in Seq(Frame) /\ Len(q) = 1 /\ q[1] = f
  OBVIOUS
<1>2. q # <<>>
  BY Zenon
<1> HIDE DEF q
<1>3. \A i \in 1 .. Len(q) : i = 1
  BY <1>1
<1>4. f.at \notin SlotAt
  BY Zenon DEF BaseAt, SlotAt
<1>5. QED BY Zenon, <1>1, <1>2, <1>3, <1>4 DEF FramesOK, q

LEMMA BodyOK == FramesOK(Body)
<1>1. F("body", 0, FALSE) \in Frame /\ F("body", 0, FALSE).at \in BaseAt
  BY DEF F, Frame, At, BaseAt
<1>2. QED BY Zenon, <1>1, SingleOK DEF Body

\* What no action but the creation of a task changes.
LEMMA RestTyped ==
  ASSUME TypeInv, SchedTyped(Now)', StacksOK', UNCHANGED <<idVars, cur, saved>>,
         published' \subseteq Slots, UNCHANGED tickat
  PROVE  TypeInv'
BY Zenon DEF TypeInv, IdsTyped, SavedOK, idVars

LEMMA MeTyped ==
  ASSUME TypeInv, NEW c \in Cpus
  PROVE  task[cur[c]] \in TaskRec /\ cur[c] \in Tasks
BY Zenon, TaskTyped, TopFacts

LEMMA ScheduleTyped ==
  ASSUME TypeInv, NEW c \in Cpus,
         \/ Yield(c) \/ ReapVictim(c) \/ ReapDetach(c) \/ ReapClear(c) \/ ReapDone(c)
  PROVE  TypeInv'
<1>1. CASE Yield(c)
  <2>1. StacksOK'
    BY <1>1, CallOK DEF Yield, At, BaseAt, SlotAt
  <2>2. QED BY Zenon, <1>1, <2>1, SameSchedTyped, RestTyped DEF Yield, TypeInv
<1>2. CASE ReapVictim(c)
  <2>1. PICK t \in Slots : /\ SetSched([RqRemove(Now, t) EXCEPT !.task[t].state = "REAPING"])
                           /\ Become(c, "cleanup", t)
    BY Zenon, <1>2 DEF ReapVictim
  <2>2. SchedTyped(RqRemove(Now, t))
    BY Zenon, RqRemoveTyped, SlotFacts DEF TypeInv
  <2>3. SchedTyped([RqRemove(Now, t) EXCEPT !.task[t].state = "REAPING"])
    <3> DEFINE z == RqRemove(Now, t)
    <3> HIDE DEF z
    <3>1. SchedTyped([z EXCEPT !.task[t].state = "REAPING"])
      BY Zenon, <2>2, ReadyTyped, SlotFacts DEF States, z
    <3>2. QED BY Zenon, <3>1 DEF z
  <2>4. SchedTyped(Now)'
    BY Zenon, <2>1, <2>3, SetSchedTyped
  <2>5. StacksOK'
    BY <1>2, <2>1, BecomeOK, SlotFacts DEF ReapVictim, In, At, BaseAt, SlotAt
  <2>6. QED BY Zenon, <1>2, <2>4, <2>5, RestTyped DEF ReapVictim, TypeInv
<1>3. CASE ReapDetach(c)
  <2>1. Top(c).arg \in Slots /\ Top(c).arg \in Int /\ Top(c).at \notin BaseAt
    <3>1. Top(c).at = "cleanup"
      BY Zenon, <1>3 DEF ReapDetach, In
    <3>2. QED BY Zenon, <3>1, TopFacts DEF BaseAt, SlotAt
  <2>2. StacksOK'
    BY Zenon, <1>3, <2>1, BecomeOK DEF ReapDetach, At, BaseAt, SlotAt
  <2>3. QED BY SMTT(30), <1>3, <2>2, SameSchedTyped, RestTyped DEF ReapDetach, TypeInv
<1>4. CASE ReapClear(c)
  <2>1. StacksOK'
    BY SMTT(30), <1>4, BecomeOK DEF ReapClear, In, At, BaseAt, SlotAt
  <2>2. Top(c).arg \in Slots
    BY Zenon, <1>4, TopFacts DEF ReapClear, In, SlotAt
  <2>3. Cleared \in TaskRec
    BY Zenon, SlotFacts DEF Cleared, TaskRec, States
  <2>4. task' \in [Tasks -> TaskRec] /\ \A d \in Cpus : task'[d].id = d
    BY Zenon, <1>4, <2>2, <2>3, TaskTyped, SlotFacts DEF ReapClear
  <2>5. SchedTyped(Now)'
    BY Zenon, <1>4, <2>4, TaskTyped, NowFields DEF ReapClear, SchedTyped, SchedState
  <2>6. QED BY Zenon, <1>4, <2>1, <2>5, RestTyped DEF ReapClear, TypeInv, idVars
<1>5. CASE ReapDone(c)
  <2>1. StacksOK'
    BY <1>5, BecomeOK DEF ReapDone, In, At, BaseAt, SlotAt
  <2>2. QED BY Zenon, <1>5, <2>1, SameSchedTyped, RestTyped DEF ReapDone, TypeInv
<1>6. QED BY Zenon, <1>1, <1>2, <1>3, <1>4, <1>5

LEMMA SwitchTyped ==
  ASSUME TypeInv, NEW c \in Cpus, Switch(c)
  PROVE  TypeInv'
<1> DEFINE prev == cur[c]
           s == Outgoing(Now, prev, c)
<1>1. PICK p \in PickNext(s, c) :
        /\ SetSched([p.s EXCEPT !.task[p.next] = [@ EXCEPT !.state = "RUNNING", !.cpu = c]])
        /\ cur' = [cur EXCEPT ![c] = p.next]
        /\ IF p.next = prev THEN Return(c) /\ UNCHANGED saved
           ELSE /\ saved' = [saved EXCEPT ![prev] = Below(c)]
                /\ Goto(c, saved[p.next])
  BY Zenon DEF Switch
<1>2. prev \in Tasks
  BY Zenon, TopFacts
<1>3. SchedTyped(s)
  BY Zenon, <1>2, OutgoingTyped DEF TypeInv
<1>4. SchedTyped(p.s) /\ p.next \in Tasks
  <2> HIDE DEF s
  <2> QED BY Zenon, <1>3, PickNextTyped
<1>5. SchedTyped(Now)'
  <2> DEFINE r == [p.s.task[p.next] EXCEPT !.state = "RUNNING", !.cpu = c]
  <2>1. r \in TaskRec /\ r.id = p.s.task[p.next].id
    <3> DEFINE old == p.s.task[p.next]
    <3>1. old \in TaskRec
      BY Zenon, <1>4, TypedTask
    <3> HIDE DEF old
    <3>2. [old EXCEPT !.state = "RUNNING", !.cpu = c] \in TaskRec
      BY Zenon, <3>1 DEF TaskRec, States
    <3>3. QED BY Zenon, <3>1, <3>2 DEF TaskRec, old
  <2>2. SchedTyped([p.s EXCEPT !.task[p.next] = r])
    <3> HIDE DEF r
    <3> QED BY Zenon, <1>4, <2>1, UpdateTyped
  <2>3. SetSched([p.s EXCEPT !.task[p.next] = r])
    BY Zenon, <1>1
  <2>4. QED
    <3> HIDE DEF r
    <3> QED BY Zenon, <2>2, <2>3, SetSchedTyped
<1>6. FramesOK(Below(c)) /\ Top(c).at \notin BaseAt
  BY Zenon, TopFacts DEF Switch, In, BaseAt
<1>7. SavedOK' /\ StacksOK'
  <2>1. CASE p.next = prev
    BY Zenon, <1>1, <1>6, <2>1, ReturnOK DEF TypeInv, SavedOK
  <2>2. CASE p.next # prev
    <3>1. FramesOK(saved[p.next])
      BY Zenon, <1>4 DEF TypeInv, SavedOK
    <3>2. StacksOK'
      BY Zenon, <1>1, <2>2, <3>1, GotoOK
    <3>3. Below(c) \in Seq(Frame) /\ saved' = [saved EXCEPT ![prev] = Below(c)]
      BY Zenon, <1>1, <1>6, <2>2 DEF FramesOK
    <3>4. SavedOK'
      BY Zenon, <1>2, <1>6, <3>3 DEF TypeInv, SavedOK
    <3>5. QED BY Zenon, <3>2, <3>4
  <2>3. QED BY Zenon, <2>1, <2>2
<1>8. cur' \in [Cpus -> Tasks]
  BY Zenon, <1>1, <1>4 DEF TypeInv
<1>9. QED BY Zenon, <1>5, <1>7, <1>8 DEF TypeInv, IdsTyped, idVars, Switch

LEMMA PairConcat ==
  ASSUME NEW f \in Frame, NEW g \in Frame
  PROVE  <<g>> \o <<f>> = <<g, f>>
<1>1. /\ <<g>> \o <<f>> \in Seq(Frame) /\ Len(<<g>> \o <<f>>) = 2
      /\ (<<g>> \o <<f>>)[1] = g /\ (<<g>> \o <<f>>)[2] = f
  OBVIOUS
<1>2. /\ <<g, f>> \in Seq(Frame) /\ Len(<<g, f>>) = 2
      /\ <<g, f>>[1] = g /\ <<g, f>>[2] = f
  OBVIOUS
<1>3. \A i \in 1 .. 2 : i = 1 \/ i = 2
  OBVIOUS
<1>4. QED BY Zenon, <1>1, <1>2, <1>3, SameSeq

LEMMA PreemptOK ==
  ASSUME TypeInv, NEW c \in Cpus, Preempt(c)
  PROVE  StacksOK'
<1>1. F("reap", 0, TRUE) \in Frame /\ F("reap", 0, TRUE).at = "reap"
  BY DEF F, Frame, At
<1>2. FramesOK(<<F("reap", 0, TRUE)>> \o stack[c])
  BY Zenon, <1>1, TopFacts, PushOK DEF BaseAt, SlotAt
<1>3. QED BY Zenon, <1>2, GotoOK DEF Preempt

LEMMA NeedReschedTyped ==
  ASSUME TypeInv, NEW c \in Cpus, need_resched' = [need_resched EXCEPT ![c] = TRUE],
         UNCHANGED <<task, rq, next_enqueue_cpu>>
  PROVE  SchedTyped(Now)'
<1>1. need_resched' \in [Cpus -> BOOLEAN]
  BY Zenon, TaskTyped
<1>2. QED BY Zenon, <1>1, TaskTyped, NowFields DEF SchedTyped, SchedState

LEMMA LeastLoadedTyped ==
  ASSUME NEW s, NEW d \in LeastLoaded(s) PROVE d \in Cpus
BY Zenon DEF LeastLoaded

LEMMA InterruptTyped ==
  ASSUME TypeInv, (\E c \in Cpus : Irq(c) \/ Tick(c)) \/ TickSlot \/ TickDone
  PROVE  TypeInv'
<1>1. CASE \E c \in Cpus : Irq(c)
  BY Zenon, <1>1, PreemptOK, SameSchedTyped, RestTyped DEF Irq, TypeInv
<1>2. ASSUME NEW c \in Cpus, Tick(c)
      PROVE  TypeInv'
  <2>1. CASE c = 0 /\ Sleepers(0) # {}
    <3>1. SchedTyped(Now)' /\ StacksOK'
      BY Zenon, <1>2, <2>1, SameSchedTyped DEF Tick, lockVars, TypeInv, StacksOK
    <3>2. tickat' \in Nat
      BY <1>2, <2>1 DEF Tick
    <3>3. QED BY Zenon, <1>2, <3>1, <3>2 DEF Tick, TypeInv, IdsTyped, SavedOK, idVars
  <2>2. CASE ~(c = 0 /\ Sleepers(0) # {})
    <3>1. SchedTyped(Now)'
      BY Zenon, <1>2, <2>2, NeedReschedTyped DEF Tick
    <3>2. StacksOK'
      BY Zenon, <1>2, <2>2, PreemptOK DEF Tick
    <3>3. QED BY Zenon, <1>2, <2>2, <3>1, <3>2, RestTyped DEF Tick, TypeInv
  <2>3. QED BY Zenon, <2>1, <2>2
<1>3. CASE TickSlot
  <2> DEFINE s(t) == [Now EXCEPT !.task[t].sleep = @ - 1]
  <2>1. PICK t \in Sleepers(tickat) :
          /\ IF s(t).task[t].sleep = 0
             THEN \E d \in LeastLoaded(s(t)) : SetSched(MakeReady(s(t), t, d))
             ELSE SetSched(s(t))
          /\ tickat' = t + 1
    BY Zenon, <1>3 DEF TickSlot
  <2>2. t \in Slots /\ t \in Tasks /\ task[t].sleep > 0
    BY Zenon, SlotFacts DEF Sleepers
  <2>3. [task[t] EXCEPT !.sleep = @ - 1] \in TaskRec
        /\ [task[t] EXCEPT !.sleep = @ - 1].id = task[t].id
    <3>1. task[t] \in TaskRec
      BY Zenon, <2>2, TaskTyped
    <3>2. QED BY <2>2, <3>1 DEF TaskRec
  <2>4. SchedTyped(s(t))
    BY Zenon, <2>2, <2>3, UpdateTyped, NowFields DEF TypeInv
  <2> HIDE DEF s
  <2>5. SchedTyped(Now)'
    BY Zenon, <2>1, <2>2, <2>4, MakeReadyTyped, LeastLoadedTyped, SetSchedTyped
  <2>6. StacksOK' /\ tickat' \in Nat
    BY <1>3, <2>1, <2>2, SlotFacts DEF TickSlot, TypeInv, StacksOK
  <2>7. QED BY Zenon, <1>3, <2>5, <2>6 DEF TickSlot, TypeInv, IdsTyped, SavedOK, idVars
<1>4. CASE TickDone
  <2>1. SchedTyped(Now)'
    BY Zenon, <1>4, NeedReschedTyped, SlotFacts DEF TickDone
  <2>2. StacksOK'
    BY Zenon, <1>4, PreemptOK, SlotFacts DEF TickDone
  <2>3. QED BY Zenon, <1>4, <2>1, <2>2 DEF TickDone, TypeInv, IdsTyped, SavedOK, idVars
<1>5. QED BY Zenon, <1>1, <1>2, <1>3, <1>4

LEMMA CreatedTyped ==
  ASSUME TypeInv, NEW t \in FreeSlot
  PROVE  /\ t \in Slots /\ t \in Tasks /\ t \in Int /\ ~task[t].used
         /\ Created(t, FALSE) \in TaskRec
         /\ [Created(t, TRUE) EXCEPT !.state = "BLOCKED"] \in TaskRec
<1>1. t \in Slots /\ t \in Tasks /\ t \in Int /\ ~task[t].used
  BY SlotFacts DEF FreeSlot
<1>2. task[t] \in TaskRec /\ next_task_id \in Nat
  BY Zenon, <1>1, TaskTyped DEF TypeInv, IdsTyped
<1>3. Created(t, FALSE) \in TaskRec /\ Created(t, TRUE) \in TaskRec
  BY Zenon, <1>2 DEF Created, TaskRec
<1>4. QED BY Zenon, <1>1, <1>3 DEF TaskRec, States

LEMMA NewContextTyped ==
  ASSUME TypeInv, NEW t \in Tasks, NewContext(t), UNCHANGED init_task_id
  PROVE  IdsTyped' /\ SavedOK'
<1>1. IdsTyped'
  BY DEF TypeInv, IdsTyped, NewContext
<1>2. saved' = [saved EXCEPT ![t] = Body] /\ Body \in Seq(Frame)
  BY Zenon, BodyOK DEF NewContext, FramesOK
<1> HIDE DEF Body
<1>3. QED BY Zenon, <1>1, <1>2, BodyOK DEF TypeInv, SavedOK

LEMMA TaskCreateTyped ==
  ASSUME TypeInv, NEW c \in Cpus, TaskCreate(c)
  PROVE  TypeInv'
<1> DEFINE s(t) == [Now EXCEPT !.task[t] = Created(t, FALSE)]
<1>1. PICK t \in FreeSlot :
        NewContext(t) /\ \E d \in LeastLoaded(s(t)) : SetSched(MakeReady(s(t), t, d))
  BY Zenon DEF TaskCreate
<1>2. t \in Slots /\ t \in Tasks /\ Created(t, FALSE) \in TaskRec
  BY Zenon, CreatedTyped
<1>3. SchedTyped(s(t))
  <2>1. [task EXCEPT ![t] = Created(t, FALSE)] \in [Tasks -> TaskRec]
    BY Zenon, <1>2, TaskTyped
  <2>2. QED BY Zenon, <1>2, <2>1, TaskTyped, SlotFacts DEF Now, SchedTyped, SchedState
<1> HIDE DEF s
<1>4. SchedTyped(Now)'
  BY Zenon, <1>1, <1>2, <1>3, MakeReadyTyped, LeastLoadedTyped, SetSchedTyped
<1>5. IdsTyped' /\ SavedOK'
  BY Zenon, <1>1, <1>2, NewContextTyped DEF TaskCreate
<1>6. QED BY Zenon, <1>4, <1>5 DEF TaskCreate, TypeInv, StacksOK

LEMMA TaskCreateUserTyped ==
  ASSUME TypeInv, NEW c \in Cpus, NEW at \in {"register", "adopt", "wake", "parent"},
         TaskCreateUser(c, at)
  PROVE  TypeInv'
<1> DEFINE r(t) == [Created(t, TRUE) EXCEPT !.state = "BLOCKED"]
<1>1. PICK t \in FreeSlot : NewContext(t) /\ task' = [task EXCEPT ![t] = r(t)] /\ Call(c, at, t)
  BY Zenon DEF TaskCreateUser
<1>2. t \in Slots /\ t \in Tasks /\ t \in Int /\ r(t) \in TaskRec
  BY Zenon, CreatedTyped, SlotFacts
<1> HIDE DEF r
<1>3. task' \in [Tasks -> TaskRec] /\ \A d \in Cpus : task'[d].id = d
  BY Zenon, <1>1, <1>2, TaskTyped, SlotFacts
<1>4. SchedTyped(Now)'
  BY Zenon, <1>3, TaskTyped, NowFields DEF TaskCreateUser, SchedTyped, SchedState
<1>5. IdsTyped' /\ SavedOK'
  BY Zenon, <1>1, <1>2, NewContextTyped DEF TaskCreateUser
<1>6. StacksOK'
  BY Zenon, <1>1, <1>2, CallOK DEF At, BaseAt
<1>7. QED BY Zenon, <1>4, <1>5, <1>6 DEF TaskCreateUser, TypeInv

LEMMA CreatorTyped ==
  ASSUME TypeInv, NEW c \in Cpus,
         \/ BootInit(c) \/ BootService(c) \/ ShellLoad(c) \/ Clone(c) \/ BootDone(c)
         \/ RegisterInit(c) \/ AdoptTask(c) \/ CloneParent(c) \/ WakeTask(c)
  PROVE  TypeInv'
<1> DEFINE t == Top(c).arg
<1>1. CASE BootInit(c) \/ BootService(c) \/ ShellLoad(c) \/ Clone(c)
  BY Zenon, <1>1, TaskCreateUserTyped DEF BootInit, BootService, ShellLoad, Clone
<1>2. CASE BootDone(c)
  <2>1. StacksOK'
    BY Zenon, <1>2, BodyOK, GotoOK DEF BootDone
  <2>2. QED BY Zenon, <1>2, <2>1, SameSchedTyped, RestTyped DEF BootDone, TypeInv
<1>3. ASSUME NEW p \in Nat \cup {NoParent}, Top(c).at \in SlotAt,
             task' = [task EXCEPT ![t].parent = p],
             UNCHANGED <<rq, need_resched, next_enqueue_cpu>>, Become(c, "wake", t)
      PROVE  SchedTyped(Now)' /\ StacksOK'
  <2>1. t \in Slots /\ t \in Tasks /\ t \in Int
    BY Zenon, <1>3, TopFacts
  <2>2. [task[t] EXCEPT !.parent = p] \in TaskRec
        /\ [task[t] EXCEPT !.parent = p].id = task[t].id
    <3>1. task[t] \in TaskRec
      BY Zenon, <2>1, TaskTyped
    <3>2. QED BY Zenon, <3>1 DEF TaskRec
  <2>3. Top(c).at \notin BaseAt
    BY Zenon, <1>3 DEF SlotAt, BaseAt
  <2> HIDE DEF t
  <2>4. StacksOK'
    BY Zenon, <1>3, <2>1, <2>3, BecomeOK DEF At, SlotAt, BaseAt
  <2>5. QED BY Zenon, <1>3, <2>1, <2>2, <2>4, TaskUpdateTyped
<1>4. CASE RegisterInit(c)
  <2>1. Top(c).at \in SlotAt
    BY Zenon, <1>4 DEF RegisterInit, In, SlotAt
  <2>2. SchedTyped(Now)' /\ StacksOK'
    BY Zenon, <1>3, <1>4, <2>1 DEF RegisterInit
  <2>3. t \in Tasks /\ task[t] \in TaskRec
    BY Zenon, <2>1, TopFacts, TaskTyped
  <2>4. init_task_id' \in Nat
    BY Zenon, <1>4, <2>3 DEF RegisterInit, TaskRec
  <2>5. QED BY Zenon, <1>4, <2>2, <2>4 DEF RegisterInit, TypeInv, IdsTyped, SavedOK
<1>5. CASE AdoptTask(c)
  <2>1. Top(c).at \in SlotAt /\ init_task_id \in Nat \cup {NoParent}
    BY Zenon, <1>5 DEF AdoptTask, In, SlotAt, TypeInv, IdsTyped
  <2>2. SchedTyped(Now)' /\ StacksOK'
    BY Zenon, <1>3, <1>5, <2>1 DEF AdoptTask
  <2>3. QED BY Zenon, <1>5, <2>2, RestTyped DEF AdoptTask, TypeInv
<1>6. CASE CloneParent(c)
  <2>1. Top(c).at \in SlotAt /\ task[cur[c]].id \in Nat \cup {NoParent}
    BY Zenon, <1>6, MeTyped DEF CloneParent, In, SlotAt, TaskRec
  <2>2. SchedTyped(Now)' /\ StacksOK'
    BY Zenon, <1>3, <1>6, <2>1 DEF CloneParent
  <2>3. QED BY Zenon, <1>6, <2>2, RestTyped DEF CloneParent, TypeInv
<1>7. CASE WakeTask(c)
  <2>1. Top(c).at \in SlotAt /\ Top(c).at \notin BaseAt
    BY ZenonT(60), <1>7 DEF WakeTask, In, SlotAt, BaseAt
  <2>2. t \in Tasks
    BY SMTT(30), <2>1, TopFacts
  <2> HIDE DEF t
  <2>3. SchedTyped(Now)'
    <3>1. SchedTyped(Now)
      BY Zenon DEF TypeInv
    <3>2. (\E d \in LeastLoaded(Now) : SetSched(MakeReady(Now, t, d))) \/ UNCHANGED lockVars
      BY Zenon, <1>7 DEF WakeTask, t
    <3>3. CASE UNCHANGED lockVars
      BY Zenon, <3>3, SameSchedTyped
    <3>4. CASE \E d \in LeastLoaded(Now) : SetSched(MakeReady(Now, t, d))
      <4>1. PICK d \in LeastLoaded(Now) : SetSched(MakeReady(Now, t, d))
        BY Zenon, <3>4
      <4>2. SchedTyped(MakeReady(Now, t, d))
        BY Zenon, <2>2, <3>1, LeastLoadedTyped, MakeReadyTyped
      <4>3. QED BY Zenon, <4>1, <4>2, SetSchedTyped
    <3>5. QED BY Zenon, <3>2, <3>3, <3>4
  <2>4. StacksOK'
    BY ZenonT(60), <1>7, <2>1, ReturnOK DEF WakeTask
  <2>5. QED BY ZenonT(60), <1>7, <2>3, <2>4, RestTyped DEF WakeTask, TypeInv
<1>8. QED BY Zenon, <1>1, <1>2, <1>4, <1>5, <1>6, <1>7

\* The current task's state or wake token changes.
LEMMA MyStateTyped ==
  ASSUME TypeInv, NEW t \in Tasks, NEW st \in States,
         \/ task' = [task EXCEPT ![t].state = st]
         \/ task' = [task EXCEPT ![t].wake = FALSE]
         \/ UNCHANGED task,
         UNCHANGED <<rq, need_resched, next_enqueue_cpu>>
  PROVE  SchedTyped(Now)'
<1>1. task[t] \in TaskRec
  BY Zenon, TaskTyped
<1>2. CASE task' = [task EXCEPT ![t].state = st]
  <2>1. [task[t] EXCEPT !.state = st] \in TaskRec
        /\ [task[t] EXCEPT !.state = st].id = task[t].id
    BY Zenon, <1>1 DEF TaskRec
  <2>2. QED BY Zenon, <1>2, <2>1, TaskUpdateTyped
<1>3. CASE task' = [task EXCEPT ![t].wake = FALSE]
  <2>1. [task[t] EXCEPT !.wake = FALSE] \in TaskRec
        /\ [task[t] EXCEPT !.wake = FALSE].id = task[t].id
    BY Zenon, <1>1 DEF TaskRec
  <2>2. QED BY Zenon, <1>3, <2>1, TaskUpdateTyped
<1>4. CASE UNCHANGED task
  BY Zenon, <1>4, SameSchedTyped DEF lockVars
<1>5. QED BY Zenon, <1>2, <1>3, <1>4

LEMMA WaitTyped ==
  ASSUME TypeInv, NEW c \in Cpus,
         \/ Publish(c) \/ ParkTask(c) \/ ParkReturn(c) \/ Dequeue(c) \/ UnparkTask(c)
         \/ SleepCurrent(c)
  PROVE  TypeInv'
<1>1. CASE Publish(c)
  <2>1. StacksOK'
    BY <1>1, CallOK DEF Publish, At, BaseAt, SlotAt
  <2>2. published' \subseteq Slots
    BY Zenon, <1>1 DEF Publish, IsTask, TypeInv
  <2>3. QED BY Zenon, <1>1, <2>1, <2>2, SameSchedTyped, RestTyped DEF Publish
<1>2. CASE ParkTask(c)
  <2>1. SchedTyped(Now)'
    BY Zenon, <1>2, MyStateTyped, MeTyped DEF ParkTask, States
  <2>2. Top(c).at \notin BaseAt
    BY Zenon, <1>2 DEF ParkTask, In, BaseAt
  <2>3. StacksOK'
    <3> DEFINE m == Top(c).masked
               f == F("parked", 0, m)
               g == F("reap", 0, m)
    <3>1. m \in BOOLEAN
      BY Zenon, TopFacts DEF Frame
    <3>2. /\ f \in Frame /\ f.at \notin BaseAt /\ f.at \notin SlotAt
          /\ g \in Frame /\ g.at \notin BaseAt /\ g.at \notin SlotAt
      BY <3>1, FrameTyped DEF At, BaseAt, SlotAt
    <3>3. Return(c) \/ Goto(c, <<g, f>> \o Below(c))
      BY Zenon, <1>2 DEF ParkTask
    <3> HIDE DEF f, g
    <3>4. Below(c) \in Seq(Frame) /\ FramesOK(Below(c))
      BY Zenon, <2>2, TopFacts DEF FramesOK
    <3>5. <<g>> \o (<<f>> \o Below(c)) = (<<g>> \o <<f>>) \o Below(c)
      BY <3>2, <3>4, ConcatThree
    <3>6. <<g>> \o <<f>> = <<g, f>>
      BY SMTT(30), <3>2, PairConcat
    <3>7. FramesOK(<<g>> \o (<<f>> \o Below(c)))
      BY Zenon, <3>2, <3>4, PushOK
    <3>8. QED BY Zenon, <2>2, <3>3, <3>5, <3>6, <3>7, ReturnOK, GotoOK
  <2>4. QED BY Zenon, <1>2, <2>1, <2>3, RestTyped DEF ParkTask, TypeInv
<1>3. CASE ParkReturn(c)
  <2>1. StacksOK'
    BY Zenon, <1>3, ReturnOK DEF ParkReturn, In, BaseAt
  <2>2. QED BY Zenon, <1>3, <2>1, SameSchedTyped, RestTyped DEF ParkReturn, TypeInv
<1>4. CASE Dequeue(c)
  <2>1. PICK t \in published : published' = published \ {t} /\ Call(c, "unpark", t)
    BY Zenon, <1>4 DEF Dequeue
  <2>2. t \in Slots /\ t \in Int
    BY SlotFacts DEF TypeInv
  <2>3. StacksOK'
    BY Zenon, <2>1, <2>2, CallOK DEF At, BaseAt, SlotAt
  <2>4. QED BY Zenon, <1>4, <2>1, <2>3, SameSchedTyped, RestTyped DEF Dequeue, TypeInv
<1>5. CASE UnparkTask(c)
  <2> DEFINE t == Top(c).arg
  <2>1. Top(c).at \in SlotAt /\ Top(c).at \notin BaseAt
    BY Zenon, <1>5 DEF UnparkTask, In, SlotAt, BaseAt
  <2>2. t \in Tasks
    BY Zenon, <2>1, TopFacts
  <2>3. SchedTyped([Now EXCEPT !.task[t].wake = TRUE])
    <3>1. [task[t] EXCEPT !.wake = TRUE] \in TaskRec
          /\ [task[t] EXCEPT !.wake = TRUE].id = task[t].id
      <4>1. task[t] \in TaskRec
        BY Zenon, <2>2, TaskTyped
      <4>2. QED BY Zenon, <4>1 DEF TaskRec
    <3>2. QED BY Zenon, <2>2, <3>1, UpdateTyped, NowFields DEF TypeInv
  <2>4. SchedTyped(Now)'
    BY Zenon, <1>5, <2>2, <2>3, MakeReadyTyped, LeastLoadedTyped, SetSchedTyped, SameSchedTyped
       DEF UnparkTask, TypeInv
  <2>5. StacksOK'
    BY SMTT(30), <1>5, <2>1, ReturnOK DEF UnparkTask
  <2>6. QED BY Zenon, <1>5, <2>4, <2>5, RestTyped DEF UnparkTask, TypeInv
<1>6. CASE SleepCurrent(c)
  <2> DEFINE t == cur[c]
             s(n) == [Now EXCEPT !.task[t].sleep = n]
  <2>1. PICK k \in 0 .. MaxSleep :
          IF k = 0 THEN \E d \in LeastLoaded(s(2 * k)) : SetSched(MakeReady(s(2 * k), t, d))
          ELSE SetSched([RqRemove(s(2 * k), t) EXCEPT !.task[t].state = "BLOCKED"])
    BY Zenon, <1>6 DEF SleepCurrent
  <2> DEFINE n == 2 * k
  <2>2. t \in Tasks /\ n \in Nat
    BY MeTyped, ConstantsOK
  <2> HIDE DEF n
  <2>3. [task[t] EXCEPT !.sleep = n] \in TaskRec
        /\ [task[t] EXCEPT !.sleep = n].id = task[t].id
    <3>1. task[t] \in TaskRec
      BY Zenon, MeTyped
    <3> HIDE DEF t
    <3>2. QED BY Zenon, <2>2, <3>1 DEF TaskRec
  <2>4. SchedTyped(s(n))
    BY Zenon, <2>2, <2>3, UpdateTyped, NowFields DEF TypeInv
  <2> HIDE DEF s, t
  <2>5. SchedTyped(RqRemove(s(n), t))
    BY Zenon, <2>2, <2>4, RqRemoveTyped
  <2>6. SchedTyped([RqRemove(s(n), t) EXCEPT !.task[t].state = "BLOCKED"])
    <3> DEFINE z == RqRemove(s(n), t)
    <3> HIDE DEF z
    <3>1. SchedTyped([z EXCEPT !.task[t].state = "BLOCKED"])
      BY Zenon, <2>2, <2>5, ReadyTyped DEF States, z
    <3>2. QED BY Zenon, <3>1 DEF z
  <2>7. SchedTyped(Now)'
    BY Zenon, <2>1, <2>2, <2>4, <2>6, MakeReadyTyped, LeastLoadedTyped, SetSchedTyped DEF n
  <2>8. StacksOK'
    <3>1. Call(c, "reap", 0)
      BY Zenon, <1>6 DEF SleepCurrent
    <3>2. QED BY <3>1, CallOK DEF At, BaseAt, SlotAt
  <2>9. QED BY SMTT(30), <1>6, <2>7, <2>8, RestTyped DEF SleepCurrent, TypeInv
<1>7. QED BY Zenon, <1>1, <1>2, <1>3, <1>4, <1>5, <1>6

LEMMA TaskExitTyped ==
  ASSUME TypeInv, NEW c \in Cpus, TaskExit(c)
  PROVE  TypeInv'
<1> DEFINE t == cur[c]
           me == task[t]
           parents == {p \in Tasks : task[p].used /\ task[p].id = me.parent}
           last == IF parents = {} \/ me.id = init_task_id THEN "DEAD" ELSE "ZOMBIE"
           tk == [u \in Tasks |->
                   IF u = t THEN [me EXCEPT !.state = last]
                   ELSE IF task[u].used /\ task[u].parent = me.id
                   THEN [task[u] EXCEPT !.parent = init_task_id]
                   ELSE task[u]]
           s == [Now EXCEPT !.task = tk]
           blocked == {p \in parents : s.task[p].state = "BLOCKED"}
<1>1. IF blocked = {} THEN SetSched(s)
      ELSE \E p \in blocked, d \in LeastLoaded(s) : SetSched(MakeReady(s, p, d))
  BY Zenon DEF TaskExit
<1>2. tk \in [Tasks -> TaskRec] /\ \A u \in Tasks : tk[u].id = task[u].id
  <2>1. last \in States
    BY Zenon DEF States
  <2>2. init_task_id \in Nat \cup {NoParent}
    BY Zenon DEF TypeInv, IdsTyped
  <2>3. \A u \in Tasks : task[u] \in TaskRec
    BY Zenon, TaskTyped
  <2> HIDE DEF last
  <2>4. \A u \in Tasks : /\ [task[u] EXCEPT !.state = last] \in TaskRec
                         /\ [task[u] EXCEPT !.state = last].id = task[u].id
    BY Zenon, <2>1, <2>3 DEF TaskRec
  <2>5. \A u \in Tasks : /\ [task[u] EXCEPT !.parent = init_task_id] \in TaskRec
                         /\ [task[u] EXCEPT !.parent = init_task_id].id = task[u].id
    BY Zenon, <2>2, <2>3 DEF TaskRec
  <2>6. QED BY Zenon, <2>3, <2>4, <2>5
<1>3. SchedTyped(s)
  <2> HIDE DEF tk
  <2> QED BY Zenon, <1>2, TaskTyped, SlotFacts DEF Now, SchedTyped, SchedState
<1>4. \A p \in blocked : p \in Tasks
  BY Zenon
<1>5. SchedTyped(Now)'
  <2> HIDE DEF s, blocked
  <2> QED BY Zenon, <1>1, <1>3, <1>4, MakeReadyTyped, LeastLoadedTyped, SetSchedTyped
<1>6. StacksOK'
  <2> DEFINE m == Top(c).masked \/ task[cur[c]].user
             f == F("exited", 0, m)
             g == F("reap", 0, m)
  <2>1. m \in BOOLEAN
    BY SMTT(30), TopFacts, MeTyped DEF Frame, TaskRec
  <2>2. Goto(c, <<g, f>>)
    BY Zenon DEF TaskExit, Enter
  <2> HIDE DEF m
  <2>3. f \in Frame /\ f.at \in BaseAt /\ g \in Frame /\ g.at \notin BaseAt /\ g.at \notin SlotAt
    BY <2>1, FrameTyped DEF At, BaseAt, SlotAt
  <2> HIDE DEF f, g
  <2>4. FramesOK(<<g>> \o <<f>>)
    BY Zenon, <2>3, SingleOK, PushOK
  <2>5. <<g>> \o <<f>> = <<g, f>>
    BY Zenon, <2>3, PairConcat
  <2>6. QED BY Zenon, <2>2, <2>4, <2>5, GotoOK
<1>7. QED
  <2>1. UNCHANGED <<idVars, cur, saved, published, tickat>>
    BY SMTT(30) DEF TaskExit
  <2>2. QED BY SMTT(30), <1>5, <1>6, <2>1, RestTyped DEF TypeInv

LEMMA FamilyTyped ==
  ASSUME TypeInv, NEW c \in Cpus,
         Wait4(c) \/ Wait4Scan(c) \/ KillTask(c) \/ KillSyncPoll(c)
  PROVE  TypeInv'
<1>1. CASE Wait4(c)
  <2>1. PICK pid \in {AnyPid} \cup NCpus .. next_task_id - 1 : Call(c, "wait4", pid)
    BY Zenon, <1>1 DEF Wait4
  <2>2. pid \in Int
    BY ConstantsOK DEF AnyPid, TypeInv, IdsTyped
  <2>3. StacksOK'
    BY Zenon, <2>1, <2>2, CallOK DEF At, BaseAt, SlotAt
  <2>4. QED BY Zenon, <1>1, <2>3, SameSchedTyped, RestTyped DEF Wait4, TypeInv
<1>2. CASE Wait4Scan(c)
  <2>1. /\ \/ \E t \in Tasks : task' = [task EXCEPT ![t].state = "DEAD"]
           \/ UNCHANGED task
           \/ task' = [task EXCEPT ![cur[c]].state = "BLOCKED"]
        /\ Return(c) \/ Call(c, "reap", 0)
        /\ UNCHANGED <<rq, need_resched, next_enqueue_cpu, idVars, cur, saved, published, tickat>>
        /\ Top(c).at = "wait4"
    BY Zenon, <1>2 DEF Wait4Scan, Children, In
  <2>2. cur[c] \in Tasks
    BY Zenon, MeTyped
  <2>3. SchedTyped(Now)'
    BY Zenon, <2>1, <2>2, MyStateTyped DEF States
  <2>4. StacksOK'
    BY <2>1, ReturnOK, CallOK DEF At, BaseAt, SlotAt
  <2>5. QED BY SMTT(30), <2>1, <2>3, <2>4, RestTyped DEF TypeInv
<1>3. CASE KillTask(c)
  <2>1. PICK t \in Slots : /\ task' = [task EXCEPT ![t] = Killed(t)]
                           /\ Call(c, "killsync", task[t].id)
    BY Zenon, <1>3 DEF KillTask
  <2>2. t \in Tasks /\ task[t] \in TaskRec
    BY Zenon, TaskTyped, SlotFacts
  <2>3. Killed(t) \in TaskRec /\ Killed(t).id = task[t].id
    BY Zenon, <2>2 DEF Killed, TaskRec, States
  <2>4. task[t].id \in Int
    BY <2>2 DEF TaskRec
  <2>5. SchedTyped(Now)'
    BY Zenon, <1>3, <2>1, <2>2, <2>3, TaskUpdateTyped DEF KillTask
  <2>6. StacksOK'
    BY Zenon, <2>1, <2>4, CallOK DEF At, BaseAt, SlotAt
  <2>7. QED BY Zenon, <1>3, <2>5, <2>6, RestTyped DEF KillTask, TypeInv
<1>4. CASE KillSyncPoll(c)
  <2>1. Top(c).at = "killsync" /\ (Return(c) \/ Call(c, "reap", 0))
    BY Zenon, <1>4 DEF KillSyncPoll, In
  <2>2. StacksOK'
    BY <2>1, ReturnOK, CallOK DEF At, BaseAt, SlotAt
  <2>3. QED BY Zenon, <1>4, <2>2, SameSchedTyped, RestTyped DEF KillSyncPoll, TypeInv
<1>5. QED BY Zenon, <1>1, <1>2, <1>3, <1>4

LEMMA TypeInvInit == Init => TypeInv
<1> SUFFICES ASSUME Init PROVE TypeInv
  BY Zenon
<1>1. Cleared \in TaskRec /\ \A c \in Cpus : IdleTask(c) \in TaskRec /\ IdleTask(c).id = c
  BY Zenon, SlotFacts DEF Cleared, IdleTask, TaskRec, States
<1>2. task \in [Tasks -> TaskRec] /\ \A c \in Cpus : task[c].id = c
  BY Zenon, <1>1, SlotFacts DEF Init
<1>3. rq \in [Cpus -> Seq(Slots)] /\ need_resched \in [Cpus -> BOOLEAN] /\ next_enqueue_cpu \in Cpus
  BY SlotFacts DEF Init
<1>4. SchedTyped(Now)
  BY Zenon, <1>2, <1>3 DEF Now, SchedTyped, SchedState
<1>5. F("boot", 0, FALSE) \in Frame /\ F("boot", 0, FALSE).at \in BaseAt
  BY DEF F, Frame, At, BaseAt
<1>6. FramesOK(<<F("boot", 0, FALSE)>>) /\ FramesOK(Body)
  BY Zenon, <1>5, SingleOK, BodyOK
<1>7. <<F("boot", 0, FALSE)>> \in Seq(Frame) /\ Body \in Seq(Frame)
  BY Zenon, <1>6 DEF FramesOK
<1>8. StacksOK /\ SavedOK
  BY Zenon, <1>6, <1>7 DEF Init, StacksOK, SavedOK
<1>9. IdsTyped /\ cur \in [Cpus -> Tasks] /\ published \subseteq Slots /\ tickat = NoTick
  BY Zenon, ConstantsOK, SlotFacts DEF Init, IdsTyped
<1>10. QED BY Zenon, <1>4, <1>8, <1>9 DEF TypeInv

LEMMA TypeInvStep == TypeInv /\ [Next]_vars => TypeInv'
<1> SUFFICES ASSUME TypeInv, [Next]_vars PROVE TypeInv'
  BY Zenon
<1>1. CASE UNCHANGED vars
  BY Zenon, <1>1, SameSchedTyped, RestTyped DEF vars, TypeInv, StacksOK
<1>2. ASSUME NEW c \in Cpus, CpuStep(c)
      PROVE  TypeInv'
  BY Zenon, <1>2, ScheduleTyped, SwitchTyped, TaskCreateTyped, CreatorTyped, WaitTyped,
     TaskExitTyped, FamilyTyped DEF CpuStep
<1>3. CASE (\E c \in Cpus : Irq(c) \/ Tick(c)) \/ TickSlot \/ TickDone
  BY Zenon, <1>3, InterruptTyped
<1>4. QED BY Zenon, <1>1, <1>2, <1>3 DEF Next

\* Whatever the tasks do, on any number of CPUs, every variable keeps its type; in
\* particular no call chain returns from a frame that has no caller, and no idle
\* task is ever put on a run queue (sched_rq_enqueue_locked tests the id).
THEOREM TypeCorrect == Spec => []TypeOK
<1>1. TypeInv => TypeOK
  BY Zenon, TaskTyped DEF TypeInv, TypeOK, IdsTyped, StacksOK, SavedOK, FramesOK
<1>2. QED BY <1>1, TypeInvInit, TypeInvStep, PTL DEF Spec

(***************************************************************************)
(* The table, the current task, and how it leaves its CPU.                 *)
(***************************************************************************)
LEMMA NowTyped ==
  ASSUME TypeInv
  PROVE  SchedTyped(Now) /\ Now.task = task
BY SMTT(30) DEF TypeInv, Now

\* The task under way on a CPU.
LEMMA CurrentFacts ==
  ASSUME TypeInv, SafeInv, NEW c \in Cpus
  PROVE  /\ cur[c] \in Tasks /\ task[cur[c]].used /\ task[cur[c]].state # "REAPING"
         /\ task[cur[c]] \in TaskRec
BY Zenon, TopFacts, TaskTyped DEF SafeInv, ActiveStackAlive

LEMMA NowQueues ==
  ASSUME TypeInv, SafeInv
  PROVE  SchedTyped(Now) /\ QueuesAgree(Now) /\ ReadyQueued(Now) /\ Now.task = task
BY Zenon DEF TypeInv, SafeInv, RunQueuesOK, Now

\* The outgoing task prev leaves: it is requeued, or it stays out.
LEMMA OutgoingNow ==
  ASSUME TypeInv, SafeInv, NEW c \in Cpus
  PROVE  LET prev == cur[c]
             y == Outgoing(Now, prev, c)
         IN /\ SchedTyped(y) /\ QueuesAgree(y) /\ ReadyQueued(y)
            /\ \A u \in Tasks : y.task[u].id = task[u].id /\ y.task[u].used = task[u].used
            /\ \A u \in Tasks : u # prev => y.task[u].state = task[u].state /\ y.task[u].cpu = task[u].cpu
            /\ y.task[prev].state # "REAPING"
            /\ prev \in Slots => y.task[prev].cpu = NoCpu
<1> DEFINE prev == cur[c]
           y == Outgoing(Now, prev, c)
<1>1. prev \in Tasks /\ task[prev].used /\ task[prev].state # "REAPING" /\ Now.task = task
  BY Zenon, CurrentFacts DEF Now
<1>2. prev \in Slots => task[prev].id >= NCpus
  BY Zenon, <1>1 DEF SafeInv, TableOK
<1>3. prev \notin Slots => task[prev].id < NCpus
  BY <1>1, SlotFacts, TaskTyped
<1>4. /\ SchedTyped(y) /\ QueuesAgree(y)
      /\ \A u \in Tasks : y.task[u].id = Now.task[u].id /\ y.task[u].used = Now.task[u].used
      /\ \A u \in Tasks : u # prev => /\ y.task[u].on_rq = Now.task[u].on_rq
                                      /\ y.task[u].state = Now.task[u].state
                                      /\ y.task[u].cpu = Now.task[u].cpu
      /\ y.task[prev].state # "REAPING"
      /\ Now.task[prev].id < NCpus => /\ y.task[prev].cpu = Now.task[prev].cpu
                                      /\ y.task[prev].state = Now.task[prev].state
                                      /\ y.task[prev].on_rq = Now.task[prev].on_rq
      /\ Now.task[prev].id >= NCpus => /\ y.task[prev].cpu = NoCpu
                                       /\ y.task[prev].state = "READY" => y.task[prev].on_rq
  <2>1. Now.task[prev].id >= NCpus /\ Now.task[prev].state = "READY" => Now.task[prev].on_rq
    <3>1. Now.task[prev].id \in Int /\ NCpus \in Int
      BY <1>1, TaskTyped, ConstantsOK DEF TaskRec
    <3>2. Now.task[prev].id >= NCpus => prev \in Slots
      BY <1>1, <1>3, <3>1
    <3>3. QED BY Zenon, <3>2, NowQueues DEF ReadyQueued
  <2>2. Now.task[prev].used /\ Now.task[prev].state # "REAPING"
    BY Zenon, <1>1
  <2> HIDE DEF prev
  <2>3. QED BY ZenonT(60), <1>1, <2>1, <2>2, NowQueues, OutgoingEffect
<1> HIDE DEF y
<1>5. ReadyQueued(y)
  <2>1. \A u \in Slots : Now.task[u].state = "READY" => Now.task[u].on_rq
    BY SMTT(30), NowQueues DEF ReadyQueued
  <2>2. prev \in Slots => (y.task[prev].state = "READY" => y.task[prev].on_rq)
    BY SMTT(30), <1>1, <1>2, <1>4
  <2> HIDE DEF prev
  <2>3. QED BY SMTT(30), <1>4, <2>1, <2>2, SlotFacts DEF ReadyQueued
<1>6. /\ \A u \in Tasks : y.task[u].id = task[u].id /\ y.task[u].used = task[u].used
      /\ \A u \in Tasks : u # prev => y.task[u].state = task[u].state /\ y.task[u].cpu = task[u].cpu
      /\ prev \in Slots => y.task[prev].cpu = NoCpu
  <2> HIDE DEF prev
  <2>1. QED BY Zenon, <1>1, <1>2, <1>4
<1>7. SchedTyped(y) /\ QueuesAgree(y) /\ y.task[prev].state # "REAPING"
  <2> HIDE DEF prev
  <2>1. QED BY Zenon, <1>4
<1>8. QED BY Zenon, <1>5, <1>6, <1>7 DEF prev, y

LEMMA TypeInvAlways == Spec => []TypeInv
BY TypeInvInit, TypeInvStep, PTL DEF Spec

\* The frames of a task, as long as no task is on two CPUs.
LEMMA FramesCurrent ==
  ASSUME OneCpuPerTask, NEW c \in Cpus
  PROVE  Frames(cur[c]) = stack[c]
<1>1. Current(cur[c])
  BY Zenon DEF Current
<1>2. \A d \in Cpus : cur[d] = cur[c] => d = c
  BY Zenon DEF OneCpuPerTask
<1>3. (CHOOSE d \in Cpus : cur[d] = cur[c]) = c
  BY Zenon, <1>2
<1>4. QED BY Zenon, <1>1, <1>3 DEF Frames

LEMMA FramesSaved ==
  ASSUME NEW t, \A c \in Cpus : cur[c] # t
  PROVE  Frames(t) = saved[t]
BY Zenon DEF Frames, Current

LEMMA FramesTyped ==
  ASSUME TypeInv, OneCpuPerTask, NEW t \in Tasks
  PROVE  FramesOK(Frames(t))
<1>1. CASE \E c \in Cpus : cur[c] = t
  BY Zenon, <1>1, FramesCurrent DEF TypeInv, StacksOK
<1>2. CASE \A c \in Cpus : cur[c] # t
  BY Zenon, <1>2, FramesSaved DEF TypeInv, SavedOK
<1>3. QED BY Zenon, <1>1, <1>2

\* One CPU moves on in its frames.
LEMMA FramesStep ==
  ASSUME TypeInv, OneCpuPerTask, NEW c \in Cpus, NEW q, Goto(c, q), UNCHANGED <<cur, saved>>
  PROVE  /\ Frames(cur[c])' = q
         /\ \A t \in Tasks : t # cur[c] => Frames(t)' = Frames(t)
<1>1. stack' = [stack EXCEPT ![c] = q] /\ stack \in [Cpus -> Seq(Frame)]
  BY Zenon DEF Goto, TypeInv, StacksOK
<1>2. \A d \in Cpus : cur[d] = cur[c] => d = c
  BY Zenon DEF OneCpuPerTask
<1>3. \A t \in Tasks : /\ Current(t)' <=> Current(t)
                       /\ Frames(t)' = IF Current(t) THEN stack'[CHOOSE d \in Cpus : cur[d] = t]
                                       ELSE saved[t]
  BY Zenon DEF Frames, Current
<1>4. \A t \in Tasks : t # cur[c] => Frames(t)' = Frames(t)
  <2> TAKE t \in Tasks
  <2> HAVE t # cur[c]
  <2> DEFINE e == CHOOSE d \in Cpus : cur[d] = t
  <2>1. CASE Current(t)
    <3>1. e \in Cpus /\ cur[e] = t
      BY Zenon, <2>1 DEF Current
    <3> HIDE DEF e
    <3>2. stack'[e] = stack[e]
      BY Zenon, <1>1, <3>1
    <3>3. QED BY <1>3, <2>1, <3>2 DEF Frames, e
  <2>2. CASE ~Current(t)
    BY Zenon, <1>3, <2>2 DEF Frames
  <2>3. QED BY Zenon, <2>1, <2>2
<1>5. Frames(cur[c])' = q
  <2>1. (CHOOSE d \in Cpus : cur[d] = cur[c]) = c /\ Current(cur[c])
    BY Zenon, <1>2 DEF Current
  <2>2. Frames(cur[c])' = stack'[c]
    BY Zenon, <1>3, <2>1, TopFacts DEF Frames, Current
  <2>3. QED BY Zenon, <1>1, <2>2
<1>6. QED BY Zenon, <1>4, <1>5
=============================================================================
