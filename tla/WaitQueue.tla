------------------------------ MODULE WaitQueue ------------------------------
(***************************************************************************)
(* src/src/kernel/wait_queue.c: the intrusive FIFO that mutexes,           *)
(* semaphores, condition variables and IPC channels block their tasks on.  *)
(* A queue is a head and a tail; the links are the one wait_next field of  *)
(* each task, shared by every queue.  The operations are functions on a    *)
(* queue and the links; the lock of the owning object makes them atomic.   *)
(***************************************************************************)
EXTENDS Naturals, FiniteSets, Sequences

CONSTANTS Tasks, NoTask

ASSUME NullIsNoTask == NoTask \notin Tasks /\ IsFiniteSet(Tasks)

TaskOrNone == Tasks \cup {NoTask}
Queue == [head : TaskOrNone, tail : TaskOrNone]
Links == [Tasks -> TaskOrNone]

WaitQueueInit == [head |-> NoTask, tail |-> NoTask]
WaitQueueEmpty(q) == q.head = NoTask

\* The tasks a traversal from the head meets, in order; NoTask past the end.
Walk(q, next) ==
  LET node[i \in 1 .. Cardinality(Tasks) + 1] ==
        IF i = 1 THEN q.head
        ELSE IF node[i - 1] = NoTask THEN NoTask ELSE next[node[i - 1]]
  IN node

WaitQueueContains(q, next, t) ==
  LET node == Walk(q, next) IN \E i \in DOMAIN node : node[i] = t

WaitQueueEnqueue(q, next, t) ==
  IF WaitQueueContains(q, next, t) THEN [q |-> q, next |-> next, ok |-> FALSE]
  ELSE [q |-> [head |-> IF q.tail = NoTask THEN t ELSE q.head, tail |-> t],
        next |-> IF q.tail = NoTask THEN [next EXCEPT ![t] = NoTask]
                 ELSE [[next EXCEPT ![t] = NoTask] EXCEPT ![q.tail] = t],
        ok |-> TRUE]

WaitQueueDequeue(q, next) ==
  IF q.head = NoTask THEN [q |-> q, next |-> next, task |-> NoTask]
  ELSE [q |-> [head |-> next[q.head],
               tail |-> IF next[q.head] = NoTask THEN NoTask ELSE q.tail],
        next |-> [next EXCEPT ![q.head] = NoTask], task |-> q.head]

\* Mutant: the tail is left on the removed task.
RemoveKeepsTail(q, next, t) ==
  LET node == Walk(q, next)
      at == {i \in DOMAIN node : node[i] = t /\ \A j \in 1 .. i - 1 : node[j] # t}
  IN IF at = {} THEN [q |-> q, next |-> next, ok |-> FALSE]
     ELSE LET i == CHOOSE i \in at : TRUE
          IN [q |-> [q EXCEPT !.head = IF i = 1 THEN next[t] ELSE @],
              next |-> [[next EXCEPT ![IF i = 1 THEN t ELSE node[i - 1]] = next[t]]
                          EXCEPT ![t] = NoTask],
              ok |-> TRUE]

WaitQueueRemove(q, next, t) ==
  LET node == Walk(q, next)
      at == {i \in DOMAIN node : node[i] = t /\ \A j \in 1 .. i - 1 : node[j] # t}
  IN IF at = {} THEN [q |-> q, next |-> next, ok |-> FALSE]
     ELSE LET i == CHOOSE i \in at : TRUE
              previous == IF i = 1 THEN NoTask ELSE node[i - 1]
          IN [q |-> [head |-> IF i = 1 THEN next[t] ELSE q.head,
                     tail |-> IF q.tail = t THEN previous ELSE q.tail],
              next |-> [[next EXCEPT ![IF i = 1 THEN t ELSE previous] = next[t]]
                          EXCEPT ![t] = NoTask],
              ok |-> TRUE]

=============================================================================
