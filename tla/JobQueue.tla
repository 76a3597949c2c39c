------------------------------ MODULE JobQueue ------------------------------
(***************************************************************************)
(* queue.c: the singly linked list of jobs between the master thread and   *)
(* the workers.  A queue is a value; its links are the next fields of the  *)
(* Job cells.  The caller holds queue_lock around every operation.         *)
(***************************************************************************)
EXTENDS Naturals, Sequences

CONSTANTS
    Jobs,   \* the Job cells malloc can hand out
    NULL

ASSUME NullIsNoJob == NULL \notin Jobs

Queue == [head : Jobs \cup {NULL}, tail : Jobs \cup {NULL},
          next : [Jobs -> Jobs \cup {NULL}], currSize : Nat]

createQueue == [head |-> NULL, tail |-> NULL, next |-> [j \in Jobs |-> NULL], currSize |-> 0]

isEmpty(q) == q.head = NULL

\* The cell of a new job is not linked to any other.
createJob(q, j) ==
    [head |-> q.head, tail |-> q.tail, next |-> [q.next EXCEPT ![j] = NULL], currSize |-> q.currSize]

\* Mutated form: the new job overtakes the others.
EnqueueFirst(q, j) ==
    [head |-> j, tail |-> IF q.tail = NULL THEN j ELSE q.tail,
     next |-> [q.next EXCEPT ![j] = q.head], currSize |-> q.currSize + 1]

\* The next field of j is NULL already, from createJob or dequeue.
enqueue(q, j) ==
    IF q.tail = NULL
      THEN [head |-> j, tail |-> j, next |-> q.next, currSize |-> q.currSize + 1]
      ELSE [head |-> q.head, tail |-> j, next |-> [q.next EXCEPT ![q.tail] = j],
            currSize |-> q.currSize + 1]

\* The job dequeue returns, NULL when it returns before unlinking one.
dequeued(q) == IF q.currSize = 0 THEN NULL ELSE q.head

\* Mutated form: the tail survives the removal of the last job.
DequeueKeepsTail(q) ==
    IF dequeued(q) = NULL THEN q
    ELSE [head |-> q.next[q.head], tail |-> q.tail,
          next |-> [q.next EXCEPT ![q.head] = NULL], currSize |-> q.currSize - 1]

\* The queue dequeue leaves behind.
dequeue(q) ==
    IF dequeued(q) = NULL THEN q
    ELSE [head |-> q.next[q.head],
          tail |-> IF q.next[q.head] = NULL THEN NULL ELSE q.tail,
          next |-> [q.next EXCEPT ![q.head] = NULL], currSize |-> q.currSize - 1]

-----------------------------------------------------------------------------
\* q is a list of exactly the jobs of order, from its head to its tail.
Represents(q, order) ==
    /\ q.currSize = Len(order)
    /\ q.head = IF order = <<>> THEN NULL ELSE order[1]
    /\ q.tail = IF order = <<>> THEN NULL ELSE order[Len(order)]
    /\ \A i \in 1 .. Len(order) :
         q.next[order[i]] = IF i = Len(order) THEN NULL ELSE order[i + 1]
=============================================================================
