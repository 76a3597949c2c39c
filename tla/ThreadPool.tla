----------------------------- MODULE ThreadPool -----------------------------
(***************************************************************************)
(* server.c: the master thread accepts connections and queues them, the    *)
(* workers of the pool serve them.  queue_lock guards the queue and        *)
(* active_jobs, so a stretch from pthread_mutex_lock to its unlock, or to  *)
(* pthread_cond_wait, is one step.  The master releases the lock between   *)
(* its test for room and its enqueue, for the whole of Accept.             *)
(*                                                                         *)
(* Of requestHandle this module keeps how it ends: it answers the client   *)
(* and returns ("answered"); it never returns, because requestReadhdrs     *)
(* repeats a read that finds the connection closed before the blank line   *)
(* ("hung"); or an I/O wrapper of segel.c meets an error and calls exit    *)
(* ("exit"), which ends the process and all its threads.                   *)
(***************************************************************************)
EXTENDS JobQueue, FiniteSets

CONSTANTS
    Workers,   \* the threads of the pool
    Fds,       \* the descriptors accept can return
    MaxSize,   \* queue_size, the third argument of the server
    Outcomes   \* how requestHandle may end

ASSUME PoolConstants ==
    /\ IsFiniteSet(Workers) /\ NULL \notin Fds
    /\ MaxSize \in Nat /\ MaxSize > 0
    /\ Outcomes \subseteq {"answered", "hung", "exit"}

VARIABLES
    queue,        \* waitingQueue
    jobFd,        \* the jobFd field of every Job cell
    live,         \* the cells malloc'ed and not yet freed
    open,         \* the descriptors accepted and not yet closed
    active_jobs,
    master,       \* where the master thread stands
    mjob,         \* its local job
    worker,       \* where each worker stands
    wjob,         \* its local job
    order,        \* history: the queued jobs, in the order of their enqueue
    running       \* the process has not called exit

poolVars == <<queue, jobFd, live, open, active_jobs>>
vars == <<poolVars, master, mjob, worker, wjob, order, running>>

MasterPcs == {"check", "wait", "accept", "enqueue"}
BusyPcs   == {"handle", "hung", "close", "free", "finish"}
WorkerPcs == {"take", "wait"} \cup BusyPcs

Busy == {w \in Workers : worker[w] \in BusyPcs}
Asleep == {w \in Workers : worker[w] = "wait"}
Takers == {w \in Workers : worker[w] = "take"}

Init ==
    /\ queue = createQueue
    /\ jobFd = [j \in Jobs |-> NULL]
    /\ live = {} /\ open = {}
    /\ active_jobs = 0
    /\ master = "check" /\ mjob = NULL
    /\ worker = [w \in Workers |-> "take"]
    /\ wjob = [w \in Workers |-> NULL]
    /\ order = <<>>
    /\ running = TRUE

-----------------------------------------------------------------------------
(* The condition variables.  Only the master waits for queue_not_full.     *)

SignalNotFull == master' = IF master = "wait" THEN "check" ELSE master

SignalNotEmpty ==
    \/ \E w \in Asleep : worker' = [worker EXCEPT ![w] = "take"]
    \/ Asleep = {} /\ UNCHANGED worker

\* pthread_cond_wait may return although nobody signalled.
SpuriousWakeup ==
    /\ running
    /\ \/ master = "wait" /\ master' = "check" /\ UNCHANGED worker
       \/ \E w \in Asleep : worker' = [worker EXCEPT ![w] = "take"] /\ UNCHANGED master
    /\ UNCHANGED <<poolVars, mjob, wjob, order, running>>

-----------------------------------------------------------------------------
(* The master thread: the loop of main. *)

\* Mutated form: the jobs being served take no place.
NoRoomInQueue == queue.currSize >= MaxSize

NoRoom == queue.currSize + active_jobs >= MaxSize

CheckRoom ==
    /\ running /\ master = "check"
    /\ master' = IF NoRoom THEN "wait" ELSE "accept"
    /\ UNCHANGED <<poolVars, mjob, worker, wjob, order, running>>

\* Accept and createJob.
Accept ==
    /\ running /\ master = "accept"
    /\ \E fd \in Fds \ open, j \in Jobs \ live :
         /\ open' = open \cup {fd}
         /\ live' = live \cup {j}
         /\ jobFd' = [jobFd EXCEPT ![j] = fd]
         /\ queue' = createJob(queue, j)
         /\ mjob' = j
    /\ master' = "enqueue"
    /\ UNCHANGED <<active_jobs, worker, wjob, order, running>>

\* The Accept wrapper calls exit when accept fails, for instance for want of a
\* descriptor.
AcceptFails ==
    /\ running /\ master = "accept"
    /\ "exit" \in Outcomes
    /\ running' = FALSE
    /\ UNCHANGED <<poolVars, master, mjob, worker, wjob, order>>

\* Mutated form: the job is queued and nobody is told.
EnqueueUnsignalled ==
    /\ running /\ master = "enqueue"
    /\ queue' = enqueue(queue, mjob)
    /\ order' = Append(order, mjob)
    /\ mjob' = NULL
    /\ UNCHANGED worker
    /\ master' = "check"
    /\ UNCHANGED <<jobFd, live, open, active_jobs, wjob, running>>

Enqueue ==
    /\ running /\ master = "enqueue"
    /\ queue' = enqueue(queue, mjob)
    /\ order' = Append(order, mjob)
    /\ mjob' = NULL
    /\ SignalNotEmpty
    /\ master' = "check"
    /\ UNCHANGED <<jobFd, live, open, active_jobs, wjob, running>>

-----------------------------------------------------------------------------
(* A worker: the loop of thread_function. *)

WaitForJob(w) ==
    /\ running /\ worker[w] = "take"
    /\ isEmpty(queue)
    /\ worker' = [worker EXCEPT ![w] = "wait"]
    /\ UNCHANGED <<poolVars, master, mjob, wjob, order, running>>

TakeJob(w) ==
    /\ running /\ worker[w] = "take"
    /\ ~isEmpty(queue)
    /\ wjob' = [wjob EXCEPT ![w] = dequeued(queue)]
    /\ queue' = dequeue(queue)
    /\ order' = Tail(order)
    /\ active_jobs' = active_jobs + 1
    /\ SignalNotFull
    /\ worker' = [worker EXCEPT ![w] = "handle"]
    /\ UNCHANGED <<jobFd, live, open, mjob, running>>

requestHandle(w) ==
    /\ running /\ worker[w] = "handle"
    /\ \/ "answered" \in Outcomes /\ worker' = [worker EXCEPT ![w] = "close"] /\ UNCHANGED running
       \/ "hung" \in Outcomes /\ worker' = [worker EXCEPT ![w] = "hung"] /\ UNCHANGED running
       \/ "exit" \in Outcomes /\ running' = FALSE /\ UNCHANGED worker
    /\ UNCHANGED <<poolVars, master, mjob, wjob, order>>

\* Mutated form: the job is freed first, and its descriptor closed after that.
CloseJobAfterFree(w) ==
    /\ running /\ worker[w] = "close"
    /\ \/ /\ wjob[w] \in live
          /\ live' = live \ {wjob[w]}
          /\ UNCHANGED <<open, wjob, worker>>
       \/ /\ wjob[w] \notin live
          /\ open' = open \ {jobFd[wjob[w]]}
          /\ wjob' = [wjob EXCEPT ![w] = NULL]
          /\ worker' = [worker EXCEPT ![w] = "finish"]
          /\ UNCHANGED live
    /\ UNCHANGED <<queue, jobFd, active_jobs, master, mjob, order, running>>

\* close(job->jobFd), without a lock: accept may return the descriptor again while
\* the job that names it is not freed yet,
CloseJob(w) ==
    /\ running /\ worker[w] = "close"
    /\ open' = open \ {jobFd[wjob[w]]}
    /\ worker' = [worker EXCEPT ![w] = "free"]
    /\ UNCHANGED <<queue, jobFd, live, active_jobs, master, mjob, wjob, order, running>>

\* and free(job).
FreeJob(w) ==
    /\ running /\ worker[w] = "free"
    /\ live' = live \ {wjob[w]}
    /\ wjob' = [wjob EXCEPT ![w] = NULL]
    /\ worker' = [worker EXCEPT ![w] = "finish"]
    /\ UNCHANGED <<queue, jobFd, open, active_jobs, master, mjob, order, running>>

\* Mutated form: the second signal, which looks redundant, is dropped.
FinishJobUnsignalled(w) ==
    /\ running /\ worker[w] = "finish"
    /\ active_jobs' = active_jobs - 1
    /\ UNCHANGED master
    /\ worker' = [worker EXCEPT ![w] = "take"]
    /\ UNCHANGED <<queue, jobFd, live, open, mjob, wjob, order, running>>

FinishJob(w) ==
    /\ running /\ worker[w] = "finish"
    /\ active_jobs' = active_jobs - 1
    /\ SignalNotFull
    /\ worker' = [worker EXCEPT ![w] = "take"]
    /\ UNCHANGED <<queue, jobFd, live, open, mjob, wjob, order, running>>

-----------------------------------------------------------------------------
WorkerStep(w) ==
    \/ WaitForJob(w) \/ TakeJob(w) \/ requestHandle(w)
    \/ CloseJob(w) \/ FreeJob(w) \/ FinishJob(w)

Next ==
    \/ CheckRoom \/ Accept \/ AcceptFails \/ Enqueue \/ SpuriousWakeup
    \/ \E w \in Workers : WorkerStep(w)

Spec == Init /\ [][Next]_vars

\* Every thread that can run does run.  Clients need not come: Accept may block
\* for ever.
FairSpec ==
    /\ Spec
    /\ WF_vars(CheckRoom) /\ WF_vars(Enqueue)
    /\ \A w \in Workers : WF_vars(WorkerStep(w))

-----------------------------------------------------------------------------
(* Properties *)

\* The type of every variable; active_jobs, which a worker decrements after its
\* job, never falls below zero, and currSize neither.
TypeOK ==
    /\ queue \in Queue
    /\ jobFd \in [Jobs -> Fds \cup {NULL}]
    /\ live \in SUBSET Jobs /\ open \in SUBSET Fds
    /\ active_jobs \in Nat
    /\ master \in MasterPcs /\ mjob \in Jobs \cup {NULL}
    /\ worker \in [Workers -> WorkerPcs]
    /\ wjob \in [Workers -> Jobs \cup {NULL}]
    /\ order \in Seq(Jobs)
    /\ running \in BOOLEAN

InHand == IF master \in {"accept", "enqueue"} THEN 1 ELSE 0

\* The server never takes in more than queue_size connections.  The master
\* tests for room, releases queue_lock for as long as Accept blocks and queues
\* without a second test; the place it found is still there, because only the
\* master takes places and a worker that moves a job keeps its place.
BoundedLoad ==
    /\ active_jobs = Cardinality(Busy)
    /\ queue.currSize + active_jobs + InHand <= MaxSize

\* The linked list holds the queued jobs in the order they were queued, from
\* head to tail, whatever mixture of enqueue and dequeue ran and however
\* often malloc handed out the cells before.
QueueIsList == Represents(queue, order)

\* Who may use a job: the master, the queue or one worker.
Holder(j) ==
    (IF mjob = j THEN {"master"} ELSE {})
    \cup {i \in 1 .. Len(order) : order[i] = j}
    \cup {w \in Workers : wjob[w] = j}

\* The jobs whose descriptor their worker has closed, and not freed yet.
Closed == {wjob[w] : w \in {v \in Workers : worker[v] = "free"}}

\* Every job that is not freed has exactly one owner and a freed one none; until its
\* worker closes it, its descriptor is open and no other job has it: no worker
\* serves or closes a connection of another, although accept hands a descriptor out
\* again as soon as it is closed, while the old job still names it, and malloc the
\* cell as soon as it is freed.
OneOwner ==
    /\ \A j \in Jobs : Cardinality(Holder(j)) = IF j \in live THEN 1 ELSE 0
    /\ \A j \in live \ Closed : jobFd[j] \in open
    /\ \A i, j \in live \ Closed : jobFd[i] = jobFd[j] => i = j

\* No thread sleeps through its signal: the master waits only while there is no
\* room, and workers sleep only while the awake ones suffice for the queue.
NoLostWakeup ==
    /\ master = "wait" => NoRoom
    /\ Asleep # {} => queue.currSize <= Cardinality(Takers)

\* The connections no worker has taken, in the order of their accept, and those
\* the workers serve: until they close them.
Line ==
    [i \in 1 .. Len(order) |-> jobFd[order[i]]] \o IF mjob = NULL THEN <<>> ELSE <<jobFd[mjob]>>
Serving == [w \in Workers |->
    IF wjob[w] = NULL \/ worker[w] = "free" THEN NULL ELSE jobFd[wjob[w]]]

Service == INSTANCE BoundedService WITH NoFd <- NULL, line <- Line, serving <- Serving

\* Connections are served first come, first served, each by one worker, and at
\* most queue_size of them are in the server.
ImplementsBoundedService == Service!Spec

\* A request was not answered: it keeps its worker for ever or ended the process.
Disturbed == ~running \/ \E w \in Workers : worker[w] = "hung"

\* A connection that was accepted is eventually served and closed, if every
\* request is one requestHandle answers.
EveryConnectionServed ==
    \A fd \in Fds : fd \in open ~> fd \notin open \/ Disturbed

=============================================================================
