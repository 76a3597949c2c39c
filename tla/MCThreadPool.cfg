\* One place more than workers, so that a job waits; cells and descriptors are
\* reused.  A request may keep its worker for ever or end the process, after
\* which nothing moves.
CONSTANTS
    Workers = {w1, w2}
    Fds = {f1, f2, f3}
    Jobs = {j1, j2, j3}
    NULL = NULL
    MaxSize = 3
    Outcomes = {"answered", "hung", "exit"}
SPECIFICATION FairSpec
CHECK_DEADLOCK FALSE
INVARIANTS BoundedLoad QueueIsList OneOwner NoLostWakeup
PROPERTIES ImplementsBoundedService EveryConnectionServed
