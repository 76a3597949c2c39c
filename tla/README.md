# TLA+ models of the operating-systems coursework

The repository holds four programs of an operating-systems course: a small shell
(`hw01`), a Linux kernel patch that bans system calls per process (`hw02`), a
multithreaded web server (`hw03`) and a memory allocator (`hw04`).  This directory
models their state machines in TLA+, checks them with TLC on small instances and
proves with TLAPS, for every instance, the safety of the web server's log, thread pool
and request handling, of the kernel's ban calls, pipes, signals, credentials and limits,
of the shell's job list and of the allocator's heap.

`PROJECT.json` is the index: the components, the runs, the source lines behind
every definition (`map`), the hazards and the properties that cover them, the
findings, the theorems, and for every property a mutated definition that breaks it.

Definitions called "Mutated form" are those plausible bugs.  No action uses them.

## 1. Inventory

### Web server (`src/hw03-multithreaded-web-server`)

| component | state | operations | what makes it correct |
|---|---|---|---|
| server log (`log.c`) | text buffer, length, capacity; mutex, two condition variables, counters `readers`, `writers`, `waiting_writers` | `create_log`, `get_log`, `add_to_log`, `destroy_log`, four lock functions | one writer or many readers; a reader never passes a waiting writer; no sleeper is forgotten; no copy leaves its block; calls look atomic; calls return |
| job queue (`queue.c`) | linked list: `head`, `tail`, `next`, `currSize` | `createJob`, `enqueue`, `dequeue`, `isEmpty` | a first-in first-out list after any mixture of operations |
| thread pool (`server.c`) | queue, `active_jobs`, one mutex, two condition variables | the accept loop of `main`, `thread_function` | bounded load, one owner per connection, nobody sleeps through a signal, connections served in order, each is served |
| request handling (`request.c`, `client.c`, `output.c`) | a CGI child, its pipe, the body read so far; per-thread statistics | `requestHandle` and its parts, the CGI program, the client | the header ends at its blank line; a body is the whole output of the request's own program; every request ends and its connection is closed |
| I/O wrappers (`segel.c`) | buffered reader | `Rio_*`, wrappers that exit on error | no byte lost or repeated however the network cuts the input |

The master thread and the workers share the queue under `queue_lock`; the workers
share the log.  `request.c` calls the log and the wrappers.  Hard: two hand-made
protocols on mutexes and condition variables, a lock that is released between test
and use (`Accept`), a process-wide `exit` on the error of one connection.  A CGI child
inherits by `fork` every descriptor that the other workers have open at that moment,
so the end of a file may come late; `WaitPid` comes before the pipe is empty; the
header loop does not look for the end of the file.

### System-call ban (`src/hw02-linux-syscall-ban`)

| component | state | operations | what makes it correct |
|---|---|---|---|
| ban calls (`kernel/hw2.c`) | `banned_signals` of every `task_struct` | `set_ban`, `get_ban`, `check_ban`, `flip_ban_branch` | a flip inverts exactly its branch; overlapping calls do not lose changes; no freed task is used |
| pipes (`fs/pipe.c`) | ring of buffers, readers, writers, wait queues | read, write, poll, open, release, resize | bytes in order, none lost; sleepers are woken |
| signals (`kernel/signal.c`) | per process and thread: pending sets with their queue entries, blocked sets, handlers, group stop state, `TIF_SIGPENDING` | send, dequeue, block, wait, handle, stop, continue, group exit | no signal is missed; SIGKILL and SIGSTOP are never blocked; SIGCONT beats an earlier stop; a stop is counted and reported; entries are charged once; a fatal signal reaches every thread |
| credentials and limits (`kernel/sys.c`) | uids, gids, capabilities, process groups, sessions, limits, priorities, subreaper flags | the setuid family, `setpgid`, `setsid`, `setpriority`, `prlimit64`, `prctl` | no privilege comes back once it was dropped; a group is within one session; limits only tighten; orphans reach their subreaper |

Only `hw2.c` and single lines of the other files are this project's own code; the
rest is Linux.  Hard: fields of other tasks read and written without a lock while
tasks fork, exit and are reparented; a lock that `get_signal` releases in the middle of
its loop; permissions checked before the lock under which they are used.

### Shell (`src/hw01-small-shell`)

State: the job list with `maxJobId`, `fgPid`, standard output, aliases, the last
directory, the prompt.  Operations: external commands in the foreground and the
background, `jobs`, `fg`, `kill`, `quit`, redirection, pipes, `alias`, `cd`, `du`,
and commands that only print; the Ctrl-C handler.  Correct means: no child is
forgotten or reaped twice, job ids are unique, every command leaves the shell clean,
Ctrl-C reaches the foreground process.  Hard: children that end at any moment, a
handler that interrupts the shell between any two steps, pids that are reused.

### Allocator (`src/hw04-custom-memory-allocator`)

State: blocks with their metadata, free lists by order, statistics, mappings.
Operations: `smalloc`, `scalloc`, `sfree`, `srealloc`, `initHeap`.  Correct means: the
blocks tile the heap, the lists are the free blocks, what the program holds is its
own, buddies are merged, an allocation fails only when it must, the statistics are
true.  Hard: a long sequence of calls must keep the alignment on which the XOR of
`findBuddy` rests; sizes with and without metadata.

## 2. Modules

| module | models | state and actions |
|---|---|---|
| `ServerLog` | `log.c` | one step per critical section of `log->lock`; the copies between `reader_lock` and `reader_unlock`, and the growing and writing of the buffer, are steps of their own because `log->lock` is released there.  An entry is known by its writer, place and length. |
| `AtomicLog` | what the log promises | calls that take effect at one instant |
| `JobQueue` | `queue.c` | a queue is a value, the operations are operators on its cells |
| `ThreadPool` | `server.c` | one step per critical section of `queue_lock`, `Accept`, `requestHandle` and close/free in between.  Cells and descriptors are reused. |
| `BoundedService` | what the server promises | first come, first served, at most `MaxSize` connections inside |
| `Request` | `request.c`, the buffered reader and wrappers of `segel.c`, `client.c`, `output.c` | one request per worker, its CGI program and its client; every system call that another process can notice is a step.  `open` says which process holds which descriptor.  A request, its connection, its pipe and its program have one name; a byte of a request is `\r`, `\n` or any other. |
| `BuddyAllocator` | `malloc_3.cpp` | one step per turn of the loops of split and merge, so that invariants are checked inside calls.  The unit is the size of the metadata; the top order, the limit of an allocation and the width of `size_t` (`Word`) are constants. |
| `SyscallBan` | `hw2.c` and the test in `sys_kill` | the read of a field, its write and the step to the parent are separate steps.  `fork`, exit, reparenting and the grace period after which a `task_struct` is freed are external; whether the grace period waits for a call that holds no `rcu_read_lock` depends on `Preemptible`. |
| `PipeRing` | the ring of buffers of `fs/pipe.c` | a ring is a value; taking, merging, inserting and moving to an array of another size are operators on it.  A page holds `PAGE_SIZE` bytes. |
| `Pipe` | `fs/pipe.c` | one pipe or FIFO and the files through which it is used.  One step per section under `pipe->mutex`, or per turn of the loops of `pipe_read` and `pipe_write`, since `pipe_poll` looks without the mutex; the wake-up after the unlock, the charge of the user's pages, its check and the revert are steps of their own.  A wake-up with the key `POLLIN` or `POLLOUT` reaches only the polls for it.  Any caller may get a signal, run out of memory or fault, and a page that was read may turn out to be shared with another pipe or file. |
| `SigPending` | `struct sigpending` of `kernel/signal.c` | a set of signals with the list of its queue entries is a value; queueing, collecting and flushing are operators on it |
| `Signals` | `kernel/signal.c` and the loop of `arch/x86/entry/common.c` that leads back to user mode | the threads of one process.  What `siglock` protects is one record; a critical section is a step, and where `get_signal`, `do_signal_stop`, `posixtimer_rearm` and `force_sigsegv` give the lock up, others can act.  Who sends is outside. |
| `Processes` | `kernel/sys.c` and the permission check of `kill` | a table of processes with their ids, groups, sessions, limits and parents; one step per call.  `prlimit64` is two: the check of the permission and the change.  `prctl(PR_SET_CHILD_SUBREAPER)` is the store of the flag, without a lock (`stored`: who is past it and has not begun the walk), and then one step per process the walk visits (`visit`); walks may overlap, because `tasklist_lock` is only held shared, and `fork`, exit, `setpgid` and `setsid`, which hold it exclusively, wait for them.  `fork`, `execve`, exit and the reuse of pids are external. |
| `Smash` | `Commands.cpp`, `signals.cpp`, `smash.cpp` | a step ends where a child or the handler could see the difference: fork, waitpid, kill, writes of `fgPid`.  The loop over the job list is one step per turn.  A program may change its user (`Foreign`), so that `kill` is refused. |
| `MC*` | | instances for TLC and, where names do not matter and only safety is checked, symmetry sets |
| `ServerProofs`, `RequestProofs`, `SignalsProofs`, `KernelProofs`, `PipeProofs`, `ProcessesProofs`, `BuddyProofs` | | theorems; `ServerProofs` is about `ServerLog` and `ThreadPool`, `SignalsProofs` about the stops and the death of `Signals`, `KernelProofs` about its queues and about `SyscallBan`, `ProcessesProofs` about `Processes` and `Smash` |
| `FiniteSums` | | lemmas the proofs share: the least element of a set of naturals, sums over finite sets |

`ThreadPool` extends `JobQueue` and instantiates `BoundedService`; `ServerLog`
instantiates `AtomicLog`; `Pipe` extends `PipeRing`, `Signals` extends `SigPending`.
`Request` takes from `ThreadPool` that at most `Workers` requests are handled at a time,
and from `ServerLog` that the calls of the log return; `ThreadPool` knows of a request only
its outcome (answered, hung, or the process exits).

In `Pipe` a byte is known by how much of its write was left, so a lost, doubled or
swapped byte shows.  `r_counter` and `w_counter` only serve to be compared with copies;
`current` is the set of files whose copy is still equal.  A file carries one call at a
time.  `Inodes` says whether the inode is of `pipefs` (made by `pipe`, opened again
through `/proc`) or a FIFO.

History variables: `order` in `ThreadPool` (the queued jobs in the order of their
`enqueue`), `ahead` in `ServerLog` (the writers a `get_log` found in front of it),
`stream` in `Pipe` (the bytes written and not yet read), `told` and `job` in `Signals`
(the last news the parent got, the last stop or continue signal that was sent),
`dropped` and `trusted` in `Processes` (who gave up its other ids; who had a capability or
was changed by one that had), and `seen`, `again`, `alone` and `goal` of a call in
`SyscallBan`.  No guard reads them.

## 3. Runs

Safety and liveness that hold:

| run | instance | shows |
|---|---|---|
| `server_log` | 3 threads, entries of length 1 and 4, capacity 4, 2 entries | the lock excludes and prefers writers; the buffer is not overrun although it must grow; refinement of `AtomicLog`; every call returns |
| `pool` | 2 workers, 3 places, 3 cells and descriptors; requests that are answered, hang, or end the process | bounded load, list, owners, wake-ups; refinement of `BoundedService`; as long as requests are answered, every connection is served |
| `request` | 2 requests at a time, outputs of 1, 3 and 4 bytes | however the network cuts a request, the header ends behind its first blank line; a body is the output of the request's own program, complete up to `MAXBUF`, although other children hold the write end; every request ends but for two exceptions (see below) |
| `buddy_heap` | 2 top blocks of 3 orders, one mapping, 3 allocations at a time, `sbrk`, `mmap` and `munmap` may fail, payload may look like metadata, sizes on both sides of every limit | tiling, lists, ownership, failure only when full at every step of every call; the statistics stay true |
| `ban_walk` | 4 tasks, 1 ban, height up to 3, 2 calls at a time | a flip nobody disturbs is exact, no walk writes a task twice, no freed task is used as long as system calls are not preempted |
| `pipe` | 2 files of all five kinds, pipe or FIFO, 2 pages of 2 bytes, reads and writes of 3, limits of 3 and 4 pages | bytes in order across merges, wrap-around, packets and resizing; no lost wake-up with polls, partners and signals; a reader that should not sleep is locked up only where no page is left; counts and charges are exact however opening and closing end and overlap |
| `signals` | 2 threads, stop, continue and real-time signals, faults, a POSIX timer, SIGKILL | no signal is missed when masks change, threads exit or wait; group stops count right and are reported last; SIGCONT beats a stop already dequeued; every queue entry is charged once; a fatal signal reaches every thread |
| `processes` | `init`, a login shell and three more, 4 calls | ids given up do not come back and no new ones are got after `PR_SET_NO_NEW_PRIVS`; a group stays within one session; nobody without privilege raises a hard limit, also between the two halves of `prlimit64`; whoever is below a subreaper whose walk has begun has the flag, or a walk that holds `tasklist_lock` is on its way, although walks overlap and turn back where another has been |
| `smash` | 3 pids, ids up to 3 | children tracked with ascending ids, none left by `quit kill` but those it may not kill; a clean prompt, which comes back |

Disagreements with what the repository says (expected violations):

| run | shows |
|---|---|
| `buddy_grow` | `srealloc` computes wrong buddies from the second level on and moves a block that could grow in place |
| `ban_lost` | two overlapping changes of different bans of one task: one is lost |
| `smash_ctrlc` | after one Ctrl-C the shell no longer knows a foreground process that survived it |

### Bounds, and why they are enough

* Three threads in the log are the least number for "a reader arrives between a
  waiting and a writing writer" and "a second reader leaves while a writer waits".
  The longer entry does not fit the initial buffer.  `MaxEntries` bounds the calls of
  `add_to_log`; the theorems do not depend on it.
* In the pool, cells and descriptors are as many as places, so every one of them is
  reused; the server fills, the master sleeps, jobs queue up behind hung workers.
* In `Request`, two requests are one that forks while the other has its pipe open, in
  both orders.  `MAXBUF` + `PipeSize` is 3, so an output is below, at or above what
  does not block.  `MAXLINE` and `RIO_BUFSIZE` are 3: a line is cut, the buffer ends
  within a line, and the rest of a cut line is a blank one (`LongHeader`) or is not (`OneHeader`).  Each of the two clients has its
  own request: how one is cut does not depend on the other.
* In the pipe, two files are one against another for every pair of kinds; all wake-ups
  are broadcasts, so a third sleeper is treated like the second.  With two pages of two
  bytes a write of three merges a byte, fills a page and wraps around.  Two openers
  of a FIFO that allocate at the same time pass the soft limit of three pages.  `MaxPolls` bounds the polls at one
  time.
* In `Signals`, `MaxEvents` bounds the signals sent and calls made to three: a stop, the
  signal or exit that meets it and the one that comes after.  What follows from them
  (dequeueing, stopping, dying) is not bounded.  The limit of two entries makes the queue
  overflow.  The program begins without
  handlers or with one for each of `Settable` (`Installed`).  SIGSEGV is among them, so that
  forcing it resets a handler first.
* In `Processes`, `Callers` leaves out `init`, which only gets orphans, and `MaxCalls`
  bounds the changes to four: a fork, two calls that set something up and the one that
  would break it.  Five places are a line of four below `init`, or a login shell with
  two children and one of theirs.  Two forks and two `prctl` are two walks that overlap on
  one line; the steps of a walk are not bounded.
* `MaxLive` bounds the allocations the program holds: three are enough to fill one top
  block with neighbours and hold a mapping.
* In the heap, three orders make a block with a parent and a child, two top blocks a
  neighbour that must not be merged, and the sizes fill blocks to the last unit.
* In `SyscallBan` a branch of three ancestors is the whole tree, so a height can be
  smaller than, equal to and larger than the depth.  `MaxCalls` bounds the overlap to
  two calls: every property relates one call to one other actor.
* In the shell, three pids allow two jobs and a foreground command, and reuse;
  `MaxJobs` bounds the ids (a fork beyond it is not taken, `ForkFails` is).

### Fairness

* `ServerLog`, `ThreadPool`: weak fairness of each thread's own steps, which is what a
  preemptive scheduler and a mutex that is held for a bounded time give.  Nobody has
  to call, and `Accept` may block for ever.  `CallsReturn` of the log holds with
  finitely many `add_to_log` calls: an endless stream of writers starves readers, by
  the design of the lock.
* `EveryConnectionServed` holds until a request hangs its worker or ends the process
  (`Disturbed`); `Request` says when that happens.
* `Request`: each worker and each program runs, and a client that has not left sends
  its request and reads the answer.  Clients may leave at any moment.  No error is forced:
  `ReadError` has no fairness, and a `fork`, a file or a write that can fail can also
  succeed.  When one does fail the server ends, and all its requests with it, answered or
  not; `RequestsEnd` excepts that.  While the server runs it
  names the two cases in which the code does not end: `requestReadhdrs` does not
  notice the end of the file and spins, and `requestPrepareDynamic` waits for a program
  that writes more than `body` and the pipe hold.  Such a program also keeps what it
  inherited: the write end of another request's pipe, whose handler then waits, too,
  and the connection of another client, which then sees no end of the answer.
* `Smash`: the shell executes its steps.  Programs need not end; `PromptReturns` says
  that nothing but a living foreground process keeps the shell from its prompt.
* `Pipe`, `Signals`, `Processes`, `SyscallBan` and `BuddyAllocator` have no fairness:
  only safety is checked, with `NoLostWakeup` and `NoMissedSignal` in place of liveness.
  `NoLostWakeup` of the pipe has one exception, which the code has too: `pipe_set_size`
  can make room in a full pipe and wakes no writer.

### Deadlock

`CHECK_DEADLOCK FALSE` is used where the system may stop: `pool` and `request` (the
server may exit or hang), the shell (which exits), `signals` (the process dies) and
`processes` (the calls are bounded).  In the other runs TLC also checks that some step is
always possible.

## 4. Proofs

All theorems hold for every value of the constants that satisfies the `ASSUME`s
(`LogConstants`, `NullIsNoJob`, `PoolConstants`, `ProcessesConstants`, `BanConstants`,
`SignalsConstants`, `PageSize`, `PipeConstants`, `RequestConstants`, `ShellConstants`,
`AllocatorConstants`): any finite set of threads, workers or files, any number of tasks,
pids, requests and jobs, any lengths, any `queue_size` above zero, any size of a page or
buffer, any number of orders and of top blocks.  Three say something about values and not only
about types: the limits a system starts with are ordered (`cur <= max`), which the calls
themselves enforce for every later limit; the signals whose action a program sets are not
SIGKILL and SIGSTOP, which `do_sigaction` refuses; and a blank line fits into the buffer of
`rio_readlineb` (`MAXLINE > 2`; it is 8192), or else every byte of a header would be a line of
its own.

**The log** (`ServerProofs`).  The counters of the lock are just numbers, so mutual
exclusion is not inductive; the strengthening `LockInv` adds that `readers`,
`waiting_writers` and `writers` are the cardinalities of the sets of threads that
read, wait and write (`LockCounts`), and that a writer excludes readers.  Each lock
function changes one of these sets by one member; the set lemma `ThreadSets` turns
that into arithmetic.  From it follow `MutualExclusionHolds`, `NoLostLogWakeupHolds`, and
with the history of writers a reader found in front of it `WriterPriorityHolds`.
`BufferFitsHolds` adds that the length is below the capacity whenever the writer is
not between growing and writing.

**Linearizability** (`ServerProofs`).  `get_log` takes effect when it reads the
length, `add_to_log` when it writes it.  `DataInv` says what a thread in the lock has
copied so far; mutual exclusion keeps it true.  `LogIsLinearizable` maps every step to
a step of `AtomicLog` or to a stutter.

**The queue** (`ServerProofs`).  `enqueue` appends and `dequeue` takes the first, for
any queue that represents a sequence without repetition.

**The pool** (`ServerProofs`).  That the list represents `order` is only inductive
if a new cell is not in the list, so `ListInv` says who has which job: the master, the
queue or one worker, never two, and none that was freed.  With `BoundedLoad`
(`active_jobs` counts the busy workers) it is the inductive invariant `PoolInv`.
`NoLostWakeup` is inductive relative to it, and so is `Descriptors`, from which
`OneOwnerHolds` follows.  A worker closes its descriptor and frees its job without a lock, so
that a new job can have the descriptor while the old one still names it; `Descriptors` and
`OneOwner` except the jobs that are closed and not freed (`Closed`).

**First come, first served** (`ServerProofs`).  `PoolImplementsService` maps the
queued jobs and the one in the master's hands to the line of `BoundedService`; the
connection joins the line at `Accept`, where `BoundedLoad` gives it its place.

**Credentials, sessions and limits** (`ProcessesProofs`).  `TableCorrect` gives the types
and, with a rank that falls from every process to its parent, that the table is a tree;
`exit` and reparenting keep the rank, `fork` extends it.  On it rest:

* `SessionsAreSoundHolds`.  `setpgid` lets a process join the group of its own pid without
  a look at its members; `SessionInv` adds that a group named after a living process is in
  the session of that process, because `setsid` and `fork` take no pid of which there is a
  group.
* `DropIsCompleteHolds`.  `IdsInv` adds that capabilities need one user id of root, and
  that nobody drops to root.
* `LimitsHoldAlways`, for whatever happens between the check and the change of `prlimit64`:
  a call that has passed its check carries what the check established.  `LimitsTightenHolds`
  says of each step that raises a hard limit that whoever takes it has the capability then;
  the run `processes` checks that too, while `LimitsHold`, which follows the nice value as well
  and compares with the limits the system started with, is left to the proof.
* `SubreaperSeesAllHolds`.  `FlagsBelow` says it of children only: a child of a subreaper past
  its store, or of a process with the flag, has the flag or is to be visited by a walk.  An
  induction over the rank gives all descendants.  `Walks` says that a walk stays below the
  process that walks; it makes `FlagsBelow` inductive, since a walk that turns back at a
  process with the flag leaves those below to whoever set it there.
* `NoNewPrivilegesHolds`, an action property.

**The ban calls** (`KernelProofs`).  `Tree(rank)` is as above, for the live tasks, with the
threads of a group at one rank, because the children of a thread pass to another one.
`Walks(rank)` is about kernels that do not preempt system calls (`~Preemptible`).  It
says of each call that it holds the memory it has visited and stands at, since the grace
periods wait for it, and that the rank falls along its walk; so it visits nothing twice,
even when tasks exit and are reparented under it.  A task that was released keeps the parent
it had; `Stale` says that this parent waits for every call the task itself waits for, so a call may
follow the pointer.  `BanCorrect` has both and `FollowsLiveTasksHolds`, which assumes
`~Preemptible`, follows; the assumption is needed:
with `Preemptible` a call that has looked up a task, without `rcu_read_lock`, is preempted, the
task exits and is freed, and the call goes on to read it.  For `FlipExactHolds`, the invariant `Alone` says of an
undisturbed walk that what it has flipped and what is left of the branch are together the
goal it started with.

**Signals** (`SignalsProofs`, `KernelProofs`).  The invariant has three parts, each kept only together with
the ones before it, for any number of threads, any signals and any masks and actions that the
calls accept.

`Core` relates where each thread is in the code to its task (`LinkAt`), says that no mask, in
use or saved, holds SIGKILL or SIGSTOP (`MaskAt`), and who has `siglock` (`LockInv`).  On this
rest:

* `Death`: once the group exits, every thread is on its way out, or has SIGKILL pending and
  `TIF_SIGPENDING` set, and none is stopped.  `KillInv` is the converse that makes it
  inductive: without a group exit only a thread past its last look has SIGKILL pending.
  `DeathIsCertain` follows.
* `StopInv`: `group_stop_count` is the number of threads that are still to join, each of
  these knows it, and while one thread is stopped all others are stopped, joining or exiting.
  `GroupStopExact` alone does not say that a thread still to join is neither stopped nor
  exiting, and so allows that it is counted twice.  `StopsExactly` follows.
* `ContInv`: after a SIGCONT no queue holds a stop signal and no thread a trace of the stop,
  also not `STOP_DEQUEUED` in a thread that has taken the stop signal and released the lock.
  `ContinueOverrides` follows.
* `ToldInv` and `GoneInv`: a stop that is complete was reported or somebody is about to, and
  the leader goes last.  `StopsAreReported` follows.

`QueueInv` is about the entries of the queues.  `Counted` is `QueueExact`.  It is not inductive
because the entry of a timer is charged with the timer and not with the list it is in:
`TimerOnce` says that it is in one list, once, and only as long as there is a timer.  `ListInv` says that an entry is in
a list only with its signal in the set, and that the entry of a fault comes before all others
of its signal, so that what `dequeue_synchronous_signal` takes is the entry whose bit it clears.
The loops over the lists (`collect_signal`, `flush_sigqueue_mask`) are shown to leave a
sublist (`Sub`), and the count is a sum over the threads (`FiniteSums`).

`AwareInv` is `NoMissedSignal`, thread by thread: who has a signal of its own that it does not
block looks before it returns to its program (`AwareAt`), and of the threads that take a
shared signal one looks (`Known`).  A thread that blocks a signal, exits or takes another passes
the shared ones on; the proof follows `retarget_shared_pending` and `complete_signal` to
whom they choose.  `NobodyMissesASignal` follows.

TLC checked all parts on the instance of `signals` before they were proved, with timers that
send SIGKILL, SIGSEGV, SIGSTOP and a real-time signal.

**Pipes** (`PipeProofs`).  The first part is about `PipeRing`: each operation keeps the
shape of the ring and changes its content as it should (`ConsumeOK`, `MergeOK`, `InsertOK`,
`ResizeOK`), for any number of buffers.  The second sorts the steps of `Pipe` by what
they change: the turns of reading and writing (`RWStep`), the other steps of an open file
(`QuietStep`), those that are on the way to a pipe or from it (`OutsideStep`), a new pipe
or the end of one (`FreshStep`), a file that joins (`JoinStep`) or leaves (`LeaveStep`), and
`pipe` itself (`CreateStep`).  Each part of the invariant `Inv` is then proved once per
group and not once per action:

* `Counts` is `CountsExact`, over the sets of files; `Makers` says that whoever makes a
  pipe of `pipefs` is alone.
* `AllModes`: a file is in a call that its mode allows, holds the mutex exactly in the
  steps under it, and sleeps only where the code does.
* `Current`: an equal copy of `r_counter` or `w_counter` means that no partner is there.
* `Sleepers` is `NoLostWakeup`, stronger for `poll`: who sleeps in it has seen the ring as it
  is now, or a wake-up is due.
* `Hurry`: a reader that should not sleep waits for a writer in the kernel, or a wake-up is due,
  or there is no page (`NoPage`).  As long as there is one the next write wakes the reader,
  whether it copies anything or not, and a writer that fills the ring leaves a page in it.
  The exception is needed: when the last page was shared with another pipe it was put and not
  kept, and a writer that gets no new one breaks out of `pipe_write` (`pipe.c:453`) before it
  sets `do_wakeup`, while the reader sleeps because this writer was waiting.

TLC checked these parts as invariants of the run `pipe` before they were proved.
`InOrderHolds`, `CountsExactHolds`, `NoLostWakeupHolds` and `NoReaderLockupHolds` follow.

For `ChargesExactHolds` every call has a share of the charge: the pages of a pipe it has in
hand, those it asks for, and in `pipe_set_size` the latter less what the pipe has.  `Charges`
says that the user is charged for the pipe of the inode and the sum of the shares.  A step
changes one share, or moves pages between a share and the inode; only the holder of the mutex
resizes, so the size that `pipe_set_size` has read is still that of the pipe.

**Requests** (`RequestProofs`).  For `BodyCompleteHolds`, `BodyInv` says that the bytes a
program has still to write, those in the pipe and those in `body` add up to its output, and
that a program which has not ended holds its write end: it got it by `fork` from the server,
which has it open from `pipe` until after the `fork`.  So there is no end of the file before
the last byte, whatever other children hold.  For `HeaderExactHolds`, `HeaderInv` says of the
line that is being read that it begins where the last call of `rio_readlineb` ended, is not
complete yet and has no blank line before it (`LineOK`), and this as long as the client is
there.  Where calls end is defined on the request alone (`CallEnds`: at the end of a line, or
after each `MAXLINE - 1` bytes of it); that the code ends them exactly there is an argument about
remainders (`NextEnd`), and that a pair `\r\n` which ends a call is a blank line exactly when the call
before ended in front of it (`NextBlank`) needs calls of at least two bytes.  `HeaderExact` itself
speaks of lines, not of calls: the code stops at the first blank line, or before it at the end of
a line that has a multiple of `MAXLINE - 1` bytes in front of its `\r\n` (`CutLines`), because
the call behind that multiple returns the `\r\n` alone; `BlankIs` shows that there is no third kind.

**The shell** (`ProcessesProofs`).  `ShellInv` says for every place of the shell what it knows
of its child: whether it is a listed job (after `fg`) or not (after `fork`), has been reaped, and
whether `fgPid` may name it; a sweep counts as the place it leads to.  With that, every process
is a job or the child, and no listed job is gone but the one that `fg` has just reaped.  The
list lemmas say that `sort` leaves a list alone whose ids ascend (a bijection that keeps the
order is the identity, `OrderKept`), and that the loops of `removeJobById` and
`removeFinishedJobs` take one job out and keep the rest in order (`RemovedById`,
`RemovedAt`).

**The heap** (`BuddyProofs`).  The first part is arithmetic: smaller block sizes divide larger
ones (`SizesDivide`), two multiples of a size are at least that size apart (`NextMultiple`),
and the XOR of `findBuddy` exchanges the two halves of a block of the next order (`FlipPair`).  From it follows what the code takes for granted: in a heap that is
tiled by aligned blocks there is a block at the address of a buddy, and none that is larger
than its partner (`BuddyIsBlock`), so the header that `canMerge` reads is a header.  The list
lemmas say what `insertBlock`, `removeBlock` and `removeFirst` do to an ascending list.  The
inductive invariant is `HeapInv`:

* `HeapOK`: the blocks are aligned, disjoint, and cover the heap, also between two turns of a
  split or a merge;
* `ListsOK`: the list of each order ascends and holds the free blocks of that order;
* `PairsOK`: two free buddies of one size exist only while the call in progress works on one of
  them;
* `HeldOK`: what the program holds is what is in use, but for the block the call is at;
* `CallOK`: while a block is split, the lists from the order required up to, and without, the one
  reached are empty; while `srealloc` grows a block in place, the merged block covers the old
  one and is not above the target order, and, unless `srealloc` guessed, its size, now or after
  the one merge left, is that of the target order (`MergedTarget`).

`HeapTiledHolds`, `FreeListsExactHolds` and `HeldBlocksAreOwnedHolds` follow at once.
`FailsOnlyWhenFullHolds` needs `PairsOK`: if an aligned stretch of the size required were free
and no list had a block for it, the smallest block in the stretch would have a free buddy of its
own size (`StretchHasPair`), and no call works on one when an allocation fails.  TLC checked the
parts of `HeapInv` on the instance of `buddy_heap` before they were proved.

`StatisticsKeptHolds` is about single steps from states of `HeapInv`: a split replaces one member
of a finite sum by two (`TotalSplit`), a merge does the reverse, a mapping adds one and its
release removes one.  That a released block larger than `BLOCK_SIZE_BYTES` is a mapping, and that
a split or merge touches no other block's size, is what `HeapInv` is needed for.

The induction theorems of the library take an operator, which the provers cannot
instantiate.  Where a proof needs induction over numbers (powers of two, the concatenation
of buffers, ranks, the turns of a loop), it takes the least element of the set of counterexamples
(`LeastNatural`), which is a theorem about a set.

`TypeOK` of the proved modules and `NoLostLogWakeup` of the log are proved and therefore not
checked by a run.

Only model-checked is liveness (`CallsReturn`, `EveryConnectionServed`, `RequestsEnd`,
`PromptReturns`): fairness and `ENABLED` are outside TLAPS.

## 5. Assumptions and what is not modelled

* `malloc` and `realloc` do not fail; `sbrk`, `mmap` and `munmap` may.
* The length and the capacity of the log are unbounded numbers.  They are `int` in the code:
  after 2^30 bytes `capacity *= 2` (`log.c:191`) overflows, and `BufferFits` says nothing of
  a log that long.
* Addresses of the heap are relative to its base.  That the base is a multiple of the heap's
  size is the work of `alignmentPadding` in `initHeap`, on which the XOR of `findBuddy` rests
  and which the model takes for granted; it also takes for granted that nobody moves the
  break between the two calls of `sbrk`.
* An `initHeap` that succeeds after one that failed assigns the statistics, and drops
  a mapping made in between.  `StatisticsKept` leaves out that one step and only says what
  remains, so it does not speak against the loss; no document says what the statistics
  hold after a failed `sbrk`.
* When `srealloc` looks for a buddy inside a payload (`buddy_grow`), the bytes there are
  the program's: the model lets them look like a free header or not (`looksFree`).  If they
  do, the merge may stop short and the pointer may have less room than it was asked to
  have; `HeldBlocksAreOwned` exempts the size of such a pointer (`guess`) and nothing else.
* A call of `hw2.c` delays the freeing of tasks only in a kernel that does not preempt
  system calls: the code never takes `rcu_read_lock`.  The repository has no kernel
  configuration, so both kinds are modelled (`Preemptible`); `FlipExact` and
  `FollowsLiveTasks` are checked and proved for the one and `FollowsLiveTasks` fails for
  the other (§4), where what a walk reads in freed memory is left open.
* `dup2` back to the terminal does not fail in the shell, and the uninitialised status
  pointer of `fg` (`Commands.cpp:578`) at worst makes `waitpid` report an error after it
  has reaped the process.
* `destroy_log` and the end of `main` are unreachable in the server.
* When an error ends the server, its programs and connections are not followed further.
  Once a client has gone, a read or write on its connection may or may not notice.
* In `Processes` all capabilities go together, a process has one thread, and a call that
  fails is no step.  `is_child_subreaper` and `has_child_subreaper` are taken for two words:
  the layout of `signal_struct` is not in the repository, and if they are bits of one word,
  two walks that overlap may lose an update.  The walk takes the children in any order.  The
  comment at `sys.c:2192`, that whoever has the flag has it from an ancestor whose
  descendants all have it, holds once no walk is under way; while one is, the lock it holds
  keeps others from relying on it.
* In `Signals` a handler returns by setting its mask back.  A thread that knows of a signal
  may be on a CPU or not whenever it is not stopped (`task_curr`); a timeout of
  `sigtimedwait` is zero or is not.
* `killAllJobs` kills all jobs in one step: the shell does nothing else between two kills, and
  what the children do in between is the same before or after.
* Not modelled:
  - the web server's statistics counters and the texts of its answers, which nothing
    depends on; the wrappers of `segel.c` nobody calls and the opening of sockets;
  - the shell's pipes, aliases, `cd`, `du` and printing commands, and the descriptor
    that stays open when the file of a redirection cannot be opened
    (`Commands.cpp:938`);
  - of `pipe.c` the fasync lists, file times and the hooks for `splice`; that `splice` or `tee`
    may have shared a page is a choice made when its buffer is released;
  - of `signal.c` ptrace, core dumps, exec, alternate stacks, the layout of siginfo and
    the compatibility calls;
  - of `sys.c` `uname` and host names, usage and times, `sysinfo`, and the options of
    `prctl` but two (`prctl_set_mm` only checks and stores addresses);
  - `malloc_1` (one call of `sbrk`) and `malloc_2`;
  - headers and tables, which hold declarations.

## 6. What could follow

The rest of the shell (pipes, aliases, `cd`), the first-fit list of `malloc_2`, and the
layout rules of `prctl_set_mm`.
