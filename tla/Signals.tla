------------------------------- MODULE Signals -------------------------------
(***************************************************************************)
(* kernel/signal.c: the signals of one process with N threads, from the    *)
(* call that sends one to the thread that takes it, stops or dies.         *)
(*                                                                         *)
(* What sighand->siglock protects is one record, group, and a function of  *)
(* the code that runs under the lock is an operator from group to group.   *)
(* A critical section is one step, except that get_signal keeps the lock   *)
(* from one turn of its loop to the next.  Where the code releases the     *)
(* lock (is_current_pgrp_orphaned, the news to the parent,                 *)
(* posixtimer_rearm) others can act in between.                            *)
(*                                                                         *)
(* Left out: ptrace, exec, core dumps (the dumping thread goes on to       *)
(* do_group_exit), namespaces and init, the siginfo beyond what decides    *)
(* something.  A handler returns through sigreturn, which sets the mask    *)
(* like rt_sigprocmask.                                                    *)
(***************************************************************************)
EXTENDS SigPending, Functions

CONSTANTS
    N,                  \* the number of threads; thread 1 is the group leader
    Sendable,           \* the signals that are sent
    Masks,              \* the sets passed to the calls that take one
    Settable,           \* the signals given to sigaction,
    Actions,            \* ... and the struct k_sigaction given with them
    Installed,          \* the actions of the Settable signals the program may begin with
    TimerSignal,        \* the signal of the POSIX timer
    RLIMIT_SIGPENDING,
    MaxEvents,          \* bound: how many signals are sent and calls made
    NULL

Threads == 1 .. N
AllSignals == Sendable \cup Settable \cup {TimerSignal, SIGKILL, SIGSEGV} \cup UNION Masks
leader == 1
SIG_DFL == [handler |-> "SIG_DFL", mask |-> {}, flags |-> {}]

ASSUME SignalsConstants ==
    /\ N \in Nat \ {0} /\ {RLIMIT_SIGPENDING, MaxEvents} \subseteq Nat
    /\ Sendable \cup Settable \cup {TimerSignal} \subseteq 1 .. 64
    /\ Settable \cap SIG_KERNEL_ONLY_MASK = {}
    /\ \A s \in Masks : s \subseteq 1 .. 64
    /\ Actions \subseteq [handler : {"SIG_DFL", "SIG_IGN", "handler"}, mask : SUBSET (1 .. 64),
                          flags : SUBSET {"SA_ONESHOT", "SA_NODEFER"}]
    /\ Installed \subseteq [Settable -> Actions \cup {SIG_DFL}]
    /\ NULL \notin Threads

VARIABLES
    group,      \* what siglock protects: the tasks, signal_struct and sighand_struct
    siglock,    \* the thread that keeps it between two steps, or NULL
    run,        \* per thread: where it is and its local variables
    events,     \* how many signals were sent and calls made
    told,       \* history: the last news the parent got
    job         \* history: the last stop or continue signal that was generated

vars == <<group, siglock, run, events, told, job>>

\* saved is saved_sigmask when TIF_RESTORE_SIGMASK is set, which the argument of
\* sigtimedwait, ka the action get_signal returned, why the news to pass on.
Idle(at) == [pc |-> at, sig |-> 0, saved |-> NULL, which |-> {}, ka |-> SIG_DFL, why |-> "none"]

NewTask == [state |-> "running", tif |-> FALSE, blocked |-> {}, real_blocked |-> {}, jobctl |-> {},
            exiting |-> FALSE, pending |-> EmptyPending]

Init ==
    /\ \E act \in Installed :
         group = [task |-> [t \in Threads |-> NewTask], shared |-> EmptyPending, flags |-> {},
                  group_stop_count |-> 0, curr_target |-> leader,
                  action |-> [s \in AllSignals |-> IF s \in Settable THEN act[s] ELSE SIG_DFL],
                  sigpending |-> 0, timer |-> FALSE]
    /\ siglock = NULL /\ run = [t \in Threads |-> Idle("user")]
    /\ events = 0 /\ told = "none" /\ job = "none"

Event == events < MaxEvents /\ events' = events + 1

-----------------------------------------------------------------------------
(* The thread group *)

Members(g) == {t \in Threads : g.task[t].state # "dead"}
thread_group_empty(g) == Cardinality(Members(g)) = 1
signal_group_exit(g) == "GROUP_EXIT" \in g.flags
signal_set_stop_flags(flags, new) == (flags \cap {"GROUP_EXIT"}) \cup new
fatal_signal_pending(task) == task.tif /\ SIGKILL \in task.pending.signal

\* The first thread of set in the order of next_thread, starting at t.
FirstFrom(t, set) == CHOOSE u \in set : \A v \in set : (u - t) % N <= (v - t) % N

SetTask(g, t, task) == [g EXCEPT !.task[t] = task]
EveryTask(g, Op(_)) == [g EXCEPT !.task = [t \in Threads |-> IF t \in Members(g) THEN Op(@[t]) ELSE @[t]]]

\* Mutated form: a thread in TASK_STOPPED sleeps on although it is to die.
WakeUnlessStopped(task, kill) ==
    [task EXCEPT !.tif = TRUE, !.state = IF @ = "interruptible" THEN "running" ELSE @]

\* signal_wake_up: a sleeper wakes; a stopped thread only to die.
signal_wake_up(task, kill) ==
    [task EXCEPT !.tif = TRUE,
                 !.state = IF @ = "interruptible" \/ (kill /\ @ = "stopped") THEN "running" ELSE @]

recalc_sigpending_tsk(g, t) ==
    LET task == g.task[t]
    IN \/ "STOP_PENDING" \in task.jobctl
       \/ has_pending_signals(task.pending.signal, task.blocked)
       \/ has_pending_signals(g.shared.signal, task.blocked)

recalc_sigpending(g, t) == [g EXCEPT !.task[t].tif = recalc_sigpending_tsk(g, t)]

recalc_sigpending_and_wake(g, t) ==
    IF recalc_sigpending_tsk(g, t) THEN SetTask(g, t, signal_wake_up(g.task[t], FALSE)) ELSE g

task_clear_jobctl_pending(task) == [task EXCEPT !.jobctl = {}]

\* Whether task_set_jobctl_pending sets anything: a dying thread takes part in nothing.
task_set_jobctl_pending(task) == ~fatal_signal_pending(task) /\ ~task.exiting

\* The signals of mask leave every queue of the process.
FlushAll(g, mask) ==
    LET s == flush_sigqueue_mask(mask, g.shared)
        f == [t \in Threads |-> flush_sigqueue_mask(mask, g.task[t].pending)]
        freed == [t \in Threads |-> f[t].freed]
    IN [g EXCEPT !.shared = s.pending,
                 !.task = [t \in Threads |-> [@[t] EXCEPT !.pending = f[t].pending]],
                 !.sigpending = @ - s.freed - MapThenSumSet(LAMBDA t : freed[t], Threads)]

-----------------------------------------------------------------------------
(* Sending *)

sig_handler_ignored(act, sig) ==
    \/ act.handler = "SIG_IGN"
    \/ act.handler = "SIG_DFL" /\ sig \in SIG_KERNEL_IGNORE_MASK

\* A blocked signal is not ignored: its handler may change.
sig_ignored(g, p, sig) ==
    /\ sig \notin g.task[p].blocked \cup g.task[p].real_blocked
    /\ sig_handler_ignored(g.action[sig], sig)

sig_fatal(g, sig) ==
    sig \notin SIG_KERNEL_IGNORE_MASK \cup SIG_KERNEL_STOP_MASK /\ g.action[sig].handler = "SIG_DFL"

sig_kernel_coredump(sig) == sig \in {3, 4, 5, 6, 7, 8, 11, 24, 25, 31}

\* SIGCONT reaches a thread: it runs, and what it owes to a stop is off.
Continue(task) ==
    [task_clear_jobctl_pending(task) EXCEPT !.state = IF @ = "stopped" THEN "running" ELSE @]

\* The effects on the whole process that a stop signal or SIGCONT has when it is
\* generated, delivered or not.
prepare_signal(g, sig) ==
    IF signal_group_exit(g) THEN g
    ELSE IF sig \in SIG_KERNEL_STOP_MASK THEN FlushAll(g, {SIGCONT})
    ELSE IF sig # SIGCONT THEN g
    ELSE LET new == EveryTask(FlushAll(g, SIG_KERNEL_STOP_MASK), Continue)
             why == IF "STOP_STOPPED" \in g.flags THEN {"CLD_CONTINUED"}
                    ELSE IF g.group_stop_count # 0 THEN {"CLD_STOPPED"} ELSE {}
         IN IF why = {} THEN new
            ELSE [new EXCEPT !.flags = signal_set_stop_flags(@, why \cup {"STOP_CONTINUED"}),
                             !.group_stop_count = 0]

\* cpu: the threads that run on a CPU at this moment.
wants_signal(g, sig, t, cpu) ==
    LET task == g.task[t]
    IN /\ sig \notin task.blocked /\ ~task.exiting
       /\ sig = SIGKILL \/ (task.state # "stopped" /\ (t \in cpu \/ ~task.tif))

\* The thread to wake for sig, or NULL: p first, then from curr_target on.
Target(g, sig, p, shared, cpu) ==
    LET able == {t \in Members(g) : wants_signal(g, sig, t, cpu)}
    IN IF p \in able THEN p
       ELSE IF ~shared \/ thread_group_empty(g) \/ able = {} THEN NULL
       ELSE FirstFrom(g.curr_target, able)

Doomed(task) ==
    LET clear == task_clear_jobctl_pending(task)
    IN signal_wake_up([clear EXCEPT !.pending = SetOnly(@, SIGKILL)], TRUE)

\* A fatal signal starts the group exit at once; any other wakes one thread.
complete_signal(g, sig, p, shared, cpu) ==
    LET t == Target(g, sig, p, shared, cpu)
        new == [g EXCEPT !.curr_target = IF t = p THEN @ ELSE t]
    IN IF t = NULL THEN g
       ELSE IF /\ sig_fatal(g, sig) /\ ~signal_group_exit(g)
               /\ sig \notin g.task[t].real_blocked /\ ~sig_kernel_coredump(sig)
            THEN EveryTask([new EXCEPT !.flags = {"GROUP_EXIT"}, !.group_stop_count = 0], Doomed)
       ELSE SetTask(new, t, signal_wake_up(new.task[t], sig = SIGKILL))

PendingOf(g, p, shared) == IF shared THEN g.shared ELSE g.task[p].pending
PutPending(g, p, shared, pending) ==
    IF shared THEN [g EXCEPT !.shared = pending] ELSE [g EXCEPT !.task[p].pending = pending]

\* info: "user" (kill), "queue" (tkill, sigqueue: si_code below zero), "fault"
\* (a fault of the thread), "priv" and "forced" (sent by the kernel).
is_si_special(info) == info \in {"priv", "forced"}
override_rlimit(sig, info) == sig < SIGRTMIN /\ info # "queue"

\* mem: whether kmem_cache_alloc succeeds.
sigqueue_alloc1(g, sig, info, mem) ==
    mem /\ (override_rlimit(sig, info) \/ g.sigpending + 1 <= RLIMIT_SIGPENDING)

send_signal(g, sig, info, p, shared, cpu, mem) ==
    LET new == prepare_signal(g, sig)
        pending == PendingOf(new, p, shared)
        q == Sigqueue(sig, sig \in SYNCHRONOUS_MASK /\ info \in {"priv", "fault"}, FALSE)
        Complete(h) == complete_signal(h, sig, p, shared, cpu)
    IN IF sig_ignored(new, p, sig) \/ legacy_queue(pending, sig) THEN new
       ELSE IF info # "forced" /\ sigqueue_alloc1(new, sig, info, mem)
            THEN Complete([PutPending(new, p, shared, Enqueue(pending, q)) EXCEPT !.sigpending = @ + 1])
       ELSE IF ~is_si_special(info) /\ sig >= SIGRTMIN /\ info # "user" THEN new    \* EAGAIN
       ELSE Complete(PutPending(new, p, shared, SetOnly(pending, sig)))

JobOf(sig) == IF sig \in SIG_KERNEL_STOP_MASK THEN "stop" ELSE IF sig = SIGCONT THEN "cont" ELSE job

\* Where task_curr decides: a thread that knows of a signal may be on a CPU, also one
\* that is about to sleep.
Current == {t \in Threads : group.task[t].tif /\ group.task[t].state \in {"running", "interruptible"}}

\* do_send_sig_info: p still has its sighand.
Send(sig, info, p, shared) ==
    /\ siglock = NULL /\ p \in Members(group)
    /\ Event
    /\ job' = JobOf(sig)
    /\ \E mem \in BOOLEAN :
         \E cpu \in SUBSET Current :
             group' = send_signal(group, sig, info, p, shared, cpu, mem)
    /\ UNCHANGED <<siglock, run, told>>

kill(sig) == Send(sig, "user", leader, TRUE)
kill_pgrp(sig) == Send(sig, "priv", leader, TRUE)
rt_sigqueueinfo(sig) == Send(sig, "queue", leader, TRUE)
do_tkill(t, sig) == Send(sig, "queue", t, FALSE)
oom_kill == Send(SIGKILL, "forced", leader, TRUE)

\* A fault of the thread in user mode: the signal can be neither blocked nor ignored.
force_sig_info(g, sig, info, t, mem) ==
    LET blocked == sig \in g.task[t].blocked
        h == IF blocked \/ g.action[sig].handler = "SIG_IGN"
             THEN [g EXCEPT !.action[sig].handler = "SIG_DFL"] ELSE g
        u == IF blocked THEN recalc_sigpending_and_wake([h EXCEPT !.task[t].blocked = @ \ {sig}], t) ELSE h
    IN send_signal(u, sig, info, t, FALSE, {t}, mem)

Fault(t) ==
    /\ run[t].pc = "user" /\ siglock = NULL
    /\ Event
    /\ \E mem \in BOOLEAN : group' = force_sig_info(group, SIGSEGV, "fault", t, mem)
    /\ run' = [run EXCEPT ![t].pc = "out"]
    /\ UNCHANGED <<siglock, told, job>>

-----------------------------------------------------------------------------
(* The preallocated entry of a POSIX timer *)

TimerQueued(g) == \E q \in ToSet(g.shared.list) \cup UNION {ToSet(g.task[t].pending.list) : t \in Threads} :
                      q.prealloc

sigqueue_alloc(t) ==
    /\ run[t].pc = "user" /\ ~group.timer /\ Event
    /\ group.sigpending + 1 <= RLIMIT_SIGPENDING
    /\ group' = [group EXCEPT !.timer = TRUE, !.sigpending = @ + 1]
    /\ UNCHANGED <<siglock, run, told, job>>

\* The timer expires; an entry that is still queued only counts an overrun.
send_sigqueue(p, shared) ==
    /\ siglock = NULL /\ group.timer /\ p \in Members(group)
    /\ Event
    /\ job' = JobOf(TimerSignal)
    /\ \E cpu \in SUBSET Current :
         LET new == prepare_signal(group, TimerSignal)
             queued == Enqueue(PendingOf(new, p, shared), Sigqueue(TimerSignal, FALSE, TRUE))
         IN group' = IF sig_ignored(new, p, TimerSignal) \/ TimerQueued(new) THEN new
                     ELSE complete_signal(PutPending(new, p, shared, queued), TimerSignal, p, shared, cpu)
    /\ UNCHANGED <<siglock, run, told>>

\* Mutated form: the entry is freed although a queue still holds it.
FreeQueued(g) ==
    [g EXCEPT !.timer = FALSE, !.sigpending = @ - 1, !.shared = Disown(@),
              !.task = [u \in Threads |-> [g.task[u] EXCEPT !.pending = Disown(@)]]]

\* The timer goes: an entry in a queue is freed by whoever dequeues it.
sigqueue_free(g) ==
    [g EXCEPT !.timer = FALSE, !.sigpending = IF TimerQueued(g) THEN @ ELSE @ - 1, !.shared = Disown(@),
              !.task = [u \in Threads |-> [g.task[u] EXCEPT !.pending = Disown(@)]]]

timer_delete(t) ==
    /\ run[t].pc = "user" /\ siglock = NULL /\ group.timer /\ Event
    /\ group' = sigqueue_free(group)
    /\ UNCHANGED <<siglock, run, told, job>>

-----------------------------------------------------------------------------
(* Taking a signal off the queues *)

\* First from the queue of the thread, then from that of the process.
dequeue_signal(g, t, mask) ==
    LET own == next_signal(g.task[t].pending, mask)
        sig == IF own # 0 THEN own ELSE next_signal(g.shared, mask)
        c == collect_signal(sig, PendingOf(g, t, own = 0))
        taken == recalc_sigpending([PutPending(g, t, own = 0, c.pending) EXCEPT !.sigpending = @ - c.freed], t)
    IN IF sig = 0 THEN [group |-> recalc_sigpending(g, t), sig |-> 0, timer |-> FALSE]
       ELSE [group |-> IF sig \in SIG_KERNEL_STOP_MASK
                       THEN [taken EXCEPT !.task[t].jobctl = @ \cup {"STOP_DEQUEUED"}] ELSE taken,
             sig |-> sig, timer |-> c.timer]

\* What a turn of the loop of get_signal dequeues: the signal of a fault first.
Dequeue(g, t) ==
    LET task == g.task[t]
        d == dequeue_synchronous_signal(task.pending, task.blocked)
        new == [g EXCEPT !.task[t].pending = d.pending, !.sigpending = @ - d.freed]
    IN IF SynchronousEntry(task.pending, task.blocked) = 0 THEN dequeue_signal(g, t, task.blocked)
       ELSE [group |-> IF d.last THEN recalc_sigpending(new, t) ELSE new, sig |-> d.sig, timer |-> FALSE]

\* The shared signals of which that t will not take now are offered to the other
\* threads in turn; each goes to the first that does not block it.
retarget_shared_pending(g, t, which) ==
    LET takers(s) == {u \in Members(g) \ {t} : ~g.task[u].exiting /\ s \notin g.task[u].blocked}
        woken == {FirstFrom(t, takers(s)) : s \in {s \in g.shared.signal \cap which : takers(s) # {}}}
    IN [g EXCEPT !.task = [u \in Threads |-> IF u \in woken /\ ~@[u].tif THEN signal_wake_up(@[u], FALSE)
                                             ELSE @[u]]]

\* Mutated form: a signal that woke this thread is not passed on.
SetBlockedAlone(g, t, newset) == recalc_sigpending([g EXCEPT !.task[t].blocked = newset], t)

set_task_blocked(g, t, newset) ==
    LET task == g.task[t]
        new == IF task.tif /\ ~thread_group_empty(g)
               THEN retarget_shared_pending(g, t, newset \ task.blocked) ELSE g
    IN recalc_sigpending([new EXCEPT !.task[t].blocked = newset], t)

\* Nothing happens, not even a recalculation, when the mask stays the same.
set_current_blocked(g, t, newset) ==
    IF newset = g.task[t].blocked THEN g ELSE set_task_blocked(g, t, newset)

Blockable(set) == set \ SIG_KERNEL_ONLY_MASK

-----------------------------------------------------------------------------
(* The calls of a thread on its own signals *)

Goto(t, at) == run' = [run EXCEPT ![t].pc = at]
Locked(t, at) == run[t].pc = at /\ siglock = NULL

sigprocmask(blocked, how, set) ==
    CASE how = "SIG_BLOCK" -> blocked \cup set
      [] how = "SIG_UNBLOCK" -> blocked \ set
      [] how = "SIG_SETMASK" -> set

rt_sigprocmask(t, how, set) ==
    /\ Locked(t, "user") /\ Event
    /\ group' = set_current_blocked(group, t, sigprocmask(group.task[t].blocked, how, Blockable(set)))
    /\ UNCHANGED <<siglock, run, told, job>>

do_sigaction(t, sig, act) ==
    /\ Locked(t, "user") /\ Event
    /\ LET new == [group EXCEPT !.action[sig] = [act EXCEPT !.mask = Blockable(@)]]
       IN group' = IF sig_handler_ignored(act, sig) THEN FlushAll(new, {sig}) ELSE new
    /\ UNCHANGED <<siglock, run, told, job>>

pause(t) ==
    /\ run[t].pc = "user" /\ Event
    /\ Goto(t, "pause")
    /\ UNCHANGED <<group, siglock, told, job>>

sigsuspend(t, set) ==
    /\ Locked(t, "user") /\ Event
    /\ group' = set_current_blocked(group, t, Blockable(set))
    /\ run' = [run EXCEPT ![t].pc = "pause", ![t].saved = group.task[t].blocked]
    /\ UNCHANGED <<siglock, told, job>>

\* TIF_SIGPENDING is looked at before and, in schedule(), after the state is set.
Sleep(t) ==
    /\ run[t].pc = "pause"
    /\ IF group.task[t].tif
       THEN Goto(t, "out") /\ group' = [group EXCEPT !.task[t].state = "running"]
       ELSE /\ group.task[t].state = "running"
            /\ group' = [group EXCEPT !.task[t].state = "interruptible"] /\ UNCHANGED run
    /\ UNCHANGED <<siglock, events, told, job>>

\* The signals waited for are unblocked as long as the thread sleeps; with a timeout
\* of zero it only looks.
do_sigtimedwait(t, set, timeout) ==
    LET which == Blockable(set)
        d == dequeue_signal(group, t, AllSignals \ which)
        task == group.task[t]
    IN /\ Locked(t, "user") /\ Event
       /\ IF d.sig # 0 \/ timeout = 0
          THEN group' = d.group /\ Goto(t, "out")
          ELSE /\ group' = recalc_sigpending(
                     SetTask(d.group, t, [d.group.task[t] EXCEPT !.real_blocked = task.blocked,
                                                                 !.blocked = @ \ which,
                                                                 !.state = "interruptible"]), t)
               /\ run' = [run EXCEPT ![t].pc = "sigwait", ![t].which = which]
       /\ UNCHANGED <<siglock, told, job>>

\* The old mask comes back before the thread looks for its signal again.
EndSigwait(t) ==
    /\ Locked(t, "sigwait")
    /\ LET back == set_task_blocked(group, t, group.task[t].real_blocked)
           d == dequeue_signal([back EXCEPT !.task[t].real_blocked = {}, !.task[t].state = "running"],
                               t, AllSignals \ run[t].which)
       IN group' = d.group
    /\ run' = [run EXCEPT ![t].pc = "out", ![t].which = {}]
    /\ UNCHANGED <<siglock, events, told, job>>

SigwaitWoken(t) == (group.task[t].tif \/ group.task[t].state = "running") /\ EndSigwait(t)
SigwaitTimeout(t) == EndSigwait(t)

-----------------------------------------------------------------------------
(* On the way to user mode: get_signal *)

\* A thread in user mode is interrupted by the kick of signal_wake_up.
exit_to_usermode_loop(t) ==
    /\ run[t].pc \in {"user", "out"}
    /\ IF group.task[t].tif THEN Goto(t, "relock") ELSE run[t].pc = "out" /\ Goto(t, "user")
    /\ UNCHANGED <<group, siglock, events, told, job>>

\* The news that SIGCONT left in the flags; the lock is released to pass them on.
NoticeContinue(t) ==
    /\ Locked(t, "relock")
    /\ group.flags \cap {"CLD_STOPPED", "CLD_CONTINUED"} # {}
    /\ group' = [group EXCEPT !.flags = @ \ {"CLD_STOPPED", "CLD_CONTINUED"}]
    /\ run' = [run EXCEPT ![t].pc = "notify",
                          ![t].why = IF "CLD_CONTINUED" \in group.flags THEN "continued" ELSE "stopped"]
    /\ UNCHANGED <<siglock, events, told, job>>

\* do_notify_parent_cldstop
NotifyParent(t) ==
    /\ run[t].pc \in {"notify", "stopnotify", "exitnotify"}
    /\ told' = run[t].why
    /\ run' = [run EXCEPT ![t].why = "none",
                          ![t].pc = CASE @ = "notify" -> "relock"
                                      [] @ = "stopnotify" -> "stopped"
                                      [] @ = "exitnotify" -> "exited"]
    /\ UNCHANGED <<group, siglock, events, job>>

MarkedForDeath(t) ==
    /\ Locked(t, "relock")
    /\ group.flags \cap {"CLD_STOPPED", "CLD_CONTINUED"} = {} /\ signal_group_exit(group)
    /\ group' = recalc_sigpending([group EXCEPT !.task[t].pending.signal = @ \ {SIGKILL}], t)
    /\ Goto(t, "fatal")
    /\ UNCHANGED <<siglock, events, told, job>>

\* In the loop, with the lock.
InLoop(t) ==
    \/ siglock = t /\ run[t].pc = "loop"
    \/ /\ Locked(t, "relock")
       /\ group.flags \cap {"CLD_STOPPED", "CLD_CONTINUED", "GROUP_EXIT"} = {}

Unlock(t, at) == siglock' = NULL /\ Goto(t, at)
NextTurn(t) == siglock' = t /\ Goto(t, "loop")

\* Mutated form: the process stops and nobody tells the parent.
ParticipateSilently(g, t) ==
    LET consume == "STOP_CONSUME" \in g.task[t].jobctl
        count == IF consume /\ g.group_stop_count > 0 THEN g.group_stop_count - 1 ELSE g.group_stop_count
        new == SetTask(g, t, task_clear_jobctl_pending(g.task[t]))
    IN [group |-> [new EXCEPT !.group_stop_count = count,
                              !.flags = IF consume /\ count = 0
                                        THEN signal_set_stop_flags(@, {"STOP_STOPPED"}) ELSE @],
        notify |-> FALSE]

\* notify: whether t was the last to stop.
task_participate_group_stop(g, t) ==
    LET consume == "STOP_CONSUME" \in g.task[t].jobctl
        count == IF consume /\ g.group_stop_count > 0 THEN g.group_stop_count - 1 ELSE g.group_stop_count
        notify == consume /\ count = 0 /\ "STOP_STOPPED" \notin g.flags
        new == SetTask(g, t, task_clear_jobctl_pending(g.task[t]))
    IN [group |-> [new EXCEPT !.group_stop_count = count,
                              !.flags = IF notify THEN signal_set_stop_flags(@, {"STOP_STOPPED"}) ELSE @],
        notify |-> notify]

\* Every thread that is neither stopped nor dying has to take part.
InitiateStop(g, t) ==
    LET part == {u \in Members(g) : /\ task_set_jobctl_pending(g.task[u])
                                    /\ u = t \/ g.task[u].state # "stopped"}
        Join(u) == LET task == [g.task[u] EXCEPT !.jobctl = @ \cup {"STOP_PENDING", "STOP_CONSUME"}]
                   IN IF u = t THEN task ELSE signal_wake_up(task, FALSE)
    IN [g EXCEPT !.group_stop_count = Cardinality(part),
                 !.task = [u \in Threads |-> IF u \in part THEN Join(u) ELSE @[u]]]

\* Mutated form: a stop signal that SIGCONT has overtaken still stops.
StopUncancelled(g, t) == signal_group_exit(g)

\* SIGCONT or a killer came while the lock was released.
StopCancelledMeanwhile(g, t) == "STOP_DEQUEUED" \notin g.task[t].jobctl \/ signal_group_exit(g)

\* do_signal_stop, from state g on.
do_signal_stop(g, t) ==
    LET new == IF "STOP_PENDING" \in g.task[t].jobctl THEN g ELSE InitiateStop(g, t)
        r == task_participate_group_stop(new, t)
    IN IF "STOP_PENDING" \notin g.task[t].jobctl /\ StopCancelledMeanwhile(g, t)
       THEN group' = g /\ NextTurn(t)
       ELSE /\ group' = [r.group EXCEPT !.task[t].state = "stopped"]
            /\ siglock' = NULL
            /\ run' = [run EXCEPT ![t].pc = IF r.notify THEN "stopnotify" ELSE "stopped",
                                  ![t].why = IF r.notify THEN "stopped" ELSE @]

JoinGroupStop(t) ==
    /\ InLoop(t) /\ "STOP_PENDING" \in group.task[t].jobctl
    /\ do_signal_stop(group, t)
    /\ UNCHANGED <<events, told, job>>

\* What get_signal does with the signal it has dequeued, from state g on.
Dispatch(g, t, sig) ==
    LET act == g.action[sig]
    IN CASE sig = 0 -> group' = g /\ Unlock(t, "restore")
         [] sig # 0 /\ sig_handler_ignored(act, sig)
              -> group' = g /\ NextTurn(t)
         [] sig # 0 /\ act.handler = "handler"
              -> /\ group' = IF "SA_ONESHOT" \in act.flags
                             THEN [g EXCEPT !.action[sig].handler = "SIG_DFL"] ELSE g
                 /\ siglock' = NULL
                 /\ run' = [run EXCEPT ![t].pc = "deliver", ![t].sig = sig, ![t].ka = act]
         [] sig = SIGSTOP -> do_signal_stop(g, t)
         [] sig \in SIG_KERNEL_STOP_MASK \ {SIGSTOP} /\ act.handler = "SIG_DFL" -> group' = g /\ Unlock(t, "orphan")
         [] OTHER -> group' = g /\ Unlock(t, "fatal")

\* A turn of the loop; the lock is released to rearm the timer a signal came from.
GetSignal(t) ==
    /\ InLoop(t) /\ "STOP_PENDING" \notin group.task[t].jobctl
    /\ LET d == Dequeue(group, t)
       IN IF d.timer
          THEN /\ group' = d.group /\ siglock' = NULL
               /\ run' = [run EXCEPT ![t].pc = "rearm", ![t].sig = d.sig]
          ELSE Dispatch(d.group, t, d.sig)
    /\ UNCHANGED <<events, told, job>>

Rearmed(t) ==
    /\ Locked(t, "rearm")
    /\ Dispatch(group, t, run[t].sig)
    /\ UNCHANGED <<events, told, job>>

\* is_current_pgrp_orphaned, without the lock.
CheckOrphaned(t) ==
    /\ run[t].pc = "orphan"
    /\ \E orphaned \in BOOLEAN : Goto(t, IF orphaned THEN "relock" ELSE "stop")
    /\ UNCHANGED <<group, siglock, events, told, job>>

Stop(t) ==
    /\ Locked(t, "stop")
    /\ do_signal_stop(group, t)
    /\ UNCHANGED <<events, told, job>>

\* Woken by SIGCONT or SIGKILL.
Resume(t) ==
    /\ run[t].pc = "stopped" /\ group.task[t].state = "running"
    /\ Goto(t, "relock")
    /\ UNCHANGED <<group, siglock, events, told, job>>

\* No signal to deliver: the mask from before sigsuspend comes back.
RestoreMask(t) ==
    /\ Locked(t, "restore")
    /\ group' = IF run[t].saved = NULL THEN group ELSE set_current_blocked(group, t, run[t].saved)
    /\ run' = [run EXCEPT ![t].pc = "out", ![t].saved = NULL]
    /\ UNCHANGED <<siglock, events, told, job>>

\* signal_setup_done: the frame is there, or SIGSEGV is forced.
signal_delivered(t) ==
    /\ Locked(t, "deliver")
    /\ LET own == IF "SA_NODEFER" \in run[t].ka.flags THEN {} ELSE {run[t].sig}
       IN group' = set_current_blocked(group, t,
                       Blockable(group.task[t].blocked \cup run[t].ka.mask \cup own))
    /\ run' = [run EXCEPT ![t] = Idle("out")]
    /\ UNCHANGED <<siglock, events, told, job>>

\* force_sigsegv has two sections of the lock: the handler of SIGSEGV goes first.
ResetSegv(t) ==
    /\ run[t].pc = "deliver" /\ (run[t].sig = SIGSEGV => siglock = NULL)
    /\ group' = IF run[t].sig = SIGSEGV THEN [group EXCEPT !.action[SIGSEGV].handler = "SIG_DFL"] ELSE group
    /\ Goto(t, "segv")
    /\ UNCHANGED <<siglock, events, told, job>>

force_sigsegv(t) ==
    /\ Locked(t, "segv")
    /\ \E mem \in BOOLEAN : group' = force_sig_info(group, SIGSEGV, "priv", t, mem)
    /\ run' = [run EXCEPT ![t] = [Idle("out") EXCEPT !.saved = run[t].saved]]
    /\ UNCHANGED <<siglock, events, told, job>>

-----------------------------------------------------------------------------
(* The end of a thread *)

\* zap_other_threads, for do_group_exit.
zap_other_threads(g, t) ==
    [g EXCEPT !.group_stop_count = 0,
              !.task = [u \in Threads |-> IF u \in Members(g) \ {t} THEN Doomed(@[u]) ELSE @[u]]]

do_group_exit(t) ==
    /\ siglock = NULL
    /\ \/ run[t].pc = "fatal" /\ UNCHANGED events
       \/ run[t].pc = "user" /\ Event
    /\ group' = IF signal_group_exit(group) THEN group
                ELSE zap_other_threads([group EXCEPT !.flags = {"GROUP_EXIT"}], t)
    /\ Goto(t, "exit")
    /\ UNCHANGED <<siglock, told, job>>

do_exit(t) ==
    /\ run[t].pc = "user" /\ Event
    /\ Goto(t, "exit")
    /\ UNCHANGED <<group, siglock, told, job>>

\* The last thread, and one of a dying group, needs no lock.
ExitAlone(t) ==
    /\ run[t].pc = "exit" /\ (thread_group_empty(group) \/ signal_group_exit(group))
    /\ group' = [group EXCEPT !.task[t].exiting = TRUE]
    /\ Goto(t, "exited")
    /\ UNCHANGED <<siglock, events, told, job>>

ExitAmongOthers(t) ==
    /\ run[t].pc = "exit" /\ ~(thread_group_empty(group) \/ signal_group_exit(group))
    /\ Goto(t, "exitlock")
    /\ UNCHANGED <<group, siglock, events, told, job>>

\* Mutated form: a thread with a stop pending leaves without taking part in it.
ExitSignalsUncounted(t) ==
    /\ Locked(t, "exitlock")
    /\ LET task == group.task[t]
           gone == [group EXCEPT !.task[t].exiting = TRUE]
       IN group' = IF task.tif THEN retarget_shared_pending(gone, t, AllSignals \ task.blocked) ELSE gone
    /\ Goto(t, "exited")
    /\ UNCHANGED <<siglock, events, told, job>>

\* The shared signals t was woken for go to others, and a group stop that waits
\* for t waits no longer.
exit_signals(t) ==
    /\ Locked(t, "exitlock")
    /\ LET task == group.task[t]
           gone == [group EXCEPT !.task[t].exiting = TRUE]
           offered == retarget_shared_pending(gone, t, AllSignals \ task.blocked)
           r == task_participate_group_stop(offered, t)
           stops == task.tif /\ "STOP_PENDING" \in task.jobctl
       IN /\ group' = IF stops THEN r.group ELSE IF task.tif THEN offered ELSE gone
          /\ run' = [run EXCEPT ![t].pc = IF stops /\ r.notify THEN "exitnotify" ELSE "exited",
                                ![t].why = IF stops /\ r.notify THEN "stopped" ELSE @]
    /\ UNCHANGED <<siglock, events, told, job>>

\* do_notify_parent, when the whole process has ended.
do_notify_parent(t) ==
    /\ t = leader /\ run[t].pc = "exited" /\ Members(group) = {leader} /\ told # "exited"
    /\ told' = "exited"
    /\ UNCHANGED <<group, siglock, run, events, job>>

\* release_task: the thread leaves the list with its queue.  The leader stays until
\* its parent has been told, and takes the timers and the queue of the process along.
release_task(t) ==
    /\ Locked(t, "exited") /\ (t = leader => told = "exited")
    /\ LET g == IF t = leader /\ group.timer THEN sigqueue_free(group) ELSE group
           own == flush_sigqueue(g.task[t].pending)
           shared == IF t = leader THEN flush_sigqueue(g.shared) ELSE [pending |-> g.shared, freed |-> 0]
       IN group' = [g EXCEPT !.task[t] = [NewTask EXCEPT !.state = "dead", !.exiting = TRUE],
                             !.shared = shared.pending,
                             !.sigpending = @ - own.freed - shared.freed,
                             !.curr_target = IF @ = t /\ t # leader THEN FirstFrom(t, Members(g) \ {t}) ELSE @]
    /\ run' = [run EXCEPT ![t] = Idle("dead")]
    /\ UNCHANGED <<siglock, events, job, told>>

-----------------------------------------------------------------------------
\* The steps of a thread that the kernel takes by itself.
KernelStep(t) ==
    \/ Sleep(t) \/ SigwaitWoken(t)
    \/ exit_to_usermode_loop(t) \/ NoticeContinue(t) \/ NotifyParent(t) \/ MarkedForDeath(t)
    \/ JoinGroupStop(t) \/ GetSignal(t) \/ Rearmed(t) \/ CheckOrphaned(t) \/ Stop(t) \/ Resume(t)
    \/ RestoreMask(t) \/ signal_delivered(t) \/ ResetSegv(t) \/ force_sigsegv(t)
    \/ (run[t].pc = "fatal" /\ do_group_exit(t))
    \/ ExitAlone(t) \/ ExitAmongOthers(t) \/ exit_signals(t)
    \/ do_notify_parent(t) \/ release_task(t)

\* What its program calls or causes.
UserStep(t) ==
    \/ \E how \in {"SIG_BLOCK", "SIG_UNBLOCK", "SIG_SETMASK"}, set \in Masks : rt_sigprocmask(t, how, set)
    \/ \E sig \in Settable, act \in Actions : do_sigaction(t, sig, act)
    \/ \E set \in Masks : sigsuspend(t, set) \/ \E timeout \in {0, 1} : do_sigtimedwait(t, set, timeout)
    \/ pause(t) \/ SigwaitTimeout(t) \/ Fault(t)
    \/ sigqueue_alloc(t) \/ timer_delete(t)
    \/ (run[t].pc = "user" /\ do_group_exit(t)) \/ do_exit(t)

\* What others send.
Sender ==
    \/ \E sig \in Sendable : \/ kill(sig) \/ kill_pgrp(sig) \/ rt_sigqueueinfo(sig)
                             \/ \E t \in Threads : do_tkill(t, sig)
    \/ oom_kill
    \/ \E shared \in BOOLEAN, t \in Threads : (shared => t = leader) /\ send_sigqueue(t, shared)

Next == (\E t \in Threads : KernelStep(t) \/ UserStep(t)) \/ Sender

Spec == Init /\ [][Next]_vars

-----------------------------------------------------------------------------
(* Properties *)

\* A thread that will look at its queues before it runs its program again.
WillLook(t) == group.task[t].tif \/ run[t].pc \in {"relock", "loop", "rearm", "orphan", "stop", "stopped",
                                                   "notify", "stopnotify", "fatal"}

\* Nobody misses a signal: a thread with an unblocked signal of its own or a stop
\* to take part in knows it (TIF_SIGPENDING), and an unblocked signal of the process
\* is known to one of the threads that do not block it, however masks change,
\* threads exit and sigtimedwait comes and goes.
NoMissedSignal ==
    ~signal_group_exit(group) =>
        LET Takes(t, s) == ~group.task[t].exiting /\ s \notin group.task[t].blocked
        IN /\ \A t \in Threads :
                \/ run[t].pc \in {"exitlock", "exitnotify", "exited", "dead"}
                \/ WillLook(t)
                \/ /\ "STOP_PENDING" \notin group.task[t].jobctl
                   /\ ~\E s \in group.task[t].pending.signal : Takes(t, s)
           /\ \A s \in group.shared.signal :
                (\E t \in Threads : Takes(t, s)) => \E t \in Threads : Takes(t, s) /\ WillLook(t)

\* group_stop_count is the number of threads that have yet to stop; the process
\* counts as stopped exactly when it is zero and a thread has stopped, and then
\* every thread that is not exiting has.
GroupStopExact ==
    LET stopped == {t \in Threads : group.task[t].state = "stopped"}
    IN ~signal_group_exit(group) =>
       /\ group.group_stop_count
            = Cardinality({t \in Threads : {"STOP_PENDING", "STOP_CONSUME"} \subseteq group.task[t].jobctl})
       /\ stopped # {} => group.group_stop_count > 0 \/ "STOP_STOPPED" \in group.flags
       /\ "STOP_STOPPED" \in group.flags => \A t \in Threads : group.task[t].exiting \/ t \in stopped

\* After SIGCONT, until the next stop signal is sent, no thread is stopped or
\* about to stop: not even one that had dequeued its stop signal before.
ContinueWins ==
    job = "cont" /\ ~signal_group_exit(group) =>
        \A t \in Threads : /\ group.task[t].state # "stopped"
                            /\ "STOP_PENDING" \notin group.task[t].jobctl

\* When the process has stopped and no thread is about to tell the parent anything,
\* stopped is the last thing the parent was told, whatever news were late.
StopIsReported ==
    /\ "STOP_STOPPED" \in group.flags
    /\ \A t \in Threads : run[t].pc \notin {"notify", "stopnotify", "exitnotify"}
    => told = "stopped"

Queued(g) ==
    LET own == [t \in Threads |-> FreeAll(g.task[t].pending.list)]
    IN MapThenSumSet(LAMBDA t : own[t], Threads) + FreeAll(g.shared.list)

\* user->sigpending counts every entry once: the queued ones and the one of the
\* timer, wherever it is; and until the process is to die no entry is in a list
\* without its signal in the set.
QueueExact ==
    /\ group.sigpending = Queued(group) + (IF group.timer THEN 1 ELSE 0)
    /\ ~signal_group_exit(group) =>
         \A p \in {group.shared} \cup {group.task[t].pending : t \in Threads} :
             \A q \in ToSet(p.list) : q.sig \in p.signal

\* A process that is to die does: once the group exit has begun, by whichever
\* thread and signal, no thread is stopped, and each is on its way out or will look
\* at its flags before it sleeps or runs its program again.  Whichever call set its
\* mask, a thread blocks neither SIGKILL nor SIGSTOP.
DeathReachesAll ==
    /\ \A t \in Threads : group.task[t].blocked \cap SIG_KERNEL_ONLY_MASK = {}
    /\ signal_group_exit(group) =>
        \A t \in Threads : /\ group.task[t].state # "stopped"
                           /\ \/ run[t].pc \in {"exit", "exitlock", "exitnotify", "exited", "dead"}
                              \/ WillLook(t)
=============================================================================
