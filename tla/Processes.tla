------------------------------ MODULE Processes ------------------------------
(***************************************************************************)
(* kernel/sys.c: what processes may do to themselves and to each other -   *)
(* user and group ids, process groups and sessions, resource limits and    *)
(* priorities, the child subreaper - and the permission check of kill in   *)
(* kernel/signal.c.                                                        *)
(*                                                                         *)
(* A process has one thread, and its pid is its place in the table.  All   *)
(* capabilities go together.  A call that fails changes nothing and is no  *)
(* step.  The calls run under tasklist_lock or change only the caller.     *)
(* Two are not atomic: prlimit64 checks its permission under RCU and takes *)
(* the lock later, and prctl makes its caller a child subreaper without a  *)
(* lock and walks the tree later, with the lock held shared, so that other *)
(* walks and all calls that do not change the tree go on beside it.        *)
(***************************************************************************)
EXTENDS Integers, FiniteSets, Functions

CONSTANTS
    N,              \* the number of places in the process table
    Ids,            \* user and group ids; 0 is root
    Limits,         \* what is asked of the limits: pairs of a resource and a struct rlimit
    InitialLimits,  \* per resource: the limits the system starts with
    Priorities,     \* the arguments of setpriority
    sysctl_nr_open,
    Callers,        \* bound: the processes that make calls (init need only wait)
    MaxCalls,       \* bound: the number of calls that change something
    NULL

Pids == 1 .. N
init == 1
Keep == -1          \* the argument that leaves an id as it is
Resources == {"RLIMIT_CPU", "RLIMIT_NICE", "RLIMIT_NPROC", "RLIMIT_NOFILE"}
MIN_NICE == -20
MAX_NICE == 19

ASSUME ProcessesConstants ==
    /\ N \in Nat \ {0, 1} /\ {sysctl_nr_open, MaxCalls} \subseteq Nat
    /\ Ids \subseteq Nat /\ {0, 1} \subseteq Ids
    /\ \A l \in Limits : l \in Resources \X [cur : Nat, max : Nat]
    /\ InitialLimits \in [Resources -> [cur : Nat, max : Nat]]
    /\ \A r \in Resources : InitialLimits[r].cur <= InitialLimits[r].max
    /\ Priorities \subseteq Int
    /\ Callers \subseteq Pids /\ NULL \notin Pids

VARIABLES
    proc,       \* the process table
    prlimit,    \* per process: a call of prlimit64 that has passed its check, or NULL
    stored,     \* the processes between PR_SET_CHILD_SUBREAPER and its walk
    visit,      \* per process: the tasks its walk is still to visit; {} if it is not walking
    calls,      \* how many calls were made
    dropped,    \* history, per process: the id to which it gave up all others, or NULL
    trusted     \* history: the processes that had a capability or were changed by one that had

vars == <<proc, prlimit, stored, visit, calls, dropped, trusted>>

AllIds(id) == [r |-> id, e |-> id, s |-> id, fs |-> id]

NewProcess(id, parent, pid) ==
    [state |-> "running", stopped |-> FALSE, dying |-> FALSE, parent |-> parent,
     pgid |-> pid, sid |-> pid, leader |-> TRUE, forknoexec |-> FALSE,
     uid |-> AllIds(id), gid |-> AllIds(id), user |-> id, caps |-> IF id = 0 THEN "effective" ELSE "none",
     nproc_exceeded |-> FALSE, no_new_privs |-> FALSE, is_child_subreaper |-> FALSE,
     has_child_subreaper |-> FALSE, nice |-> 0, rlim |-> InitialLimits]

Free == [NewProcess(0, init, 0) EXCEPT !.state = "free", !.caps = "none", !.leader = FALSE]

\* init, and the login shell of user 1.
Init ==
    /\ proc = [p \in Pids |-> CASE p = init -> NewProcess(0, init, init)
                                [] p = 2 -> NewProcess(1, init, 2)
                                [] OTHER -> Free]
    /\ prlimit = [p \in Pids |-> NULL] /\ calls = 0
    /\ stored = {} /\ visit = [p \in Pids |-> {}]
    /\ dropped = [p \in Pids |-> NULL] /\ trusted = {init}

-----------------------------------------------------------------------------
Tasks == {p \in Pids : proc[p].state # "free"}       \* zombies too
Group(pgid) == {p \in Tasks : proc[p].pgid = pgid}
ns_capable(p) == proc[p].caps = "effective"

\* p runs, and is in no call.
Ready(p) ==
    /\ proc[p].state = "running" /\ ~proc[p].stopped
    /\ prlimit[p] = NULL /\ p \notin stored /\ visit[p] = {}

Call(p) ==
    /\ Ready(p)
    /\ p \in Callers /\ calls < MaxCalls /\ calls' = calls + 1

\* write_lock_irq(&tasklist_lock): no walk holds the lock.
write_lock == \A p \in Pids : visit[p] = {}

Change(p, new) == proc' = [proc EXCEPT ![p] = new]

-----------------------------------------------------------------------------
(* User and group ids.  The calls for groups test and set the ids as those  *)
(* for users do.                                                            *)

\* setreuid and setregid: swap real and effective, or drop the saved one.
re_permitted(old, cap, r, e) ==
    cap \/ (r \in {Keep, old.r, old.e} /\ e \in {Keep, old.r, old.e, old.s})

\* Mutated form: the saved id survives.
ReKeepsSaved(old, r, e) ==
    LET new == [old EXCEPT !.r = IF r = Keep THEN @ ELSE r, !.e = IF e = Keep THEN @ ELSE e]
    IN [new EXCEPT !.fs = new.e]

re_ids(old, r, e) ==
    LET new == [old EXCEPT !.r = IF r = Keep THEN @ ELSE r, !.e = IF e = Keep THEN @ ELSE e]
        saves == r # Keep \/ (e # Keep /\ e # old.r)
    IN [new EXCEPT !.s = IF saves THEN new.e ELSE @, !.fs = new.e]

\* setuid and setgid: a privileged caller sets all of them.
set_permitted(old, cap, id) == cap \/ id \in {old.r, old.s}
set_ids(old, cap, id) == IF cap THEN AllIds(id) ELSE [old EXCEPT !.e = id, !.fs = id]

\* setresuid and setresgid.
res_permitted(old, cap, r, e, s) == cap \/ {r, e, s} \subseteq {Keep, old.r, old.e, old.s}
res_ids(old, r, e, s) ==
    LET new == [old EXCEPT !.r = IF r = Keep THEN @ ELSE r, !.e = IF e = Keep THEN @ ELSE e,
                           !.s = IF s = Keep THEN @ ELSE s]
    IN [new EXCEPT !.fs = new.e]

\* setfsuid and setfsgid.
fs_permitted(old, cap, id) == id # old.fs /\ (cap \/ id \in {old.r, old.e, old.s})

\* cap_emulate_setxuid, behind security_task_fix_setuid.
FixCaps(caps, old, new) ==
    LET kept == IF 0 \in {old.r, old.e, old.s} /\ 0 \notin {new.r, new.e, new.s} THEN "none" ELSE caps
    IN IF old.e = 0 /\ new.e # 0 /\ kept = "effective" THEN "permitted"
       ELSE IF old.e # 0 /\ new.e = 0 /\ kept = "permitted" THEN "effective"
       ELSE kept

\* The process belongs to the user of its real uid.  An excess of RLIMIT_NPROC is
\* only noted, for execve.
set_user(task, uid) ==
    LET processes == Cardinality({q \in Tasks : proc[q].user = uid})
    IN [task EXCEPT !.user = uid,
                    !.nproc_exceeded = processes >= task.rlim["RLIMIT_NPROC"].cur /\ uid # 0]

\* A process gives up its ids when it asks for one id everywhere.
GivesUp(p, id, asked) == dropped' = [dropped EXCEPT ![p] = IF asked /\ id # 0 THEN id ELSE @]

\* commit_creds
CommitUids(p, new) ==
    LET old == proc[p]
        user == IF new.r = old.uid.r THEN old ELSE set_user(old, new.r)
    IN Change(p, [user EXCEPT !.uid = new, !.caps = FixCaps(@, old.uid, new)])

setreuid(p, r, e) ==
    /\ Call(p) /\ re_permitted(proc[p].uid, ns_capable(p), r, e)
    /\ CommitUids(p, re_ids(proc[p].uid, r, e))
    /\ GivesUp(p, e, r = e /\ r # Keep)
    /\ UNCHANGED <<prlimit, stored, visit, trusted>>

setuid(p, id) ==
    /\ Call(p) /\ set_permitted(proc[p].uid, ns_capable(p), id)
    /\ CommitUids(p, set_ids(proc[p].uid, ns_capable(p), id))
    /\ GivesUp(p, id, ns_capable(p))
    /\ UNCHANGED <<prlimit, stored, visit, trusted>>

setresuid(p, r, e, s) ==
    /\ Call(p) /\ res_permitted(proc[p].uid, ns_capable(p), r, e, s)
    /\ CommitUids(p, res_ids(proc[p].uid, r, e, s))
    /\ GivesUp(p, e, r = e /\ e = s /\ r # Keep)
    /\ UNCHANGED <<prlimit, stored, visit, trusted>>

setfsuid(p, id) ==
    /\ Call(p) /\ fs_permitted(proc[p].uid, ns_capable(p), id)
    /\ CommitUids(p, [proc[p].uid EXCEPT !.fs = id])
    /\ UNCHANGED <<prlimit, stored, visit, dropped, trusted>>

setregid(p, r, e) ==
    /\ Call(p) /\ re_permitted(proc[p].gid, ns_capable(p), r, e)
    /\ Change(p, [proc[p] EXCEPT !.gid = re_ids(@, r, e)])
    /\ UNCHANGED <<prlimit, stored, visit, dropped, trusted>>

setgid(p, id) ==
    /\ Call(p) /\ set_permitted(proc[p].gid, ns_capable(p), id)
    /\ Change(p, [proc[p] EXCEPT !.gid = set_ids(@, ns_capable(p), id)])
    /\ UNCHANGED <<prlimit, stored, visit, dropped, trusted>>

\* Mutated form: the saved group id is not tested.
SetresgidUntested(p, r, e, s) ==
    /\ Call(p) /\ res_permitted(proc[p].gid, ns_capable(p), r, e, Keep)
    /\ Change(p, [proc[p] EXCEPT !.gid = res_ids(@, r, e, s)])
    /\ UNCHANGED <<prlimit, stored, visit, dropped, trusted>>

setresgid(p, r, e, s) ==
    /\ Call(p) /\ res_permitted(proc[p].gid, ns_capable(p), r, e, s)
    /\ Change(p, [proc[p] EXCEPT !.gid = res_ids(@, r, e, s)])
    /\ UNCHANGED <<prlimit, stored, visit, dropped, trusted>>

setfsgid(p, id) ==
    /\ Call(p) /\ fs_permitted(proc[p].gid, ns_capable(p), id)
    /\ Change(p, [proc[p] EXCEPT !.gid.fs = id])
    /\ UNCHANGED <<prlimit, stored, visit, dropped, trusted>>
-----------------------------------------------------------------------------
(* Process groups and sessions *)

\* A new group, or a group of the session of the caller.
MayJoin(p, t, pgid) == pgid = t \/ \E g \in Group(pgid) : proc[g].sid = proc[p].sid

setpgid(p, pid, pgrp) ==
    LET t == IF pid = 0 THEN p ELSE pid
        pgid == IF pgrp = 0 THEN t ELSE pgrp
    IN /\ Call(p) /\ write_lock /\ t \in Tasks
       /\ IF proc[t].parent = p /\ t # p THEN proc[t].sid = proc[p].sid /\ proc[t].forknoexec ELSE t = p
       /\ ~proc[t].leader /\ MayJoin(p, t, pgid)
       /\ Change(t, [proc[t] EXCEPT !.pgid = pgid])
       /\ UNCHANGED <<prlimit, stored, visit, dropped, trusted>>

\* Mutated form: the group of the pid is not looked for.
GroupUnchecked(p) == TRUE

\* No group has the id of the new session.
NoGroupOf(p) == Group(p) = {}

setsid(p) ==
    /\ Call(p) /\ write_lock /\ ~proc[p].leader /\ NoGroupOf(p)
    /\ Change(p, [proc[p] EXCEPT !.leader = TRUE, !.sid = p, !.pgid = p])
    /\ UNCHANGED <<prlimit, stored, visit, dropped, trusted>>

-----------------------------------------------------------------------------
(* Priorities and limits *)

\* p changes the processes of targets; those a privileged one changes are marked.
Touch(p, targets) == trusted' = IF ns_capable(p) THEN trusted \cup targets ELSE trusted

set_one_prio_perm(p, t) ==
    proc[p].uid.e \in {proc[t].uid.r, proc[t].uid.e} \/ ns_capable(p)

nice_to_rlimit(nice) == MAX_NICE - nice + 1
can_nice(p, t, nice) == nice_to_rlimit(nice) <= proc[t].rlim["RLIMIT_NICE"].cur \/ ns_capable(p)

set_one_prio(p, t, nice) ==
    set_one_prio_perm(p, t) /\ (nice < proc[t].nice => can_nice(p, t, nice))

\* The processes that which and who name.
Named(p, which, who) ==
    CASE which = "PRIO_PROCESS" -> {IF who = 0 THEN p ELSE who} \cap Tasks
      [] which = "PRIO_PGRP" -> Group(IF who = 0 THEN proc[p].pgid ELSE who)
      [] which = "PRIO_USER" -> {t \in Tasks : proc[t].uid.r = IF who = 0 THEN proc[p].uid.r ELSE who}

\* Each process is set or refused by itself.
setpriority(p, which, who, niceval) ==
    LET nice == IF niceval < MIN_NICE THEN MIN_NICE ELSE IF niceval > MAX_NICE THEN MAX_NICE ELSE niceval
        set == {t \in Named(p, which, who) : set_one_prio(p, t, nice)}
    IN /\ Call(p) /\ set # {}
       /\ proc' = [t \in Pids |-> IF t \in set THEN [proc[t] EXCEPT !.nice = nice] ELSE proc[t]]
       /\ Touch(p, set)
       /\ UNCHANGED <<prlimit, stored, visit, dropped>>

\* An immediate expiry of RLIMIT_CPU is one second: zero means that none was set.
Stored(resource, new) == IF resource = "RLIMIT_CPU" /\ new.cur = 0 THEN [new EXCEPT !.cur = 1] ELSE new

may_prlimit(p, t, resource, new) ==
    /\ new.cur <= new.max /\ (resource = "RLIMIT_NOFILE" => new.max <= sysctl_nr_open)
    /\ new.max > proc[t].rlim[resource].max => ns_capable(p)

do_prlimit(p, t, resource, new) ==
    /\ may_prlimit(p, t, resource, new)
    /\ Change(t, [proc[t] EXCEPT !.rlim[resource] = Stored(resource, new)])
    /\ Touch(p, {t})

setrlimit(p, resource, new) ==
    /\ Call(p) /\ do_prlimit(p, p, resource, new)
    /\ UNCHANGED <<prlimit, stored, visit, dropped>>

check_prlimit_permission(p, t) ==
    \/ t = p \/ ns_capable(p)
    \/ /\ {proc[t].uid.r, proc[t].uid.e, proc[t].uid.s} = {proc[p].uid.r}
       /\ {proc[t].gid.r, proc[t].gid.e, proc[t].gid.s} = {proc[p].gid.r}

prlimit64(p, t, resource, new) ==
    /\ Call(p) /\ t \in Tasks /\ check_prlimit_permission(p, t)
    /\ prlimit' = [prlimit EXCEPT ![p] = [task |-> t, resource |-> resource, new |-> new]]
    /\ UNCHANGED <<proc, stored, visit, dropped, trusted>>

\* Mutated form: the hard limit is not looked at again.
FinishStale(p) ==
    LET c == prlimit[p]
    IN /\ c # NULL
       /\ prlimit' = [prlimit EXCEPT ![p] = NULL]
       /\ IF c.task # NULL
          THEN /\ Change(c.task, [proc[c.task] EXCEPT !.rlim[c.resource] = Stored(c.resource, c.new)])
               /\ Touch(p, {c.task})
          ELSE UNCHANGED <<proc, trusted>>
       /\ UNCHANGED <<stored, visit, calls, dropped>>

\* The task may have changed, or be gone, by now.
FinishPrlimit(p) ==
    LET c == prlimit[p]
    IN /\ c # NULL
       /\ prlimit' = [prlimit EXCEPT ![p] = NULL]
       /\ IF c.task # NULL /\ may_prlimit(p, c.task, c.resource, c.new)
          THEN do_prlimit(p, c.task, c.resource, c.new) ELSE UNCHANGED <<proc, trusted>>
       /\ UNCHANGED <<stored, visit, calls, dropped>>

-----------------------------------------------------------------------------
(* prctl *)

\* The parent, the parent's parent ...: what every set that has the parent of p, and
\* with a process its parent, must contain.
Ancestors(p) == {a \in Pids : \A S \in SUBSET Pids :
    proc[p].parent \in S /\ (\A t \in S : proc[t].parent \in S) => a \in S}

Children(p) == {t \in Tasks \ {init} : proc[t].parent = p}

\* The store, without a lock.
PR_SET_CHILD_SUBREAPER(p, on) ==
    /\ Call(p)
    /\ Change(p, [proc[p] EXCEPT !.is_child_subreaper = on])
    /\ stored' = IF on THEN stored \cup {p} ELSE stored
    /\ UNCHANGED <<prlimit, visit, dropped, trusted>>

\* read_lock(&tasklist_lock), and the start of the walk at the children of p.
walk_process_tree(p) ==
    /\ p \in stored
    /\ stored' = stored \ {p}
    /\ visit' = [visit EXCEPT ![p] = Children(p)]
    /\ UNCHANGED <<proc, prlimit, calls, dropped, trusted>>

\* Whether t is marked, and its children are visited.
propagate_has_child_subreaper(t) == ~proc[t].has_child_subreaper /\ t # init

\* Mutated form: the walk ends at the children.
VisitChildrenOnly(p, t) ==
    /\ t \in visit[p]
    /\ visit' = [visit EXCEPT ![p] = @ \ {t}]
    /\ IF propagate_has_child_subreaper(t)
       THEN Change(t, [proc[t] EXCEPT !.has_child_subreaper = TRUE]) ELSE proc' = proc
    /\ UNCHANGED <<prlimit, stored, calls, dropped, trusted>>

\* One turn of the walk of p, whichever comes first; the lock is given back after the last.
Visit(p, t) ==
    /\ t \in visit[p]
    /\ IF propagate_has_child_subreaper(t)
       THEN /\ Change(t, [proc[t] EXCEPT !.has_child_subreaper = TRUE])
            /\ visit' = [visit EXCEPT ![p] = (@ \ {t}) \cup Children(t)]
       ELSE /\ proc' = proc
            /\ visit' = [visit EXCEPT ![p] = @ \ {t}]
    /\ UNCHANGED <<prlimit, stored, calls, dropped, trusted>>

PR_SET_NO_NEW_PRIVS(p) ==
    /\ Call(p)
    /\ Change(p, [proc[p] EXCEPT !.no_new_privs = TRUE])
    /\ UNCHANGED <<prlimit, stored, visit, dropped, trusted>>

-----------------------------------------------------------------------------
(* kill *)

kill_ok_by_cred(p, t) ==
    \/ {proc[p].uid.e, proc[p].uid.r} \cap {proc[t].uid.s, proc[t].uid.r} # {}
    \/ ns_capable(p)

\* SIGCONT may be sent within a session.
check_kill_permission(p, sig, t) ==
    p = t \/ kill_ok_by_cred(p, t) \/ (sig = "SIGCONT" /\ proc[t].sid = proc[p].sid)

\* pid: a process, -1 for all but init and the caller, 0 or -pgid for a group.
Recipients(p, pid) ==
    IF pid > 0 THEN {pid} \cap Tasks
    ELSE IF pid = -1 THEN Tasks \ {init, p}
    ELSE Group(IF pid = 0 THEN proc[p].pgid ELSE -pid)

\* init is not killed or stopped.
Signalled(task, sig) ==
    CASE sig = "SIGKILL" -> [task EXCEPT !.dying = TRUE, !.stopped = FALSE]
      [] sig = "SIGSTOP" -> [task EXCEPT !.stopped = ~task.dying]
      [] sig = "SIGCONT" -> [task EXCEPT !.stopped = FALSE]

kill_something_info(p, sig, pid) ==
    LET sent == {t \in Recipients(p, pid) : check_kill_permission(p, sig, t)}
    IN /\ Call(p) /\ sent # {}
       /\ proc' = [t \in Pids |-> IF t \in sent \ {init} /\ proc[t].state = "running"
                                  THEN Signalled(proc[t], sig) ELSE proc[t]]
       /\ UNCHANGED <<prlimit, stored, visit, dropped, trusted>>

-----------------------------------------------------------------------------
(* fork, execve, exit and wait *)

FreePids == {c \in Pids \ Tasks : Group(c) = {} /\ \A t \in Tasks : proc[t].sid # c}

fork(p) ==
    /\ Call(p) /\ write_lock
    /\ \/ Cardinality({q \in Tasks : proc[q].user = proc[p].user}) < proc[p].rlim["RLIMIT_NPROC"].cur
       \/ proc[p].user = 0 \/ ns_capable(p)
    /\ \E c \in FreePids :
         LET parent == [proc[p] EXCEPT !.nproc_exceeded = FALSE]
             child == [parent EXCEPT !.parent = p, !.leader = FALSE, !.forknoexec = TRUE, !.dying = FALSE,
                                     !.has_child_subreaper = @ \/ proc[p].is_child_subreaper,
                                     !.is_child_subreaper = FALSE]
         IN /\ \A d \in FreePids : c <= d
            /\ proc' = [proc EXCEPT ![p] = parent, ![c] = child]
            /\ dropped' = [dropped EXCEPT ![c] = dropped[p]]
            /\ trusted' = IF p \in trusted THEN trusted \cup {c} ELSE trusted
    /\ UNCHANGED <<prlimit, stored, visit>>

\* owner: of a set-user-id program, or NULL.
execve(p, owner) ==
    LET old == proc[p]
        e == IF owner = NULL \/ old.no_new_privs THEN old.uid.e ELSE owner
        caps == IF e = 0 THEN "effective" ELSE IF old.uid.r = 0 THEN "permitted" ELSE "none"
    IN /\ Call(p)
       /\ old.nproc_exceeded =>
            Cardinality({q \in Tasks : proc[q].user = old.user}) <= old.rlim["RLIMIT_NPROC"].cur
       /\ Change(p, [old EXCEPT !.uid = [@ EXCEPT !.e = e, !.s = e, !.fs = e],
                                !.gid = [@ EXCEPT !.s = old.gid.e, !.fs = old.gid.e],
                                !.caps = caps, !.forknoexec = FALSE, !.nproc_exceeded = FALSE])
       /\ dropped' = [dropped EXCEPT ![p] = IF e = old.uid.e THEN @ ELSE NULL]
       /\ trusted' = IF caps = "none" THEN trusted ELSE trusted \cup {p}
       /\ UNCHANGED <<prlimit, stored, visit>>

\* find_new_reaper: the nearest subreaper that runs.
Reaper(p) ==
    LET reapers == {a \in Ancestors(p) : proc[a].is_child_subreaper /\ proc[a].state = "running"}
    IN IF proc[p].has_child_subreaper /\ reapers # {}
       THEN CHOOSE a \in reapers : reapers \subseteq {a} \cup Ancestors(a) ELSE init

do_exit(p) ==
    /\ p # init /\ Ready(p) /\ write_lock
    /\ IF proc[p].dying THEN UNCHANGED calls ELSE Call(p)
    /\ proc' = [t \in Pids |-> IF t = p THEN [proc[p] EXCEPT !.state = "zombie"]
                               ELSE IF t \in Tasks /\ proc[t].parent = p
                                    THEN [proc[t] EXCEPT !.parent = Reaper(p)]
                               ELSE proc[t]]
    /\ UNCHANGED <<prlimit, stored, visit, dropped, trusted>>

\* wait: the zombie leaves the table; a call of prlimit64 that holds it sees that.
release_task(p) ==
    /\ p # init /\ write_lock /\ proc[p].state = "zombie" /\ proc[proc[p].parent].state = "running"
    /\ proc' = [proc EXCEPT ![p] = Free]
    /\ prlimit' = [q \in Pids |-> IF prlimit[q] # NULL /\ prlimit[q].task = p
                                  THEN [prlimit[q] EXCEPT !.task = NULL] ELSE prlimit[q]]
    /\ dropped' = [dropped EXCEPT ![p] = NULL] /\ trusted' = trusted \ {p}
    /\ UNCHANGED <<stored, visit, calls>>

-----------------------------------------------------------------------------
Args == Ids \cup {Keep}

IdCall(p) ==
    \/ \E r, e \in Args : setreuid(p, r, e) \/ setregid(p, r, e)
    \/ \E r, e, s \in Args : setresuid(p, r, e, s) \/ setresgid(p, r, e, s)
    \/ \E id \in Ids : setuid(p, id) \/ setgid(p, id) \/ setfsuid(p, id) \/ setfsgid(p, id)

JobControl(p) ==
    \/ \E pid, pgid \in Pids \cup {0} : setpgid(p, pid, pgid)
    \/ setsid(p)
    \/ \E sig \in {"SIGKILL", "SIGSTOP", "SIGCONT"}, pid \in -N .. N : kill_something_info(p, sig, pid)

LimitCall(p) ==
    \/ \E which \in {"PRIO_PROCESS", "PRIO_PGRP", "PRIO_USER"}, who \in Pids \cup {0}, nice \in Priorities :
           setpriority(p, which, who, nice)
    \/ \E l \in Limits : setrlimit(p, l[1], l[2]) \/ \E t \in Pids : prlimit64(p, t, l[1], l[2])
    \/ FinishPrlimit(p)

Subreap(p) ==
    \/ \E on \in BOOLEAN : PR_SET_CHILD_SUBREAPER(p, on)
    \/ walk_process_tree(p)
    \/ \E t \in Pids : Visit(p, t)

Life(p) ==
    \/ Subreap(p)
    \/ PR_SET_NO_NEW_PRIVS(p)
    \/ fork(p) \/ do_exit(p) \/ release_task(p)
    \/ \E owner \in Ids \cup {NULL} : execve(p, owner)

Next == \E p \in Pids : IdCall(p) \/ JobControl(p) \/ LimitCall(p) \/ Life(p)

Spec == Init /\ [][Next]_vars
-----------------------------------------------------------------------------
(* Properties *)

UidsOf(task) == {task.uid.r, task.uid.e, task.uid.s}
GidsOf(task) == {task.gid.r, task.gid.e, task.gid.s}

\* A program that gives up its ids, by setreuid(u, u), setresuid(u, u, u) or, with
\* the capability, setuid(u), keeps no way back: no real, effective, saved or
\* file-system id and no capability, in it and in the processes it forks, until one
\* of them runs a set-user-id program; and the user it is counted for is its real uid.
DropIsComplete ==
    \A p \in Tasks : /\ proc[p].user = proc[p].uid.r
                     /\ dropped[p] # NULL => proc[p].uid = AllIds(dropped[p]) /\ proc[p].caps = "none"

\* After PR_SET_NO_NEW_PRIVS a process without the capability never gets an id that
\* it does not hold, whichever of the eight calls it makes or program it runs.
NoNewPrivileges ==
    [][\A p \in Tasks :
        proc[p].no_new_privs /\ proc[p].state = "running" /\ ~ns_capable(p) =>
            \/ proc'[p].state # "running"
            \/ /\ UidsOf(proc'[p]) \subseteq UidsOf(proc[p]) /\ GidsOf(proc'[p]) \subseteq GidsOf(proc[p])
               /\ proc'[p].uid.fs \in UidsOf(proc[p]) \cup {proc[p].uid.fs}
               /\ proc'[p].gid.fs \in GidsOf(proc[p]) \cup {proc[p].gid.fs}]_vars

\* The processes of a group are in one session, and a session leader leads a session
\* and a group of its own, however setpgid, setsid, fork, exit and the reuse of pids
\* follow each other.
SessionsAreSound ==
    \A p \in Tasks : /\ \A q \in Group(proc[p].pgid) : proc[q].sid = proc[p].sid
                     /\ proc[p].leader => proc[p].sid = p /\ proc[p].pgid = p

\* Without privilege limits only tighten: a process that never had a capability, and
\* that nobody with one has changed, is within the limits the system started with,
\* hard and soft, and its nice value within what RLIMIT_NICE allowed at best.  A soft
\* limit is within the hard one, but for the second that RLIMIT_CPU always gets.
LimitsHold ==
    \A p \in Tasks :
        LET rlim == proc[p].rlim
        IN /\ \A r \in Resources : rlim[r].cur <= rlim[r].max \/ (r = "RLIMIT_CPU" /\ rlim[r].cur = 1)
           /\ p \notin trusted =>
                /\ \A r \in Resources : rlim[r].max <= InitialLimits[r].max
                /\ proc[p].nice < 0 => nice_to_rlimit(proc[p].nice) <= InitialLimits["RLIMIT_NICE"].max

\* Nobody raises a hard limit without the capability at that moment: neither a process
\* its own by setrlimit, nor the caller of prlimit64 that of another, which may have
\* lowered it, or run another program, since prlimit64 checked its permission.
LimitsTighten ==
    [][\A p \in Tasks, r \in Resources :
        proc'[p].state # "free" /\ proc'[p].rlim[r].max > proc[p].rlim[r].max =>
            \/ ns_capable(p) /\ prlimit' = prlimit
            \/ \E q \in Pids : /\ prlimit[q] # NULL /\ prlimit[q].task = p /\ prlimit'[q] = NULL
                              /\ ns_capable(q)]_vars

\* Every descendant of a child subreaper whose prctl has started its walk knows that
\* it has one, or is below a walk that holds tasklist_lock, so that nothing can be
\* reparented before that walk has come to it: an orphan goes to the subreaper and
\* not to init.  A walk may turn back at a process that has the flag only because all
\* processes below it have it too, or another walk is on its way to them.  Between
\* the store and the walk an orphan may still go to init.
SubreaperSeesAll ==
    \A p \in Tasks \ {init} :
        (\E a \in Ancestors(p) \ stored : proc[a].is_child_subreaper) =>
            proc[p].has_child_subreaper \/ \E r \in Ancestors(p) : visit[r] # {}
===============================================================================
