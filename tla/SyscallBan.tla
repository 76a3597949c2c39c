----------------------------- MODULE SyscallBan -----------------------------
(***************************************************************************)
(* kernel/hw2.c: which of the calls getpid, pipe and kill a task may not   *)
(* make is kept in the field banned_signals of its task_struct.  The calls *)
(* of hw2.c take no lock: a read of another task's field, the write that   *)
(* follows and the step to the next ancestor are separate steps, between   *)
(* which other CPUs, or other tasks of a preemptible kernel, run.          *)
(*                                                                         *)
(* fork, exit, the reparenting of orphans and the RCU grace period after   *)
(* which a task_struct is freed belong to the rest of the kernel.  hw2.c   *)
(* never calls rcu_read_lock: a call under way holds up the grace period   *)
(* only in a kernel that does not preempt system calls.                    *)
(***************************************************************************)
EXTENDS Naturals, FiniteSets

CONSTANTS
    Tasks,       \* the task_structs there is memory for
    Swapper,     \* init_task, its own parent
    Reaper,      \* process 1, the parent of orphans
    Preemptible, \* CONFIG_PREEMPT: grace periods wait only for rcu_read_lock
    Bans,        \* the calls that can be banned: 'g', 'p', 'k'
    MaxHeight,   \* bound: the largest height passed to flip_ban_branch
    MaxCalls     \* bound: the calls of hw2.c under way at one time

ASSUME BanConstants ==
    /\ Swapper \in Tasks /\ Reaper \in Tasks \ {Swapper}
    /\ Bans \subseteq {"g", "p", "k"} /\ Preemptible \in BOOLEAN
    /\ MaxHeight \in Nat /\ MaxCalls \in Nat

VARIABLES
    banned_signals,  \* per task, the set of banned calls
    real_parent, tgid,
    euid0,           \* the tasks whose effective user is root
    status,          \* "live", "released" (waits for its grace period), "free"
    grace,           \* per released task, the calls its grace period waits for
    call             \* per task, the call of hw2.c it is in

treeVars == <<real_parent, tgid, euid0, status, grace>>
banVars == <<banned_signals, treeVars, call>>

\* at is the task_struct the call has reached, reg what it read there; seen,
\* again, alone and goal are history: the tasks written to, whether one was
\* twice, whether nothing else ran, and what all bans should then become.
NoCall == [pc |-> "idle", ban |-> "none", at |-> Swapper, height |-> 0, reg |-> {},
         todo |-> {}, count |-> 0, seen |-> {}, again |-> FALSE, alone |-> FALSE, goal |-> {}]

InCall == {t \in Tasks : call[t].pc # "idle"}
Live   == {t \in Tasks : status[t] = "live"}

\* Calls under way are no longer alone.
Disturb == [t \in Tasks |-> [call[t] EXCEPT !.alone = FALSE, !.goal = {}]]

BanInit ==
    /\ banned_signals = [t \in Tasks |-> {}]
    /\ real_parent = [t \in Tasks |-> Swapper]
    /\ tgid = [t \in Tasks |-> t]
    /\ euid0 = {Swapper, Reaper}
    /\ status = [t \in Tasks |-> IF t \in {Swapper, Reaper} THEN "live" ELSE "free"]
    /\ grace = [t \in Tasks |-> {}]
    /\ call = [t \in Tasks |-> NoCall]

Enter(t, c) ==
    /\ status[t] = "live" /\ call[t].pc = "idle" /\ t # Swapper
    /\ Cardinality(InCall) < MaxCalls
    /\ call' = [Disturb EXCEPT ![t] = c]
    /\ UNCHANGED <<banned_signals, treeVars>>

\* Grace periods stop waiting for a call that ends.
Return(t) ==
    /\ call' = [call EXCEPT ![t] = NoCall]
    /\ grace' = [u \in Tasks |-> grace[u] \ {t}]
    /\ UNCHANGED <<banned_signals, real_parent, tgid, euid0, status>>

-----------------------------------------------------------------------------
(* The rest of the kernel. *)

\* The child's task_struct is a copy of its parent's; a thread shares the
\* parent and the group of the task that creates it.
Fork(p, c, thread) ==
    /\ status[p] = "live" /\ call[p].pc = "idle" /\ p # Swapper
    /\ status[c] = "free"
    /\ status' = [status EXCEPT ![c] = "live"]
    /\ banned_signals' = [banned_signals EXCEPT ![c] = banned_signals[p]]
    /\ real_parent' = [real_parent EXCEPT ![c] = IF thread THEN real_parent[p] ELSE p]
    /\ tgid' = [tgid EXCEPT ![c] = IF thread THEN tgid[p] ELSE c]
    /\ euid0' = IF p \in euid0 THEN euid0 \cup {c} ELSE euid0
    /\ call' = Disturb
    /\ UNCHANGED grace

OtherThreads(u) == {v \in Live \ {u} : tgid[v] = tgid[u]}

\* A task ends: its children go to another thread of its group, or to process 1,
\* and the tables no longer lead to it.  A child that was released before is on
\* no list of children any more and keeps the parent it had.
Exit(u) ==
    /\ status[u] = "live" /\ u \notin {Swapper, Reaper}
    /\ tgid[u] = u => OtherThreads(u) = {}
    /\ \E heir \in IF OtherThreads(u) = {} THEN {Reaper} ELSE OtherThreads(u) :
         real_parent' = [c \in Tasks |-> IF real_parent[c] = u /\ status[c] = "live"
                                            THEN heir ELSE real_parent[c]]
    /\ status' = [status EXCEPT ![u] = "released"]
    /\ grace' = [grace EXCEPT ![u] = IF Preemptible THEN {} ELSE InCall]
    /\ call' = Disturb
    /\ UNCHANGED <<banned_signals, tgid, euid0>>

\* setuid(uid) of a task that is root, to a user that is not.
DropRoot(t) ==
    /\ status[t] = "live" /\ call[t].pc = "idle" /\ t \in euid0 \ {Swapper, Reaper}
    /\ euid0' = euid0 \ {t}
    /\ UNCHANGED <<banned_signals, real_parent, tgid, status, grace, call>>

exit(u) == call[u].pc = "idle" /\ Exit(u)

\* delayed_put_task_struct, after the grace period.  What the memory holds from
\* here on says nothing.
Free(u) ==
    /\ status[u] = "released"
    /\ grace[u] = {}
    /\ status' = [status EXCEPT ![u] = "free"]
    /\ grace' = [grace EXCEPT ![u] = {}]
    /\ banned_signals' = [banned_signals EXCEPT ![u] = {}]
    /\ real_parent' = [real_parent EXCEPT ![u] = Swapper]
    /\ tgid' = [tgid EXCEPT ![u] = u]
    /\ euid0' = euid0 \ {u}
    /\ UNCHANGED call

-----------------------------------------------------------------------------
(* The calls of hw2.c.  A call that returns an error at once changes nothing. *)

sys_get_ban(t, ban) == ban \in banned_signals[t]

\* sys_kill tests the ban first; the signal ends its target.
sys_kill(t, u) ==
    /\ status[t] = "live" /\ call[t].pc = "idle"
    /\ ~sys_get_ban(t, "k")
    /\ u # t /\ exit(u)

sys_set_ban(t, bans) ==
    /\ t \in euid0
    /\ Enter(t, [NoCall EXCEPT !.pc = "clear", !.at = t, !.todo = bans])

\* current->banned_signals = 0
ClearBans(t) ==
    /\ call[t].pc = "clear"
    /\ banned_signals' = [banned_signals EXCEPT ![t] = {}]
    /\ call' = [call EXCEPT ![t].pc = "add"]
    /\ UNCHANGED treeVars

\* The next |= of sys_set_ban: its read, or its return when there is none left.
LoadOwn(t) ==
    /\ call[t].pc = "add"
    /\ \/ call[t].todo = {} /\ Return(t)
       \/ \E b \in call[t].todo :
            /\ call' = [call EXCEPT ![t].pc = "or", ![t].ban = b, ![t].reg = banned_signals[t],
                                    ![t].todo = @ \ {b}]
            /\ UNCHANGED <<banned_signals, treeVars>>

OrBan(t) ==
    /\ call[t].pc = "or"
    /\ banned_signals' = [banned_signals EXCEPT ![t] = call[t].reg \cup {call[t].ban}]
    /\ call' = [call EXCEPT ![t].pc = "add", ![t].reg = {}, ![t].ban = "none"]
    /\ UNCHANGED treeVars

\* Mutated form: the table still leads to tasks that were released.
CheckBanOfReleased(t, other, ban) ==
    /\ status[other] # "free" /\ ~sys_get_ban(t, ban)
    /\ Enter(t, [NoCall EXCEPT !.pc = "check", !.at = other, !.ban = ban])

\* find_task_by_vpid found other, and the caller is not banned itself.
sys_check_ban(t, other, ban) ==
    /\ status[other] = "live" /\ ~sys_get_ban(t, ban)
    /\ Enter(t, [NoCall EXCEPT !.pc = "check", !.at = other, !.ban = ban])

\* other->banned_signals is read, and the call returns.
ReadOther(t) == call[t].pc = "check" /\ Return(t)

\* The tasks above t: height of them, or as many as there are.
Branch(t, height) ==
    LET up[i \in 0 .. height] == IF i = 0 THEN t ELSE real_parent[up[i - 1]]
    IN  {up[i] : i \in 1 .. height}

\* The bans of all tasks, and those after a flip of one ban in a branch.
AllBans == {x \in Tasks \X Bans : x[2] \in banned_signals[x[1]]}
Flipped(branch, ban) ==
    LET flip == branch \X {ban} IN (AllBans \ flip) \cup (flip \ AllBans)

sys_flip_ban_branch(t, height, ban) ==
    /\ height > 0 /\ ~sys_get_ban(t, ban)
    /\ Enter(t, [NoCall EXCEPT !.pc = "load", !.ban = ban, !.at = real_parent[t], !.height = height,
                             !.alone = (InCall = {}),
                             !.goal = IF InCall = {} THEN Flipped(Branch(t, height), ban) ELSE {}])

\* The ancestor's field is read for the test.
LoadBan(t) ==
    /\ call[t].pc = "load"
    /\ call' = [call EXCEPT ![t].pc = "store", ![t].reg = banned_signals[call[t].at]]
    /\ UNCHANGED <<banned_signals, treeVars>>

\* It is written.  The compiler may use the value read for the test, or read the
\* field again.
FlipBan(t) ==
    LET c == call[t] IN
    /\ c.pc = "store"
    /\ \E old \in {c.reg, banned_signals[c.at]} :
         banned_signals' = [banned_signals EXCEPT ![c.at] =
             IF c.ban \in c.reg THEN old \ {c.ban} ELSE old \cup {c.ban}]
    /\ call' = [call EXCEPT ![t].pc = "next", ![t].reg = {},
                            ![t].count = IF c.ban \in c.reg THEN @ ELSE @ + 1,
                            ![t].seen = @ \cup {c.at}, ![t].again = @ \/ c.at \in c.seen]
    /\ UNCHANGED treeVars

IsRoot(u) == u = real_parent[u]

\* Mutated form: one ancestor too many.
LastByHeight(h) == h = 0

LastOfBranch(h) == h = 1

NextUp(t) == real_parent[call[t].at]

\* The walk ends at the root or at the given height, or moves up.
MoveUp(t) ==
    LET c == call[t] IN
    /\ c.pc = "next"
    /\ \/ /\ IsRoot(c.at) \/ LastOfBranch(c.height)
          /\ call' = [call EXCEPT ![t].pc = "done"]
       \/ /\ ~(IsRoot(c.at) \/ LastOfBranch(c.height))
          /\ call' = [call EXCEPT ![t].pc = "load", ![t].at = NextUp(t), ![t].height = @ - 1]
    /\ UNCHANGED <<banned_signals, treeVars>>

\* return count
FlipReturns(t) == call[t].pc = "done" /\ Return(t)

-----------------------------------------------------------------------------
Step(t) ==
    \/ ClearBans(t) \/ LoadOwn(t) \/ OrBan(t) \/ ReadOther(t)
    \/ LoadBan(t) \/ FlipBan(t) \/ MoveUp(t) \/ FlipReturns(t)

BanNext ==
    \/ \E p, c \in Tasks, thread \in BOOLEAN : Fork(p, c, thread)
    \/ \E u \in Tasks : exit(u) \/ Free(u) \/ DropRoot(u)
    \/ \E t, u \in Tasks : sys_kill(t, u)
    \/ \E t \in Tasks, bans \in SUBSET Bans : sys_set_ban(t, bans)
    \/ \E t, other \in Tasks, ban \in Bans : sys_check_ban(t, other, ban)
    \/ \E t \in Tasks, height \in 1 .. MaxHeight, ban \in Bans : sys_flip_ban_branch(t, height, ban)
    \/ \E t \in Tasks : Step(t)

BanSpec == BanInit /\ [][BanNext]_banVars

-----------------------------------------------------------------------------
(* Properties *)

\* The walk has written to no task twice and not to its caller.
VisitsOnce(t) == ~call[t].again /\ t \notin call[t].seen

\* Whoever exits and is reparented while flip_ban_branch walks up, VisitsOnce holds; a
\* flip that nothing interrupts inverts the ban of the height nearest ancestors
\* and of no other task, the root of the tree once however large the height
\* is, and returns how many of them it has banned.
FlipExact == \A t \in Tasks :
    /\ VisitsOnce(t)
    /\ call[t].pc = "done" /\ call[t].alone =>
      /\ \A u \in Live, b \in Bans : b \in banned_signals[u] <=> <<u, b>> \in call[t].goal
      /\ call[t].count = Cardinality({u \in call[t].seen : call[t].ban \in banned_signals[u]})

\* "we can use a stale value of ->real_parent under rcu_read_lock()" (sys.c): a
\* call of hw2.c follows real_parent, or a task it looked up, only while the
\* task_struct is not freed.  The calls do not take rcu_read_lock, so this rests
\* on a kernel that is not preemptible; in one that is, it fails.
FollowsLiveTasks ==
    \A t \in Tasks : call[t].pc \in {"check", "load", "store", "next"} => status[call[t].at] # "free"

\* "Supports updating syscall-ban behavior across a process branch" (README):
\* a flip of one restriction keeps the others.
KeepsOtherBans ==
    [][\A t, u \in Tasks, b \in Bans :
         call[t].pc = "store" /\ call'[t].pc = "next" /\ call[t].at = u /\ b # call[t].ban
           => (b \in banned_signals'[u] <=> b \in banned_signals[u])]_banVars
=============================================================================
