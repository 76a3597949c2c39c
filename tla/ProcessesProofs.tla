--------------------------- MODULE ProcessesProofs ---------------------------
(***************************************************************************)
(* What Processes promises, for any number of processes, any ids, limits   *)
(* and priorities, and calls of any length; and, at the end, what the      *)
(* shell of Smash promises of its own processes, its children, for any     *)
(* number of them and any commands.                                        *)
(***************************************************************************)
EXTENDS Processes, Smash, FiniteSums, SequenceTheorems, TLAPS

IdRecord == [r : Ids, e : Ids, s : Ids, fs : Ids]
Limit == [cur : Nat, max : Nat]

Task == [state : {"running", "zombie", "free"}, stopped : BOOLEAN, dying : BOOLEAN, parent : Pids,
         pgid : 0 .. N, sid : 0 .. N, leader : BOOLEAN, forknoexec : BOOLEAN,
         uid : IdRecord, gid : IdRecord, user : Ids, caps : {"none", "permitted", "effective"},
         nproc_exceeded : BOOLEAN, no_new_privs : BOOLEAN, is_child_subreaper : BOOLEAN,
         has_child_subreaper : BOOLEAN, nice : Int, rlim : [Resources -> Limit]]

PrlimitCall == [task : Pids \cup {NULL}, resource : Resources, new : Limit]

TypeOK ==
    /\ proc \in [Pids -> Task]
    /\ prlimit \in [Pids -> PrlimitCall \cup {NULL}]
    /\ stored \in SUBSET Pids
    /\ visit \in [Pids -> SUBSET Pids]
    /\ calls \in Nat
    /\ dropped \in [Pids -> Ids \cup {NULL}]
    /\ trusted \in SUBSET Pids

-----------------------------------------------------------------------------
(* The ids a call computes *)

LEMMA ReType ==
    ASSUME NEW old \in IdRecord, NEW r \in Args, NEW e \in Args
    PROVE  re_ids(old, r, e) \in IdRecord
BY DEF re_ids, IdRecord, Args

LEMMA ResType ==
    ASSUME NEW old \in IdRecord, NEW r \in Args, NEW e \in Args, NEW s \in Args
    PROVE  res_ids(old, r, e, s) \in IdRecord
BY DEF res_ids, IdRecord, Args

LEMMA SetType ==
    ASSUME NEW old \in IdRecord, NEW id \in Ids, NEW cap
    PROVE  set_ids(old, cap, id) \in IdRecord /\ [old EXCEPT !.fs = id] \in IdRecord
BY DEF set_ids, AllIds, IdRecord

LEMMA CapsType ==
    ASSUME NEW caps \in {"none", "permitted", "effective"}, NEW old, NEW new
    PROVE  FixCaps(caps, old, new) \in {"none", "permitted", "effective"}
BY DEF FixCaps

CapSets == {"none", "permitted", "effective"}

CommittedAs(p, new, user, exceeded, caps) ==
    /\ proc' = [proc EXCEPT ![p] = [proc[p] EXCEPT !.uid = new, !.user = user, !.caps = caps,
                                                  !.nproc_exceeded = exceeded]]
    /\ caps = FixCaps(proc[p].caps, proc[p].uid, new)
    /\ user = new.r \/ (new.r = proc[p].uid.r /\ user = proc[p].user)

\* commit_creds sets the ids of the caller, its user and its capabilities, and
\* leaves the rest of it alone.
LEMMA Committed ==
    ASSUME TypeOK, NEW p \in Pids, NEW new \in IdRecord, CommitUids(p, new)
    PROVE  /\ proc' \in [Pids -> Task]
           /\ \E user \in Ids, exceeded \in BOOLEAN, caps \in CapSets :
                CommittedAs(p, new, user, exceeded, caps)
<1> DEFINE old == proc[p]
<1>1. old \in Task /\ old.uid \in IdRecord
  BY DEF TypeOK, Task
<1> DEFINE caps == FixCaps(old.caps, old.uid, new)
<1>2. caps \in {"none", "permitted", "effective"}
  BY <1>1, CapsType DEF Task
<1>3. PICK user \in Ids, exceeded \in BOOLEAN :
        /\ proc' = [proc EXCEPT ![p] = [old EXCEPT !.uid = new, !.user = user, !.caps = caps,
                                                  !.nproc_exceeded = exceeded]]
        /\ user = new.r \/ (new.r = old.uid.r /\ user = old.user)
  <2>1. CASE new.r = old.uid.r
    <3>1. proc' = [proc EXCEPT ![p] = [old EXCEPT !.uid = new, !.caps = caps]]
      BY <2>1 DEF CommitUids, Change
    <3>2. [old EXCEPT !.uid = new, !.caps = caps]
            = [old EXCEPT !.uid = new, !.user = old.user, !.caps = caps, !.nproc_exceeded = old.nproc_exceeded]
      BY <1>1 DEF Task
    <3> QED
      BY <1>1, <2>1, <3>1, <3>2 DEF Task
  <2>2. CASE new.r # old.uid.r
    <3> DEFINE exceeded == Cardinality({q \in Tasks : proc[q].user = new.r}) >= old.rlim["RLIMIT_NPROC"].cur
                             /\ new.r # 0
    <3>1. set_user(old, new.r) = [old EXCEPT !.user = new.r, !.nproc_exceeded = exceeded]
      BY DEF set_user
    <3> HIDE DEF exceeded
    <3>2. proc' = [proc EXCEPT ![p] = [set_user(old, new.r) EXCEPT !.uid = new, !.caps = FixCaps(@, old.uid, new)]]
      BY <2>2 DEF CommitUids, Change
    <3>3. [set_user(old, new.r) EXCEPT !.uid = new, !.caps = FixCaps(@, old.uid, new)]
            = [old EXCEPT !.uid = new, !.user = new.r, !.caps = caps, !.nproc_exceeded = exceeded]
      BY <1>1, <3>1 DEF Task
    <3>4. new.r \in Ids /\ exceeded \in BOOLEAN
      BY DEF IdRecord, exceeded
    <3> QED
      BY <3>2, <3>3, <3>4
  <2> QED
    BY <2>1, <2>2
<1>4. proc' \in [Pids -> Task]
  BY <1>1, <1>2, <1>3 DEF TypeOK, Task
<1>5. CommittedAs(p, new, user, exceeded, caps)
  BY <1>3 DEF CommittedAs
<1> QED
  BY <1>2, <1>4, <1>5 DEF CapSets

-----------------------------------------------------------------------------
(* Types *)

LEMMA FreeType ==
    /\ Free \in Task
    /\ \A id \in {0, 1}, parent \in Pids, pid \in 0 .. N : NewProcess(id, parent, pid) \in Task
<1>1. /\ N \in Nat \ {0, 1} /\ 0 \in Ids /\ 1 \in Ids /\ init \in Pids
      /\ InitialLimits \in [Resources -> Limit]
  BY ProcessesConstants DEF Limit, Pids, init
<1>2. \A id \in Ids : AllIds(id) \in IdRecord
  BY DEF AllIds, IdRecord
<1>3. \A id \in {0, 1}, parent \in Pids, pid \in 0 .. N : NewProcess(id, parent, pid) \in Task
  BY <1>1, <1>2 DEF NewProcess, Task
<1>4. NewProcess(0, init, 0) \in Task
  BY <1>1, <1>3
<1>5. Free \in Task
  BY <1>4 DEF Free, Task
<1> QED
  BY <1>3, <1>5

LEMMA TypeInit == Init => TypeOK
<1> SUFFICES ASSUME Init PROVE TypeOK
  OBVIOUS
<1>1. /\ init \in Pids /\ 2 \in Pids /\ Pids \subseteq 0 .. N
  BY ProcessesConstants DEF Pids, init
<1>2. proc \in [Pids -> Task]
  <2>1. \A p \in Pids : (CASE p = init -> NewProcess(0, init, init)
                           [] p = 2 -> NewProcess(1, init, 2)
                           [] OTHER -> Free) \in Task
    <3> TAKE p \in Pids
    <3>1. CASE p = init
      BY <1>1, <3>1, FreeType
    <3>2. CASE p # init /\ p = 2
      BY <1>1, <3>2, FreeType DEF init
    <3>3. CASE p # init /\ p # 2
      BY <3>3, FreeType
    <3> QED
      BY <3>1, <3>2, <3>3
  <2> QED
    BY <2>1 DEF Init
<1> QED
  BY <1>1, <1>2 DEF Init, TypeOK

LEMMA IdCallTypes ==
    ASSUME TypeOK, NEW p \in Pids, IdCall(p)
    PROVE  TypeOK'
<1>1. proc[p] \in Task /\ proc[p].uid \in IdRecord /\ proc[p].gid \in IdRecord
  BY DEF TypeOK, Task
<1>2. ASSUME NEW uid \in IdRecord, CommitUids(p, uid), calls' = calls + 1, UNCHANGED <<prlimit, stored, visit, trusted>>,
             dropped' \in [Pids -> Ids \cup {NULL}]
      PROVE  TypeOK'
  <2>1. proc' \in [Pids -> Task]
    BY <1>2, Committed
  <2> QED
    BY <1>2, <2>1 DEF TypeOK
<1>3. ASSUME NEW gid \in IdRecord, Change(p, [proc[p] EXCEPT !.gid = gid]), calls' = calls + 1,
             UNCHANGED <<prlimit, stored, visit, dropped, trusted>>
      PROVE  TypeOK'
  BY <1>1, <1>3 DEF TypeOK, Change, Task
<1>4. ASSUME NEW r \in Args, NEW e \in Args, setreuid(p, r, e)
      PROVE  TypeOK'
  <2>1. re_ids(proc[p].uid, r, e) \in IdRecord
    BY <1>1, ReType
  <2>2. dropped' \in [Pids -> Ids \cup {NULL}]
    BY <1>4 DEF setreuid, GivesUp, TypeOK, Args
  <2> QED
    BY <1>2, <1>4, <2>1, <2>2 DEF setreuid, Call, Ready
<1>5. ASSUME NEW r \in Args, NEW e \in Args, setregid(p, r, e)
      PROVE  TypeOK'
  <2>1. re_ids(proc[p].gid, r, e) \in IdRecord
    BY <1>1, ReType
  <2> QED
    BY <1>3, <1>5, <2>1 DEF setregid, Call, Ready
<1>6. ASSUME NEW r \in Args, NEW e \in Args, NEW s \in Args, setresuid(p, r, e, s)
      PROVE  TypeOK'
  <2>1. res_ids(proc[p].uid, r, e, s) \in IdRecord
    BY <1>1, ResType
  <2>2. dropped' \in [Pids -> Ids \cup {NULL}]
    BY <1>6 DEF setresuid, GivesUp, TypeOK, Args
  <2> QED
    BY <1>2, <1>6, <2>1, <2>2 DEF setresuid, Call, Ready
<1>7. ASSUME NEW r \in Args, NEW e \in Args, NEW s \in Args, setresgid(p, r, e, s)
      PROVE  TypeOK'
  <2>1. res_ids(proc[p].gid, r, e, s) \in IdRecord
    BY <1>1, ResType
  <2> QED
    BY <1>3, <1>7, <2>1 DEF setresgid, Call, Ready
<1>8. ASSUME NEW id \in Ids, setuid(p, id)
      PROVE  TypeOK'
  <2>1. set_ids(proc[p].uid, ns_capable(p), id) \in IdRecord
    BY <1>1, SetType
  <2>2. dropped' \in [Pids -> Ids \cup {NULL}]
    BY <1>8 DEF setuid, GivesUp, TypeOK
  <2> QED
    BY <1>2, <1>8, <2>1, <2>2 DEF setuid, Call, Ready
<1>9. ASSUME NEW id \in Ids, setgid(p, id)
      PROVE  TypeOK'
  <2>1. set_ids(proc[p].gid, ns_capable(p), id) \in IdRecord
    BY <1>1, SetType
  <2> QED
    BY <1>3, <1>9, <2>1 DEF setgid, Call, Ready
<1>10. ASSUME NEW id \in Ids, setfsuid(p, id)
      PROVE  TypeOK'
  <2>1. [proc[p].uid EXCEPT !.fs = id] \in IdRecord
    BY <1>1, SetType
  <2>2. dropped' \in [Pids -> Ids \cup {NULL}]
    BY <1>10 DEF setfsuid, TypeOK
  <2> QED
    BY <1>2, <1>10, <2>1, <2>2 DEF setfsuid, Call, Ready
<1>11. ASSUME NEW id \in Ids, setfsgid(p, id)
      PROVE  TypeOK'
  <2>1. [proc[p] EXCEPT !.gid.fs = id] = [proc[p] EXCEPT !.gid = [proc[p].gid EXCEPT !.fs = id]]
    BY <1>1 DEF Task
  <2>2. [proc[p].gid EXCEPT !.fs = id] \in IdRecord
    BY <1>1, SetType
  <2> QED
    BY <1>3, <1>11, <2>1, <2>2 DEF setfsgid, Call, Ready
<1> QED
  BY <1>4, <1>5, <1>6, <1>7, <1>8, <1>9, <1>10, <1>11 DEF IdCall

\* A step that changes some fields of some processes.
LEMMA JobControlTypes ==
    ASSUME TypeOK, NEW p \in Pids, JobControl(p)
    PROVE  TypeOK'
<1>1. N \in Nat /\ Pids = 1 .. N
  BY ProcessesConstants DEF Pids
<1>2. ASSUME NEW pid \in Pids \cup {0}, NEW pgrp \in Pids \cup {0}, setpgid(p, pid, pgrp)
      PROVE  TypeOK'
  <2> DEFINE t == IF pid = 0 THEN p ELSE pid
             pgid == IF pgrp = 0 THEN t ELSE pgrp
  <2>1. t \in Pids /\ pgid \in 0 .. N
    BY <1>1
  <2>3. Change(t, [proc[t] EXCEPT !.pgid = pgid])
    BY <1>2 DEF setpgid
  <2> HIDE DEF t, pgid
  <2>4. proc \in [Pids -> Task]
    BY DEF TypeOK
  <2>2. proc' \in [Pids -> Task]
    BY <2>1, <2>3, <2>4 DEF Change, Task
  <2> QED
    BY <1>2, <2>2 DEF setpgid, Call, Ready, TypeOK
<1>3. CASE setsid(p)
  <2>1. p \in 0 .. N /\ proc[p] \in Task
    BY <1>1 DEF TypeOK
  <2>2. [proc[p] EXCEPT !.leader = TRUE, !.sid = p, !.pgid = p] \in Task
    BY <2>1 DEF Task
  <2> QED
    BY <1>3, <2>2 DEF setsid, Change, Call, Ready, TypeOK
<1>4. ASSUME NEW sig \in {"SIGKILL", "SIGSTOP", "SIGCONT"}, NEW pid \in -N .. N,
             kill_something_info(p, sig, pid)
      PROVE  TypeOK'
  <2>1. \A t \in Pids : Signalled(proc[t], sig) \in Task
    <3>1. ASSUME NEW task \in Task
          PROVE  /\ [task EXCEPT !.dying = TRUE, !.stopped = FALSE] \in Task
                 /\ [task EXCEPT !.stopped = ~task.dying] \in Task
                 /\ [task EXCEPT !.stopped = FALSE] \in Task
      BY DEF Task
    <3>2. ASSUME NEW task \in Task
          PROVE  Signalled(task, sig) \in Task
      <4>1. CASE sig = "SIGKILL"
        BY <3>1, <4>1 DEF Signalled
      <4>2. CASE sig = "SIGSTOP"
        BY <3>1, <4>2 DEF Signalled
      <4>3. CASE sig = "SIGCONT"
        BY <3>1, <4>3 DEF Signalled
      <4> QED
        BY <4>1, <4>2, <4>3
    <3> QED
      BY <3>2 DEF TypeOK
  <2>2. proc' \in [Pids -> Task]
    BY <1>4, <2>1 DEF kill_something_info, TypeOK
  <2> QED
    BY <1>4, <2>2 DEF kill_something_info, Call, Ready, TypeOK
<1> QED
  BY <1>2, <1>3, <1>4 DEF JobControl

LEMMA PrlimitTypes ==
    ASSUME TypeOK, NEW p \in Pids, NEW t \in Pids, NEW resource \in Resources, NEW new \in Limit,
           do_prlimit(p, t, resource, new)
    PROVE  proc' \in [Pids -> Task] /\ trusted' \in SUBSET Pids
<1>1. Stored(resource, new) \in Limit
  BY DEF Stored, Limit
<1>2. proc[t] \in Task /\ proc[t].rlim \in [Resources -> Limit]
  BY DEF TypeOK, Task
<1>3. [proc[t].rlim EXCEPT ![resource] = Stored(resource, new)] \in [Resources -> Limit]
  BY <1>1, <1>2
<1>4. [proc[t] EXCEPT !.rlim[resource] = Stored(resource, new)] \in Task
  BY <1>2, <1>3 DEF Task
<1> QED
  BY <1>4 DEF do_prlimit, Change, Touch, TypeOK

LEMMA LimitCallTypes ==
    ASSUME TypeOK, NEW p \in Pids, LimitCall(p)
    PROVE  TypeOK'
<1>1. ASSUME NEW which \in {"PRIO_PROCESS", "PRIO_PGRP", "PRIO_USER"}, NEW who \in Pids \cup {0},
             NEW niceval \in Priorities, setpriority(p, which, who, niceval)
      PROVE  TypeOK'
  <2> DEFINE nice == IF niceval < MIN_NICE THEN MIN_NICE ELSE IF niceval > MAX_NICE THEN MAX_NICE ELSE niceval
             set == {t \in Named(p, which, who) : set_one_prio(p, t, nice)}
  <2>1. nice \in Int
    BY ProcessesConstants DEF MIN_NICE, MAX_NICE
  <2> HIDE DEF nice
  <2>2. \A t \in Pids : [proc[t] EXCEPT !.nice = nice] \in Task
    BY <2>1 DEF TypeOK, Task
  <2>3. proc' \in [Pids -> Task]
    BY <1>1, <2>2 DEF setpriority, nice, TypeOK
  <2>4. set \subseteq Pids
    BY DEF Named, Tasks, Group
  <2>5. trusted' \in SUBSET Pids
    BY <1>1, <2>4 DEF setpriority, nice, Touch, TypeOK
  <2> QED
    BY <1>1, <2>3, <2>5 DEF setpriority, Call, Ready, TypeOK
<1>2. ASSUME NEW l \in Limits, setrlimit(p, l[1], l[2])
      PROVE  TypeOK'
  <2>1. l[1] \in Resources /\ l[2] \in Limit
    BY ProcessesConstants DEF Limit
  <2>2. proc' \in [Pids -> Task] /\ trusted' \in SUBSET Pids
    BY <1>2, <2>1, PrlimitTypes DEF setrlimit
  <2> QED
    BY <1>2, <2>2 DEF setrlimit, Call, Ready, TypeOK
<1>3. ASSUME NEW l \in Limits, NEW t \in Pids, prlimit64(p, t, l[1], l[2])
      PROVE  TypeOK'
  <2>1. l[1] \in Resources /\ l[2] \in Limit
    BY ProcessesConstants DEF Limit
  <2>2. [task |-> t, resource |-> l[1], new |-> l[2]] \in PrlimitCall
    BY <2>1 DEF PrlimitCall
  <2> QED
    BY <1>3, <2>2 DEF prlimit64, Call, Ready, TypeOK
<1>4. CASE FinishPrlimit(p)
  <2> DEFINE c == prlimit[p]
  <2>1. c \in PrlimitCall
    BY <1>4 DEF FinishPrlimit, TypeOK
  <2>2. c.task \in Pids \cup {NULL} /\ c.resource \in Resources /\ c.new \in Limit
    BY <2>1 DEF PrlimitCall
  <2>3. proc' \in [Pids -> Task] /\ trusted' \in SUBSET Pids
    <3>1. CASE c.task # NULL /\ may_prlimit(p, c.task, c.resource, c.new)
      BY <1>4, <2>2, <3>1, PrlimitTypes DEF FinishPrlimit
    <3>2. CASE ~(c.task # NULL /\ may_prlimit(p, c.task, c.resource, c.new))
      BY <1>4, <3>2 DEF FinishPrlimit, TypeOK
    <3> QED
      BY <3>1, <3>2
  <2> QED
    BY <1>4, <2>3 DEF FinishPrlimit, TypeOK
<1> QED
  BY <1>1, <1>2, <1>3, <1>4 DEF LimitCall

\* The flag of a process, made a Boolean.
LEMMA FlagType ==
    ASSUME NEW task \in Task, NEW on, NEW has
    PROVE  /\ [task EXCEPT !.is_child_subreaper = on] \in Task <=> on \in BOOLEAN
           /\ [task EXCEPT !.has_child_subreaper = @ \/ has] \in Task
BY DEF Task

LEMMA SubreapTypes ==
    ASSUME TypeOK, NEW p \in Pids, Subreap(p)
    PROVE  TypeOK'
<1>1. ASSUME NEW on \in BOOLEAN, PR_SET_CHILD_SUBREAPER(p, on)
      PROVE  TypeOK'
  <2>1. [proc[p] EXCEPT !.is_child_subreaper = on] \in Task
    BY FlagType DEF TypeOK
  <2> QED
    BY <1>1, <2>1 DEF PR_SET_CHILD_SUBREAPER, Change, Call, Ready, TypeOK
<1>2. \A q \in Pids : Children(q) \in SUBSET Pids
  BY DEF Children, Tasks
<1>3. CASE walk_process_tree(p)
  BY <1>2, <1>3 DEF walk_process_tree, TypeOK
<1>4. ASSUME NEW t \in Pids, Visit(p, t)
      PROVE  TypeOK'
  <2>1. [proc[t] EXCEPT !.has_child_subreaper = TRUE] \in Task
    <3>1. proc[t] \in Task
      BY DEF TypeOK
    <3> QED
      BY <3>1 DEF Task
  <2>2. CASE propagate_has_child_subreaper(t)
    <3>1. /\ proc' = [proc EXCEPT ![t] = [proc[t] EXCEPT !.has_child_subreaper = TRUE]]
          /\ visit' = [visit EXCEPT ![p] = (@ \ {t}) \cup Children(t)]
          /\ UNCHANGED <<prlimit, stored, calls, dropped, trusted>>
      BY <1>4, <2>2 DEF Visit, Change
    <3>2. proc' \in [Pids -> Task]
      BY <2>1, <3>1 DEF TypeOK
    <3>3. visit' \in [Pids -> SUBSET Pids]
      BY <1>2, <3>1 DEF TypeOK
    <3> QED
      BY <3>1, <3>2, <3>3 DEF TypeOK
  <2>3. CASE ~propagate_has_child_subreaper(t)
    BY <1>4, <2>3 DEF Visit, TypeOK
  <2> QED
    BY <2>2, <2>3
<1> QED
  BY <1>1, <1>3, <1>4 DEF Subreap

LEMMA LifeTypes ==
    ASSUME TypeOK, NEW p \in Pids, Life(p), do_exit(p) => Reaper(p) \in Pids
    PROVE  TypeOK'
<1>1. proc[p] \in Task
  BY DEF TypeOK
<1>2. CASE Subreap(p)
  BY <1>2, SubreapTypes
<1>3. CASE PR_SET_NO_NEW_PRIVS(p)
  <2>1. [proc[p] EXCEPT !.no_new_privs = TRUE] \in Task
    BY <1>1 DEF Task
  <2> QED
    BY <1>3, <2>1 DEF PR_SET_NO_NEW_PRIVS, Change, Call, Ready, TypeOK
<1>4. CASE fork(p)
  <2> DEFINE parent == [proc[p] EXCEPT !.nproc_exceeded = FALSE]
             newborn == [parent EXCEPT !.parent = p, !.leader = FALSE, !.forknoexec = TRUE, !.dying = FALSE,
                                     !.has_child_subreaper = @ \/ proc[p].is_child_subreaper,
                                     !.is_child_subreaper = FALSE]
  <2>1. PICK c \in FreePids :
          /\ proc' = [proc EXCEPT ![p] = parent, ![c] = newborn]
          /\ dropped' = [dropped EXCEPT ![c] = dropped[p]]
          /\ trusted' = IF p \in trusted THEN trusted \cup {c} ELSE trusted
    BY <1>4 DEF fork
  <2>2. c \in Pids
    BY DEF FreePids
  <2>3. parent \in Task
    BY <1>1 DEF Task
  <2>4. newborn \in Task
    <3> DEFINE born == [parent EXCEPT !.parent = p, !.leader = FALSE, !.forknoexec = TRUE, !.dying = FALSE]
               flagged == [born EXCEPT !.has_child_subreaper = @ \/ proc[p].is_child_subreaper]
    <3>1. born \in Task
      BY <2>3 DEF Task
    <3>2. flagged \in Task
      BY <3>1, FlagType
    <3>3. newborn = [flagged EXCEPT !.is_child_subreaper = FALSE]
      OBVIOUS
    <3> HIDE DEF newborn, flagged
    <3> QED
      BY <3>2, <3>3, FlagType
  <2> HIDE DEF parent, newborn
  <2>5. proc' \in [Pids -> Task]
    BY <2>1, <2>2, <2>3, <2>4 DEF TypeOK
  <2>6. dropped' \in [Pids -> Ids \cup {NULL}] /\ trusted' \in SUBSET Pids
    BY <2>1, <2>2 DEF TypeOK
  <2>7. calls' \in Nat /\ UNCHANGED <<prlimit, stored, visit>>
    BY <1>4 DEF fork, Call, Ready, TypeOK
  <2> QED
    BY <2>5, <2>6, <2>7 DEF TypeOK
<1>5. ASSUME NEW owner \in Ids \cup {NULL}, execve(p, owner)
      PROVE  TypeOK'
  <2> DEFINE old == proc[p]
             e == IF owner = NULL \/ old.no_new_privs THEN old.uid.e ELSE owner
             caps == IF e = 0 THEN "effective" ELSE IF old.uid.r = 0 THEN "permitted" ELSE "none"
             uid == [old.uid EXCEPT !.e = e, !.s = e, !.fs = e]
             gid == [old.gid EXCEPT !.s = old.gid.e, !.fs = old.gid.e]
             new == [old EXCEPT !.uid = uid, !.gid = gid,
                                !.caps = caps, !.forknoexec = FALSE, !.nproc_exceeded = FALSE]
  <2>1. old.uid \in IdRecord /\ old.gid \in IdRecord
    BY <1>1 DEF Task
  <2>2. e \in Ids /\ caps \in {"none", "permitted", "effective"}
    BY <2>1 DEF IdRecord
  <2>3. uid \in IdRecord /\ gid \in IdRecord
    BY <2>1, <2>2 DEF IdRecord
  <2>4. /\ proc' = [proc EXCEPT ![p] = new] /\ UNCHANGED <<prlimit, stored, visit>> /\ calls' = calls + 1
        /\ dropped' = [dropped EXCEPT ![p] = IF e = old.uid.e THEN @ ELSE NULL]
        /\ trusted' = IF caps = "none" THEN trusted ELSE trusted \cup {p}
    BY <1>5 DEF execve, Change, Call, Ready
  <2> HIDE DEF e, caps, uid, gid
  <2>5. new \in Task
    BY <1>1, <2>2, <2>3 DEF Task
  <2> HIDE DEF new
  <2> QED
    BY <2>4, <2>5 DEF TypeOK
<1>6. CASE do_exit(p)
  <2>1. \A t \in Pids : /\ [proc[t] EXCEPT !.state = "zombie"] \in Task
                        /\ [proc[t] EXCEPT !.parent = Reaper(p)] \in Task
    BY <1>6 DEF TypeOK, Task
  <2>2. proc' \in [Pids -> Task]
    BY <1>6, <2>1 DEF do_exit, TypeOK
  <2>3. calls' \in Nat
    BY <1>6 DEF do_exit, Call, Ready, TypeOK
  <2> QED
    BY <1>6, <2>2, <2>3 DEF do_exit, TypeOK
<1>7. CASE release_task(p)
  <2>1. \A q \in Pids : prlimit[q] # NULL => [prlimit[q] EXCEPT !.task = NULL] \in PrlimitCall
    BY DEF TypeOK, PrlimitCall
  <2>2. prlimit' \in [Pids -> PrlimitCall \cup {NULL}]
    BY <1>7, <2>1 DEF release_task, TypeOK
  <2> QED
    BY <1>7, <2>2, FreeType DEF release_task, TypeOK
<1> QED
  BY <1>2, <1>3, <1>4, <1>5, <1>6, <1>7 DEF Life

-----------------------------------------------------------------------------
(* What the calls leave alone *)

AlikeTree(old, new) ==
    /\ new.state = old.state /\ new.parent = old.parent
    /\ new.is_child_subreaper = old.is_child_subreaper /\ new.has_child_subreaper = old.has_child_subreaper

AlikeSessions(old, new) ==
    new.state = old.state /\ new.pgid = old.pgid /\ new.sid = old.sid /\ new.leader = old.leader

AlikeIds(old, new) ==
    /\ new.state = old.state /\ new.uid = old.uid /\ new.gid = old.gid
    /\ new.user = old.user /\ new.caps = old.caps

AlikeLimits(old, new) == new.state = old.state /\ new.rlim = old.rlim /\ new.nice = old.nice

SameTree == UNCHANGED <<stored, visit>> /\ \A q \in Pids : AlikeTree(proc[q], proc'[q])
SameSessions == \A q \in Pids : AlikeSessions(proc[q], proc'[q])
SameIds == dropped' = dropped /\ \A q \in Pids : AlikeIds(proc[q], proc'[q])
SameLimits == trusted' = trusted /\ \A q \in Pids : AlikeLimits(proc[q], proc'[q])

Same == SameTree /\ SameSessions /\ SameIds /\ SameLimits

LEMMA IdCallFrame ==
    ASSUME TypeOK, NEW p \in Pids, IdCall(p)
    PROVE  SameTree /\ SameSessions /\ SameLimits
<1> USE DEF SameTree, SameSessions, SameLimits, AlikeTree, AlikeSessions, AlikeLimits
<1>1. proc[p] \in Task /\ proc[p].uid \in IdRecord /\ proc[p].gid \in IdRecord
  BY DEF TypeOK, Task
<1>2. ASSUME NEW uid \in IdRecord, CommitUids(p, uid), UNCHANGED <<stored, visit, trusted>>
      PROVE  SameTree /\ SameSessions /\ SameLimits
  <2>1. PICK user \in Ids, exceeded \in BOOLEAN, caps \in CapSets : CommittedAs(p, uid, user, exceeded, caps)
    BY <1>2, Committed
  <2> QED
    BY <1>1, <1>2, <2>1 DEF CommittedAs, TypeOK, Task
<1>3. ASSUME NEW gid, Change(p, [proc[p] EXCEPT !.gid = gid]), UNCHANGED <<stored, visit, trusted>>
      PROVE  SameTree /\ SameSessions /\ SameLimits
  BY <1>1, <1>3 DEF TypeOK, Change, Task
<1>4. ASSUME NEW r \in Args, NEW e \in Args, setreuid(p, r, e)
      PROVE  SameTree /\ SameSessions /\ SameLimits
  <2>1. re_ids(proc[p].uid, r, e) \in IdRecord
    BY <1>1, ReType
  <2> QED
    BY <1>2, <1>4, <2>1 DEF setreuid
<1>5. ASSUME NEW r \in Args, NEW e \in Args, NEW s \in Args, setresuid(p, r, e, s)
      PROVE  SameTree /\ SameSessions /\ SameLimits
  <2>1. res_ids(proc[p].uid, r, e, s) \in IdRecord
    BY <1>1, ResType
  <2> QED
    BY <1>2, <1>5, <2>1 DEF setresuid
<1>6. ASSUME NEW id \in Ids, setuid(p, id) \/ setfsuid(p, id)
      PROVE  SameTree /\ SameSessions /\ SameLimits
  <2>1. set_ids(proc[p].uid, ns_capable(p), id) \in IdRecord /\ [proc[p].uid EXCEPT !.fs = id] \in IdRecord
    BY <1>1, SetType
  <2> QED
    BY <1>2, <1>6, <2>1 DEF setuid, setfsuid
<1>7. ASSUME NEW r, NEW e, setregid(p, r, e)
      PROVE  SameTree /\ SameSessions /\ SameLimits
  BY <1>3, <1>7 DEF setregid
<1>8. ASSUME NEW r, NEW e, NEW s, setresgid(p, r, e, s)
      PROVE  SameTree /\ SameSessions /\ SameLimits
  BY <1>3, <1>8 DEF setresgid
<1>9. ASSUME NEW id, setgid(p, id)
      PROVE  SameTree /\ SameSessions /\ SameLimits
  BY <1>3, <1>9 DEF setgid
<1>10. ASSUME NEW id, setfsgid(p, id)
      PROVE  SameTree /\ SameSessions /\ SameLimits
  <2>1. [proc[p] EXCEPT !.gid.fs = id] = [proc[p] EXCEPT !.gid = [proc[p].gid EXCEPT !.fs = id]]
    BY <1>1 DEF Task
  <2> QED
    BY <1>3, <1>10, <2>1 DEF setfsgid
<1> HIDE DEF SameTree, SameSessions, SameLimits, AlikeTree, AlikeSessions, AlikeLimits
<1> QED
  BY <1>4, <1>5, <1>6, <1>7, <1>8, <1>9, <1>10 DEF IdCall

LEMMA JobControlFrame ==
    ASSUME TypeOK, NEW p \in Pids, JobControl(p)
    PROVE  /\ SameTree /\ SameIds /\ SameLimits
           /\ \/ SameSessions
              \/ \E pid, pgid \in Pids \cup {0} : setpgid(p, pid, pgid)
              \/ setsid(p)
<1> USE DEF SameTree, SameSessions, SameIds, SameLimits, AlikeTree, AlikeSessions, AlikeIds, AlikeLimits
<1>1. ASSUME NEW t \in Pids, NEW pgid, Change(t, [proc[t] EXCEPT !.pgid = pgid]), UNCHANGED <<stored, visit, dropped, trusted>>
      PROVE  SameTree /\ SameIds /\ SameLimits
  BY <1>1 DEF Change, TypeOK, Task
<1>2. ASSUME NEW pid \in Pids \cup {0}, NEW pgrp \in Pids \cup {0}, setpgid(p, pid, pgrp)
      PROVE  SameTree /\ SameIds /\ SameLimits
  <2> DEFINE t == IF pid = 0 THEN p ELSE pid
  <2>1. t \in Pids
    OBVIOUS
  <2>2. \E pgid : Change(t, [proc[t] EXCEPT !.pgid = pgid]) /\ UNCHANGED <<stored, visit, dropped, trusted>>
    BY <1>2 DEF setpgid
  <2> HIDE DEF t
  <2> QED
    BY <1>1, <2>1, <2>2
<1>3. CASE setsid(p)
  <2>1. proc[p] \in Task
    BY DEF TypeOK
  <2>2. SameTree /\ SameIds /\ SameLimits
    BY <1>3, <2>1 DEF setsid, Change, TypeOK, Task
  <2> QED
    BY <1>3, <2>2
<1>4. ASSUME NEW sig \in {"SIGKILL", "SIGSTOP", "SIGCONT"}, NEW pid \in -N .. N,
             kill_something_info(p, sig, pid)
      PROVE  Same
  <2> DEFINE Alike(old, new) == /\ AlikeTree(old, new) /\ AlikeSessions(old, new)
                                /\ AlikeIds(old, new) /\ AlikeLimits(old, new)
  <2>1. ASSUME NEW task \in Task
        PROVE  /\ Alike(task, [task EXCEPT !.dying = TRUE, !.stopped = FALSE])
               /\ Alike(task, [task EXCEPT !.stopped = ~task.dying])
               /\ Alike(task, [task EXCEPT !.stopped = FALSE])
    BY DEF Task, AlikeTree, AlikeSessions, AlikeIds, AlikeLimits
  <2> HIDE DEF Alike
  <2>2. ASSUME NEW task \in Task
        PROVE  Alike(task, Signalled(task, sig))
    <3>1. CASE sig = "SIGKILL"
      BY <2>1, <3>1 DEF Signalled
    <3>2. CASE sig = "SIGSTOP"
      BY <2>1, <3>2 DEF Signalled
    <3>3. CASE sig = "SIGCONT"
      BY <2>1, <3>3 DEF Signalled
    <3> QED
      BY <3>1, <3>2, <3>3
  <2>3. \A q \in Pids : proc'[q] = proc[q] \/ proc'[q] = Signalled(proc[q], sig)
    BY <1>4 DEF kill_something_info, TypeOK
  <2>4. \A q \in Pids : proc'[q] = proc[q] \/ Alike(proc[q], proc'[q])
    BY <2>2, <2>3 DEF TypeOK
  <2>5. UNCHANGED <<stored, visit, dropped, trusted>>
    BY <1>4 DEF kill_something_info
  <2> QED
    BY <2>4, <2>5 DEF Alike, Same
<1> HIDE DEF SameTree, SameSessions, SameIds, SameLimits, AlikeTree, AlikeSessions, AlikeIds, AlikeLimits
<1>5. CASE \E pid, pgid \in Pids \cup {0} : setpgid(p, pid, pgid)
  BY <1>2, <1>5
<1>6. CASE setsid(p)
  BY <1>3, <1>6
<1>7. CASE \E sig \in {"SIGKILL", "SIGSTOP", "SIGCONT"}, pid \in -N .. N : kill_something_info(p, sig, pid)
  BY <1>4, <1>7 DEF Same
<1> QED
  BY <1>5, <1>6, <1>7 DEF JobControl

\* do_prlimit changes one limit of one process.
LEMMA PrlimitFrame ==
    ASSUME TypeOK, NEW p \in Pids, NEW t \in Pids, NEW resource \in Resources, NEW new \in Limit,
           do_prlimit(p, t, resource, new), UNCHANGED <<stored, visit>>
    PROVE  /\ SameTree /\ SameSessions
           /\ \A q \in Pids : /\ proc'[q].uid = proc[q].uid /\ proc'[q].gid = proc[q].gid
                              /\ proc'[q].user = proc[q].user /\ proc'[q].caps = proc[q].caps
                              /\ proc'[q].nice = proc[q].nice
                              /\ q # t => proc'[q].rlim = proc[q].rlim
           /\ proc'[t].rlim = [proc[t].rlim EXCEPT ![resource] = Stored(resource, new)]
<1> DEFINE rlim == [proc[t].rlim EXCEPT ![resource] = Stored(resource, new)]
<1>1. proc[t] \in Task
  BY DEF TypeOK
<1>2. [proc[t] EXCEPT !.rlim[resource] = Stored(resource, new)] = [proc[t] EXCEPT !.rlim = rlim]
  BY <1>1 DEF Task
<1>3. proc' = [proc EXCEPT ![t] = [proc[t] EXCEPT !.rlim = rlim]]
  BY <1>2 DEF do_prlimit, Change
<1> HIDE DEF rlim
<1>4. /\ SameTree /\ SameSessions
      /\ \A q \in Pids : /\ proc'[q].uid = proc[q].uid /\ proc'[q].gid = proc[q].gid
                         /\ proc'[q].user = proc[q].user /\ proc'[q].caps = proc[q].caps
                         /\ proc'[q].nice = proc[q].nice
                         /\ q # t => proc'[q].rlim = proc[q].rlim
      /\ proc'[t].rlim = rlim
  BY <1>1, <1>3 DEF TypeOK, Task, SameTree, SameSessions, AlikeTree, AlikeSessions
<1> QED
  BY <1>4 DEF rlim

LEMMA LimitCallFrame ==
    ASSUME TypeOK, NEW p \in Pids, LimitCall(p)
    PROVE  SameTree /\ SameSessions /\ SameIds
<1>1. ASSUME NEW which, NEW who, NEW niceval, setpriority(p, which, who, niceval)
      PROVE  SameTree /\ SameSessions /\ SameIds
  <2> DEFINE Nicer(task, nice) == [task EXCEPT !.nice = nice]
  <2>1. \A q \in Pids : proc'[q] = proc[q] \/ \E nice : proc'[q] = Nicer(proc[q], nice)
    BY <1>1 DEF setpriority, TypeOK
  <2>2. UNCHANGED <<stored, visit, dropped>>
    BY <1>1 DEF setpriority
  <2>3. ASSUME NEW task \in Task, NEW nice
        PROVE  /\ AlikeTree(task, Nicer(task, nice)) /\ AlikeSessions(task, Nicer(task, nice))
               /\ AlikeIds(task, Nicer(task, nice))
    BY DEF Task, AlikeTree, AlikeSessions, AlikeIds
  <2> HIDE DEF Nicer
  <2>4. \A q \in Pids : proc'[q] = proc[q] \/ (/\ AlikeTree(proc[q], proc'[q])
                                               /\ AlikeSessions(proc[q], proc'[q])
                                               /\ AlikeIds(proc[q], proc'[q]))
    BY <2>1, <2>3 DEF TypeOK
  <2> QED
    BY <2>2, <2>4 DEF AlikeTree, AlikeSessions, AlikeIds, SameTree, SameSessions, SameIds
<1>2. ASSUME NEW t \in Pids, NEW resource \in Resources, NEW new \in Limit,
             do_prlimit(p, t, resource, new), UNCHANGED <<stored, visit, dropped>>
      PROVE  SameTree /\ SameSessions /\ SameIds
  BY <1>2, PrlimitFrame DEF SameIds, SameTree, AlikeTree, AlikeIds
<1>3. ASSUME UNCHANGED <<proc, stored, visit, dropped>>
      PROVE  SameTree /\ SameSessions /\ SameIds
  BY <1>3 DEF SameTree, SameSessions, SameIds, AlikeTree, AlikeSessions, AlikeIds
<1>4. ASSUME NEW l \in Limits, setrlimit(p, l[1], l[2])
      PROVE  SameTree /\ SameSessions /\ SameIds
  <2>1. l[1] \in Resources /\ l[2] \in Limit
    BY ProcessesConstants DEF Limit
  <2> QED
    BY <1>2, <1>4, <2>1 DEF setrlimit
<1>5. ASSUME NEW l, NEW t, prlimit64(p, t, l[1], l[2])
      PROVE  SameTree /\ SameSessions /\ SameIds
  BY <1>3, <1>5 DEF prlimit64
<1>6. CASE FinishPrlimit(p)
  <2> DEFINE c == prlimit[p]
  <2>1. c.task \in Pids \cup {NULL} /\ c.resource \in Resources /\ c.new \in Limit
    BY <1>6 DEF FinishPrlimit, TypeOK, PrlimitCall
  <2>2. CASE c.task # NULL /\ may_prlimit(p, c.task, c.resource, c.new)
    BY <1>2, <1>6, <2>1, <2>2 DEF FinishPrlimit
  <2>3. CASE ~(c.task # NULL /\ may_prlimit(p, c.task, c.resource, c.new))
    BY <1>3, <1>6, <2>3 DEF FinishPrlimit
  <2> QED
    BY <2>2, <2>3
<1> QED
  BY <1>1, <1>4, <1>5, <1>6 DEF LimitCall

LEMMA SubreaperFrame ==
    ASSUME TypeOK, NEW p \in Pids, Subreap(p)
    PROVE  /\ SameSessions /\ SameIds /\ SameLimits
           /\ \A q \in Pids : proc'[q].state = proc[q].state /\ proc'[q].parent = proc[q].parent
<1> DEFINE Is(task, flag) == [task EXCEPT !.is_child_subreaper = flag]
           Has(task) == [task EXCEPT !.has_child_subreaper = TRUE]
           Alike(old, new) == /\ AlikeSessions(old, new) /\ AlikeIds(old, new) /\ AlikeLimits(old, new)
                              /\ new.parent = old.parent
<1>1. \A q \in Pids : proc'[q] = proc[q] \/ proc'[q] = Has(proc[q]) \/ \E on : proc'[q] = Is(proc[q], on)
  <2>1. proc \in [Pids -> Task]
    BY DEF TypeOK
  <2>2. ASSUME NEW on \in BOOLEAN, PR_SET_CHILD_SUBREAPER(p, on)
        PROVE  \A q \in Pids : proc'[q] = proc[q] \/ proc'[q] = Is(proc[q], on)
    BY <2>1, <2>2 DEF PR_SET_CHILD_SUBREAPER, Change
  <2>3. ASSUME NEW t \in Pids, Visit(p, t)
        PROVE  \A q \in Pids : proc'[q] = proc[q] \/ proc'[q] = Has(proc[q])
    BY <2>1, <2>3 DEF Visit, Change
  <2>4. CASE walk_process_tree(p)
    BY <2>4 DEF walk_process_tree
  <2> HIDE DEF Is, Has
  <2> QED
    BY <2>2, <2>3, <2>4 DEF Subreap
<1>2. UNCHANGED <<dropped, trusted>>
  BY DEF Subreap, PR_SET_CHILD_SUBREAPER, walk_process_tree, Visit
<1>3. ASSUME NEW task \in Task
      PROVE  Alike(task, task) /\ Alike(task, Has(task)) /\ \A on : Alike(task, Is(task, on))
  BY DEF Task, AlikeSessions, AlikeIds, AlikeLimits
<1> HIDE DEF Is, Has, Alike
<1>4. \A q \in Pids : Alike(proc[q], proc'[q])
  BY <1>1, <1>3 DEF TypeOK
<1> USE DEF Alike
<1> QED
  BY <1>2, <1>4 DEF SameSessions, SameIds, SameLimits, AlikeSessions

LEMMA NoNewPrivsFrame ==
    ASSUME TypeOK, NEW p \in Pids, PR_SET_NO_NEW_PRIVS(p)
    PROVE  Same
<1>1. proc[p] \in Task
  BY DEF TypeOK
<1> QED
  BY <1>1 DEF PR_SET_NO_NEW_PRIVS, Change, TypeOK, Task, Same, SameTree, SameSessions, SameIds, SameLimits,
              AlikeTree, AlikeSessions, AlikeIds, AlikeLimits

LEMMA ExecFrame ==
    ASSUME TypeOK, NEW p \in Pids, NEW owner \in Ids \cup {NULL}, execve(p, owner)
    PROVE  /\ SameTree /\ SameSessions
           /\ \A q \in Pids : proc'[q].rlim = proc[q].rlim /\ proc'[q].nice = proc[q].nice
           /\ trusted \subseteq trusted'
<1>1. proc[p] \in Task
  BY DEF TypeOK
<1>2. \E uid, gid, caps : proc' = [proc EXCEPT ![p] = [proc[p] EXCEPT !.uid = uid, !.gid = gid, !.caps = caps,
                                                        !.forknoexec = FALSE, !.nproc_exceeded = FALSE]]
  BY DEF execve, Change
<1>3. trusted \subseteq trusted' /\ UNCHANGED <<stored, visit>>
  BY DEF execve
<1> QED
  BY <1>1, <1>2, <1>3 DEF TypeOK, Task, SameTree, SameSessions, AlikeTree, AlikeSessions

\* The child of fork.
Born(p, c) ==
    /\ c \in FreePids /\ c # p
    /\ \A q \in Pids \ {p, c} : proc'[q] = proc[q]
    /\ AlikeTree(proc[p], proc'[p]) /\ AlikeSessions(proc[p], proc'[p])
    /\ AlikeIds(proc[p], proc'[p]) /\ AlikeLimits(proc[p], proc'[p])
    /\ proc'[p].no_new_privs = proc[p].no_new_privs
    /\ AlikeIds(proc[p], proc'[c]) /\ AlikeLimits(proc[p], proc'[c])
    /\ proc'[c].pgid = proc[p].pgid /\ proc'[c].sid = proc[p].sid /\ proc'[c].leader = FALSE
    /\ proc'[c].parent = p /\ proc'[c].is_child_subreaper = FALSE
    /\ proc'[c].has_child_subreaper = (proc[p].has_child_subreaper \/ proc[p].is_child_subreaper)
    /\ dropped' = [dropped EXCEPT ![c] = dropped[p]]
    /\ trusted' = IF p \in trusted THEN trusted \cup {c} ELSE trusted

LEMMA ForkFrame ==
    ASSUME TypeOK, NEW p \in Pids, fork(p)
    PROVE  /\ proc[p].state = "running"
           /\ \E c \in Pids : Born(p, c)
<1> DEFINE parent == [proc[p] EXCEPT !.nproc_exceeded = FALSE]
           newborn == [parent EXCEPT !.parent = p, !.leader = FALSE, !.forknoexec = TRUE, !.dying = FALSE,
                                   !.has_child_subreaper = @ \/ proc[p].is_child_subreaper,
                                   !.is_child_subreaper = FALSE]
<1>1. PICK c \in FreePids :
        /\ proc' = [proc EXCEPT ![p] = parent, ![c] = newborn]
        /\ dropped' = [dropped EXCEPT ![c] = dropped[p]]
        /\ trusted' = IF p \in trusted THEN trusted \cup {c} ELSE trusted
  BY DEF fork
<1>2. proc[p].state = "running" /\ proc[p] \in Task
  BY DEF fork, Call, Ready, TypeOK
<1>3. c \in Pids /\ c # p
  BY <1>2 DEF FreePids, Tasks
<1>4. /\ AlikeTree(proc[p], parent) /\ AlikeSessions(proc[p], parent)
      /\ AlikeIds(proc[p], parent) /\ AlikeLimits(proc[p], parent)
      /\ parent.no_new_privs = proc[p].no_new_privs
  BY <1>2 DEF Task, AlikeTree, AlikeSessions, AlikeIds, AlikeLimits
<1>5. /\ AlikeIds(proc[p], newborn) /\ AlikeLimits(proc[p], newborn)
      /\ newborn.pgid = proc[p].pgid /\ newborn.sid = proc[p].sid /\ newborn.leader = FALSE
      /\ newborn.parent = p /\ newborn.is_child_subreaper = FALSE
  BY <1>2 DEF Task, AlikeIds, AlikeLimits
<1>6. newborn.has_child_subreaper = (proc[p].has_child_subreaper \/ proc[p].is_child_subreaper)
  BY <1>2 DEF Task
<1> HIDE DEF parent, newborn
<1>7. proc'[p] = parent /\ proc'[c] = newborn /\ \A q \in Pids \ {p, c} : proc'[q] = proc[q]
  BY <1>1, <1>3 DEF TypeOK
<1>8. /\ AlikeTree(proc[p], proc'[p]) /\ AlikeSessions(proc[p], proc'[p])
      /\ AlikeIds(proc[p], proc'[p]) /\ AlikeLimits(proc[p], proc'[p])
      /\ proc'[p].no_new_privs = proc[p].no_new_privs
  BY <1>4, <1>7
<1>9. /\ AlikeIds(proc[p], proc'[c]) /\ AlikeLimits(proc[p], proc'[c])
      /\ proc'[c].pgid = proc[p].pgid /\ proc'[c].sid = proc[p].sid /\ proc'[c].leader = FALSE
      /\ proc'[c].parent = p /\ proc'[c].is_child_subreaper = FALSE
  BY <1>5, <1>7
<1>10. proc'[c].has_child_subreaper = (proc[p].has_child_subreaper \/ proc[p].is_child_subreaper)
  BY <1>6, <1>7
<1>11. /\ dropped' = [dropped EXCEPT ![c] = dropped[p]]
       /\ trusted' = IF p \in trusted THEN trusted \cup {c} ELSE trusted
  BY <1>1
<1>12. \A q \in Pids \ {p, c} : proc'[q] = proc[q]
  BY <1>7
<1>13. Born(p, c)
  BY <1>3, <1>8, <1>9, <1>10, <1>11, <1>12, Zenon DEF Born
<1> QED
  BY <1>2, <1>3, <1>13

LEMMA ExitFrame ==
    ASSUME TypeOK, NEW p \in Pids, do_exit(p), Reaper(p) \in Pids
    PROVE  /\ p # init /\ proc[p].state = "running" /\ proc'[p].state = "zombie"
           /\ proc'[p].parent = proc[p].parent
           /\ \A q \in Pids :
                /\ q # p => proc'[q].state = proc[q].state
                /\ q # p => proc'[q].parent = IF q \in Tasks /\ proc[q].parent = p THEN Reaper(p)
                                                                              ELSE proc[q].parent
                /\ proc'[q].pgid = proc[q].pgid /\ proc'[q].sid = proc[q].sid
                /\ proc'[q].leader = proc[q].leader
                /\ proc'[q].uid = proc[q].uid /\ proc'[q].gid = proc[q].gid
                /\ proc'[q].user = proc[q].user /\ proc'[q].caps = proc[q].caps
                /\ proc'[q].rlim = proc[q].rlim /\ proc'[q].nice = proc[q].nice
                /\ proc'[q].is_child_subreaper = proc[q].is_child_subreaper
                /\ proc'[q].has_child_subreaper = proc[q].has_child_subreaper
           /\ UNCHANGED <<dropped, trusted>>
BY DEF do_exit, Ready, TypeOK, Task

LEMMA ReleaseFrame ==
    ASSUME TypeOK, NEW p \in Pids, release_task(p)
    PROVE  /\ p # init /\ proc[p].state = "zombie"
           /\ proc'[p].state = "free" /\ proc'[p].parent = init
           /\ \A q \in Pids \ {p} : proc'[q] = proc[q]
           /\ dropped' = [dropped EXCEPT ![p] = NULL] /\ trusted' = trusted \ {p}
<1>1. Free.state = "free" /\ Free.parent = init
  BY DEF Free, NewProcess
<1> QED
  BY <1>1 DEF release_task, TypeOK

-----------------------------------------------------------------------------
(* Process groups and sessions *)

\* SessionsAreSound is not inductive: setpgid lets a process join the group that has
\* its own pid, without a look at the members.  They are in its session, because
\* setsid and fork take no pid of which there is a group.
SessionInv ==
    \A p, q \in Pids : proc[p].state # "free" /\ proc[q].state # "free" =>
        /\ proc[q].pgid = proc[p].pgid => proc[q].sid = proc[p].sid
        /\ proc[q].pgid = p => proc[q].sid = proc[p].sid
        /\ proc[p].leader => proc[p].sid = p /\ proc[p].pgid = p

LEMMA SessionInit == Init => SessionInv
<1> SUFFICES ASSUME Init PROVE SessionInv
  OBVIOUS
<1>1. Free.state = "free"
  BY DEF Free, NewProcess
<1>2. \A id, parent, pid : NewProcess(id, parent, pid).pgid = pid /\ NewProcess(id, parent, pid).sid = pid
  BY DEF NewProcess
<1>3. \A p \in Pids : proc[p].state = "free" \/ (proc[p].pgid = p /\ proc[p].sid = p)
  <2> TAKE p \in Pids
  <2>1. CASE p = init
    BY <1>2, <2>1 DEF Init
  <2>2. CASE p # init /\ p = 2
    BY <1>2, <2>2 DEF Init
  <2>3. CASE p # init /\ p # 2
    BY <1>1, <2>3 DEF Init
  <2> QED
    BY <2>1, <2>2, <2>3
<1> QED
  BY <1>3 DEF SessionInv

LEMMA SessionNext ==
    ASSUME TypeOK, SessionInv, [Next]_vars, \A p \in Pids : do_exit(p) => Reaper(p) \in Pids
    PROVE  SessionInv'
<1>1. CASE SameSessions
  BY <1>1 DEF SameSessions, AlikeSessions, SessionInv
<1>2. ASSUME NEW p \in Pids, NEW pid \in Pids \cup {0}, NEW pgrp \in Pids \cup {0}, setpgid(p, pid, pgrp)
      PROVE  SessionInv'
  <2> DEFINE t == IF pid = 0 THEN p ELSE pid
             pgid == IF pgrp = 0 THEN t ELSE pgrp
  <2>1. /\ t \in Pids /\ proc[t].state # "free" /\ proc[p].state = "running"
        /\ proc[t].sid = proc[p].sid /\ ~proc[t].leader
        /\ pgid = t \/ \E g \in Pids : proc[g].state # "free" /\ proc[g].pgid = pgid /\ proc[g].sid = proc[p].sid
        /\ proc' = [proc EXCEPT ![t] = [proc[t] EXCEPT !.pgid = pgid]]
    BY <1>2 DEF setpgid, Call, Ready, MayJoin, Group, Tasks, Change
  <2> HIDE DEF t, pgid
  <2>2. /\ proc'[t].pgid = pgid /\ proc'[t].sid = proc[t].sid /\ proc'[t].leader = proc[t].leader
        /\ proc'[t].state = proc[t].state
        /\ \A q \in Pids \ {t} : proc'[q] = proc[q]
    BY <2>1 DEF TypeOK, Task
  <2>3. \A q \in Pids : proc[q].state # "free" /\ (proc[q].pgid = pgid \/ q = pgid) => proc[q].sid = proc[t].sid
    BY <2>1 DEF SessionInv
  <2> QED
    BY <2>1, <2>2, <2>3 DEF SessionInv
<1>3. ASSUME NEW p \in Pids, setsid(p)
      PROVE  SessionInv'
  <2>1. /\ proc[p].state = "running"
        /\ \A q \in Pids : proc[q].state # "free" => proc[q].pgid # p
        /\ proc' = [proc EXCEPT ![p] = [proc[p] EXCEPT !.leader = TRUE, !.sid = p, !.pgid = p]]
    BY <1>3 DEF setsid, Call, Ready, NoGroupOf, Group, Tasks, Change
  <2>2. /\ proc'[p].pgid = p /\ proc'[p].sid = p /\ proc'[p].state = proc[p].state
        /\ \A q \in Pids \ {p} : proc'[q] = proc[q]
    BY <2>1 DEF TypeOK, Task
  <2> QED
    BY <2>1, <2>2 DEF SessionInv
<1>4. ASSUME NEW p \in Pids, fork(p)
      PROVE  SessionInv'
  <2>1. PICK c \in Pids : Born(p, c)
    BY <1>4, ForkFrame
  <2>2. /\ proc[p].state = "running" /\ proc[c].state = "free"
        /\ \A q \in Pids : proc[q].state # "free" => proc[q].pgid # c
    BY <1>4, <2>1, ForkFrame DEF Born, FreePids, Group, Tasks
  <2> QED
    BY <2>1, <2>2 DEF Born, AlikeSessions, SessionInv
<1>5. ASSUME NEW p \in Pids, do_exit(p)
      PROVE  SessionInv'
  BY <1>5, ExitFrame DEF SessionInv
<1>6. ASSUME NEW p \in Pids, release_task(p)
      PROVE  SessionInv'
  BY <1>6, ReleaseFrame DEF SessionInv
<1>7. CASE UNCHANGED vars
  BY <1>7 DEF vars, SessionInv
<1>8. ASSUME NEW p \in Pids, Life(p)
      PROVE  SessionInv'
  BY <1>1, <1>4, <1>5, <1>6, <1>8, SubreaperFrame, NoNewPrivsFrame, ExecFrame DEF Life, Same
<1>9. ASSUME NEW p \in Pids, JobControl(p)
      PROVE  SessionInv'
  BY <1>1, <1>2, <1>3, <1>9, JobControlFrame
<1> QED
  BY <1>1, <1>7, <1>8, <1>9, IdCallFrame, LimitCallFrame DEF Next

-----------------------------------------------------------------------------
(* The tree of processes *)

\* The parent of a process runs and comes before it in some ranking: the table is a
\* tree with init at the root.
Tree(rank) ==
    /\ proc[init].state = "running" /\ proc[init].parent = init /\ rank[init] = 0
    /\ \A p \in Pids : proc[p].state # "free" => proc[proc[p].parent].state = "running"
    /\ \A p \in Pids \ {init} : proc[p].state # "free" => rank[proc[p].parent] < rank[p]

TreeOK == \E rank \in [Pids -> Nat] : Tree(rank)

LEMMA InitPid == init \in Pids /\ Pids \subseteq Nat
BY ProcessesConstants DEF init, Pids

LEMMA ParentType == TypeOK => \A p \in Pids : proc[p].parent \in Pids
BY DEF TypeOK, Task

\* A set that has the parent of p, and with a process its parent, has all ancestors.
LEMMA AncestorsWithin ==
    ASSUME NEW p \in Pids, NEW S \in SUBSET Pids, proc[p].parent \in S,
           \A t \in S : proc[t].parent \in S
    PROVE  Ancestors(p) \subseteq S
BY DEF Ancestors

LEMMA AncestorsClosed ==
    ASSUME TypeOK, NEW p \in Pids
    PROVE  /\ Ancestors(p) \subseteq Pids /\ proc[p].parent \in Ancestors(p)
           /\ \A a \in Ancestors(p) : proc[a].parent \in Ancestors(p)
BY ParentType DEF Ancestors

\* The ancestors of a process are its parent and the parent's ancestors.
LEMMA AncestorsStep ==
    ASSUME TypeOK, NEW p \in Pids
    PROVE  Ancestors(p) \subseteq {proc[p].parent} \cup Ancestors(proc[p].parent)
<1> DEFINE q == proc[p].parent
           S == {q} \cup Ancestors(q)
<1>1. q \in Pids
  BY ParentType
<1>2. Ancestors(q) \subseteq Pids /\ proc[q].parent \in Ancestors(q)
        /\ \A a \in Ancestors(q) : proc[a].parent \in Ancestors(q)
  BY <1>1, AncestorsClosed
<1>3. S \in SUBSET Pids /\ \A t \in S : proc[t].parent \in S
  BY <1>1, <1>2
<1> QED
  BY <1>3, AncestorsWithin

\* The ancestors of a process other than init run, and come before it.
LEMMA AncestorsRun ==
    ASSUME TypeOK, NEW rank \in [Pids -> Nat], Tree(rank),
           NEW p \in Pids \ {init}, proc[p].state # "free", NEW a \in Ancestors(p)
    PROVE  a \in Pids /\ proc[a].state = "running" /\ rank[a] < rank[p]
<1> DEFINE S == {t \in Pids : proc[t].state = "running" /\ rank[t] < rank[p]}
<1>1. proc[p].parent \in S
  BY ParentType DEF Tree
<1>2. ASSUME NEW t \in S
      PROVE  proc[t].parent \in S
  <2>1. CASE t = init
    BY <2>1 DEF Tree
  <2>2. CASE t # init
    BY <2>2, ParentType DEF Tree
  <2> QED
    BY <2>1, <2>2
<1>3. Ancestors(p) \subseteq S
  BY <1>1, <1>2, AncestorsWithin
<1> QED
  BY <1>3

\* Of some ancestors of a process, one is below all others.
LEMMA NearestAncestor ==
    ASSUME TypeOK, NEW rank \in [Pids -> Nat], Tree(rank),
           NEW p \in Pids \ {init}, proc[p].state # "free",
           NEW A \in SUBSET Ancestors(p), A # {}
    PROVE  \E a \in A : A \subseteq {a} \cup Ancestors(a)
<1> DEFINE X == {x \in Pids \ {init} : proc[x].state # "free" /\ A \subseteq Ancestors(x)}
           Ranks == {rank[x] : x \in X}
<1>1. Ranks \in SUBSET Nat /\ Ranks # {}
  BY Zenon
<1>2. PICK x \in X : \A z \in X : rank[x] <= rank[z]
  <2> HIDE DEF X
  <2>1. PICK n \in Ranks : \A m \in Ranks : n <= m
    <3> HIDE DEF Ranks
    <3> QED
      BY <1>1, LeastNatural
  <2> QED
    BY <2>1
<1> DEFINE y == proc[x].parent
<1>3. y \in Pids /\ proc[y].state = "running" /\ rank[y] < rank[x]
  BY ParentType DEF Tree
<1>4. A \subseteq {y} \cup Ancestors(y)
  BY AncestorsStep
<1>5. y \in A
  <2> SUFFICES ASSUME y \notin A PROVE FALSE
    OBVIOUS
  <2>1. A \subseteq Ancestors(y)
    BY <1>4
  <2>2. CASE y = init
    <3>1. Ancestors(init) \subseteq {init}
      <4>1. {init} \in SUBSET Pids /\ proc[init].parent \in {init} /\ \A t \in {init} : proc[t].parent \in {init}
        BY InitPid DEF Tree
      <4> QED
        BY <4>1, InitPid, AncestorsWithin
    <3> QED
      BY <2>1, <2>2, <3>1
  <2>3. CASE y # init
    <3>1. y \in X
      BY <1>3, <2>1, <2>3
    <3>2. rank[x] <= rank[y] /\ rank[x] \in Nat /\ rank[y] \in Nat
      BY <1>2, <1>3, <3>1
    <3> QED
      BY <1>3, <3>2
  <2> QED
    BY <2>2, <2>3
<1> QED
  BY <1>4, <1>5

\* find_new_reaper: an ancestor that is a subreaper, or init.
LEMMA ReaperIsAncestor ==
    ASSUME TypeOK, NEW rank \in [Pids -> Nat], Tree(rank),
           NEW p \in Pids \ {init}, proc[p].state # "free"
    PROVE  \/ Reaper(p) = init
           \/ /\ Reaper(p) \in Ancestors(p) /\ proc[p].has_child_subreaper
              /\ proc[Reaper(p)].is_child_subreaper
<1> DEFINE reapers == {a \in Ancestors(p) : proc[a].is_child_subreaper /\ proc[a].state = "running"}
<1>1. CASE proc[p].has_child_subreaper /\ reapers # {}
  <2>1. \E a \in reapers : reapers \subseteq {a} \cup Ancestors(a)
    <3>1. reapers \in SUBSET Ancestors(p)
      OBVIOUS
    <3> HIDE DEF reapers
    <3> QED
      BY <1>1, <3>1, NearestAncestor
  <2>2. Reaper(p) = CHOOSE a \in reapers : reapers \subseteq {a} \cup Ancestors(a)
    BY <1>1 DEF Reaper
  <2>3. Reaper(p) \in reapers
    <3> HIDE DEF reapers
    <3> QED
      BY <2>1, <2>2
  <2> QED
    BY <1>1, <2>3
<1>2. CASE ~(proc[p].has_child_subreaper /\ reapers # {})
  BY <1>2 DEF Reaper
<1> QED
  BY <1>1, <1>2

\* The new parent runs, and comes before the process that exits.
LEMMA ReaperRuns ==
    ASSUME TypeOK, NEW rank \in [Pids -> Nat], Tree(rank),
           NEW p \in Pids \ {init}, proc[p].state # "free"
    PROVE  Reaper(p) \in Pids /\ proc[Reaper(p)].state = "running" /\ rank[Reaper(p)] < rank[p]
<1>1. CASE Reaper(p) = init
  <2>1. rank[proc[p].parent] < rank[p] /\ proc[p].parent \in Pids
    BY ParentType DEF Tree
  <2>2. rank[p] \in Nat /\ rank[proc[p].parent] \in Nat
    BY <2>1
  <2>3. rank[init] = 0 /\ proc[init].state = "running"
    BY DEF Tree
  <2> QED
    BY <1>1, <2>1, <2>2, <2>3, InitPid
<1>2. CASE Reaper(p) \in Ancestors(p)
  BY <1>2, AncestorsRun
<1> QED
  BY <1>1, <1>2, ReaperIsAncestor

LEMMA TreeInit == Init => TreeOK
<1> SUFFICES ASSUME Init PROVE TreeOK
  OBVIOUS
<1> DEFINE rank == [p \in Pids |-> IF p = init THEN 0 ELSE 1]
<1>1. Free.state = "free" /\ \A id, parent, pid : /\ NewProcess(id, parent, pid).parent = parent
                                                  /\ NewProcess(id, parent, pid).state = "running"
  BY DEF Free, NewProcess
<1>2. proc[init].state = "running" /\ proc[init].parent = init
  BY <1>1, InitPid DEF Init
<1>3. \A p \in Pids : proc[p].state # "free" => proc[p].parent = init
  <2> TAKE p \in Pids
  <2>1. CASE p = init
    BY <1>2, <2>1
  <2>2. CASE p # init /\ p = 2
    BY <1>1, <2>2 DEF Init
  <2>3. CASE p # init /\ p # 2
    BY <1>1, <2>3 DEF Init
  <2> QED
    BY <2>1, <2>2, <2>3
<1>4. Tree(rank)
  BY <1>2, <1>3, InitPid DEF Tree
<1> QED
  BY <1>4 DEF TreeOK

\* Every step keeps the table a tree.
LEMMA TreeNext ==
    ASSUME TypeOK, TreeOK, [Next]_vars
    PROVE  TreeOK'
<1> PICK rank \in [Pids -> Nat] : Tree(rank)
  BY DEF TreeOK
<1>1. ASSUME \A q \in Pids : proc'[q].state = proc[q].state /\ proc'[q].parent = proc[q].parent
      PROVE  TreeOK'
  <2>1. proc'[init].state = "running" /\ proc'[init].parent = init /\ rank[init] = 0
    BY <1>1, InitPid DEF Tree
  <2>2. \A q \in Pids : proc'[q].state # "free" => proc'[proc'[q].parent].state = "running"
    BY <1>1, ParentType DEF Tree
  <2>3. \A q \in Pids \ {init} : proc'[q].state # "free" => rank[proc'[q].parent] < rank[q]
    BY <1>1 DEF Tree
  <2>4. Tree(rank)'
    BY <2>1, <2>2, <2>3 DEF Tree
  <2> QED
    BY <2>4 DEF TreeOK
<1>2. CASE SameTree
  BY <1>1, <1>2 DEF SameTree, AlikeTree
<1>3. ASSUME NEW p \in Pids, fork(p)
      PROVE  TreeOK'
  <2>1. PICK c \in Pids : Born(p, c)
    BY <1>3, ForkFrame
  <2>2. proc[p].state = "running" /\ proc[c].state = "free" /\ c # p
    BY <1>3, <2>1, ForkFrame DEF Born, FreePids, Tasks
  <2> DEFINE new == [rank EXCEPT ![c] = rank[p] + 1]
  <2>3. new \in [Pids -> Nat] /\ new[c] = rank[p] + 1 /\ \A q \in Pids \ {c} : new[q] = rank[q]
    OBVIOUS
  <2>4. \A q \in Pids : proc[q].state # "free" => proc[q].parent \in Pids /\ proc[q].parent # c
    BY <2>2, ParentType DEF Tree
  <2>5. c # init
    BY <2>2 DEF Tree
  <2>6. /\ proc'[c].parent = p /\ proc'[c].state = "running"
        /\ \A q \in Pids \ {c} : proc'[q].state = proc[q].state /\ proc'[q].parent = proc[q].parent
    BY <2>1, <2>2 DEF Born, AlikeTree, AlikeIds
  <2> HIDE DEF new
  <2>7. Tree(new)'
    <3>1. proc'[init].state = "running" /\ proc'[init].parent = init /\ new[init] = 0
      BY <2>3, <2>5, <2>6, InitPid DEF Tree
    <3>2. ASSUME NEW q \in Pids, proc'[q].state # "free"
          PROVE  proc'[proc'[q].parent].state = "running"
      BY <2>2, <2>4, <2>6, <3>2 DEF Tree
    <3>3. ASSUME NEW q \in Pids \ {init}, proc'[q].state # "free"
          PROVE  new[proc'[q].parent] < new[q]
      <4>1. CASE q = c
        BY <2>2, <2>3, <2>6, <4>1
      <4>2. CASE q # c
        BY <2>3, <2>4, <2>6, <3>3, <4>2 DEF Tree
      <4> QED
        BY <4>1, <4>2
    <3> QED
      BY <3>1, <3>2, <3>3 DEF Tree
  <2> QED
    BY <2>3, <2>7 DEF TreeOK
<1>4. ASSUME NEW p \in Pids, do_exit(p)
      PROVE  TreeOK'
  <2>1. p # init /\ proc[p].state = "running"
    BY <1>4 DEF do_exit, Ready
  <2>2. Reaper(p) \in Pids /\ proc[Reaper(p)].state = "running" /\ rank[Reaper(p)] < rank[p]
    BY <2>1, ReaperRuns
  <2>3. Reaper(p) # p
    BY <2>2
  <2>4. /\ proc'[p].state = "zombie" /\ proc'[p].parent = proc[p].parent
        /\ \A q \in Pids \ {p} :
             /\ proc'[q].state = proc[q].state
             /\ proc'[q].parent = IF q \in Tasks /\ proc[q].parent = p THEN Reaper(p) ELSE proc[q].parent
    BY <1>4, <2>2, ExitFrame
  <2>5. Tree(rank)'
    <3>1. proc'[init].state = "running" /\ proc'[init].parent = init /\ rank[init] = 0
      BY <2>1, <2>4, InitPid DEF Tree
    <3>2. proc[p].parent # p
      BY <2>1 DEF Tree
    <3>3. ASSUME NEW q \in Pids, proc'[q].state # "free"
          PROVE  /\ proc'[q].parent \in Pids /\ proc'[q].parent # p
                 /\ proc[proc'[q].parent].state = "running"
                 /\ q # init => rank[proc'[q].parent] < rank[q]
      <4>1. CASE q = p
        BY <2>1, <2>4, <3>2, <4>1, ParentType DEF Tree
      <4>2. CASE q # p /\ proc[q].parent = p
        <5>1. q \in Tasks /\ proc[q].state # "free" /\ q # init
          BY <2>1, <2>4, <3>3, <4>2 DEF Tree, Tasks
        <5>2. proc'[q].parent = Reaper(p) /\ rank[p] < rank[q]
          BY <2>4, <4>2, <5>1 DEF Tree
        <5>3. rank[p] \in Nat /\ rank[q] \in Nat /\ rank[Reaper(p)] \in Nat
          BY <2>2
        <5> QED
          BY <2>2, <2>3, <5>2, <5>3
      <4>3. CASE q # p /\ proc[q].parent # p
        BY <2>4, <3>3, <4>3, ParentType DEF Tree
      <4> QED
        BY <4>1, <4>2, <4>3
    <3>4. \A q \in Pids : proc'[q].state # "free" => proc'[proc'[q].parent].state = "running"
      BY <2>4, <3>3
    <3> QED
      BY <3>1, <3>3, <3>4 DEF Tree
  <2> QED
    BY <2>5 DEF TreeOK
<1>5. ASSUME NEW p \in Pids, release_task(p)
      PROVE  TreeOK'
  <2>1. /\ p # init /\ proc[p].state = "zombie" /\ proc'[p].state = "free"
        /\ \A q \in Pids \ {p} : proc'[q] = proc[q]
    BY <1>5, ReleaseFrame
  <2>2. \A q \in Pids : proc[q].state # "free" => proc[q].parent \in Pids \ {p}
    BY <2>1, ParentType DEF Tree
  <2>3. proc'[init].state = "running" /\ proc'[init].parent = init /\ rank[init] = 0
    BY <2>1, InitPid DEF Tree
  <2>4. \A q \in Pids : proc'[q].state # "free" => proc'[proc'[q].parent].state = "running"
    BY <2>1, <2>2 DEF Tree
  <2>5. \A q \in Pids \ {init} : proc'[q].state # "free" => rank[proc'[q].parent] < rank[q]
    BY <2>1 DEF Tree
  <2>6. Tree(rank)'
    BY <2>3, <2>4, <2>5 DEF Tree
  <2> QED
    BY <2>6 DEF TreeOK
<1>6. CASE UNCHANGED vars
  BY <1>1, <1>6 DEF vars
<1>7. ASSUME NEW p \in Pids, Life(p)
      PROVE  TreeOK'
  BY <1>1, <1>2, <1>3, <1>4, <1>5, <1>7, SubreaperFrame, NoNewPrivsFrame, ExecFrame DEF Life, Same
<1> QED
  BY <1>2, <1>6, <1>7, IdCallFrame, JobControlFrame, LimitCallFrame DEF Next

\* The process that takes the children of another is one.
LEMMA ReaperType ==
    ASSUME TypeOK, TreeOK, NEW p \in Pids, do_exit(p)
    PROVE  Reaper(p) \in Pids
<1>1. p # init /\ proc[p].state = "running"
  BY DEF do_exit, Ready
<1> QED
  BY <1>1, ReaperRuns DEF TreeOK

LEMMA TypeNext ==
    ASSUME TypeOK, TreeOK, [Next]_vars
    PROVE  TypeOK'
<1>1. CASE UNCHANGED vars
  BY <1>1 DEF vars, TypeOK
<1> QED
  BY <1>1, IdCallTypes, JobControlTypes, LimitCallTypes, LifeTypes, ReaperType DEF Next

-----------------------------------------------------------------------------
(* The child subreaper *)

\* What the walk of propagate_has_child_subreaper relies on: the children of a
\* subreaper that is past the store, and of a process that has the flag, have it, or
\* some walk is to visit them.
FlagsBelow ==
    \A p \in Pids \ {init} :
        LET q == proc[p].parent
        IN /\ proc[p].state # "free"
           /\ (proc[q].is_child_subreaper /\ q \notin stored) \/ (q # init /\ proc[q].has_child_subreaper)
           => proc[p].has_child_subreaper \/ \E r \in Pids : p \in visit[r]

\* A walk goes to processes below the one that walks, which is past the store.
Walks ==
    /\ \A r \in stored : visit[r] = {}
    /\ \A r \in Pids : \A t \in visit[r] : t # init /\ r \in Ancestors(t)

FlagsInv == FlagsBelow /\ Walks

\* If init is a subreaper, and nobody walks, every process knows it.
LEMMA AllBelowInit ==
    ASSUME TypeOK, NEW rank \in [Pids -> Nat], Tree(rank), FlagsBelow, write_lock,
           proc[init].is_child_subreaper, init \notin stored,
           NEW p \in Pids \ {init}, proc[p].state # "free"
    PROVE  proc[p].has_child_subreaper
<1> SUFFICES ASSUME ~proc[p].has_child_subreaper PROVE FALSE
  OBVIOUS
<1> DEFINE X == {x \in Pids \ {init} : proc[x].state # "free" /\ ~proc[x].has_child_subreaper}
           Ranks == {rank[x] : x \in X}
<1>1. Ranks \in SUBSET Nat /\ Ranks # {}
  BY Zenon
<1>2. PICK x \in X : \A z \in X : rank[x] <= rank[z]
  <2> HIDE DEF X
  <2>1. PICK n \in Ranks : \A m \in Ranks : n <= m
    <3> HIDE DEF Ranks
    <3> QED
      BY <1>1, LeastNatural
  <2> QED
    BY <2>1
<1> DEFINE y == proc[x].parent
<1>3. y \in Pids /\ proc[y].state = "running" /\ rank[y] < rank[x]
  BY ParentType DEF Tree
<1>4. y # init /\ ~proc[y].has_child_subreaper
  BY DEF FlagsBelow, write_lock
<1>5. rank[x] <= rank[y] /\ rank[x] \in Nat /\ rank[y] \in Nat
  BY <1>2, <1>3, <1>4
<1> QED
  BY <1>3, <1>5

\* An ancestor's ancestors are ancestors.
LEMMA AncestorsTransitive ==
    ASSUME TypeOK, NEW p \in Pids, NEW a \in Ancestors(p)
    PROVE  Ancestors(a) \subseteq Ancestors(p)
<1>1. /\ Ancestors(p) \in SUBSET Pids /\ proc[a].parent \in Ancestors(p)
      /\ \A t \in Ancestors(p) : proc[t].parent \in Ancestors(p)
  BY AncestorsClosed
<1> QED
  BY <1>1, AncestorsWithin

\* The ancestors depend on the parents alone.
LEMMA AncestorsSame ==
    ASSUME TypeOK, \A q \in Pids : proc'[q].parent = proc[q].parent, NEW p \in Pids
    PROVE  Ancestors(p)' = Ancestors(p)
BY DEF Ancestors

\* The flag below every subreaper, from the flag below every process that has it.
LEMMA FlagsReachAll ==
    ASSUME TypeOK, TreeOK, FlagsInv
    PROVE  SubreaperSeesAll
<1> PICK rank \in [Pids -> Nat] : Tree(rank)
  BY DEF TreeOK
<1> SUFFICES ASSUME NEW p \in Pids \ {init}, proc[p].state # "free", ~proc[p].has_child_subreaper,
                    NEW a \in Ancestors(p) \ stored, proc[a].is_child_subreaper,
                    \A r \in Ancestors(p) : visit[r] = {}
             PROVE  FALSE
  BY DEF SubreaperSeesAll, Tasks
<1> DEFINE S == {t \in Ancestors(p) : /\ ~proc[t].is_child_subreaper \/ t \in stored
                                      /\ t = init \/ ~proc[t].has_child_subreaper}
<1>1. /\ Ancestors(p) \subseteq Pids /\ proc[p].parent \in Ancestors(p)
      /\ \A t \in Ancestors(p) : proc[t].parent \in Ancestors(p)
  BY AncestorsClosed
<1>2. ASSUME NEW t \in Pids \ {init}, proc[t].state # "free", ~proc[t].has_child_subreaper,
             t = p \/ t \in Ancestors(p)
      PROVE  proc[t].parent \in S
  <2>1. Ancestors(t) \subseteq Ancestors(p)
    BY <1>2, AncestorsTransitive
  <2>2. ~ \E r \in Pids : t \in visit[r]
    BY <2>1 DEF FlagsInv, Walks
  <2>3. proc[t].parent \in Ancestors(p)
    BY <1>1, <1>2
  <2> QED
    BY <1>2, <2>2, <2>3 DEF FlagsInv, FlagsBelow
<1>3. ASSUME NEW t \in S
      PROVE  proc[t].parent \in S
  <2>1. CASE t = init
    BY <2>1 DEF Tree
  <2>2. CASE t # init
    <3>1. t \in Pids /\ proc[t].state # "free"
      BY <1>1, AncestorsRun
    <3> QED
      BY <1>2, <2>2, <3>1
  <2> QED
    BY <2>1, <2>2
<1>4. proc[p].parent \in S
  BY <1>2
<1>5. Ancestors(p) \subseteq S
  <2>1. S \in SUBSET Pids
    BY <1>1
  <2> HIDE DEF S
  <2> QED
    BY <1>3, <1>4, <2>1, AncestorsWithin
<1> QED
  BY <1>5

\* prctl, from the store to the last visit.
LEMMA SubreapFlags ==
    ASSUME TypeOK, TreeOK, FlagsInv, NEW p \in Pids, Subreap(p)
    PROVE  FlagsInv'
<1>1. \A q \in Pids : proc'[q].state = proc[q].state /\ proc'[q].parent = proc[q].parent
  BY SubreaperFrame
<1>2. \A q \in Pids : Ancestors(q)' = Ancestors(q)
  BY <1>1, AncestorsSame
<1>3. \A q \in Pids : \A t \in Children(q) :
        t \in Pids \ {init} /\ proc[t].state # "free" /\ proc[t].parent = q /\ q \in Ancestors(t)
  BY AncestorsClosed DEF Children, Tasks
<1>4. \A t \in Pids \ {init} : proc[t].state # "free" => t \in Children(proc[t].parent)
  BY DEF Children, Tasks
<1>5. ASSUME NEW on \in BOOLEAN, PR_SET_CHILD_SUBREAPER(p, on)
      PROVE  FlagsInv'
  <2>1. /\ visit' = visit /\ visit[p] = {} /\ stored' = IF on THEN stored \cup {p} ELSE stored
        /\ proc' = [proc EXCEPT ![p] = [proc[p] EXCEPT !.is_child_subreaper = on]]
    BY <1>5 DEF PR_SET_CHILD_SUBREAPER, Call, Ready, Change
  <2>2. proc[p] \in Task
    BY DEF TypeOK
  <2>3. /\ \A q \in Pids : proc'[q].has_child_subreaper = proc[q].has_child_subreaper
        /\ \A q \in Pids \ {p} : proc'[q].is_child_subreaper = proc[q].is_child_subreaper
        /\ proc'[p].is_child_subreaper = on
    BY <2>1, <2>2 DEF TypeOK, Task
  <2>4. FlagsBelow'
    BY <1>1, <2>1, <2>3, ParentType DEF FlagsInv, FlagsBelow
  <2>5. Walks'
    BY <1>2, <2>1 DEF FlagsInv, Walks, TypeOK
  <2> QED
    BY <2>4, <2>5 DEF FlagsInv
<1>6. CASE walk_process_tree(p)
  <2>1. /\ proc' = proc /\ p \in stored /\ stored' = stored \ {p}
        /\ visit' = [visit EXCEPT ![p] = Children(p)]
    BY <1>6 DEF walk_process_tree
  <2>2. visit[p] = {} /\ visit'[p] = Children(p) /\ \A r \in Pids \ {p} : visit'[r] = visit[r]
    BY <2>1 DEF FlagsInv, Walks, TypeOK
  <2>3. FlagsBelow'
    <3> SUFFICES ASSUME NEW t \in Pids \ {init}, proc[t].state # "free",
                        \/ proc[proc[t].parent].is_child_subreaper /\ proc[t].parent \notin stored \ {p}
                        \/ proc[t].parent # init /\ proc[proc[t].parent].has_child_subreaper
                 PROVE  proc[t].has_child_subreaper \/ \E r \in Pids : t \in visit'[r]
      BY <2>1 DEF FlagsBelow
    <3>1. CASE proc[t].parent = p
      BY <1>4, <2>2, <3>1
    <3>2. CASE proc[t].parent # p
      <4>1. proc[t].has_child_subreaper \/ \E r \in Pids : t \in visit[r]
        BY <3>2 DEF FlagsInv, FlagsBelow
      <4> QED
        BY <2>2, <4>1
    <3> QED
      BY <3>1, <3>2
  <2>4. Walks'
    <3>1. \A r \in stored' : visit'[r] = {}
      BY <2>1, <2>2 DEF FlagsInv, Walks, TypeOK
    <3>2. ASSUME NEW r \in Pids, NEW t \in visit'[r]
          PROVE  t # init /\ r \in Ancestors(t)'
      <4>1. CASE r = p
        BY <1>2, <1>3, <2>2, <3>2, <4>1
      <4>2. CASE r # p
        <5>1. t \in visit[r] /\ t \in Pids
          BY <2>2, <3>2, <4>2 DEF TypeOK
        <5> QED
          BY <1>2, <5>1 DEF FlagsInv, Walks
      <4> QED
        BY <4>1, <4>2
    <3> QED
      BY <3>1, <3>2 DEF Walks
  <2> QED
    BY <2>3, <2>4 DEF FlagsInv
<1>7. ASSUME NEW t \in Pids, Visit(p, t)
      PROVE  FlagsInv'
  <2> DEFINE more == IF propagate_has_child_subreaper(t) THEN Children(t) ELSE {}
  <2>1. /\ t \in visit[p] /\ stored' = stored /\ p \notin stored
        /\ t # init /\ p \in Ancestors(t)
    BY <1>7 DEF Visit, FlagsInv, Walks
  <2>2. visit' = [visit EXCEPT ![p] = (visit[p] \ {t}) \cup more]
    BY <1>7 DEF Visit, TypeOK
  <2>3. /\ proc'[t].has_child_subreaper
        /\ \A q \in Pids : proc'[q].is_child_subreaper = proc[q].is_child_subreaper
        /\ \A q \in Pids \ {t} : proc'[q].has_child_subreaper = proc[q].has_child_subreaper
        /\ ~proc[t].has_child_subreaper => more = Children(t)
    <3>1. proc[t] \in Task
      BY DEF TypeOK
    <3>2. CASE propagate_has_child_subreaper(t)
      <4>1. proc' = [proc EXCEPT ![t] = [proc[t] EXCEPT !.has_child_subreaper = TRUE]]
        BY <1>7, <3>2 DEF Visit, Change
      <4> QED
        BY <3>1, <3>2, <4>1 DEF TypeOK, Task
    <3>3. CASE ~propagate_has_child_subreaper(t)
      BY <1>7, <2>1, <3>1, <3>3 DEF Visit, propagate_has_child_subreaper
    <3> QED
      BY <3>2, <3>3
  <2>4. more \subseteq Children(t)
    OBVIOUS
  <2> HIDE DEF more
  <2>5. visit'[p] = (visit[p] \ {t}) \cup more /\ \A r \in Pids \ {p} : visit'[r] = visit[r]
    BY <2>2 DEF TypeOK
  <2>6. FlagsBelow'
    <3> SUFFICES ASSUME NEW x \in Pids \ {init}, proc[x].state # "free",
                        \/ proc[proc[x].parent].is_child_subreaper /\ proc[x].parent \notin stored
                        \/ proc[x].parent # init /\ proc'[proc[x].parent].has_child_subreaper
                 PROVE  proc'[x].has_child_subreaper \/ \E r \in Pids : x \in visit'[r]
      BY <1>1, <2>1, <2>3, ParentType DEF FlagsBelow
    <3>1. CASE x = t
      BY <2>3, <3>1
    <3>2. CASE x # t /\ proc[x].parent = t /\ ~proc[t].has_child_subreaper
      BY <1>4, <2>3, <2>5, <3>2
    <3>3. CASE x # t /\ (proc[x].parent # t \/ proc[t].has_child_subreaper)
      <4>1. proc[x].has_child_subreaper \/ \E r \in Pids : x \in visit[r]
        BY <2>3, <3>3, ParentType DEF FlagsInv, FlagsBelow
      <4> QED
        BY <2>3, <2>5, <3>3, <4>1
    <3> QED
      BY <3>1, <3>2, <3>3
  <2>7. Walks'
    <3>1. \A r \in stored' : visit'[r] = {}
      BY <2>1, <2>5 DEF FlagsInv, Walks, TypeOK
    <3>2. ASSUME NEW r \in Pids, NEW x \in visit'[r]
          PROVE  x # init /\ r \in Ancestors(x)'
      <4>1. CASE x \in visit[r]
        <5>1. x \in Pids
          BY <4>1 DEF TypeOK
        <5> QED
          BY <1>2, <4>1, <5>1 DEF FlagsInv, Walks
      <4>2. CASE x \notin visit[r]
        <5>1. r = p /\ x \in Children(t)
          BY <2>4, <2>5, <3>2, <4>2
        <5>2. x \in Pids \ {init} /\ t \in Ancestors(x)
          BY <1>3, <5>1
        <5>3. p \in Ancestors(x)
          BY <2>1, <5>2, AncestorsTransitive
        <5> QED
          BY <1>2, <5>1, <5>2, <5>3
      <4> QED
        BY <4>1, <4>2
    <3> QED
      BY <3>1, <3>2 DEF Walks
  <2> QED
    BY <2>6, <2>7 DEF FlagsInv
<1> QED
  BY <1>5, <1>6, <1>7 DEF Subreap

\* Every step keeps the flag below the processes that have it.
LEMMA FlagsNext ==
    ASSUME TypeOK, TreeOK, FlagsInv, [Next]_vars
    PROVE  FlagsInv'
<1> PICK rank \in [Pids -> Nat] : Tree(rank)
  BY DEF TreeOK
<1>1. CASE SameTree
  <2>1. \A q \in Pids : Ancestors(q)' = Ancestors(q)
    BY <1>1, AncestorsSame DEF SameTree, AlikeTree
  <2>2. FlagsBelow'
    BY <1>1, ParentType DEF SameTree, AlikeTree, FlagsInv, FlagsBelow
  <2>3. Walks'
    BY <1>1, <2>1 DEF SameTree, FlagsInv, Walks, TypeOK
  <2> QED
    BY <2>2, <2>3 DEF FlagsInv
<1>2. ASSUME write_lock, UNCHANGED <<stored, visit>>
      PROVE  Walks' /\ \A q \in Pids : visit[q] = {} /\ visit'[q] = {}
  <2>1. \A r \in Pids : visit[r] = {} /\ visit'[r] = {}
    BY <1>2 DEF write_lock
  <2> QED
    BY <1>2, <2>1 DEF Walks, TypeOK
<1>3. ASSUME NEW p \in Pids, fork(p)
      PROVE  FlagsInv'
  <2>1. PICK c \in Pids : Born(p, c)
    BY <1>3, ForkFrame
  <2>2. proc[p].state = "running" /\ proc[c].state = "free" /\ c # p
    BY <1>3, <2>1, ForkFrame DEF Born, FreePids, Tasks
  <2>3. \A q \in Pids : proc[q].state # "free" => proc[q].parent \in Pids \ {c}
    BY <2>2, ParentType DEF Tree
  <2>4. \A q \in Pids \ {c} : AlikeTree(proc[q], proc'[q])
    BY <2>1 DEF Born, AlikeTree
  <2>5. /\ proc'[c].parent = p
        /\ proc[p].has_child_subreaper \/ proc[p].is_child_subreaper => proc'[c].has_child_subreaper
    BY <2>1 DEF Born
  <2>6. write_lock /\ UNCHANGED <<stored, visit>>
    BY <1>3 DEF fork
  <2>7. FlagsBelow'
    BY <2>2, <2>3, <2>4, <2>5, <2>6 DEF FlagsInv, FlagsBelow, AlikeTree
  <2> QED
    BY <1>2, <2>6, <2>7 DEF FlagsInv
<1>4. ASSUME NEW p \in Pids, do_exit(p)
      PROVE  FlagsInv'
  <2>1. p # init /\ proc[p].state = "running" /\ write_lock /\ UNCHANGED <<stored, visit>>
    BY <1>4 DEF do_exit, Ready
  <2>2. Reaper(p) \in Pids
    BY <2>1, ReaperRuns
  <2>3. /\ proc'[p].state = "zombie" /\ proc'[p].parent = proc[p].parent
        /\ \A q \in Pids \ {p} :
             /\ proc'[q].state = proc[q].state
             /\ proc'[q].parent = IF q \in Tasks /\ proc[q].parent = p THEN Reaper(p) ELSE proc[q].parent
        /\ \A q \in Pids : /\ proc'[q].is_child_subreaper = proc[q].is_child_subreaper
                           /\ proc'[q].has_child_subreaper = proc[q].has_child_subreaper
    BY <1>4, <2>2, ExitFrame
  <2>4. Walks' /\ \A q \in Pids : visit[q] = {} /\ visit'[q] = {}
    BY <1>2, <2>1
  <2>5. ASSUME NEW q \in Pids \ {init, p}, proc[q].state # "free", proc[q].parent = p,
               \/ proc[Reaper(p)].is_child_subreaper /\ Reaper(p) \notin stored
               \/ Reaper(p) # init /\ proc[Reaper(p)].has_child_subreaper
        PROVE  proc[q].has_child_subreaper
    <3>1. CASE Reaper(p) = init
      BY <2>1, <2>5, <3>1, AllBelowInit DEF FlagsInv
    <3>2. CASE proc[p].has_child_subreaper
      BY <2>1, <2>4, <2>5, <3>2 DEF FlagsInv, FlagsBelow
    <3> QED
      BY <2>1, <3>1, <3>2, ReaperIsAncestor
  <2>6. SUFFICES ASSUME NEW t \in Pids \ {init}, proc'[t].state # "free",
                        \/ proc'[proc'[t].parent].is_child_subreaper /\ proc'[t].parent \notin stored
                        \/ proc'[t].parent # init /\ proc'[proc'[t].parent].has_child_subreaper
                 PROVE  proc'[t].has_child_subreaper
    BY <2>1, <2>4 DEF FlagsInv, FlagsBelow
  <2>7. CASE t # p /\ proc[t].parent = p
    <3>1. t \in Tasks /\ proc[t].state # "free"
      BY <2>3, <2>6, <2>7 DEF Tasks
    <3>2. proc'[t].parent = Reaper(p)
      BY <2>3, <2>7, <3>1
    <3> QED
      BY <2>2, <2>3, <2>5, <2>6, <2>7, <3>1, <3>2
  <2>8. CASE t = p \/ proc[t].parent # p
    <3>1. proc'[t].parent = proc[t].parent /\ proc[t].state # "free"
      BY <2>1, <2>3, <2>6, <2>8
    <3>2. proc[t].parent \in Pids
      BY ParentType
    <3> QED
      BY <2>3, <2>4, <2>6, <3>1, <3>2 DEF FlagsInv, FlagsBelow
  <2> QED
    BY <2>7, <2>8
<1>5. ASSUME NEW p \in Pids, release_task(p)
      PROVE  FlagsInv'
  <2>1. /\ p # init /\ proc[p].state = "zombie" /\ proc'[p].state = "free"
        /\ \A q \in Pids \ {p} : proc'[q] = proc[q]
    BY <1>5, ReleaseFrame
  <2>2. \A q \in Pids : proc[q].state # "free" => proc[q].parent \in Pids \ {p}
    BY <2>1, ParentType DEF Tree
  <2>3. write_lock /\ UNCHANGED <<stored, visit>>
    BY <1>5 DEF release_task
  <2>4. FlagsBelow'
    BY <2>1, <2>2, <2>3 DEF FlagsInv, FlagsBelow
  <2> QED
    BY <1>2, <2>3, <2>4 DEF FlagsInv
<1>6. CASE UNCHANGED vars
  BY <1>1, <1>6 DEF vars, SameTree, AlikeTree
<1>7. ASSUME NEW p \in Pids, Life(p)
      PROVE  FlagsInv'
  BY <1>1, <1>3, <1>4, <1>5, <1>7, SubreapFlags, NoNewPrivsFrame, ExecFrame DEF Life, Same
<1> QED
  BY <1>1, <1>6, <1>7, IdCallFrame, JobControlFrame, LimitCallFrame DEF Next

-----------------------------------------------------------------------------
(* User ids *)

\* DropIsComplete is not inductive: that setreuid(u, u) leaves no capability depends
\* on there being none without a user id of root, and that execve gives none back
\* on u not being root.
IdsInv ==
    \A p \in Pids : proc[p].state # "free" =>
        /\ proc[p].user = proc[p].uid.r
        /\ proc[p].caps # "none" => 0 \in {proc[p].uid.r, proc[p].uid.e, proc[p].uid.s}
        /\ dropped[p] # NULL => proc[p].uid = AllIds(dropped[p]) /\ dropped[p] # 0

\* The capabilities go with the last user id of root.
LEMMA CapsNeedRoot ==
    ASSUME NEW caps \in CapSets, NEW old, NEW new, caps # "none" => 0 \in {old.r, old.e, old.s},
           FixCaps(caps, old, new) # "none"
    PROVE  0 \in {new.r, new.e, new.s}
BY DEF FixCaps, CapSets

LEMMA AllIdsFields ==
    /\ \A u : AllIds(u).r = u /\ AllIds(u).e = u /\ AllIds(u).s = u /\ AllIds(u).fs = u
    /\ \A u \in Ids : AllIds(u) \in IdRecord
    /\ \A u, x : x \in IdRecord /\ x.r = u /\ x.e = u /\ x.s = u /\ x.fs = u => x = AllIds(u)
BY DEF AllIds, IdRecord

LEMMA CapsAfterDrop ==
    ASSUME TypeOK, IdsInv, NEW p \in Pids, proc[p].state # "free", dropped[p] # NULL
    PROVE  proc[p].caps = "none"
<1>1. proc[p].uid = AllIds(dropped[p]) /\ dropped[p] # 0
  BY DEF IdsInv
<1>2. proc[p].uid.r = dropped[p] /\ proc[p].uid.e = dropped[p] /\ proc[p].uid.s = dropped[p]
  BY <1>1, AllIdsFields
<1> QED
  BY <1>1, <1>2 DEF IdsInv

\* The ids a call computes from those of a process that has one id only, and that
\* asks for one id only.
LEMMA OneId ==
    ASSUME NEW u \in Ids
    PROVE  /\ \A r, e \in {Keep, u} : re_ids(AllIds(u), r, e) = AllIds(u)
           /\ \A r, e, s \in {Keep, u} : res_ids(AllIds(u), r, e, s) = AllIds(u)
           /\ \A old \in IdRecord : u # Keep => re_ids(old, u, u) = AllIds(u) /\ res_ids(old, u, u, u) = AllIds(u)
<1>1. AllIds(u) \in IdRecord /\ u \in Args /\ Keep \in Args
  BY AllIdsFields DEF Args
<1>2. ASSUME NEW old \in IdRecord, NEW r \in Args, NEW e \in Args
      PROVE  LET new == re_ids(old, r, e)
             IN /\ new.r = (IF r = Keep THEN old.r ELSE r) /\ new.e = (IF e = Keep THEN old.e ELSE e)
                /\ new.fs = new.e /\ new.s \in {old.s, new.e} /\ (r # Keep => new.s = new.e)
  BY DEF re_ids, IdRecord
<1>3. ASSUME NEW old \in IdRecord, NEW r \in Args, NEW e \in Args, NEW s \in Args
      PROVE  LET new == res_ids(old, r, e, s)
             IN /\ new.r = (IF r = Keep THEN old.r ELSE r) /\ new.e = (IF e = Keep THEN old.e ELSE e)
                /\ new.fs = new.e /\ new.s = (IF s = Keep THEN old.s ELSE s)
  BY DEF res_ids, IdRecord
<1>4. ASSUME NEW r \in {Keep, u}, NEW e \in {Keep, u}
      PROVE  re_ids(AllIds(u), r, e) = AllIds(u)
  <2>1. r \in Args /\ e \in Args
    BY <1>1
  <2>2. re_ids(AllIds(u), r, e) \in IdRecord
    BY <1>1, <2>1, ReType
  <2> QED
    BY <1>1, <1>2, <2>1, <2>2, AllIdsFields
<1>5. ASSUME NEW r \in {Keep, u}, NEW e \in {Keep, u}, NEW s \in {Keep, u}
      PROVE  res_ids(AllIds(u), r, e, s) = AllIds(u)
  <2>1. r \in Args /\ e \in Args /\ s \in Args
    BY <1>1
  <2>2. res_ids(AllIds(u), r, e, s) \in IdRecord
    BY <1>1, <2>1, ResType
  <2> DEFINE new == res_ids(AllIds(u), r, e, s)
  <2>3. /\ new.r = (IF r = Keep THEN AllIds(u).r ELSE r) /\ new.e = (IF e = Keep THEN AllIds(u).e ELSE e)
        /\ new.fs = new.e /\ new.s = (IF s = Keep THEN AllIds(u).s ELSE s)
    BY <1>1, <1>3, <2>1
  <2> HIDE DEF new
  <2>4. new.r = u /\ new.e = u /\ new.s = u /\ new.fs = u
    BY <2>3, AllIdsFields
  <2> USE DEF new
  <2> QED
    BY <2>2, <2>4, AllIdsFields
<1>6. ASSUME NEW old \in IdRecord, u # Keep
      PROVE  re_ids(old, u, u) = AllIds(u) /\ res_ids(old, u, u, u) = AllIds(u)
  <2>1. re_ids(old, u, u) \in IdRecord /\ res_ids(old, u, u, u) \in IdRecord
    BY <1>1, ReType, ResType
  <2> QED
    BY <1>1, <1>2, <1>3, <1>6, <2>1, AllIdsFields
<1> QED
  BY <1>4, <1>5, <1>6

LEMMA IdsCommit ==
    ASSUME TypeOK, IdsInv, NEW p \in Pids, proc[p].state = "running", NEW new \in IdRecord, CommitUids(p, new),
           NEW d, dropped' = [dropped EXCEPT ![p] = d], d # NULL => new = AllIds(d) /\ d # 0
    PROVE  IdsInv'
<1>1. PICK user \in Ids, exceeded \in BOOLEAN, caps \in CapSets : CommittedAs(p, new, user, exceeded, caps)
  BY Committed
<1>2. proc[p] \in Task /\ proc[p].caps \in CapSets
  BY DEF TypeOK, Task, CapSets
<1>3. /\ proc'[p].uid = new /\ proc'[p].user = user /\ proc'[p].caps = caps
      /\ \A q \in Pids \ {p} : proc'[q] = proc[q]
  BY <1>1, <1>2 DEF CommittedAs, TypeOK, Task
<1>4. user = new.r /\ caps = FixCaps(proc[p].caps, proc[p].uid, new)
  BY <1>1 DEF CommittedAs, IdsInv
<1>5. caps # "none" => 0 \in {new.r, new.e, new.s}
  BY <1>2, <1>4, CapsNeedRoot DEF IdsInv
<1>6. dropped'[p] = d /\ \A q \in Pids \ {p} : dropped'[q] = dropped[q]
  BY DEF TypeOK
<1> QED
  BY <1>3, <1>4, <1>5, <1>6 DEF IdsInv

\* The calls that set user ids.
LEMMA IdsCalls ==
    ASSUME TypeOK, IdsInv, NEW p \in Pids, IdCall(p)
    PROVE  IdsInv'
<1> DEFINE old == proc[p].uid
<1>1. proc[p] \in Task /\ old \in IdRecord /\ proc[p].gid \in IdRecord
  BY DEF TypeOK, Task
<1>2. Keep \notin Ids /\ Ids \subseteq Nat
  BY ProcessesConstants DEF Keep
<1>3. ASSUME proc[p].state = "running", dropped[p] # NULL
      PROVE  /\ dropped[p] \in Ids \ {0} /\ old = AllIds(dropped[p]) /\ ~ns_capable(p)
             /\ {old.r, old.e, old.s, old.fs} = {dropped[p]}
  BY <1>3, CapsAfterDrop DEF IdsInv, TypeOK, ns_capable, AllIds
<1>4. dropped = [dropped EXCEPT ![p] = dropped[p]]
  BY DEF TypeOK
<1>5. ASSUME NEW gid, Change(p, [proc[p] EXCEPT !.gid = gid]), dropped' = dropped
      PROVE  IdsInv'
  <2>1. /\ \A q \in Pids \ {p} : proc'[q] = proc[q]
        /\ proc'[p].state = proc[p].state /\ proc'[p].uid = proc[p].uid /\ proc'[p].user = proc[p].user
        /\ proc'[p].caps = proc[p].caps
    BY <1>1, <1>5 DEF Change, TypeOK, Task
  <2> QED
    BY <1>5, <2>1 DEF IdsInv
<1>6. ASSUME NEW r \in Args, NEW e \in Args, setreuid(p, r, e)
      PROVE  IdsInv'
  <2> DEFINE new == re_ids(old, r, e)
             d == IF (r = e /\ r # Keep) /\ e # 0 THEN e ELSE dropped[p]
  <2>1. /\ proc[p].state = "running" /\ CommitUids(p, new) /\ dropped' = [dropped EXCEPT ![p] = d]
        /\ re_permitted(old, ns_capable(p), r, e)
    BY <1>6 DEF setreuid, Call, Ready, GivesUp
  <2>2. new \in IdRecord
    BY <1>1, ReType
  <2>3. ASSUME d # NULL
        PROVE  new = AllIds(d) /\ d # 0
    <3>1. CASE (r = e /\ r # Keep) /\ e # 0
      BY <1>1, <3>1, OneId DEF Args
    <3>2. CASE ~((r = e /\ r # Keep) /\ e # 0)
      <4>1. d = dropped[p] /\ dropped[p] # NULL
        BY <2>3, <3>2
      <4>2. r \in {Keep, dropped[p]} /\ e \in {Keep, dropped[p]}
        BY <1>3, <2>1, <4>1 DEF re_permitted
      <4> QED
        BY <1>3, <2>1, <4>1, <4>2, OneId
    <3> QED
      BY <3>1, <3>2
  <2> HIDE DEF new, d
  <2> QED
    BY <2>1, <2>2, <2>3, IdsCommit
<1>7. ASSUME NEW r \in Args, NEW e \in Args, NEW s \in Args, setresuid(p, r, e, s)
      PROVE  IdsInv'
  <2> DEFINE new == res_ids(old, r, e, s)
             d == IF (r = e /\ e = s /\ r # Keep) /\ e # 0 THEN e ELSE dropped[p]
  <2>1. /\ proc[p].state = "running" /\ CommitUids(p, new) /\ dropped' = [dropped EXCEPT ![p] = d]
        /\ res_permitted(old, ns_capable(p), r, e, s)
    BY <1>7 DEF setresuid, Call, Ready, GivesUp
  <2>2. new \in IdRecord
    BY <1>1, ResType
  <2>3. ASSUME d # NULL
        PROVE  new = AllIds(d) /\ d # 0
    <3>1. CASE (r = e /\ e = s /\ r # Keep) /\ e # 0
      BY <1>1, <3>1, OneId DEF Args
    <3>2. CASE ~((r = e /\ e = s /\ r # Keep) /\ e # 0)
      <4>1. d = dropped[p] /\ dropped[p] # NULL
        BY <2>3, <3>2
      <4>2. {r, e, s} \subseteq {Keep, dropped[p]}
        BY <1>3, <2>1, <4>1 DEF res_permitted
      <4> QED
        BY <1>3, <2>1, <4>1, <4>2, OneId
    <3> QED
      BY <3>1, <3>2
  <2> HIDE DEF new, d
  <2> QED
    BY <2>1, <2>2, <2>3, IdsCommit
<1>8. ASSUME NEW id \in Ids, setuid(p, id)
      PROVE  IdsInv'
  <2> DEFINE new == set_ids(old, ns_capable(p), id)
             d == IF ns_capable(p) /\ id # 0 THEN id ELSE dropped[p]
  <2>1. /\ proc[p].state = "running" /\ CommitUids(p, new) /\ dropped' = [dropped EXCEPT ![p] = d]
        /\ set_permitted(old, ns_capable(p), id)
    BY <1>8 DEF setuid, Call, Ready, GivesUp
  <2>2. new \in IdRecord
    BY <1>1, SetType
  <2>3. ASSUME d # NULL
        PROVE  new = AllIds(d) /\ d # 0
    <3>1. CASE ns_capable(p) /\ id # 0
      BY <3>1 DEF set_ids
    <3>2. CASE ~(ns_capable(p) /\ id # 0)
      <4>1. d = dropped[p] /\ dropped[p] # NULL
        BY <2>3, <3>2
      <4>2. id = dropped[p] /\ new = [AllIds(id) EXCEPT !.e = id, !.fs = id]
        BY <1>3, <2>1, <4>1 DEF set_permitted, set_ids
      <4>3. [AllIds(id) EXCEPT !.e = id, !.fs = id] = AllIds(id)
        <5>1. AllIds(id) \in IdRecord /\ AllIds(id).e = id /\ AllIds(id).fs = id
          BY AllIdsFields
        <5> QED
          BY <5>1 DEF IdRecord
      <4> QED
        BY <1>3, <2>1, <4>1, <4>2, <4>3
    <3> QED
      BY <3>1, <3>2
  <2> HIDE DEF new, d
  <2> QED
    BY <2>1, <2>2, <2>3, IdsCommit
<1>9. ASSUME NEW id \in Ids, setfsuid(p, id)
      PROVE  IdsInv'
  <2> DEFINE new == [old EXCEPT !.fs = id]
  <2>1. /\ proc[p].state = "running" /\ CommitUids(p, new) /\ dropped' = dropped
        /\ fs_permitted(old, ns_capable(p), id)
    BY <1>9 DEF setfsuid, Call, Ready
  <2>2. new \in IdRecord
    BY <1>1, SetType
  <2>3. dropped[p] = NULL
    BY <1>3, <2>1 DEF fs_permitted
  <2> HIDE DEF new
  <2> QED
    BY <1>4, <2>1, <2>2, <2>3, IdsCommit
<1>10. ASSUME NEW r, NEW e, setregid(p, r, e)
      PROVE  IdsInv'
  BY <1>5, <1>10 DEF setregid
<1>11. ASSUME NEW r, NEW e, NEW s, setresgid(p, r, e, s)
      PROVE  IdsInv'
  BY <1>5, <1>11 DEF setresgid
<1>12. ASSUME NEW id, setgid(p, id)
      PROVE  IdsInv'
  BY <1>5, <1>12 DEF setgid
<1>13. ASSUME NEW id, setfsgid(p, id)
      PROVE  IdsInv'
  <2>1. [proc[p] EXCEPT !.gid.fs = id] = [proc[p] EXCEPT !.gid = [proc[p].gid EXCEPT !.fs = id]]
    BY <1>1 DEF Task
  <2> QED
    BY <1>5, <1>13, <2>1 DEF setfsgid
<1> QED
  BY <1>6, <1>7, <1>8, <1>9, <1>10, <1>11, <1>12, <1>13 DEF IdCall

\* execve gives a new id, or those the process has.
LEMMA IdsExec ==
    ASSUME TypeOK, IdsInv, NEW p \in Pids, NEW owner \in Ids \cup {NULL}, execve(p, owner)
    PROVE  IdsInv'
<1> DEFINE old == proc[p]
           e == IF owner = NULL \/ old.no_new_privs THEN old.uid.e ELSE owner
           caps == IF e = 0 THEN "effective" ELSE IF old.uid.r = 0 THEN "permitted" ELSE "none"
           uid == [old.uid EXCEPT !.e = e, !.s = e, !.fs = e]
           gid == [old.gid EXCEPT !.s = old.gid.e, !.fs = old.gid.e]
<1>1. old \in Task /\ old.uid \in IdRecord
  BY DEF TypeOK, Task
<1>2. /\ proc' = [proc EXCEPT ![p] = [old EXCEPT !.uid = uid, !.gid = gid, !.caps = caps,
                                                 !.forknoexec = FALSE, !.nproc_exceeded = FALSE]]
      /\ dropped' = [dropped EXCEPT ![p] = IF e = old.uid.e THEN dropped[p] ELSE NULL]
      /\ old.state = "running"
  BY DEF execve, Change, Call, Ready
<1>3. uid.r = old.uid.r /\ uid.e = e /\ uid.s = e
  BY <1>1 DEF IdRecord
<1>4. caps # "none" => 0 \in {uid.r, uid.e, uid.s}
  BY <1>3
<1>5. ASSUME e = old.uid.e, dropped[p] # NULL
      PROVE  uid = AllIds(dropped[p]) /\ dropped[p] # 0
  <2>1. old.uid = AllIds(dropped[p]) /\ dropped[p] # 0
    BY <1>2, <1>5 DEF IdsInv
  <2>2. old.uid.r = dropped[p] /\ e = dropped[p]
    BY <1>5, <2>1, AllIdsFields
  <2>3. uid \in IdRecord /\ uid.r = old.uid.r /\ uid.e = e /\ uid.s = e /\ uid.fs = e
    <3>1. e \in Ids
      BY <1>1, <1>5 DEF IdRecord
    <3> HIDE DEF e
    <3> QED
      BY <1>1, <3>1 DEF IdRecord
  <2> HIDE DEF uid
  <2> QED
    BY <2>1, <2>2, <2>3, AllIdsFields
<1> HIDE DEF e, caps, uid, gid
<1>6. /\ \A q \in Pids \ {p} : proc'[q] = proc[q]
      /\ proc'[p].uid = uid /\ proc'[p].caps = caps /\ proc'[p].user = old.user
  BY <1>1, <1>2 DEF TypeOK, Task
<1>7. /\ \A q \in Pids \ {p} : dropped'[q] = dropped[q]
      /\ dropped'[p] # NULL => dropped'[p] = dropped[p] /\ e = old.uid.e
  BY <1>2 DEF TypeOK
<1>8. /\ proc'[p].user = proc'[p].uid.r
      /\ proc'[p].caps # "none" => 0 \in {proc'[p].uid.r, proc'[p].uid.e, proc'[p].uid.s}
      /\ dropped'[p] # NULL => proc'[p].uid = AllIds(dropped'[p]) /\ dropped'[p] # 0
  BY <1>2, <1>3, <1>4, <1>5, <1>6, <1>7 DEF IdsInv
<1> QED
  BY <1>6, <1>7, <1>8 DEF IdsInv

LEMMA IdsNext ==
    ASSUME TypeOK, TreeOK, IdsInv, [Next]_vars
    PROVE  IdsInv'
<1>1. CASE SameIds
  BY <1>1 DEF SameIds, AlikeIds, IdsInv
<1>2. ASSUME NEW p \in Pids, fork(p)
      PROVE  IdsInv'
  <2>1. PICK c \in Pids : Born(p, c)
    BY <1>2, ForkFrame
  <2>2. proc[p].state = "running" /\ c # p
    BY <1>2, <2>1, ForkFrame DEF Born
  <2>3. /\ \A q \in Pids \ {c} : AlikeIds(proc[q], proc'[q]) /\ dropped'[q] = dropped[q]
        /\ AlikeIds(proc[p], proc'[c]) /\ dropped'[c] = dropped[p]
    BY <2>1 DEF Born, AlikeIds, TypeOK
  <2> QED
    BY <2>2, <2>3 DEF AlikeIds, IdsInv
<1>3. ASSUME NEW p \in Pids, do_exit(p)
      PROVE  IdsInv'
  BY <1>3, ReaperType, ExitFrame DEF IdsInv
<1>4. ASSUME NEW p \in Pids, release_task(p)
      PROVE  IdsInv'
  <2>1. proc'[p].state = "free" /\ \A q \in Pids \ {p} : proc'[q] = proc[q] /\ dropped'[q] = dropped[q]
    BY <1>4, ReleaseFrame DEF TypeOK
  <2> QED
    BY <2>1 DEF IdsInv
<1>5. CASE UNCHANGED vars
  BY <1>5 DEF vars, IdsInv
<1>6. ASSUME NEW p \in Pids, Life(p)
      PROVE  IdsInv'
  BY <1>1, <1>2, <1>3, <1>4, <1>6, SubreaperFrame, NoNewPrivsFrame, IdsExec DEF Life, Same
<1> QED
  BY <1>1, <1>5, <1>6, IdsCalls, JobControlFrame, LimitCallFrame DEF Next

-----------------------------------------------------------------------------
(* Limits and priorities *)

\* LimitsHold for one process.
Within(task, privileged) ==
    /\ \A r \in Resources : task.rlim[r].cur <= task.rlim[r].max \/ (r = "RLIMIT_CPU" /\ task.rlim[r].cur = 1)
    /\ ~privileged =>
         /\ \A r \in Resources : task.rlim[r].max <= InitialLimits[r].max
         /\ task.nice < 0 => nice_to_rlimit(task.nice) <= InitialLimits["RLIMIT_NICE"].max

LEMMA LimitsAreWithin ==
    LimitsHold <=> \A q \in Pids : proc[q].state # "free" => Within(proc[q], q \in trusted)
BY DEF LimitsHold, Within, Tasks

LEMMA WithinNext ==
    ASSUME \A q \in Pids : proc'[q].state # "free" => Within(proc'[q], q \in trusted')
    PROVE  LimitsHold'
BY DEF LimitsHold, Within, Tasks

LEMMA LimitTypes ==
    ASSUME TypeOK, NEW t \in Pids
    PROVE  /\ proc[t].rlim \in [Resources -> Limit] /\ proc[t].nice \in Int
           /\ \A r \in Resources : /\ proc[t].rlim[r].cur \in Nat /\ proc[t].rlim[r].max \in Nat
                                   /\ InitialLimits[r].max \in Nat
<1>1. proc[t].rlim \in [Resources -> Limit] /\ proc[t].nice \in Int
  BY DEF TypeOK, Task
<1>2. \A r \in Resources : proc[t].rlim[r] \in Limit /\ InitialLimits[r] \in Limit
  BY <1>1, ProcessesConstants DEF Limit
<1> QED
  BY <1>1, <1>2 DEF Limit

\* do_prlimit raises a hard limit only for a caller with the capability, and then
\* marks the process it changes.
LEMMA LimitsPrlimit ==
    ASSUME TypeOK, LimitsHold, NEW p \in Pids, NEW t \in Pids, NEW resource \in Resources, NEW new \in Limit,
           do_prlimit(p, t, resource, new), UNCHANGED <<stored, visit>>
    PROVE  LimitsHold'
<1> DEFINE kept == Stored(resource, new)
<1>1. /\ kept.max = new.max /\ new.max \in Nat
      /\ kept.cur <= kept.max \/ (resource = "RLIMIT_CPU" /\ kept.cur = 1)
  <2>1. new.cur <= new.max
    BY DEF do_prlimit, may_prlimit
  <2>2. new.cur \in Nat /\ new.max \in Nat
    BY DEF Limit
  <2>3. CASE resource = "RLIMIT_CPU" /\ new.cur = 0
    <3>1. kept = [new EXCEPT !.cur = 1]
      BY <2>3 DEF Stored
    <3>2. [new EXCEPT !.cur = 1].cur = 1 /\ [new EXCEPT !.cur = 1].max = new.max
      BY DEF Limit
    <3> QED
      BY <2>2, <2>3, <3>1, <3>2
  <2>4. CASE ~(resource = "RLIMIT_CPU" /\ new.cur = 0)
    BY <2>1, <2>2, <2>4 DEF Stored
  <2> QED
    BY <2>3, <2>4
<1> HIDE DEF kept
<1>2. /\ new.max > proc[t].rlim[resource].max => ns_capable(p)
      /\ trusted' = IF ns_capable(p) THEN trusted \cup {t} ELSE trusted
  BY DEF do_prlimit, may_prlimit, Touch
<1>3. /\ \A q \in Pids : proc'[q].state = proc[q].state /\ proc'[q].nice = proc[q].nice
      /\ \A q \in Pids \ {t} : proc'[q].rlim = proc[q].rlim
      /\ proc'[t].rlim = [proc[t].rlim EXCEPT ![resource] = kept]
  BY PrlimitFrame DEF SameTree, AlikeTree, kept
<1>4. /\ proc'[t].rlim[resource] = kept
      /\ \A r \in Resources \ {resource} : proc'[t].rlim[r] = proc[t].rlim[r]
  BY <1>3, LimitTypes
<1>5. ASSUME NEW q \in Pids, proc[q].state # "free"
      PROVE  Within(proc'[q], q \in trusted')
  <2>1. Within(proc[q], q \in trusted)
    BY <1>5, LimitsAreWithin
  <2>2. CASE q # t
    <3>1. (q \in trusted') = (q \in trusted)
      BY <1>2, <2>2
    <3> QED
      BY <1>3, <2>1, <2>2, <3>1 DEF Within
  <2>3. CASE q = t
    <3>1. q \in trusted => q \in trusted'
      BY <1>2
    <3>2. \A r \in Resources : proc'[q].rlim[r].cur <= proc'[q].rlim[r].max
                                 \/ (r = "RLIMIT_CPU" /\ proc'[q].rlim[r].cur = 1)
      BY <1>1, <1>4, <2>1, <2>3 DEF Within
    <3>3. ASSUME q \notin trusted'
          PROVE  /\ \A r \in Resources : proc'[q].rlim[r].max <= InitialLimits[r].max
                 /\ proc'[q].nice < 0 => nice_to_rlimit(proc'[q].nice) <= InitialLimits["RLIMIT_NICE"].max
      <4>1. q \notin trusted /\ ~ns_capable(p)
        BY <1>2, <2>3, <3>3
      <4>2. \A r \in Resources : proc[q].rlim[r].max <= InitialLimits[r].max
        BY <2>1, <4>1 DEF Within
      <4>3. new.max <= proc[t].rlim[resource].max
        BY <1>1, <1>2, <4>1, LimitTypes
      <4>4. kept.max <= InitialLimits[resource].max
        BY <1>1, <2>3, <4>2, <4>3, LimitTypes
      <4>5. proc[q].nice < 0 => nice_to_rlimit(proc[q].nice) <= InitialLimits["RLIMIT_NICE"].max
        BY <2>1, <4>1 DEF Within
      <4> QED
        BY <1>3, <1>4, <2>3, <4>2, <4>4, <4>5
    <3> QED
      BY <3>2, <3>3 DEF Within
  <2> QED
    BY <2>2, <2>3
<1> QED
  BY <1>3, <1>5, WithinNext

\* setpriority: below zero only as far as RLIMIT_NICE goes, or for a caller with the
\* capability, which marks the processes it changes.
LEMMA LimitsPriority ==
    ASSUME TypeOK, LimitsHold, NEW p \in Pids, NEW which \in {"PRIO_PROCESS", "PRIO_PGRP", "PRIO_USER"},
           NEW who \in Pids \cup {0}, NEW niceval \in Priorities, setpriority(p, which, who, niceval)
    PROVE  LimitsHold'
<1> DEFINE nice == IF niceval < MIN_NICE THEN MIN_NICE ELSE IF niceval > MAX_NICE THEN MAX_NICE ELSE niceval
           set == {t \in Named(p, which, who) : set_one_prio(p, t, nice)}
           Nicer(task) == [task EXCEPT !.nice = nice]
<1>1. nice \in Int
  BY ProcessesConstants DEF MIN_NICE, MAX_NICE
<1>2. /\ \A t \in Pids : proc'[t] = IF t \in set THEN Nicer(proc[t]) ELSE proc[t]
      /\ trusted' = IF ns_capable(p) THEN trusted \cup set ELSE trusted
  BY DEF setpriority, Touch
<1>3. \A t \in set : nice < proc[t].nice => nice_to_rlimit(nice) <= proc[t].rlim["RLIMIT_NICE"].cur \/ ns_capable(p)
  BY DEF set_one_prio, can_nice
<1> HIDE DEF nice, set
<1>4. ASSUME NEW task \in Task
      PROVE  Nicer(task).state = task.state /\ Nicer(task).rlim = task.rlim /\ Nicer(task).nice = nice
  BY DEF Task
<1> HIDE DEF Nicer
<1>5. \A t \in Pids : /\ proc'[t].state = proc[t].state /\ proc'[t].rlim = proc[t].rlim
                      /\ proc'[t].nice = IF t \in set THEN nice ELSE proc[t].nice
  BY <1>2, <1>4 DEF TypeOK
<1>6. ASSUME NEW t \in Pids, proc'[t].state # "free"
      PROVE  Within(proc'[t], t \in trusted')
  <2>1. Within(proc[t], t \in trusted)
    BY <1>5, <1>6, LimitsAreWithin
  <2>2. \A r \in Resources : proc'[t].rlim[r].cur <= proc'[t].rlim[r].max
                               \/ (r = "RLIMIT_CPU" /\ proc'[t].rlim[r].cur = 1)
    BY <1>5, <2>1 DEF Within
  <2>3. ASSUME t \notin trusted'
        PROVE  /\ \A r \in Resources : proc'[t].rlim[r].max <= InitialLimits[r].max
               /\ proc'[t].nice < 0 => nice_to_rlimit(proc'[t].nice) <= InitialLimits["RLIMIT_NICE"].max
    <3>1. t \notin trusted /\ (t \in set => ~ns_capable(p))
      BY <1>2, <2>3
    <3>2. /\ \A r \in Resources : proc[t].rlim[r].max <= InitialLimits[r].max
          /\ proc[t].nice < 0 => nice_to_rlimit(proc[t].nice) <= InitialLimits["RLIMIT_NICE"].max
      BY <2>1, <3>1 DEF Within
    <3>3. proc[t].rlim["RLIMIT_NICE"].cur <= proc[t].rlim["RLIMIT_NICE"].max /\ "RLIMIT_NICE" \in Resources
      BY <2>1 DEF Within, Resources
    <3>4. /\ proc[t].rlim["RLIMIT_NICE"].cur \in Nat /\ proc[t].rlim["RLIMIT_NICE"].max \in Nat
          /\ InitialLimits["RLIMIT_NICE"].max \in Nat /\ proc[t].nice \in Int
      BY <3>3, LimitTypes
    <3>5. CASE t \in set /\ nice < proc[t].nice
      BY <1>1, <1>3, <1>5, <3>1, <3>2, <3>3, <3>4, <3>5 DEF nice_to_rlimit, MAX_NICE
    <3>6. CASE t \in set /\ ~(nice < proc[t].nice)
      BY <1>1, <1>5, <3>2, <3>4, <3>6 DEF nice_to_rlimit, MAX_NICE
    <3>7. CASE t \notin set
      BY <1>5, <3>2, <3>7
    <3> QED
      BY <3>5, <3>6, <3>7
  <2> QED
    BY <2>2, <2>3 DEF Within
<1> QED
  BY <1>6, WithinNext

LEMMA LimitsNext ==
    ASSUME TypeOK, TreeOK, LimitsHold, [Next]_vars
    PROVE  LimitsHold'
<1>1. ASSUME \A q \in Pids : AlikeLimits(proc[q], proc'[q]), trusted \subseteq trusted'
      PROVE  LimitsHold'
  <2>1. ASSUME NEW q \in Pids, proc'[q].state # "free"
        PROVE  Within(proc'[q], q \in trusted')
    <3>1. Within(proc[q], q \in trusted)
      BY <1>1, <2>1, LimitsAreWithin DEF AlikeLimits
    <3> QED
      BY <1>1, <3>1 DEF Within, AlikeLimits
  <2> QED
    BY <2>1, WithinNext
<1>2. CASE SameLimits
  BY <1>1, <1>2 DEF SameLimits
<1>3. ASSUME NEW p \in Pids, LimitCall(p)
      PROVE  LimitsHold'
  <2>1. ASSUME NEW which \in {"PRIO_PROCESS", "PRIO_PGRP", "PRIO_USER"}, NEW who \in Pids \cup {0},
               NEW niceval \in Priorities, setpriority(p, which, who, niceval)
        PROVE  LimitsHold'
    BY <2>1, LimitsPriority
  <2>2. ASSUME NEW l \in Limits, setrlimit(p, l[1], l[2])
        PROVE  LimitsHold'
    <3>1. l[1] \in Resources /\ l[2] \in Limit
      BY ProcessesConstants DEF Limit
    <3> QED
      BY <2>2, <3>1, LimitsPrlimit DEF setrlimit
  <2>3. ASSUME UNCHANGED <<proc, trusted>>
        PROVE  LimitsHold'
    BY <1>1, <2>3 DEF AlikeLimits
  <2>4. ASSUME NEW l, NEW t, prlimit64(p, t, l[1], l[2])
        PROVE  LimitsHold'
    BY <2>3, <2>4 DEF prlimit64
  <2>5. CASE FinishPrlimit(p)
    <3> DEFINE c == prlimit[p]
    <3>1. c.task \in Pids \cup {NULL} /\ c.resource \in Resources /\ c.new \in Limit
      BY <2>5 DEF FinishPrlimit, TypeOK, PrlimitCall
    <3>2. CASE c.task # NULL /\ may_prlimit(p, c.task, c.resource, c.new)
      BY <2>5, <3>1, <3>2, LimitsPrlimit DEF FinishPrlimit
    <3>3. CASE ~(c.task # NULL /\ may_prlimit(p, c.task, c.resource, c.new))
      BY <2>3, <2>5, <3>3 DEF FinishPrlimit
    <3> QED
      BY <3>2, <3>3
  <2> QED
    BY <1>3, <2>1, <2>2, <2>4, <2>5 DEF LimitCall
<1>4. ASSUME NEW p \in Pids, fork(p)
      PROVE  LimitsHold'
  <2>1. PICK c \in Pids : Born(p, c)
    BY <1>4, ForkFrame
  <2>2. proc[p].state = "running" /\ c # p
    BY <1>4, <2>1, ForkFrame DEF Born
  <2>3. /\ \A q \in Pids \ {c} : AlikeLimits(proc[q], proc'[q]) /\ (q \in trusted => q \in trusted')
        /\ AlikeLimits(proc[p], proc'[c]) /\ (p \in trusted => c \in trusted')
    BY <2>1 DEF Born, AlikeLimits
  <2>4. ASSUME NEW q \in Pids, proc'[q].state # "free"
        PROVE  Within(proc'[q], q \in trusted')
    <3>1. CASE q = c
      <4>1. Within(proc[p], p \in trusted)
        BY <2>2, LimitsAreWithin
      <4> QED
        BY <2>3, <3>1, <4>1 DEF Within, AlikeLimits
    <3>2. CASE q # c
      <4>1. Within(proc[q], q \in trusted)
        BY <2>3, <2>4, <3>2, LimitsAreWithin DEF AlikeLimits
      <4> QED
        BY <2>3, <3>2, <4>1 DEF Within, AlikeLimits
    <3> QED
      BY <3>1, <3>2
  <2> QED
    BY <2>4, WithinNext
<1>5. ASSUME NEW p \in Pids, do_exit(p)
      PROVE  LimitsHold'
  <2>1. /\ proc[p].state = "running" /\ trusted' = trusted
        /\ \A q \in Pids : /\ q # p => proc'[q].state = proc[q].state
                           /\ proc'[q].rlim = proc[q].rlim /\ proc'[q].nice = proc[q].nice
    BY <1>5, ReaperType, ExitFrame
  <2>2. ASSUME NEW q \in Pids, proc'[q].state # "free"
        PROVE  Within(proc'[q], q \in trusted')
    <3>1. Within(proc[q], q \in trusted)
      BY <2>1, <2>2, LimitsAreWithin
    <3> QED
      BY <2>1, <3>1 DEF Within
  <2> QED
    BY <2>2, WithinNext
<1>6. ASSUME NEW p \in Pids, release_task(p)
      PROVE  LimitsHold'
  <2>1. /\ proc'[p].state = "free" /\ trusted' = trusted \ {p}
        /\ \A q \in Pids \ {p} : proc'[q] = proc[q]
    BY <1>6, ReleaseFrame
  <2>2. ASSUME NEW q \in Pids, proc'[q].state # "free"
        PROVE  Within(proc'[q], q \in trusted')
    <3>1. q # p /\ Within(proc[q], q \in trusted)
      BY <2>1, <2>2, LimitsAreWithin
    <3> QED
      BY <2>1, <3>1 DEF Within
  <2> QED
    BY <2>2, WithinNext
<1>7. CASE UNCHANGED vars
  BY <1>1, <1>7 DEF vars, AlikeLimits
<1>8. ASSUME NEW p \in Pids, NEW owner \in Ids \cup {NULL}, execve(p, owner)
      PROVE  LimitsHold'
  <2>1. \A q \in Pids : AlikeLimits(proc[q], proc'[q])
    BY <1>8, ExecFrame DEF SameTree, AlikeTree, AlikeLimits
  <2> QED
    BY <1>1, <1>8, <2>1, ExecFrame
<1>9. ASSUME NEW p \in Pids, Life(p)
      PROVE  LimitsHold'
  BY <1>2, <1>4, <1>5, <1>6, <1>8, <1>9, SubreaperFrame, NoNewPrivsFrame DEF Life, Same
<1> QED
  BY <1>2, <1>3, <1>7, <1>9, IdCallFrame, JobControlFrame DEF Next

-----------------------------------------------------------------------------
(* The theorems *)

\* The table is well formed, and init and the processes under it are a tree.
THEOREM TableCorrect == Spec => [](TypeOK /\ TreeOK)
<1>1. TypeOK /\ TreeOK /\ [Next]_vars => (TypeOK /\ TreeOK)'
  BY TypeNext, TreeNext
<1> QED
  BY TypeInit, TreeInit, <1>1, PTL DEF Spec

\* Groups stay within a session, and session leaders lead, whatever sequence of
\* setpgid, setsid, fork and exit the processes make and however pids are reused.
THEOREM SessionsAreSoundHolds == Spec => []SessionsAreSound
<1>1. TypeOK /\ TreeOK /\ SessionInv /\ [Next]_vars => SessionInv'
  BY SessionNext, ReaperType
<1>2. SessionInv => SessionsAreSound
  BY DEF SessionInv, SessionsAreSound, Tasks, Group
<1> QED
  BY TableCorrect, SessionInit, <1>1, <1>2, PTL DEF Spec

\* A program that gives up its ids cannot get them back, nor can its children.
THEOREM DropIsCompleteHolds == Spec => []DropIsComplete
<1>1. Init => IdsInv
  <2> SUFFICES ASSUME Init PROVE IdsInv
    OBVIOUS
  <2>1. \A id, parent, pid : /\ NewProcess(id, parent, pid).user = id
                             /\ NewProcess(id, parent, pid).uid = AllIds(id)
                             /\ NewProcess(id, parent, pid).caps = IF id = 0 THEN "effective" ELSE "none"
    BY DEF NewProcess
  <2>2. \A p \in Pids : proc[p] \in {NewProcess(0, init, init), NewProcess(1, init, 2), Free} /\ dropped[p] = NULL
    BY DEF Init
  <2>3. Free.state = "free"
    BY DEF Free, NewProcess
  <2> QED
    BY <2>1, <2>2, <2>3, AllIdsFields DEF IdsInv
<1>2. TypeOK /\ TreeOK /\ IdsInv /\ [Next]_vars => IdsInv'
  BY IdsNext
<1>3. TypeOK /\ IdsInv => DropIsComplete
  BY CapsAfterDrop DEF IdsInv, DropIsComplete, Tasks
<1> QED
  BY TableCorrect, <1>1, <1>2, <1>3, PTL DEF Spec

\* Without privilege the limits of a process, and its priority, only tighten.
THEOREM LimitsHoldAlways == Spec => []LimitsHold
<1>1. Init => LimitsHold
  <2> SUFFICES ASSUME Init PROVE LimitsHold
    OBVIOUS
  <2>1. \A id, parent, pid : /\ NewProcess(id, parent, pid).rlim = InitialLimits
                             /\ NewProcess(id, parent, pid).nice = 0
    BY DEF NewProcess
  <2>2. \A p \in Pids : proc[p] \in {NewProcess(0, init, init), NewProcess(1, init, 2), Free}
    BY DEF Init
  <2>3. Free.state = "free"
    BY DEF Free, NewProcess
  <2>4. \A r \in Resources : /\ InitialLimits[r].cur <= InitialLimits[r].max
                             /\ InitialLimits[r].max \in Nat
    <3>1. \A r \in Resources : InitialLimits[r] \in Limit
      BY ProcessesConstants DEF Limit
    <3> QED
      BY <3>1, ProcessesConstants DEF Limit
  <2>5. \A q \in Pids : proc[q].state # "free" => proc[q].rlim = InitialLimits /\ proc[q].nice = 0
    BY <2>1, <2>2, <2>3
  <2> QED
    BY <2>4, <2>5 DEF LimitsHold, Tasks
<1>2. TypeOK /\ TreeOK /\ LimitsHold /\ [Next]_vars => LimitsHold'
  BY LimitsNext
<1> QED
  BY TableCorrect, <1>1, <1>2, PTL DEF Spec

\* No orphan misses the subreaper above it: the walk may turn back where it does,
\* however many walks there are at once.
THEOREM SubreaperSeesAllHolds == Spec => []SubreaperSeesAll
<1>1. Init => FlagsInv
  <2> SUFFICES ASSUME Init PROVE FlagsInv
    OBVIOUS
  <2>1. \A id, parent, pid : /\ NewProcess(id, parent, pid).parent = parent
                             /\ NewProcess(id, parent, pid).is_child_subreaper = FALSE
                             /\ NewProcess(id, parent, pid).has_child_subreaper = FALSE
    BY DEF NewProcess
  <2>2. Free.state = "free" /\ Free.is_child_subreaper = FALSE
    BY DEF Free, NewProcess
  <2>3. \A p \in Pids : proc[p] \in {NewProcess(0, init, init), NewProcess(1, init, 2), Free}
    BY DEF Init
  <2> QED
    BY <2>1, <2>2, <2>3, InitPid DEF FlagsInv, FlagsBelow, Walks, Init
<1>2. TypeOK /\ TreeOK /\ FlagsInv /\ [Next]_vars => FlagsInv'
  BY FlagsNext
<1>3. TypeOK /\ TreeOK /\ FlagsInv => SubreaperSeesAll
  BY FlagsReachAll
<1> QED
  BY TableCorrect, <1>1, <1>2, <1>3, PTL DEF Spec

-----------------------------------------------------------------------------
(* Who raises a limit *)

\* The hard limits of a process, before and after a step.
Tighter(old, new) == \A r \in Resources : new.rlim[r].max <= old.rlim[r].max

\* prlimit64 and setrlimit test the hard limit in the step that changes it.
LEMMA PrlimitTightens ==
    ASSUME TypeOK, NEW p \in Pids, NEW t \in Pids, NEW resource \in Resources, NEW new \in Limit,
           do_prlimit(p, t, resource, new), UNCHANGED <<stored, visit>>, ~ns_capable(p)
    PROVE  Tighter(proc[t], proc'[t])
<1>1. proc'[t].rlim = [proc[t].rlim EXCEPT ![resource] = Stored(resource, new)]
  BY PrlimitFrame
<1>2. new.max <= proc[t].rlim[resource].max
  <2>1. ~(new.max > proc[t].rlim[resource].max)
    BY DEF do_prlimit, may_prlimit
  <2> QED
    BY <2>1, LimitTypes DEF Limit
<1>3. Stored(resource, new).max = new.max
  <2>1. [new EXCEPT !.cur = 1].max = new.max
    BY DEF Limit
  <2> QED
    BY <2>1 DEF Stored
<1>4. ASSUME NEW r \in Resources
      PROVE  proc'[t].rlim[r].max <= proc[t].rlim[r].max
  <2>1. proc[t].rlim \in [Resources -> Limit] /\ proc[t].rlim[r].max \in Nat
    BY LimitTypes DEF TypeOK, Task
  <2>2. CASE r = resource
    <3>1. proc'[t].rlim[r] = Stored(resource, new)
      BY <1>1, <2>1, <2>2
    <3> QED
      BY <1>2, <1>3, <2>2, <3>1
  <2>3. CASE r # resource
    <3>1. proc'[t].rlim[r] = proc[t].rlim[r]
      BY <1>1, <2>1, <2>3
    <3> QED
      BY <2>1, <3>1
  <2> QED
    BY <2>2, <2>3
<1> QED
  BY <1>4 DEF Tighter

\* A hard limit is raised only by a caller that has the capability when it does so,
\* whatever happened to the target since the check of prlimit64.
THEOREM LimitsTightenHolds == Spec => LimitsTighten
<1>1. ASSUME TypeOK, TreeOK, Next, NEW p \in Tasks, proc'[p].state # "free"
      PROVE  \/ Tighter(proc[p], proc'[p])
             \/ ns_capable(p) /\ prlimit' = prlimit
             \/ \E q \in Pids : /\ prlimit[q] # NULL /\ prlimit[q].task = p /\ prlimit'[q] = NULL
                               /\ ns_capable(q)
  <2>1. p \in Pids /\ proc[p].state # "free"
    BY DEF Tasks
  <2>2. ASSUME proc'[p].rlim = proc[p].rlim
        PROVE  Tighter(proc[p], proc'[p])
    <3>1. \A r \in Resources : proc[p].rlim[r].max \in Nat
      BY <1>1, <2>1, LimitTypes
    <3> QED
      BY <2>2, <3>1 DEF Tighter
  <2>3. ASSUME SameLimits
        PROVE  Tighter(proc[p], proc'[p])
    BY <2>1, <2>2, <2>3 DEF SameLimits, AlikeLimits
  <2>4. ASSUME NEW q \in Pids, NEW which, NEW who, NEW nice, setpriority(q, which, who, nice)
        PROVE  Tighter(proc[p], proc'[p])
    <3>1. proc'[p] = proc[p] \/ \E n : proc'[p] = [proc[p] EXCEPT !.nice = n]
      BY <2>1, <2>4 DEF setpriority
    <3>2. proc[p] \in Task
      BY <1>1, <2>1 DEF TypeOK
    <3>3. proc'[p].rlim = proc[p].rlim
      BY <3>1, <3>2 DEF Task
    <3> QED
      BY <2>2, <3>3
  <2>5. ASSUME NEW q \in Pids, NEW l \in Limits, setrlimit(q, l[1], l[2])
        PROVE  Tighter(proc[p], proc'[p]) \/ (ns_capable(p) /\ prlimit' = prlimit)
    <3>1. l[1] \in Resources /\ l[2] \in Limit
      BY ProcessesConstants DEF Limit
    <3>2. do_prlimit(q, q, l[1], l[2]) /\ UNCHANGED <<prlimit, stored, visit>>
      BY <2>5 DEF setrlimit
    <3>3. CASE q = p
      BY <1>1, <3>1, <3>2, <3>3, PrlimitTightens
    <3>4. CASE q # p
      BY <1>1, <2>1, <2>2, <3>1, <3>2, <3>4, PrlimitFrame
    <3> QED
      BY <3>3, <3>4
  <2>6. ASSUME NEW q \in Pids, NEW l, NEW t, prlimit64(q, t, l[1], l[2])
        PROVE  Tighter(proc[p], proc'[p])
    BY <2>2, <2>6 DEF prlimit64
  <2>7. ASSUME NEW q \in Pids, FinishPrlimit(q)
        PROVE  \/ Tighter(proc[p], proc'[p])
               \/ prlimit[q] # NULL /\ prlimit[q].task = p /\ prlimit'[q] = NULL /\ ns_capable(q)
    <3> DEFINE c == prlimit[q]
    <3>1. c.task \in Pids \cup {NULL} /\ c.resource \in Resources /\ c.new \in Limit
      BY <1>1, <2>7 DEF FinishPrlimit, TypeOK, PrlimitCall
    <3>2. c # NULL /\ prlimit'[q] = NULL /\ UNCHANGED <<stored, visit>>
      BY <1>1, <2>7 DEF FinishPrlimit, TypeOK
    <3>3. CASE c.task # NULL /\ may_prlimit(q, c.task, c.resource, c.new)
      <4>1. do_prlimit(q, c.task, c.resource, c.new) /\ c.task \in Pids
        BY <2>7, <3>1, <3>3 DEF FinishPrlimit
      <4> HIDE DEF c
      <4>2. CASE c.task = p
        <5>1. ns_capable(q) \/ Tighter(proc[p], proc'[p])
          BY <1>1, <3>1, <3>2, <4>1, <4>2, PrlimitTightens
        <5> QED
          BY <3>2, <4>2, <5>1 DEF c
      <4>3. CASE c.task # p
        BY <1>1, <2>1, <2>2, <3>1, <3>2, <4>1, <4>3, PrlimitFrame
      <4> QED
        BY <4>2, <4>3
    <3>4. CASE ~(c.task # NULL /\ may_prlimit(q, c.task, c.resource, c.new))
      BY <2>2, <2>7, <3>4 DEF FinishPrlimit
    <3> QED
      BY <3>3, <3>4
  <2>8. ASSUME NEW q \in Pids, fork(q)
        PROVE  Tighter(proc[p], proc'[p])
    <3>1. PICK c \in Pids : Born(q, c)
      BY <1>1, <2>8, ForkFrame
    <3>2. p # c
      BY <3>1 DEF Born, FreePids
    <3> QED
      BY <2>1, <2>2, <3>1, <3>2 DEF Born, AlikeLimits
  <2>9. ASSUME NEW q \in Pids, do_exit(q)
        PROVE  Tighter(proc[p], proc'[p])
    BY <1>1, <2>1, <2>2, <2>9, ReaperType, ExitFrame
  <2>10. ASSUME NEW q \in Pids, release_task(q)
         PROVE  Tighter(proc[p], proc'[p])
    BY <1>1, <2>1, <2>2, <2>10, ReleaseFrame
  <2>11. ASSUME NEW q \in Pids, NEW owner \in Ids \cup {NULL}, execve(q, owner)
         PROVE  Tighter(proc[p], proc'[p])
    BY <1>1, <2>1, <2>2, <2>11, ExecFrame
  <2>12. ASSUME NEW q \in Pids, Life(q)
         PROVE  Tighter(proc[p], proc'[p])
    <3>1. CASE Subreap(q)
      BY <1>1, <2>3, <3>1, SubreaperFrame
    <3>2. CASE PR_SET_NO_NEW_PRIVS(q)
      BY <1>1, <2>3, <3>2, NoNewPrivsFrame DEF Same
    <3> QED
      BY <2>8, <2>9, <2>10, <2>11, <2>12, <3>1, <3>2 DEF Life
  <2>13. ASSUME NEW q \in Pids, IdCall(q) \/ JobControl(q)
         PROVE  Tighter(proc[p], proc'[p])
    BY <1>1, <2>3, <2>13, IdCallFrame, JobControlFrame
  <2> QED
    BY <1>1, <2>4, <2>5, <2>6, <2>7, <2>12, <2>13 DEF Next, LimitCall
<1>2. TypeOK /\ TreeOK /\ [Next]_vars =>
        [\A p \in Tasks, r \in Resources :
            proc'[p].state # "free" /\ proc'[p].rlim[r].max > proc[p].rlim[r].max =>
                \/ ns_capable(p) /\ prlimit' = prlimit
                \/ \E q \in Pids : /\ prlimit[q] # NULL /\ prlimit[q].task = p /\ prlimit'[q] = NULL
                                  /\ ns_capable(q)]_vars
  <2>1. ASSUME TypeOK, TreeOK, Next, NEW p \in Tasks, NEW r \in Resources, proc'[p].state # "free",
               Tighter(proc[p], proc'[p])
        PROVE  ~(proc'[p].rlim[r].max > proc[p].rlim[r].max)
    <3>1. TypeOK'
      BY <2>1, TypeNext
    <3>2. p \in Pids
      BY DEF Tasks
    <3>3. proc[p].rlim \in [Resources -> Limit] /\ proc'[p].rlim \in [Resources -> Limit]
      BY <2>1, <3>1, <3>2 DEF TypeOK, Task
    <3>4. proc[p].rlim[r] \in Limit /\ proc'[p].rlim[r] \in Limit
      BY <3>3
    <3> QED
      BY <2>1, <3>4 DEF Tighter, Limit
  <2> QED
    BY <1>1, <2>1
<1> QED
  BY TableCorrect, <1>2, PTL DEF Spec, LimitsTighten

-----------------------------------------------------------------------------
(* No new privileges *)

\* What NoNewPrivileges says of one process and one step.
GainsNoId(old, new) ==
    /\ UidsOf(new) \subseteq UidsOf(old) /\ GidsOf(new) \subseteq GidsOf(old)
    /\ new.uid.fs \in UidsOf(old) \cup {old.uid.fs}
    /\ new.gid.fs \in GidsOf(old) \cup {old.gid.fs}

\* The same of one record of ids.
Kept(old, new) ==
    /\ {new.r, new.e, new.s} \subseteq {old.r, old.e, old.s}
    /\ new.fs \in {old.r, old.e, old.s, old.fs}

LEMMA KeptIds ==
    ASSUME NEW old \in IdRecord
    PROVE  /\ Kept(old, old)
           /\ \A r, e \in Args : re_permitted(old, FALSE, r, e) => Kept(old, re_ids(old, r, e))
           /\ \A r, e, s \in Args : res_permitted(old, FALSE, r, e, s) => Kept(old, res_ids(old, r, e, s))
           /\ \A id \in Ids : set_permitted(old, FALSE, id) => Kept(old, set_ids(old, FALSE, id))
           /\ \A id \in Ids : fs_permitted(old, FALSE, id) => Kept(old, [old EXCEPT !.fs = id])
<1>1. Kept(old, old)
  BY DEF Kept
<1>2. ASSUME NEW r \in Args, NEW e \in Args, re_permitted(old, FALSE, r, e)
      PROVE  Kept(old, re_ids(old, r, e))
  BY <1>2 DEF re_permitted, re_ids, Kept, IdRecord
<1>3. ASSUME NEW r \in Args, NEW e \in Args, NEW s \in Args, res_permitted(old, FALSE, r, e, s)
      PROVE  Kept(old, res_ids(old, r, e, s))
  BY <1>3 DEF res_permitted, res_ids, Kept, IdRecord
<1>4. ASSUME NEW id \in Ids, set_permitted(old, FALSE, id)
      PROVE  Kept(old, set_ids(old, FALSE, id))
  BY <1>4 DEF set_permitted, set_ids, Kept, IdRecord
<1>5. ASSUME NEW id \in Ids, fs_permitted(old, FALSE, id)
      PROVE  Kept(old, [old EXCEPT !.fs = id])
  BY <1>5 DEF fs_permitted, Kept, IdRecord
<1> QED
  BY <1>1, <1>2, <1>3, <1>4, <1>5

LEMMA KeptGains ==
    ASSUME NEW old, NEW new, Kept(old.uid, new.uid), Kept(old.gid, new.gid)
    PROVE  GainsNoId(old, new)
BY DEF Kept, GainsNoId, UidsOf, GidsOf

\* The calls of a process without the capability, on itself.
LEMMA IdCallKeeps ==
    ASSUME TypeOK, NEW p \in Pids, ~ns_capable(p), IdCall(p)
    PROVE  Kept(proc[p].uid, proc'[p].uid) /\ Kept(proc[p].gid, proc'[p].gid)
<1> DEFINE uid == proc[p].uid
           gid == proc[p].gid
<1>1. proc[p] \in Task /\ uid \in IdRecord /\ gid \in IdRecord /\ ns_capable(p) = FALSE
  BY DEF TypeOK, Task, ns_capable
<1>2. Kept(uid, uid) /\ Kept(gid, gid)
  BY <1>1, KeptIds
<1>3. ASSUME NEW new \in IdRecord, CommitUids(p, new), Kept(uid, new)
      PROVE  Kept(proc[p].uid, proc'[p].uid) /\ Kept(proc[p].gid, proc'[p].gid)
  <2>1. PICK user \in Ids, exceeded \in BOOLEAN, caps \in CapSets : CommittedAs(p, new, user, exceeded, caps)
    BY <1>3, Committed
  <2>2. proc'[p].uid = new /\ proc'[p].gid = gid
    BY <1>1, <2>1 DEF CommittedAs, TypeOK, Task
  <2> QED
    BY <1>2, <1>3, <2>2
<1>4. ASSUME NEW new, Change(p, [proc[p] EXCEPT !.gid = new]), Kept(gid, new)
      PROVE  Kept(proc[p].uid, proc'[p].uid) /\ Kept(proc[p].gid, proc'[p].gid)
  <2>1. proc'[p].uid = uid /\ proc'[p].gid = new
    BY <1>1, <1>4 DEF Change, TypeOK, Task
  <2> QED
    BY <1>2, <1>4, <2>1
<1>5. ASSUME NEW r \in Args, NEW e \in Args, setreuid(p, r, e)
      PROVE  Kept(proc[p].uid, proc'[p].uid) /\ Kept(proc[p].gid, proc'[p].gid)
  <2>1. re_ids(uid, r, e) \in IdRecord /\ Kept(uid, re_ids(uid, r, e))
    BY <1>1, <1>5, ReType, KeptIds DEF setreuid
  <2> QED
    BY <1>3, <1>5, <2>1 DEF setreuid
<1>6. ASSUME NEW r \in Args, NEW e \in Args, setregid(p, r, e)
      PROVE  Kept(proc[p].uid, proc'[p].uid) /\ Kept(proc[p].gid, proc'[p].gid)
  <2>1. Kept(gid, re_ids(gid, r, e))
    BY <1>1, <1>6, KeptIds DEF setregid
  <2> QED
    BY <1>4, <1>6, <2>1 DEF setregid
<1>7. ASSUME NEW r \in Args, NEW e \in Args, NEW s \in Args, setresuid(p, r, e, s)
      PROVE  Kept(proc[p].uid, proc'[p].uid) /\ Kept(proc[p].gid, proc'[p].gid)
  <2>1. res_ids(uid, r, e, s) \in IdRecord /\ Kept(uid, res_ids(uid, r, e, s))
    BY <1>1, <1>7, ResType, KeptIds DEF setresuid
  <2> QED
    BY <1>3, <1>7, <2>1 DEF setresuid
<1>8. ASSUME NEW r \in Args, NEW e \in Args, NEW s \in Args, setresgid(p, r, e, s)
      PROVE  Kept(proc[p].uid, proc'[p].uid) /\ Kept(proc[p].gid, proc'[p].gid)
  <2>1. Kept(gid, res_ids(gid, r, e, s))
    BY <1>1, <1>8, KeptIds DEF setresgid
  <2> QED
    BY <1>4, <1>8, <2>1 DEF setresgid
<1>9. ASSUME NEW id \in Ids, setuid(p, id)
      PROVE  Kept(proc[p].uid, proc'[p].uid) /\ Kept(proc[p].gid, proc'[p].gid)
  <2>1. set_ids(uid, ns_capable(p), id) \in IdRecord
    BY <1>1, SetType
  <2>2. Kept(uid, set_ids(uid, ns_capable(p), id))
    BY <1>1, <1>9, KeptIds DEF setuid
  <2> QED
    BY <1>3, <1>9, <2>1, <2>2 DEF setuid
<1>10. ASSUME NEW id \in Ids, setgid(p, id)
      PROVE  Kept(proc[p].uid, proc'[p].uid) /\ Kept(proc[p].gid, proc'[p].gid)
  <2>1. Kept(gid, set_ids(gid, ns_capable(p), id))
    BY <1>1, <1>10, KeptIds DEF setgid
  <2> QED
    BY <1>4, <1>10, <2>1 DEF setgid
<1>11. ASSUME NEW id \in Ids, setfsuid(p, id)
      PROVE  Kept(proc[p].uid, proc'[p].uid) /\ Kept(proc[p].gid, proc'[p].gid)
  <2>1. [uid EXCEPT !.fs = id] \in IdRecord /\ Kept(uid, [uid EXCEPT !.fs = id])
    BY <1>1, <1>11, SetType, KeptIds DEF setfsuid
  <2> QED
    BY <1>3, <1>11, <2>1 DEF setfsuid
<1>12. ASSUME NEW id \in Ids, setfsgid(p, id)
      PROVE  Kept(proc[p].uid, proc'[p].uid) /\ Kept(proc[p].gid, proc'[p].gid)
  <2>1. [proc[p] EXCEPT !.gid.fs = id] = [proc[p] EXCEPT !.gid = [gid EXCEPT !.fs = id]]
    BY <1>1 DEF Task
  <2>2. Kept(gid, [gid EXCEPT !.fs = id])
    BY <1>1, <1>12, KeptIds DEF setfsgid
  <2> QED
    BY <1>4, <1>12, <2>1, <2>2 DEF setfsgid
<1> QED
  BY <1>5, <1>6, <1>7, <1>8, <1>9, <1>10, <1>11, <1>12 DEF IdCall

\* No call gives ids to another process.
LEMMA IdCallOthers ==
    ASSUME TypeOK, NEW p \in Pids, IdCall(p), NEW q \in Pids \ {p}
    PROVE  proc'[q] = proc[q]
<1>1. CASE \/ \E r, e \in Args : setreuid(p, r, e) \/ setregid(p, r, e)
           \/ \E id \in Ids : setuid(p, id) \/ setgid(p, id) \/ setfsuid(p, id) \/ setfsgid(p, id)
  BY <1>1 DEF setreuid, setuid, setfsuid, setregid, setgid, setfsgid, CommitUids, Change, TypeOK
<1>2. CASE \E r, e, s \in Args : setresuid(p, r, e, s) \/ setresgid(p, r, e, s)
  BY <1>2 DEF setresuid, setresgid, CommitUids, Change, TypeOK
<1> QED
  BY <1>1, <1>2 DEF IdCall

LEMMA ExecKeeps ==
    ASSUME TypeOK, NEW p \in Pids, NEW owner \in Ids \cup {NULL}, execve(p, owner), proc[p].no_new_privs
    PROVE  /\ Kept(proc[p].uid, proc'[p].uid) /\ Kept(proc[p].gid, proc'[p].gid)
           /\ \A q \in Pids \ {p} : proc'[q] = proc[q]
<1> DEFINE old == proc[p]
           e == IF owner = NULL \/ old.no_new_privs THEN old.uid.e ELSE owner
           caps == IF e = 0 THEN "effective" ELSE IF old.uid.r = 0 THEN "permitted" ELSE "none"
           uid == [old.uid EXCEPT !.e = e, !.s = e, !.fs = e]
           gid == [old.gid EXCEPT !.s = old.gid.e, !.fs = old.gid.e]
<1>1. old \in Task /\ old.uid \in IdRecord /\ old.gid \in IdRecord
  BY DEF TypeOK, Task
<1>2. proc' = [proc EXCEPT ![p] = [old EXCEPT !.uid = uid, !.gid = gid, !.caps = caps,
                                              !.forknoexec = FALSE, !.nproc_exceeded = FALSE]]
  BY DEF execve, Change
<1>3. e = old.uid.e
  OBVIOUS
<1> HIDE DEF e, caps
<1>4. Kept(old.uid, uid) /\ Kept(old.gid, gid)
  BY <1>1, <1>3 DEF Kept, IdRecord
<1> HIDE DEF uid, gid
<1>5. proc'[p].uid = uid /\ proc'[p].gid = gid /\ \A q \in Pids \ {p} : proc'[q] = proc[q]
  BY <1>1, <1>2 DEF TypeOK, Task
<1> QED
  BY <1>4, <1>5

\* After PR_SET_NO_NEW_PRIVS no call and no program brings an id.
THEOREM NoNewPrivilegesHolds == Spec => NoNewPrivileges
<1>1. ASSUME TypeOK, TreeOK, Next, NEW p \in Tasks, proc[p].no_new_privs, proc[p].state = "running",
             ~ns_capable(p)
      PROVE  proc'[p].state # "running" \/ GainsNoId(proc[p], proc'[p])
  <2>1. p \in Pids
    BY DEF Tasks
  <2>2. proc[p].uid \in IdRecord /\ proc[p].gid \in IdRecord
    BY <1>1, <2>1 DEF TypeOK, Task
  <2>3. ASSUME proc'[p].uid = proc[p].uid, proc'[p].gid = proc[p].gid
        PROVE  GainsNoId(proc[p], proc'[p])
    BY <2>2, <2>3, KeptIds, KeptGains
  <2>4. ASSUME SameIds
        PROVE  GainsNoId(proc[p], proc'[p])
    BY <2>1, <2>3, <2>4 DEF SameIds, AlikeIds
  <2>5. ASSUME NEW q \in Pids, IdCall(q)
        PROVE  GainsNoId(proc[p], proc'[p])
    BY <1>1, <2>1, <2>3, <2>5, IdCallKeeps, IdCallOthers, KeptGains
  <2>6. ASSUME NEW q \in Pids, NEW owner \in Ids \cup {NULL}, execve(q, owner)
        PROVE  GainsNoId(proc[p], proc'[p])
    <3>1. CASE q = p
      BY <1>1, <2>6, <3>1, ExecKeeps, KeptGains
    <3>2. CASE q # p
      BY <1>1, <2>1, <2>3, <2>6, <3>2 DEF execve, Change, TypeOK
    <3> QED
      BY <3>1, <3>2
  <2>7. ASSUME NEW q \in Pids, fork(q)
        PROVE  GainsNoId(proc[p], proc'[p])
    <3>1. PICK c \in Pids : Born(q, c)
      BY <1>1, <2>7, ForkFrame
    <3>2. p # c
      BY <3>1 DEF Born, FreePids
    <3>3. proc'[p].uid = proc[p].uid /\ proc'[p].gid = proc[p].gid
      BY <2>1, <3>1, <3>2 DEF Born, AlikeIds
    <3> QED
      BY <2>3, <3>3
  <2>8. ASSUME NEW q \in Pids, do_exit(q)
        PROVE  GainsNoId(proc[p], proc'[p])
    BY <1>1, <2>1, <2>3, <2>8, ReaperType, ExitFrame
  <2>9. ASSUME NEW q \in Pids, release_task(q)
        PROVE  GainsNoId(proc[p], proc'[p])
    <3>1. p # q
      BY <1>1, <2>9, ReleaseFrame
    <3> QED
      BY <1>1, <2>1, <2>3, <2>9, <3>1, ReleaseFrame
  <2>10. ASSUME NEW q \in Pids, Life(q)
         PROVE  GainsNoId(proc[p], proc'[p])
    <3>1. CASE Subreap(q)
      BY <1>1, <2>4, <3>1, SubreaperFrame
    <3>2. CASE PR_SET_NO_NEW_PRIVS(q)
      BY <1>1, <2>4, <3>2, NoNewPrivsFrame DEF Same
    <3> QED
      BY <2>6, <2>7, <2>8, <2>9, <2>10, <3>1, <3>2 DEF Life
  <2> QED
    BY <1>1, <2>4, <2>5, <2>10, JobControlFrame, LimitCallFrame DEF Next
<1>2. TypeOK /\ TreeOK /\ [Next]_vars =>
        [\A p \in Tasks :
            proc[p].no_new_privs /\ proc[p].state = "running" /\ ~ns_capable(p) =>
                \/ proc'[p].state # "running"
                \/ /\ UidsOf(proc'[p]) \subseteq UidsOf(proc[p]) /\ GidsOf(proc'[p]) \subseteq GidsOf(proc[p])
                   /\ proc'[p].uid.fs \in UidsOf(proc[p]) \cup {proc[p].uid.fs}
                   /\ proc'[p].gid.fs \in GidsOf(proc[p]) \cup {proc[p].gid.fs}]_vars
  BY <1>1 DEF GainsNoId
<1> QED
  BY TableCorrect, <1>2, PTL DEF Spec, NoNewPrivileges

-----------------------------------------------------------------------------
(* The shell *)

Job == [id : Nat, pid : ChildPids]
States == {"none", "running", "stopped", "zombie"}

ShellTypes ==
    /\ children \in [ChildPids -> States] /\ jobList \in Seq(Job) /\ maxJobId \in Nat
    /\ fgPid \in ChildPids \cup {NoPid} /\ child \in ChildPids \cup {NoPid}
    /\ at \in Nat \ {0} /\ out \in {"tty", "file"}

\* Where the shell stands, or goes on after removeFinishedJobs.
Place == IF pc = "sweep" THEN ret ELSE pc

Sweeps == {"prompt", "redirect", "run", "restore", "push", "print", "kill_all"}
OwnChild == {"forked", "wait", "reaped", "push"}
JobInFront == {"fg_wait", "fg_reaped"}
Reaped == {"reaped", "fg_reaped"}

\* The list is sorted, and the next id is larger than all of it.
Ascending(list) == \A i, k \in 1 .. Len(list) : i < k => list[i].id < list[k].id
Below(list, n) == \A i \in 1 .. Len(list) : list[i].id <= n
Distinct(list) == \A i, k \in 1 .. Len(list) : list[i].pid = list[k].pid => i = k
ListOK == Ascending(jobList) /\ Below(jobList, maxJobId) /\ Distinct(jobList)

\* What the shell knows of its child at each of its places.
ChildOK ==
    /\ pc = "sweep" => ret \in Sweeps
    /\ child # NoPid <=> Place \in OwnChild \cup JobInFront
    /\ Place \in OwnChild => child \notin Listed
    /\ Place \in JobInFront => child \in Listed
    /\ Place = "push" => children[child] # "none"
    /\ Place \in Reaped => children[child] = "none"
    /\ fgPid # NoPid => fgPid = child /\ Place \in {"wait", "fg_wait"} \cup Reaped
    /\ Place \in {"prompt", "redirect"} => out = "tty"
    /\ pc = "prompt" => maxJobId = LastId(jobList)

\* The processes are the jobs and the child, and no job is a process that is gone.
ProcessesOK ==
    /\ pc = "exited" /\ cmd = "quit kill" =>
         \A p \in ChildPids : children[p] \in {"none", "zombie"} \/ p \in Refusing
    /\ pc # "exited" =>
         /\ \A p \in ChildPids : children[p] # "none" => p \in Listed \cup {child}
         /\ \A p \in Listed : children[p] = "none" => Place = "fg_reaped" /\ p = child

ShellInv == ShellTypes /\ ListOK /\ ChildOK /\ ProcessesOK

-----------------------------------------------------------------------------
(* Lists of jobs *)

\* A bijection of 1 .. n that keeps the order changes nothing.
LEMMA OrderKept ==
    ASSUME NEW n \in Nat, NEW p \in [1 .. n -> 1 .. n], \A x \in 1 .. n : \E i \in 1 .. n : p[i] = x,
           \A i, k \in 1 .. n : i < k => p[i] <= p[k]
    PROVE  \A i \in 1 .. n : p[i] = i
<1>0. 1 .. n \subseteq Nat /\ \A j \in 1 .. n : p[j] \in Nat
  <2>1. \A k \in Nat : 1 .. k \subseteq Nat
    OBVIOUS
  <2>2. 1 .. n \subseteq Nat
    BY <2>1, Zenon
  <2>3. \A j \in 1 .. n : p[j] \in 1 .. n
    BY Zenon
  <2> QED
    BY <2>2, <2>3, Zenon
<1>1. ASSUME NEW i \in 1 .. n, p[i] > i
      PROVE  FALSE
  <2> DEFINE S == {k \in 1 .. n : p[k] > k}
  <2>0. i \in S
    BY <1>1
  <2>1. S \in SUBSET Nat /\ S # {}
    <3>1. S \subseteq 1 .. n
      OBVIOUS
    <3> HIDE DEF S
    <3> QED
      BY <1>0, <2>0, <3>1
  <2>2. PICK k \in S : \A j \in S : k <= j
    <3> HIDE DEF S
    <3> QED
      BY <2>1, LeastNatural
  <2>3. PICK j \in 1 .. n : p[j] = k
    OBVIOUS
  <2>4. CASE j < k
    <3>1. j \notin S
      BY <2>2, <2>4
    <3> QED
      BY <2>3, <2>4, <3>1
  <2>5. CASE j >= k
    <3>1. p[k] > k /\ p[k] \in Nat /\ k \in 1 .. n
      BY <2>2
    <3>2. CASE j = k
      BY <2>3, <3>1, <3>2
    <3>3. CASE j # k
      <4> HIDE DEF S
      <4>1. k < j
        BY <2>5, <3>1, <3>3
      <4>2. p[k] <= p[j]
        BY <3>1, <4>1
      <4> QED
        BY <2>3, <3>1, <4>2
    <3> QED
      BY <3>2, <3>3
  <2> QED
    BY <2>4, <2>5
<1>2. ASSUME NEW i \in 1 .. n, p[i] < i
      PROVE  FALSE
  <2> DEFINE S == {m \in 0 .. n - 1 : p[n - m] < n - m}
  <2>1. S \in SUBSET Nat /\ n - i \in S
    BY <1>2
  <2>2. PICK m \in S : \A j \in S : m <= j
    <3> HIDE DEF S
    <3> QED
      BY <2>1, LeastNatural
  <2> DEFINE k == n - m
  <2>3. k \in 1 .. n /\ p[k] < k
    BY <2>2
  <2>4. \A j \in 1 .. n : p[j] < j => j <= k
    <3>1. ASSUME NEW j \in 1 .. n, p[j] < j
          PROVE  j <= k
      <4>1. n - j \in S
        BY <3>1
      <4>2. m <= n - j
        BY <2>2, <4>1
      <4> QED
        BY <2>2, <4>2
    <3> QED
      BY <3>1
  <2> HIDE DEF k, S
  <2>5. PICK j \in 1 .. n : p[j] = k
    BY <2>3
  <2>6. CASE j <= k
    <3>1. CASE j = k
      BY <2>3, <2>5, <3>1
    <3>2. CASE j # k
      <4>1. j < k
        BY <2>3, <2>6, <3>2
      <4>2. p[j] <= p[k]
        BY <2>3, <4>1
      <4>3. p[j] \in Nat /\ p[k] \in Nat
        BY <1>0, <2>3
      <4> QED
        BY <2>3, <2>5, <4>2, <4>3
    <3> QED
      BY <3>1, <3>2
  <2>7. CASE j > k
    BY <2>3, <2>4, <2>5, <2>7
  <2> QED
    BY <2>3, <2>6, <2>7
<1> QED
  BY <1>1, <1>2

\* A list that is sorted already is left as it is.
LEMMA SortedSame ==
    ASSUME NEW list \in Seq(Job), Ascending(list)
    PROVE  Sorted(list) = list
<1> DEFINE n == Len(list)
           Places == 1 .. n
           Orders(s) == \A i, k \in Places : i < k => s[i].id <= s[k].id
           Lists == {[i \in Places |-> list[p[i]]] : p \in Bijection(Places, Places)}
<1>1. n \in Nat /\ list = [i \in Places |-> list[i]] /\ \A i \in Places : list[i] \in Job /\ list[i].id \in Nat
  <2>1. n \in Nat /\ list \in [Places -> Job]
    BY LenProperties
  <2>2. list = [i \in Places |-> list[i]]
    BY <2>1
  <2> QED
    BY <2>1, <2>2 DEF Job
<1>2. list \in Lists /\ Orders(list)
  <2> DEFINE id == [i \in Places |-> i]
  <2>1. id \in Bijection(Places, Places)
    <3>1. id \in [Places -> Places] /\ \A i \in Places : id[i] = i
      OBVIOUS
    <3> HIDE DEF id, Places
    <3> QED
      BY <3>1 DEF Bijection, Injection, IsInjective, Surjection
  <2>2. list = [i \in Places |-> list[id[i]]]
    BY <1>1
  <2>3. list \in Lists
    BY <2>1, <2>2
  <2>4. Orders(list)
    BY <1>1 DEF Ascending
  <2> QED
    BY <2>3, <2>4
<1>3. ASSUME NEW s \in Lists, Orders(s)
      PROVE  s = list
  <2>1. PICK p \in Bijection(Places, Places) : s = [i \in Places |-> list[p[i]]]
    OBVIOUS
  <2>2. p \in [Places -> Places] /\ \A x \in Places : \E i \in Places : p[i] = x
    BY <2>1 DEF Bijection, Injection, Surjection
  <2>3. ASSUME NEW i \in Places, NEW k \in Places, i < k
        PROVE  p[i] <= p[k]
    <3>1. list[p[i]].id <= list[p[k]].id
      BY <1>3, <2>1, <2>3
    <3>2. p[i] \in Places /\ p[k] \in Places
      BY <2>2
    <3>3. p[k] < p[i] => list[p[k]].id < list[p[i]].id
      BY <3>2 DEF Ascending
    <3> QED
      BY <1>1, <3>1, <3>2, <3>3
  <2> HIDE DEF Places
  <2>4. \A i \in 1 .. n : p[i] = i
    BY <1>1, <2>2, <2>3, OrderKept DEF Places
  <2> QED
    BY <1>1, <2>1, <2>4 DEF Places
<1>4. Sorted(list) = CHOOSE s \in Lists : Orders(s)
  BY DEF Sorted
<1> HIDE DEF Lists, Orders
<1> QED
  BY <1>2, <1>3, <1>4

\* One turn of the loop of removeJobById.
Turn(list, id, left, i) ==
    IF i = 0 THEN <<>>
    ELSE IF list[i].id = id THEN left[i - 1] ELSE Append(left[i - 1], list[i])

\* The loop can be run as far as any n.
LEMMA LoopRuns ==
    ASSUME NEW list, NEW id, NEW n \in Nat
    PROVE  \E f : f = [i \in 0 .. n |-> Turn(list, id, f, i)]
<1> DEFINE Runs(m) == \E f : f = [i \in 0 .. m |-> Turn(list, id, f, i)]
           S == {m \in Nat : ~Runs(m)}
<1> SUFFICES ASSUME n \in S PROVE FALSE
  OBVIOUS
<1>1. PICK m \in S : \A k \in S : m <= k
  <2>1. S \in SUBSET Nat /\ S # {}
    OBVIOUS
  <2> HIDE DEF S
  <2> QED
    BY <2>1, LeastNatural
<1>2. CASE m = 0
  <2> DEFINE f == [i \in 0 .. 0 |-> <<>>]
  <2>1. f = [i \in 0 .. 0 |-> Turn(list, id, f, i)]
    BY DEF Turn
  <2> HIDE DEF f
  <2> QED
    BY <1>1, <1>2, <2>1
<1>3. CASE m # 0
  <2>1. m - 1 \in Nat /\ m - 1 \notin S /\ m \in Nat
    BY <1>1, <1>3
  <2>2. PICK g : g = [i \in 0 .. m - 1 |-> Turn(list, id, g, i)]
    BY <2>1
  <2> DEFINE f == [i \in 0 .. m |-> IF i = m THEN Turn(list, id, g, i) ELSE g[i]]
  <2>3. ASSUME NEW i \in 0 .. m
        PROVE  f[i] = Turn(list, id, f, i)
    <3>1. i # 0 => f[i - 1] = g[i - 1]
      BY <2>1
    <3>2. Turn(list, id, f, i) = Turn(list, id, g, i)
      <4> HIDE DEF f
      <4> QED
        BY <3>1 DEF Turn
    <3>3. CASE i = m
      BY <3>2, <3>3
    <3>4. CASE i # m
      <4>1. i \in 0 .. m - 1
        BY <2>1, <3>4
      <4>2. f[i] = g[i] /\ g[i] = Turn(list, id, g, i)
        BY <2>2, <3>4, <4>1
      <4> QED
        BY <3>2, <4>2
    <3> QED
      BY <3>3, <3>4
  <2>4. f = [i \in 0 .. m |-> f[i]]
    OBVIOUS
  <2> HIDE DEF f
  <2>5. f = [i \in 0 .. m |-> Turn(list, id, f, i)]
    BY <2>3, <2>4
  <2> QED
    BY <1>1, <2>5
<1> QED
  BY <1>2, <1>3

LEMMA ErasedIs ==
    ASSUME NEW list, NEW id, Len(list) \in Nat
    PROVE  \E f : /\ f = [i \in 0 .. Len(list) |-> Turn(list, id, f, i)]
                  /\ Erased(list, id) = f[Len(list)]
<1> DEFINE F == CHOOSE f : f = [i \in 0 .. Len(list) |-> Turn(list, id, f, i)]
<1>1. F = [i \in 0 .. Len(list) |-> Turn(list, id, F, i)]
  BY LoopRuns
<1>2. Erased(list, id) = F[Len(list)]
  BY DEF Erased, Turn
<1> HIDE DEF F
<1> QED
  BY <1>1, <1>2

\* w holds the jobs among the first i of list whose id is not this one.
Keeps(list, id, w, i) ==
    /\ w \in Seq(Job) /\ Ascending(w)
    /\ \A a \in 1 .. Len(w) : \E k \in 1 .. i : list[k].id # id /\ w[a] = list[k]
    /\ \A k \in 1 .. i : list[k].id # id => \E a \in 1 .. Len(w) : w[a] = list[k]

LEMMA TurnKeeps ==
    ASSUME NEW list \in Seq(Job), Ascending(list), NEW id, NEW f, NEW i \in 1 .. Len(list), Keeps(list, id, f[i - 1], i - 1)
    PROVE  Keeps(list, id, Turn(list, id, f, i), i)
<1> DEFINE w == f[i - 1]
<1>1. /\ Len(list) \in Nat /\ w \in Seq(Job) /\ Len(w) \in Nat /\ i # 0 /\ i \in Nat /\ list[i] \in Job
      /\ \A k \in 1 .. i - 1 : k \in 1 .. i
      /\ \A k \in 1 .. i : k # i => k \in 1 .. i - 1
  BY LenProperties, ElementOfSeq DEF Keeps
<1>2. CASE list[i].id = id
  <2>1. Turn(list, id, f, i) = w
    BY <1>1, <1>2 DEF Turn
  <2> HIDE DEF w
  <2> QED
    BY <1>1, <1>2, <2>1 DEF Keeps, w
<1>3. CASE list[i].id # id
  <2> DEFINE v == Append(w, list[i])
             n == Len(w)
  <2>1. Turn(list, id, f, i) = v
    BY <1>1, <1>3 DEF Turn
  <2>2. v \in Seq(Job) /\ Len(v) = n + 1 /\ v[n + 1] = list[i] /\ \A a \in 1 .. n : v[a] = w[a]
    BY <1>1, AppendProperties
  <2>3. /\ \A a \in 1 .. n : \E k \in 1 .. i - 1 : list[k].id # id /\ w[a] = list[k]
        /\ \A k \in 1 .. i - 1 : list[k].id # id => \E a \in 1 .. n : w[a] = list[k]
        /\ \A a, b \in 1 .. n : a < b => w[a].id < w[b].id
    BY DEF Keeps, Ascending
  <2> HIDE DEF v, w
  <2>4. ASSUME NEW a \in 1 .. n + 1, NEW b \in 1 .. n + 1, a < b
        PROVE  v[a].id < v[b].id
    <3>1. CASE b = n + 1
      <4>1. a \in 1 .. n
        BY <1>1, <2>4, <3>1
      <4>2. PICK k \in 1 .. i - 1 : w[a] = list[k]
        BY <2>3, <4>1
      <4>4. v[a] = list[k]
        BY <2>2, <4>1, <4>2
      <4>3. k \in 1 .. Len(list) /\ k < i
        BY <1>1
      <4> QED
        BY <2>2, <3>1, <4>3, <4>4 DEF Ascending
    <3>2. CASE b # n + 1
      <4>1. a \in 1 .. n /\ b \in 1 .. n
        BY <1>1, <2>4, <3>2
      <4> QED
        BY <2>2, <2>3, <2>4, <4>1
    <3> QED
      BY <3>1, <3>2
  <2>5. ASSUME NEW a \in 1 .. n + 1
        PROVE  \E k \in 1 .. i : list[k].id # id /\ v[a] = list[k]
    <3>1. CASE a = n + 1
      BY <1>1, <1>3, <2>2, <3>1
    <3>2. CASE a # n + 1
      <4>1. a \in 1 .. n
        BY <1>1, <3>2
      <4>2. PICK k \in 1 .. i - 1 : list[k].id # id /\ w[a] = list[k]
        BY <2>3, <4>1
      <4>3. k \in 1 .. i /\ v[a] = w[a]
        BY <1>1, <2>2, <4>1
      <4> QED
        BY <4>2, <4>3
    <3> QED
      BY <3>1, <3>2
  <2>6. ASSUME NEW k \in 1 .. i, list[k].id # id
        PROVE  \E a \in 1 .. n + 1 : v[a] = list[k]
    <3>1. CASE k = i
      <4>1. n + 1 \in 1 .. n + 1
        BY <1>1
      <4> QED
        BY <2>2, <3>1, <4>1
    <3>2. CASE k # i
      <4>1. PICK a \in 1 .. n : w[a] = list[k]
        BY <1>1, <2>3, <2>6, <3>2
      <4>2. a \in 1 .. n + 1
        BY <1>1
      <4> QED
        BY <2>2, <4>1, <4>2
    <3> QED
      BY <3>1, <3>2
  <2> QED
    BY <2>1, <2>2, <2>4, <2>5, <2>6 DEF Keeps, Ascending
<1> QED
  BY <1>2, <1>3

LEMMA ErasedKeeps ==
    ASSUME NEW list \in Seq(Job), Ascending(list), NEW id
    PROVE  Keeps(list, id, Erased(list, id), Len(list))
<1> DEFINE n == Len(list)
<1>1. n \in Nat
  BY LenProperties
<1>2. PICK f : f = [i \in 0 .. n |-> Turn(list, id, f, i)] /\ Erased(list, id) = f[n]
  BY <1>1, ErasedIs
<1> DEFINE S == {i \in 0 .. n : ~Keeps(list, id, f[i], i)}
<1>3. ASSUME S # {} PROVE FALSE
  <2>1. S \in SUBSET Nat
    BY <1>1
  <2>2. PICK i \in S : \A k \in S : i <= k
    <3> HIDE DEF S
    <3> QED
      BY <1>3, <2>1, LeastNatural
  <2>3. i \in 0 .. n /\ f[i] = Turn(list, id, f, i) /\ i \in Nat
    BY <1>1, <1>2, <2>2
  <2>4. CASE i = 0
    <3>1. f[i] = <<>> /\ Len(<<>>) = 0 /\ <<>> \in Seq(Job)
      BY <2>3, <2>4 DEF Turn
    <3>2. Keeps(list, id, <<>>, 0)
      BY <3>1 DEF Keeps, Ascending
    <3> QED
      BY <2>2, <2>4, <3>1, <3>2
  <2>5. CASE i # 0
    <3>1. i - 1 \in 0 .. n /\ i \in 1 .. n /\ ~(i <= i - 1)
      BY <1>1, <2>3, <2>5
    <3>2. Keeps(list, id, f[i - 1], i - 1)
      BY <2>2, <3>1
    <3>3. Keeps(list, id, f[i], i)
      BY <2>3, <3>1, <3>2, TurnKeeps
    <3> QED
      BY <2>2, <3>3
  <2> QED
    BY <2>4, <2>5
<1>4. n \in 0 .. n
  BY <1>1
<1> QED
  BY <1>2, <1>3, <1>4

Pidset(list) == {list[i].pid : i \in 1 .. Len(list)}

\* removeJobById takes the job with this id from the list, and this is all.
LEMMA RemovedById ==
    ASSUME NEW list \in Seq(Job), Ascending(list), Distinct(list), NEW m, Below(list, m), NEW j \in 1 .. Len(list)
    PROVE  LET w == removeJobById(list, list[j].id) IN
           /\ w \in Seq(Job) /\ Ascending(w) /\ Distinct(w) /\ Below(w, m)
           /\ Pidset(w) = Pidset(list) \ {list[j].pid}
<1> DEFINE w == Erased(list, list[j].id)
<1>1. Keeps(list, list[j].id, w, Len(list))
  BY ErasedKeeps
<1> HIDE DEF w
<1>2. w \in Seq(Job) /\ Ascending(w)
  BY <1>1 DEF Keeps
<1>3. removeJobById(list, list[j].id) = w
  BY <1>2, SortedSame DEF removeJobById, w
<1>4. \A a \in 1 .. Len(w) : \E k \in 1 .. Len(list) : list[k].id # list[j].id /\ w[a] = list[k]
  BY <1>1 DEF Keeps
<1>5. \A k \in 1 .. Len(list) : list[k].id # list[j].id => \E a \in 1 .. Len(w) : w[a] = list[k]
  BY <1>1 DEF Keeps
<1>6. Len(w) \in Nat /\ Len(list) \in Nat /\ (\A a \in 1 .. Len(w) : w[a].id \in Nat)
      /\ \A a \in 1 .. Len(list) : list[a].id \in Nat
  <2>1. \A s \in Seq(Job) : Len(s) \in Nat /\ \A a \in 1 .. Len(s) : s[a] \in Job
    BY LenProperties, ElementOfSeq
  <2>2. \A x \in Job : x.id \in Nat
    BY DEF Job
  <2> QED
    BY <1>2, <2>1, <2>2
<1>7. ASSUME NEW a \in 1 .. Len(w), NEW b \in 1 .. Len(w), w[a].pid = w[b].pid
      PROVE  a = b
  <2>1. PICK k \in 1 .. Len(list) : w[a] = list[k]
    BY <1>4
  <2>2. PICK l \in 1 .. Len(list) : w[b] = list[l]
    BY <1>4
  <2>3. k = l
    BY <1>7, <2>1, <2>2 DEF Distinct
  <2>4. w[a].id = w[b].id
    BY <2>1, <2>2, <2>3
  <2>5. ~(a < b) /\ ~(b < a)
    BY <1>2, <1>6, <2>4 DEF Ascending
  <2> QED
    BY <1>6, <2>5
<1>8. Below(w, m)
  BY <1>4 DEF Below
<1>9. ASSUME NEW k \in 1 .. Len(list)
      PROVE  list[k].id # list[j].id <=> list[k].pid # list[j].pid
  <2>1. CASE k = j
    BY <2>1
  <2>2. CASE k # j
    <3>1. list[k].pid # list[j].pid
      BY <2>2 DEF Distinct
    <3>2. list[k].id # list[j].id
      BY <1>6, <2>2 DEF Ascending
    <3> QED
      BY <3>1, <3>2
  <2> QED
    BY <2>1, <2>2
<1>10. Pidset(w) = Pidset(list) \ {list[j].pid}
  <2>1. ASSUME NEW p \in Pidset(w)
        PROVE  p \in Pidset(list) \ {list[j].pid}
    BY <1>4, <1>9 DEF Pidset
  <2>2. ASSUME NEW p \in Pidset(list) \ {list[j].pid}
        PROVE  p \in Pidset(w)
    <3>1. PICK k \in 1 .. Len(list) : p = list[k].pid
      BY DEF Pidset
    <3>2. list[k].id # list[j].id
      BY <1>9, <3>1
    <3> QED
      BY <1>5, <3>1, <3>2 DEF Pidset
  <2> QED
    BY <2>1, <2>2
<1> QED
  BY <1>2, <1>3, <1>7, <1>8, <1>10 DEF Distinct

\* The turn of removeFinishedJobs that erases a job.
LEMMA RemovedAt ==
    ASSUME NEW list \in Seq(Job), Ascending(list), Distinct(list), NEW m, Below(list, m), NEW j \in 1 .. Len(list)
    PROVE  LET w == RemoveAt(list, j) IN
           /\ w \in Seq(Job) /\ Ascending(w) /\ Distinct(w) /\ Below(w, m)
           /\ Pidset(w) = Pidset(list) \ {list[j].pid}
<1> DEFINE w == RemoveAt(list, j)
           n == Len(list)
           from(i) == IF i < j THEN i ELSE i + 1
<1>1. n \in Nat /\ j \in Nat /\ j >= 1 /\ j <= n /\ list \in [1 .. n -> Job]
  BY LenProperties
<1>2. w \in Seq(Job) /\ Len(w) = n - 1 /\ \A i \in 1 .. n - 1 : w[i] = list[from(i)]
  <2> DEFINE u == SubSeq(list, 1, j - 1)
             v == SubSeq(list, j + 1, n)
  <2>1. u \in Seq(Job) /\ Len(u) = j - 1 /\ \A i \in 1 .. j - 1 : u[i] = list[i]
    BY <1>1, SubSeqProperties
  <2>2. v \in Seq(Job) /\ Len(v) = n - j /\ \A i \in 1 .. n - j : v[i] = list[i + j]
    <3>1. \A i \in j + 1 .. n : list[i] \in Job
      BY <1>1
    <3>2. /\ v \in Seq(Job) /\ Len(v) = IF j + 1 <= n THEN n - (j + 1) + 1 ELSE 0
          /\ \A i \in 1 .. n - (j + 1) + 1 : v[i] = list[(j + 1) + i - 1]
      BY <1>1, <3>1, SubSeqProperties
    <3> HIDE DEF v
    <3>3. n - (j + 1) + 1 = n - j /\ \A i \in 1 .. n - j : (j + 1) + i - 1 = i + j
      BY <1>1
    <3>4. (IF j + 1 <= n THEN n - (j + 1) + 1 ELSE 0) = n - j
      <4>1. CASE j = n
        BY <1>1, <4>1
      <4>2. CASE j # n
        <5> HIDE DEF n
        <5>1. j + 1 <= n
          BY <1>1, <4>2
        <5> QED
          BY <3>3, <5>1
      <4> QED
        BY <4>1, <4>2
    <3> QED
      BY <3>2, <3>3, <3>4
  <2>3. w = u \o v
    BY DEF RemoveAt
  <2> HIDE DEF u, v, w
  <2>4. w \in Seq(Job) /\ Len(w) = n - 1
    <3>1. w \in Seq(Job) /\ Len(w) = Len(u) + Len(v)
      BY <2>1, <2>2, <2>3, ConcatProperties
    <3>2. (j - 1) + (n - j) = n - 1
      BY <1>1
    <3> QED
      BY <2>1, <2>2, <3>1, <3>2
  <2>5. ASSUME NEW i \in 1 .. n - 1
        PROVE  w[i] = list[from(i)]
    <3>1. CASE i < j
      BY <1>1, <2>1, <2>2, <2>3, <3>1, ConcatProperties
    <3>2. CASE i >= j
      <4>1. i - (j - 1) \in 1 .. n - j /\ i - (j - 1) + j = i + 1 /\ i > j - 1 /\ i <= (j - 1) + (n - j)
        BY <1>1, <3>2
      <4>2. w[i] = v[i - (j - 1)]
        BY <1>1, <2>1, <2>2, <2>3, <4>1, ConcatProperties
      <4> QED
        BY <1>1, <2>2, <3>2, <4>1, <4>2
    <3> QED
      BY <1>1, <3>1, <3>2
  <2> QED
    BY <2>4, <2>5
<1> HIDE DEF w
<1>3. \A i \in 1 .. n - 1 : from(i) \in 1 .. n /\ from(i) # j
  BY <1>1
<1>4. \A i, k \in 1 .. n - 1 : (i < k => from(i) < from(k)) /\ (from(i) = from(k) => i = k)
  BY <1>1
<1>5. \A k \in 1 .. n : k # j => \E i \in 1 .. n - 1 : from(i) = k
  <2>1. ASSUME NEW k \in 1 .. n, k # j
        PROVE  \E i \in 1 .. n - 1 : from(i) = k
    <3>1. CASE k < j
      <4>1. k \in 1 .. n - 1 /\ from(k) = k
        BY <1>1, <3>1
      <4> QED
        BY <4>1
    <3>2. CASE k > j
      <4>1. k - 1 \in 1 .. n - 1 /\ from(k - 1) = k
        BY <1>1, <3>2
      <4> QED
        BY <4>1
    <3> QED
      BY <1>1, <2>1, <3>1, <3>2
  <2> QED
    BY <2>1
<1> HIDE DEF from, n
<1>6. Ascending(w)
  BY <1>2, <1>3, <1>4 DEF Ascending, n
<1>7. Distinct(w)
  BY <1>2, <1>3, <1>4 DEF Distinct, n
<1>8. Below(w, m)
  BY <1>2, <1>3 DEF Below, n
<1>9. ASSUME NEW p \in Pidset(w)
      PROVE  p \in Pidset(list) \ {list[j].pid}
  <2>1. PICK i \in 1 .. n - 1 : p = w[i].pid
    BY <1>2 DEF Pidset
  <2>2. p = list[from(i)].pid /\ from(i) \in 1 .. n /\ from(i) # j
    BY <1>2, <1>3, <2>1
  <2> QED
    BY <2>2 DEF Pidset, Distinct, n
<1>10. ASSUME NEW p \in Pidset(list) \ {list[j].pid}
       PROVE  p \in Pidset(w)
  <2>1. PICK k \in 1 .. n : p = list[k].pid
    BY DEF Pidset, n
  <2>2. PICK i \in 1 .. n - 1 : from(i) = k
    BY <1>5, <2>1
  <2> QED
    BY <1>2, <2>1, <2>2 DEF Pidset
<1> QED
  BY <1>2, <1>6, <1>7, <1>8, <1>9, <1>10 DEF w

\* maxJobId, computed again from a sorted list.
LEMMA LastIsLargest ==
    ASSUME NEW list \in Seq(Job), Ascending(list)
    PROVE  LastId(list) \in Nat /\ Below(list, LastId(list))
<1>1. Len(list) \in Nat
  BY LenProperties
<1>2. CASE list = <<>>
  BY <1>2 DEF LastId, Below
<1>3. CASE list # <<>>
  <2> DEFINE n == Len(list)
  <2>1. n \in 1 .. n /\ LastId(list) = list[n].id
    BY <1>1, <1>3, EmptySeq DEF LastId, Last
  <2>2. \A i \in 1 .. n : list[i].id \in Nat
    <3>1. \A i \in 1 .. n : list[i] \in Job
      BY ElementOfSeq
    <3> QED
      BY <3>1 DEF Job
  <2>3. ASSUME NEW i \in 1 .. n
        PROVE  list[i].id <= list[n].id
    <3>1. CASE i = n
      BY <2>1, <2>2, <3>1
    <3>2. CASE i # n
      <4>1. i < n
        BY <1>1, <3>2
      <4>2. list[i].id < list[n].id
        BY <2>1, <4>1 DEF Ascending
      <4> QED
        BY <2>1, <2>2, <4>2
    <3> QED
      BY <3>1, <3>2
  <2> QED
    BY <2>1, <2>2, <2>3 DEF Below
<1> QED
  BY <1>2, <1>3

-----------------------------------------------------------------------------
(* The steps of the shell *)

Busy == OwnChild \cup JobInFront

LEMMA ListedAre ==
    ASSUME ShellTypes
    PROVE  /\ Listed = Pidset(jobList) /\ Listed \subseteq ChildPids
           /\ \A i \in 1 .. Len(jobList) : jobList[i].pid \in Listed
<1>1. \A i \in 1 .. Len(jobList) : jobList[i] \in Job
  BY ElementOfSeq DEF ShellTypes
<1>2. \A x \in Job : x.pid \in ChildPids
  BY DEF Job
<1> QED
  BY <1>1, <1>2 DEF Listed, Pidset

\* No process begins or is reaped.
SameProcesses == children' \in [ChildPids -> States] /\ \A p \in ChildPids : children'[p] = "none" <=> children[p] = "none"

\* The shell goes on, without a child before or after the step.
LEMMA Quiet ==
    ASSUME ShellInv, SameProcesses, UNCHANGED <<jobList, maxJobId, child, fgPid>>, at' \in Nat \ {0},
           pc \notin {"exited"}, pc' \notin {"exited", "prompt"}, pc' = "sweep" => ret' \in Sweeps,
           Place \notin Busy, Place' \notin Busy, Place' \in {"prompt", "redirect"} => out' = "tty",
           out' \in {"tty", "file"}
    PROVE  ShellInv'
<1>1. ShellTypes'
  BY DEF ShellInv, ShellTypes, SameProcesses
<1>2. ListOK'
  BY DEF ShellInv, ListOK, Ascending, Below, Distinct
<1>3. Listed' = Listed /\ Listed \subseteq ChildPids
  BY ListedAre DEF ShellInv, Listed
<1>4. child = NoPid /\ fgPid = NoPid /\ child' = NoPid /\ fgPid' = NoPid
  BY DEF ShellInv, ChildOK, Busy, OwnChild, JobInFront, Reaped
<1>5. ChildOK'
  BY <1>4 DEF ChildOK, Busy, OwnChild, JobInFront, Reaped
<1>6. ProcessesOK'
  BY <1>3, <1>4 DEF ShellInv, ProcessesOK, SameProcesses, Busy, JobInFront
<1> QED
  BY <1>1, <1>2, <1>5, <1>6 DEF ShellInv

\* A signal, or the end of a process, beside the shell.
LEMMA Aside ==
    ASSUME ShellInv, SameProcesses, UNCHANGED <<jobList, maxJobId, child, pc, ret, at, out>>,
           fgPid' \in {fgPid, NoPid}, pc # "exited"
    PROVE  ShellInv'
<1>1. ShellTypes'
  BY DEF ShellInv, ShellTypes, SameProcesses
<1>2. ListOK'
  BY DEF ShellInv, ListOK, Ascending, Below, Distinct
<1>3. Listed' = Listed /\ Listed \subseteq ChildPids /\ Place' = Place
  BY ListedAre DEF ShellInv, Listed, Place
<1>4. child # NoPid => child \in ChildPids
  BY DEF ShellInv, ShellTypes
<1>5. ChildOK'
  BY <1>3, <1>4 DEF ShellInv, ChildOK, SameProcesses, OwnChild, JobInFront, Reaped, LastId
<1>6. ProcessesOK'
  BY <1>3 DEF ShellInv, ProcessesOK, SameProcesses
<1> QED
  BY <1>1, <1>2, <1>5, <1>6 DEF ShellInv

LEMMA DeliverKeeps ==
    ASSUME ShellInv, NEW p \in ChildPids, NEW sig, Deliver(p, sig), children[p] # "none" \/ sig = "INT"
    PROVE  SameProcesses
<1>1. children \in [ChildPids -> States]
  BY DEF ShellInv, ShellTypes
<1>2. CASE children' = children
  BY <1>1, <1>2 DEF SameProcesses
<1>3. CASE children' # children
  <2>1. children[p] # "none" /\ \E s \in {"zombie", "stopped", "running"} : children' = [children EXCEPT ![p] = s]
    BY <1>3 DEF Deliver
  <2> QED
    BY <1>1, <2>1 DEF SameProcesses, States
<1> QED
  BY <1>2, <1>3

LEMMA CtrlCStep ==
    ASSUME ShellInv, CtrlC
    PROVE  ShellInv'
<1>1. pc # "exited" /\ fgPid' = NoPid /\ UNCHANGED <<jobList, maxJobId, child, pc, ret, at, out>>
  BY DEF CtrlC, listVars
<1>2. SameProcesses
  <2>1. CASE fgPid = NoPid
    BY <2>1 DEF CtrlC, SameProcesses, ShellInv, ShellTypes
  <2>2. CASE fgPid # NoPid
    <3>1. fgPid \in ChildPids /\ Deliver(fgPid, "INT")
      BY <2>2 DEF CtrlC, ShellInv, ShellTypes
    <3> QED
      BY <3>1, DeliverKeeps
  <2> QED
    BY <2>1, <2>2
<1> QED
  BY <1>1, <1>2, Aside

LEMMA EndStep ==
    ASSUME ShellInv, NEW p \in ChildPids, End(p)
    PROVE  ShellInv'
<1>1. /\ children[p] = "running" /\ children' = [children EXCEPT ![p] = "zombie"] /\ children \in [ChildPids -> States]
      /\ UNCHANGED <<jobList, maxJobId, child, pc, ret, at, out, fgPid, cmd>>
  BY DEF End, listVars, ShellInv, ShellTypes
<1>2. SameProcesses
  BY <1>1 DEF SameProcesses, States
<1>3. CASE pc # "exited"
  BY <1>1, <1>2, <1>3, Aside
<1>4. CASE pc = "exited"
  <2>1. ShellTypes' /\ ListOK'
    BY <1>1, <1>2 DEF ShellInv, ShellTypes, SameProcesses, ListOK, Ascending, Below, Distinct
  <2>2. Listed' = Listed /\ Refusing' = Refusing
    BY <1>1 DEF Listed, Refusing, End
  <2>3. ChildOK' /\ ProcessesOK'
    BY <1>1, <1>4, <2>2 DEF ShellInv, ChildOK, ProcessesOK, Place, OwnChild, JobInFront, Reaped
  <2> QED
    BY <2>1, <2>3 DEF ShellInv
<1> QED
  BY <1>3, <1>4

LEMMA ShellStutters ==
    ASSUME ShellInv, UNCHANGED <<children, listVars, fgPid, pc, cmd, child, at, ret, out>>, execd \subseteq execd'
    PROVE  ShellInv'
<1>1. UNCHANGED <<children, jobList, maxJobId, fgPid, pc, cmd, child, at, ret, out>>
  BY DEF listVars
<1>2. Listed' = Listed /\ Place' = Place /\ Refusing \subseteq Refusing'
  BY <1>1 DEF Listed, Place, Refusing
<1>3. ShellTypes' /\ ListOK'
  BY <1>1 DEF ShellInv, ShellTypes, ListOK, Ascending, Below, Distinct
<1>4. ChildOK' /\ ProcessesOK'
  BY <1>1, <1>2 DEF ShellInv, ChildOK, ProcessesOK, LastId
<1> QED
  BY <1>3, <1>4 DEF ShellInv

\* The steps that only lead the shell on to its next sweep.
LEMMA QuietSteps ==
    ASSUME ShellInv, ReadCommand \/ Redirect \/ Restore \/ ForkFails \/ NoSuchJob \/ JobsCommand
                       \/ KillCommand \/ (QuitCommand /\ pc' = "sweep")
    PROVE  ShellInv'
<1>1. pc \in {"prompt", "redirect", "restore", "run", "print"} /\ pc' = "sweep" /\ at' = 1
  BY DEF ReadCommand, Redirect, Restore, ForkFails, NoSuchJob, JobsCommand, KillCommand, QuitCommand, Done, StartSweep
<1>2. UNCHANGED <<jobList, maxJobId, child, fgPid>>
  BY DEF ReadCommand, Redirect, Restore, ForkFails, NoSuchJob, JobsCommand, KillCommand, QuitCommand, listVars
<1>3. SameProcesses
  <2>1. CASE KillCommand
    <3>1. PICK i \in 1 .. Len(jobList), sig \in Signals : Deliver(jobList[i].pid, sig)
      BY <2>1 DEF KillCommand
    <3>2. jobList[i].pid \in Listed /\ Listed \subseteq ChildPids /\ pc = "run"
      BY <2>1, ListedAre DEF ShellInv, KillCommand
    <3>3. children[jobList[i].pid] # "none"
      BY <3>2 DEF ShellInv, ProcessesOK, Place
    <3> QED
      BY <3>1, <3>2, <3>3, DeliverKeeps
  <2>2. CASE ~KillCommand
    <3>1. children' = children
      BY <2>2 DEF ReadCommand, Redirect, Restore, ForkFails, NoSuchJob, JobsCommand, QuitCommand, procVars
    <3> QED
      BY <3>1 DEF SameProcesses, ShellInv, ShellTypes
  <2> QED
    BY <2>1, <2>2
<1>4. ret' \in Sweeps \ {"push"} /\ (ret' \in {"prompt", "redirect"} => out' = "tty")
  <2>1. CASE ReadCommand
    <3>1. out = "tty" /\ out' = out /\ ret' \in {"redirect", "run"}
      BY <2>1 DEF ReadCommand, StartSweep, ShellInv, ChildOK, Place
    <3> QED
      BY <3>1 DEF Sweeps
  <2>2. CASE Redirect
    <3>1. out = "tty" /\ ((out' = "file" /\ ret' = "run") \/ (out' = out /\ ret' = "prompt"))
      BY <2>2 DEF Redirect, StartSweep, ShellInv, ChildOK, Place
    <3> QED
      BY <3>1 DEF Sweeps
  <2>3. CASE Restore
    BY <2>3 DEF Restore, StartSweep, Sweeps
  <2>4. CASE ~(ReadCommand \/ Redirect \/ Restore)
    <3>1. out' = out /\ ((ret' = IF out = "file" THEN "restore" ELSE "prompt") \/ ret' \in {"print", "kill_all"})
      BY <1>1, <2>4 DEF ForkFails, NoSuchJob, JobsCommand, KillCommand, QuitCommand, Done, StartSweep
    <3>2. out \in {"tty", "file"}
      BY DEF ShellInv, ShellTypes
    <3> QED
      BY <3>1, <3>2 DEF Sweeps
  <2> QED
    BY <2>1, <2>2, <2>3, <2>4
<1>5. Place \notin Busy /\ Place' \notin Busy /\ Place' = ret'
  BY <1>1, <1>4 DEF Place, Busy, OwnChild, JobInFront, Sweeps
<1>6. out' \in {"tty", "file"}
  BY DEF ReadCommand, Redirect, Restore, ForkFails, NoSuchJob, JobsCommand, KillCommand, QuitCommand, ShellInv, ShellTypes
<1> QED
  BY <1>1, <1>2, <1>3, <1>4, <1>5, <1>6, Quiet

LEMMA ForkStep ==
    ASSUME ShellInv, Fork
    PROVE  ShellInv'
<1>1. pc = "run" /\ UNCHANGED <<jobList, maxJobId, fgPid, out>> /\ Place = "run"
  BY DEF Fork, listVars, Place
<1>2. PICK p \in ChildPids : children[p] = "none" /\ children' = [children EXCEPT ![p] = "running"] /\ child' = p
  BY DEF Fork
<1>3. \/ pc' = "forked" /\ UNCHANGED <<at, ret>>
      \/ pc' = "sweep" /\ at' = 1 /\ ret' = "push"
  BY DEF Fork, StartSweep
<1>4. Place' \in {"forked", "push"} /\ (pc' = "sweep" => ret' = "push") /\ pc' \notin {"exited", "prompt"}
  BY <1>3 DEF Place
<1>5. children' \in [ChildPids -> States] /\ children'[p] = "running" /\ \A q \in ChildPids \ {p} : children'[q] = children[q]
  BY <1>2 DEF ShellInv, ShellTypes, States
<1>6. Listed' = Listed /\ Listed \subseteq ChildPids /\ p \notin Listed /\ p # NoPid
  <2>1. Listed' = Listed /\ Listed \subseteq ChildPids
    BY <1>1, ListedAre DEF ShellInv, Listed
  <2> QED
    BY <1>1, <1>2, <2>1, ShellConstants DEF ShellInv, ProcessesOK
<1>7. child = NoPid /\ fgPid = NoPid
  BY <1>1 DEF ShellInv, ChildOK, OwnChild, JobInFront, Reaped
<1>8. ShellTypes'
  BY <1>1, <1>2, <1>3, <1>5 DEF ShellInv, ShellTypes
<1>9. ListOK'
  BY <1>1 DEF ShellInv, ListOK, Ascending, Below, Distinct
<1>10. ChildOK'
  BY <1>1, <1>2, <1>4, <1>5, <1>6, <1>7 DEF ChildOK, OwnChild, JobInFront, Reaped, Sweeps
<1>11. ProcessesOK'
  <2>1. /\ \A q \in ChildPids : children[q] # "none" => q \in Listed
        /\ \A q \in Listed : children[q] # "none"
    BY <1>1, <1>7, ShellConstants DEF ShellInv, ProcessesOK
  <2>2. \A q \in ChildPids : children'[q] # "none" => q \in Listed \cup {p}
    BY <1>5, <2>1
  <2>3. \A q \in Listed : children'[q] # "none"
    BY <1>5, <1>6, <2>1
  <2> QED
    BY <1>2, <1>4, <1>6, <2>2, <2>3 DEF ProcessesOK
<1> QED
  BY <1>8, <1>9, <1>10, <1>11 DEF ShellInv

LEMMA SetForegroundStep ==
    ASSUME ShellInv, setForegroundPid
    PROVE  ShellInv'
<1>1. /\ pc = "forked" /\ pc' = "wait" /\ fgPid' = child
      /\ UNCHANGED <<children, jobList, maxJobId, child, at, ret, out>>
      /\ Place = "forked" /\ Place' = "wait" /\ Listed' = Listed
  BY DEF setForegroundPid, procVars, listVars, Place, Listed
<1>2. ShellTypes' /\ ListOK'
  BY <1>1 DEF ShellInv, ShellTypes, ListOK, Ascending, Below, Distinct
<1>3. ChildOK'
  BY <1>1 DEF ShellInv, ChildOK, OwnChild, JobInFront, Reaped
<1>4. ProcessesOK'
  BY <1>1 DEF ShellInv, ProcessesOK
<1> QED
  BY <1>2, <1>3, <1>4 DEF ShellInv

LEMMA WaitStep ==
    ASSUME ShellInv, WaitForeground
    PROVE  ShellInv'
<1>1. /\ children' = [children EXCEPT ![child] = "none"] /\ Listed' = Listed
      /\ UNCHANGED <<jobList, maxJobId, fgPid, child, at, ret, out>>
      /\ \/ pc = "wait" /\ pc' = "reaped" /\ Place = "wait" /\ Place' = "reaped"
         \/ pc = "fg_wait" /\ pc' = "fg_reaped" /\ Place = "fg_wait" /\ Place' = "fg_reaped"
  BY DEF WaitForeground, Reap, listVars, Place, Listed
<1>2. child \in ChildPids /\ children \in [ChildPids -> States] /\ Listed \subseteq ChildPids
  BY <1>1, ListedAre DEF ShellInv, ShellTypes, ChildOK, OwnChild, JobInFront
<1>3. children' \in [ChildPids -> States] /\ children'[child] = "none" /\ \A q \in ChildPids \ {child} : children'[q] = children[q]
  BY <1>1, <1>2 DEF States
<1>4. ShellTypes' /\ ListOK'
  BY <1>1, <1>3 DEF ShellInv, ShellTypes, ListOK, Ascending, Below, Distinct
<1>5. ChildOK'
  BY <1>1, <1>3 DEF ShellInv, ChildOK, OwnChild, JobInFront, Reaped
<1>6. ProcessesOK'
  BY <1>1, <1>2, <1>3 DEF ShellInv, ProcessesOK, ChildOK, OwnChild
<1> QED
  BY <1>4, <1>5, <1>6 DEF ShellInv

\* Where a command leads to when it is done.
LEMMA DoneLeads ==
    ASSUME ShellInv, Done, out' = out
    PROVE  /\ pc' = "sweep" /\ at' = 1 /\ at' \in Nat \ {0} /\ Place' = ret' /\ ret' \in Sweeps
           /\ ret' \in {"restore", "prompt"} /\ Place' \in {"restore", "prompt"}
           /\ ret' \in {"prompt", "redirect"} => out' = "tty"
<1>1. out \in {"tty", "file"}
  BY DEF ShellInv, ShellTypes
<1> QED
  BY <1>1 DEF Done, StartSweep, Place, Sweeps

LEMMA ForegroundDoneStep ==
    ASSUME ShellInv, ForegroundDone
    PROVE  ShellInv'
<1>1. /\ pc = "reaped" /\ fgPid' = NoPid /\ child' = NoPid /\ Done /\ Place = "reaped" /\ Listed' = Listed
      /\ UNCHANGED <<children, jobList, maxJobId, out>>
  BY DEF ForegroundDone, procVars, listVars, Place, Listed
<1>2. /\ pc' = "sweep" /\ at' \in Nat \ {0} /\ Place' = ret' /\ ret' \in Sweeps
      /\ Place' \in {"restore", "prompt"} /\ (Place' \in {"prompt", "redirect"} => out' = "tty")
  BY <1>1, DoneLeads
<1>3. ShellTypes' /\ ListOK'
  BY <1>1, <1>2 DEF ShellInv, ShellTypes, ListOK, Ascending, Below, Distinct
<1>4. ChildOK'
  BY <1>1, <1>2 DEF ChildOK, OwnChild, JobInFront, Reaped
<1>5. children[child] = "none"
  BY <1>1 DEF ShellInv, ChildOK, Reaped
<1>6. ProcessesOK'
  BY <1>1, <1>2, <1>5 DEF ShellInv, ProcessesOK
<1> QED
  BY <1>3, <1>4, <1>6 DEF ShellInv

LEMMA ForegroundStep ==
    ASSUME ShellInv, ForegroundCommand
    PROVE  ShellInv'
<1>1. /\ pc = "run" /\ pc' = "fg_wait" /\ Place = "run" /\ Place' = "fg_wait" /\ Listed' = Listed
      /\ UNCHANGED <<children, jobList, maxJobId, at, ret, out>>
  BY DEF ForegroundCommand, procVars, listVars, Place, Listed
<1>2. PICK i \in 1 .. Len(jobList) : fgPid' = jobList[i].pid /\ child' = jobList[i].pid
  BY DEF ForegroundCommand
<1>3. child' \in Listed /\ Listed \subseteq ChildPids /\ fgPid' = child' /\ child' # NoPid
  BY <1>2, ListedAre, ShellConstants DEF ShellInv
<1>4. ShellTypes' /\ ListOK'
  BY <1>1, <1>3 DEF ShellInv, ShellTypes, ListOK, Ascending, Below, Distinct
<1>5. ChildOK'
  BY <1>1, <1>3 DEF ChildOK, OwnChild, JobInFront, Reaped
<1>6. child = NoPid
  BY <1>1 DEF ShellInv, ChildOK, OwnChild, JobInFront
<1>7. ProcessesOK'
  BY <1>1, <1>3, <1>6, ShellConstants DEF ShellInv, ProcessesOK
<1> QED
  BY <1>4, <1>5, <1>7 DEF ShellInv

LEMMA AddJobStep ==
    ASSUME ShellInv, addJob
    PROVE  ShellInv'
<1> DEFINE new == [id |-> maxJobId + 1, pid |-> child]
           n == Len(jobList)
<1>1. /\ pc = "push" /\ jobList' = Append(jobList, new) /\ maxJobId' = maxJobId + 1 /\ child' = NoPid /\ Done
      /\ UNCHANGED <<children, fgPid, out>> /\ Place = "push"
  BY DEF addJob, procVars, Place
<1>2. /\ pc' = "sweep" /\ at' \in Nat \ {0} /\ Place' = ret' /\ ret' \in Sweeps
      /\ Place' \in {"restore", "prompt"} /\ (Place' \in {"prompt", "redirect"} => out' = "tty")
  BY <1>1, DoneLeads
<1>3. child \in ChildPids /\ child \notin Listed /\ children[child] # "none" /\ fgPid = NoPid
  BY <1>1 DEF ShellInv, ShellTypes, ChildOK, OwnChild, Reaped
<1>4. new \in Job /\ new.id = maxJobId + 1 /\ new.pid = child /\ maxJobId \in Nat /\ jobList \in Seq(Job) /\ n \in Nat
  BY <1>3, LenProperties DEF ShellInv, ShellTypes, Job
<1> HIDE DEF new
<1>5. /\ jobList' \in Seq(Job) /\ Len(jobList') = n + 1 /\ jobList'[n + 1] = new
      /\ \A i \in 1 .. n : jobList'[i] = jobList[i]
  BY <1>1, <1>4, AppendProperties
<1>6. ShellTypes'
  BY <1>1, <1>2, <1>4, <1>5 DEF ShellInv, ShellTypes
<1>7. \A i \in 1 .. n : jobList[i].id \in Nat /\ jobList[i].id <= maxJobId /\ jobList[i].pid # child
  <2>1. \A i \in 1 .. n : jobList[i] \in Job
    BY <1>4, ElementOfSeq
  <2> QED
    BY <1>3, <2>1 DEF ShellInv, ListOK, Below, Job, Listed
<1> HIDE DEF n
<1>8. \A i \in 1 .. n + 1 : i \in 1 .. n \/ i = n + 1
  BY <1>4
<1>9. ListOK'
  <2>1. ASSUME NEW i \in 1 .. n + 1, NEW k \in 1 .. n + 1
        PROVE  /\ i < k => jobList'[i].id < jobList'[k].id
               /\ jobList'[i].pid = jobList'[k].pid => i = k
               /\ jobList'[i].id <= maxJobId + 1
    <3>1. CASE i \in 1 .. n /\ k \in 1 .. n
      <4>1. /\ i < k => jobList[i].id < jobList[k].id
            /\ jobList[i].pid = jobList[k].pid => i = k
        BY <3>1 DEF ShellInv, ListOK, Ascending, Distinct, n
      <4>2. jobList[i].id <= maxJobId + 1
        BY <1>4, <1>7, <3>1
      <4> QED
        BY <1>5, <3>1, <4>1, <4>2
    <3>2. CASE i \in 1 .. n /\ k = n + 1
      BY <1>4, <1>5, <1>7, <3>2
    <3>3. CASE i = n + 1 /\ k \in 1 .. n
      BY <1>4, <1>5, <1>7, <3>3
    <3>4. CASE i = n + 1 /\ k = n + 1
      BY <1>4, <1>5, <3>4
    <3> QED
      BY <1>8, <3>1, <3>2, <3>3, <3>4
  <2> QED
    BY <1>1, <1>5, <2>1 DEF ListOK, Ascending, Below, Distinct
<1>10. Listed' = Listed \cup {child}
  <2>1. ASSUME NEW p \in Listed'
        PROVE  p \in Listed \cup {child}
    <3>1. PICK i \in 1 .. n + 1 : p = jobList'[i].pid
      BY <1>5 DEF Listed
    <3>2. CASE i \in 1 .. n
      BY <1>5, <3>1, <3>2 DEF Listed, n
    <3>3. CASE i = n + 1
      BY <1>4, <1>5, <3>1, <3>3
    <3> QED
      BY <1>8, <3>2, <3>3
  <2>2. ASSUME NEW p \in Listed
        PROVE  p \in Listed'
    <3>1. PICK i \in 1 .. n : p = jobList[i].pid
      BY DEF Listed, n
    <3>2. i \in 1 .. Len(jobList') /\ p = jobList'[i].pid
      BY <1>4, <1>5, <3>1
    <3> QED
      BY <3>2 DEF Listed
  <2>3. child \in Listed'
    <3>1. n + 1 \in 1 .. Len(jobList') /\ child = jobList'[n + 1].pid
      BY <1>4, <1>5
    <3> QED
      BY <3>1 DEF Listed
  <2> QED
    BY <2>1, <2>2, <2>3
<1>11. ChildOK'
  BY <1>1, <1>2, <1>3 DEF ChildOK, OwnChild, JobInFront, Reaped
<1>12. ProcessesOK'
  <2>1. \A p \in Listed : children[p] # "none"
    BY <1>1 DEF ShellInv, ProcessesOK
  <2>2. \A p \in ChildPids : children[p] # "none" => p \in Listed \cup {child}
    BY <1>1 DEF ShellInv, ProcessesOK
  <2> QED
    BY <1>1, <1>2, <1>3, <1>10, <2>1, <2>2 DEF ProcessesOK
<1> QED
  BY <1>6, <1>9, <1>11, <1>12 DEF ShellInv

LEMMA ForegroundCommandDoneStep ==
    ASSUME ShellInv, ForegroundCommandDone
    PROVE  ShellInv'
<1>1. /\ pc = "fg_reaped" /\ fgPid' = NoPid /\ child' = NoPid /\ Done /\ maxJobId' = LastId(jobList')
      /\ UNCHANGED <<children, out>> /\ Place = "fg_reaped"
  BY DEF ForegroundCommandDone, procVars, Place
<1>2. PICK i \in 1 .. Len(jobList) : jobList[i].pid = child /\ jobList' = removeJobById(jobList, jobList[i].id)
  BY DEF ForegroundCommandDone
<1>3. /\ pc' = "sweep" /\ at' \in Nat \ {0} /\ Place' = ret' /\ ret' \in Sweeps
      /\ Place' \in {"restore", "prompt"} /\ (Place' \in {"prompt", "redirect"} => out' = "tty")
  BY <1>1, DoneLeads
<1>4. /\ jobList' \in Seq(Job) /\ Ascending(jobList') /\ Distinct(jobList')
      /\ Pidset(jobList') = Pidset(jobList) \ {child}
  BY <1>2, RemovedById DEF ShellInv, ShellTypes, ListOK
<1>5. LastId(jobList') \in Nat /\ Below(jobList', LastId(jobList'))
  BY <1>4, LastIsLargest
<1>6. Listed' = Listed \ {child} /\ Listed \subseteq ChildPids
  BY <1>4, ListedAre DEF ShellInv, Listed, Pidset
<1>7. ShellTypes'
  BY <1>1, <1>3, <1>4, <1>5 DEF ShellInv, ShellTypes
<1>8. ListOK'
  BY <1>1, <1>4, <1>5 DEF ListOK, Ascending, Distinct, Below
<1>9. ChildOK'
  BY <1>1, <1>3 DEF ChildOK, OwnChild, JobInFront, Reaped
<1>10. ProcessesOK'
  <2>1. /\ \A p \in ChildPids : children[p] # "none" => p \in Listed \cup {child}
        /\ \A p \in Listed : children[p] = "none" => p = child
        /\ children[child] = "none"
    BY <1>1 DEF ShellInv, ProcessesOK, ChildOK, Reaped
  <2> QED
    BY <1>1, <1>3, <1>6, <2>1 DEF ProcessesOK
<1> QED
  BY <1>7, <1>8, <1>9, <1>10 DEF ShellInv

LEMMA SweepErases ==
    ASSUME ShellInv, pc = "sweep", at <= Len(jobList), children[jobList[at].pid] = "zombie", Reap(jobList[at].pid),
           jobList' = RemoveAt(jobList, at), UNCHANGED <<maxJobId, pc, at, fgPid, cmd, child, ret, out>>
    PROVE  ShellInv'
<1> DEFINE p == jobList[at].pid
<1>1. at \in 1 .. Len(jobList)
  BY LenProperties DEF ShellInv, ShellTypes
<1>2. /\ jobList' \in Seq(Job) /\ Ascending(jobList') /\ Distinct(jobList') /\ Below(jobList', maxJobId)
      /\ Pidset(jobList') = Pidset(jobList) \ {p}
  BY <1>1, RemovedAt DEF ShellInv, ShellTypes, ListOK
<1>3. p \in Listed /\ Listed \subseteq ChildPids /\ Listed' = Listed \ {p}
  BY <1>1, <1>2, ListedAre DEF ShellInv, Listed, Pidset
<1> HIDE DEF p
<1>4. children' \in [ChildPids -> States] /\ children'[p] = "none" /\ \A q \in ChildPids \ {p} : children'[q] = children[q]
  BY <1>3 DEF Reap, ShellInv, ShellTypes, States, p
<1>5. Place' = Place /\ Place = ret /\ ret \in Sweeps /\ children[p] # "none"
  BY DEF Place, ShellInv, ChildOK, p
<1>6. ShellTypes' /\ ListOK'
  BY <1>2, <1>4 DEF ShellInv, ShellTypes, ListOK, Ascending, Distinct, Below
<1>7. Place = "push" => child \in ChildPids \ {p}
  BY <1>3 DEF ShellInv, ShellTypes, ChildOK, OwnChild
<1>8. ChildOK'
  BY <1>3, <1>4, <1>5, <1>7 DEF ShellInv, ChildOK, Sweeps, OwnChild, JobInFront, Reaped
<1>9. ProcessesOK'
  <2>1. /\ \A q \in ChildPids : children[q] # "none" => q \in Listed \cup {child}
        /\ \A q \in Listed : children[q] # "none"
    BY <1>5 DEF ShellInv, ProcessesOK, Sweeps
  <2> QED
    BY <1>3, <1>4, <2>1 DEF ProcessesOK
<1> QED
  BY <1>6, <1>8, <1>9 DEF ShellInv

LEMMA SweepEnds ==
    ASSUME ShellInv, pc = "sweep", jobList' = Sorted(jobList), maxJobId' = LastId(jobList'), pc' = ret, at' = 1,
           UNCHANGED <<children, fgPid, cmd, child, ret, out>>
    PROVE  ShellInv'
<1>1. jobList' = jobList
  BY SortedSame DEF ShellInv, ShellTypes, ListOK
<1>2. maxJobId' \in Nat /\ Below(jobList, maxJobId')
  BY <1>1, LastIsLargest DEF ShellInv, ShellTypes, ListOK
<1>3. Place' = Place /\ Place = ret /\ ret \in Sweeps /\ Listed' = Listed
  BY <1>1 DEF Place, ShellInv, ChildOK, Sweeps, Listed
<1>4. ShellTypes' /\ ListOK'
  BY <1>1, <1>2 DEF ShellInv, ShellTypes, ListOK, Ascending, Distinct, Below
<1>5. ChildOK'
  BY <1>3 DEF ShellInv, ChildOK, Sweeps, OwnChild, JobInFront, Reaped
<1>6. ProcessesOK'
  BY <1>3 DEF ShellInv, ProcessesOK, Sweeps
<1> QED
  BY <1>4, <1>5, <1>6 DEF ShellInv

LEMMA SweepStep ==
    ASSUME ShellInv, removeFinishedJobs
    PROVE  ShellInv'
<1>1. pc = "sweep" /\ UNCHANGED <<fgPid, cmd, child, ret, out>>
  BY DEF removeFinishedJobs
<1>2. CASE /\ at <= Len(jobList) /\ children[jobList[at].pid] = "zombie" /\ Reap(jobList[at].pid)
           /\ jobList' = RemoveAt(jobList, at) /\ UNCHANGED <<maxJobId, pc, at>>
  BY <1>1, <1>2, SweepErases
<1>3. CASE SkipJob /\ UNCHANGED <<procVars, listVars, pc>>
  <2>1. at' \in Nat \ {0} /\ UNCHANGED <<children, jobList, maxJobId, pc>>
    BY <1>3 DEF SkipJob, procVars, listVars, ShellInv, ShellTypes
  <2>2. Listed' = Listed /\ Place' = Place
    BY <1>1, <2>1 DEF Listed, Place
  <2>3. ShellTypes' /\ ListOK'
    BY <1>1, <2>1 DEF ShellInv, ShellTypes, ListOK, Ascending, Below, Distinct
  <2>4. ChildOK' /\ ProcessesOK'
    BY <1>1, <2>1, <2>2 DEF ShellInv, ChildOK, ProcessesOK
  <2> QED
    BY <2>3, <2>4 DEF ShellInv
<1>4. CASE jobList' = Sorted(jobList) /\ maxJobId' = LastId(jobList') /\ pc' = ret /\ at' = 1 /\ UNCHANGED procVars
  BY <1>1, <1>4, SweepEnds DEF procVars
<1> QED
  BY <1>2, <1>3, <1>4 DEF removeFinishedJobs

\* The shell exits.
LEMMA ExitStep ==
    ASSUME ShellInv, (QuitCommand /\ pc' # "sweep") \/ killAllJobs
    PROVE  ShellInv'
<1>1. /\ jobList' = <<>> /\ maxJobId' = 0 /\ pc' = "exited" /\ UNCHANGED <<fgPid, child, at, ret, out, cmd>>
      /\ pc \in {"run", "kill_all"}
  BY DEF QuitCommand, killAllJobs, StartSweep
<1>2. /\ children' \in [ChildPids -> States] /\ Refusing' = Refusing
      /\ cmd = "quit kill" => \A p \in ChildPids : children'[p] \in {"none", "zombie"} \/ p \in Refusing
  <2>1. CASE QuitCommand /\ pc' # "sweep"
    BY <2>1 DEF QuitCommand, StartSweep, procVars, ShellInv, ShellTypes, Refusing
  <2>2. CASE killAllJobs
    <3>1. PICK failed \in SUBSET (Listed \cap Refusing) :
            children' = [p \in ChildPids |-> IF p \in Listed \ failed /\ children[p] # "none"
                                             THEN "zombie" ELSE children[p]]
      BY <2>2 DEF killAllJobs, AllJobs, Listed
    <3>2. Place = "kill_all" /\ child = NoPid
      BY <2>2 DEF killAllJobs, Place, ShellInv, ChildOK, OwnChild, JobInFront
    <3>3. \A p \in ChildPids : children[p] # "none" => p \in Listed
      BY <2>2, <3>2, ShellConstants DEF killAllJobs, ShellInv, ProcessesOK
    <3> QED
      <4>1. Refusing' = Refusing
        BY <2>2 DEF killAllJobs, Refusing
      <4> QED
        BY <3>1, <3>3, <4>1 DEF ShellInv, ShellTypes, States
  <2> QED
    BY <2>1, <2>2
<1>3. child = NoPid /\ fgPid = NoPid
  BY <1>1 DEF ShellInv, ChildOK, Place, OwnChild, JobInFront, Reaped
<1>4. jobList' \in Seq(Job) /\ Len(jobList') = 0 /\ Place' = "exited"
  BY <1>1, EmptySeq DEF Place
<1>5. ShellTypes' /\ ListOK'
  <2>1. ShellTypes'
    BY <1>1, <1>2, <1>4 DEF ShellInv, ShellTypes
  <2>2. 1 .. Len(jobList') = {}
    BY <1>4
  <2> QED
    BY <2>1, <2>2 DEF ListOK, Ascending, Below, Distinct
<1>6. ChildOK' /\ ProcessesOK'
  BY <1>1, <1>2, <1>3, <1>4 DEF ChildOK, ProcessesOK, OwnChild, JobInFront, Reaped
<1> QED
  BY <1>5, <1>6 DEF ShellInv

-----------------------------------------------------------------------------
LEMMA ShellInitially == ShellInit => ShellInv
<1> SUFFICES ASSUME ShellInit PROVE ShellInv
  OBVIOUS
<1>1. jobList = <<>> /\ jobList \in Seq(Job) /\ Len(jobList) = 0 /\ Place = "prompt" /\ Listed = {}
  BY EmptySeq DEF ShellInit, Place, Listed
<1>2. ShellTypes /\ ListOK
  BY <1>1 DEF ShellInit, ShellTypes, States, ListOK, Ascending, Below, Distinct
<1>3. ChildOK /\ ProcessesOK
  BY <1>1 DEF ShellInit, ChildOK, ProcessesOK, OwnChild, JobInFront, Reaped, LastId
<1> QED
  BY <1>2, <1>3 DEF ShellInv

LEMMA ShellKept == ShellInv /\ [ShellNext]_shellVars => ShellInv'
<1> SUFFICES ASSUME ShellInv, [ShellNext]_shellVars PROVE ShellInv'
  OBVIOUS
<1>1. CASE UNCHANGED shellVars
  BY <1>1, ShellStutters DEF shellVars, procVars
<1>2. CASE ReadCommand
  BY <1>2, QuietSteps
<1>3. CASE CtrlC
  BY <1>3, CtrlCStep
<1>4. ASSUME NEW p \in ChildPids, Exec(p) \/ End(p)
      PROVE  ShellInv'
  BY <1>4, EndStep, ShellStutters DEF Exec
<1>5. CASE Shell
  BY <1>5, QuietSteps, SweepStep, ForkStep, SetForegroundStep, WaitStep, ForegroundDoneStep, AddJobStep,
     ForegroundStep, ForegroundCommandDoneStep, ExitStep DEF Shell
<1> QED
  BY <1>1, <1>2, <1>3, <1>4, <1>5 DEF ShellNext

\* For any number of children and jobs, the shell loses none of them: every process it
\* forked is in the job list exactly once or is the one it waits for, none is listed
\* after its waitpid, the list stays sorted by ids through addJob, removeFinishedJobs
\* and removeJobById, and quit kill leaves nothing running that it may kill.
THEOREM EveryChildTrackedHolds == ShellSpec => []EveryChildTracked
<1>1. ShellInv => EveryChildTracked
  <2> SUFFICES ASSUME ShellInv PROVE EveryChildTracked
    OBVIOUS
  <2>1. /\ pc # "sweep" => Place = pc
        /\ Place = "fg_reaped" => pc = "fg_reaped"
    BY DEF ShellInv, ChildOK, Place, Sweeps
  <2>2. ListOK /\ ProcessesOK /\ (pc \in {"wait", "push"} => child \notin Listed)
    BY <2>1 DEF ShellInv, ChildOK, OwnChild
  <2> QED
    BY <2>1, <2>2 DEF EveryChildTracked, ListOK, Ascending, Below, Distinct, ProcessesOK
<1> QED
  BY <1>1, ShellInitially, ShellKept, PTL DEF ShellSpec

\* Whatever command was executed, redirected or not, and whenever ctrlCHandler came in
\* between: at the prompt there is no foreground process, standard output is the
\* terminal's, and maxJobId is the id of the last job.
THEOREM PromptIsCleanHolds == ShellSpec => []PromptIsClean
<1>1. ShellInv => PromptIsClean
  <2> SUFFICES ASSUME ShellInv, pc = "prompt"
               PROVE  fgPid = NoPid /\ child = NoPid /\ out = "tty" /\ maxJobId = LastId(jobList)
    BY DEF PromptIsClean
  <2> QED
    BY DEF ShellInv, ChildOK, Place, OwnChild, JobInFront, Reaped
<1> QED
  BY <1>1, ShellInitially, ShellKept, PTL DEF ShellSpec
=============================================================================
