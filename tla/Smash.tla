------------------------------- MODULE Smash --------------------------------
(***************************************************************************)
(* The small shell: the job list, the foreground command, output           *)
(* redirection and Ctrl-C (Commands.cpp, signals.cpp, smash.cpp).  The     *)
(* shell is one thread; its children run beside it, and the handler of     *)
(* Ctrl-C interrupts it between any two steps.  A step ends where a child  *)
(* or the handler could see or change what the shell has done so far: at   *)
(* every fork, waitpid and kill, and at every write of fgPid.              *)
(*                                                                         *)
(* Command lines are abstracted to the command they select; pipes, aliases *)
(* and the commands that only print are not part of this module.           *)
(***************************************************************************)
EXTENDS Naturals, Sequences, SequencesExt

CONSTANTS
    ChildPids, \* the process ids of children
    Foreign,   \* those under which the program may change to another user
    NoPid,     \* -1
    Signals,   \* the signals the user sends with kill
    MaxJobs    \* bound: the largest job id

ASSUME ShellConstants ==
    /\ NoPid \notin ChildPids /\ Foreign \subseteq ChildPids
    /\ Signals \subseteq {"KILL", "STOP", "CONT", "INT"}
    /\ MaxJobs \in Nat

VARIABLES
    children,  \* per pid: "none", "running", "stopped", "zombie"
    execd,     \* the children that have passed execvp
    pending,   \* the stopped children with a SIGINT to come
    jobList, maxJobId, fgPid,
    pc,        \* where the shell stands
    cmd,       \* the command it executes
    child,     \* the pid it forked, or waits for
    at,        \* the position removeFinishedJobs has reached in jobList
    ret,       \* where it goes on after removeFinishedJobs
    out        \* where standard output leads: "tty", "file"

procVars == <<children, execd, pending>>
listVars == <<jobList, maxJobId>>
shellVars == <<procVars, listVars, fgPid, pc, cmd, child, at, ret, out>>

Commands == {"external", "background", "fg", "kill", "jobs", "quit", "quit kill"}
Pcs == {"prompt", "sweep", "redirect", "run", "print", "forked", "wait", "reaped", "push",
        "fg_wait", "fg_reaped", "kill_all", "restore", "exited"}

ShellInit ==
    /\ children = [p \in ChildPids |-> "none"] /\ execd = {} /\ pending = {}
    /\ jobList = <<>> /\ maxJobId = 0 /\ fgPid = NoPid
    /\ pc = "prompt" /\ cmd = "jobs" /\ child = NoPid
    /\ at = 1 /\ ret = "prompt" /\ out = "tty"

-----------------------------------------------------------------------------
(* Processes *)

\* The children that kill may be refused for (EPERM).
Refusing == Foreign \cap execd

\* What a signal makes of process p: the new children and pending, in every way
\* the program may react.  Before execvp a child still has the shell's handler,
\* which finds no foreground process there and does nothing.
Deliver(p, sig) ==
    \/ sig = "KILL" /\ children[p] # "zombie"
         /\ children' = [children EXCEPT ![p] = "zombie"] /\ pending' = pending \ {p}
    \/ sig = "STOP" /\ children[p] = "running"
         /\ children' = [children EXCEPT ![p] = "stopped"] /\ UNCHANGED pending
    \/ sig = "CONT" /\ children[p] = "stopped"
         /\ \/ children' = [children EXCEPT ![p] = "running"]
            \/ p \in pending \cap execd /\ children' = [children EXCEPT ![p] = "zombie"]
         /\ pending' = pending \ {p}
    \/ sig = "INT" /\ children[p] = "stopped"
         /\ pending' = pending \cup {p} /\ UNCHANGED children
    \/ sig = "INT" /\ children[p] = "running"
         /\ \/ p \in execd /\ children' = [children EXCEPT ![p] = "zombie"]
            \/ UNCHANGED children
         /\ UNCHANGED pending
    \/ /\ children[p] \in {"none", "zombie"} \/ (sig = "STOP" /\ children[p] = "stopped")
                                              \/ (sig = "CONT" /\ children[p] = "running")
                                              \/ p \in Refusing
       /\ UNCHANGED <<children, pending>>

\* The child calls setpgrp and execvp.
Exec(p) ==
    /\ children[p] = "running" /\ p \notin execd
    /\ execd' = execd \cup {p}
    /\ UNCHANGED <<children, pending, listVars, fgPid, pc, cmd, child, at, ret, out>>

\* The program, or the child whose execvp failed, ends.
End(p) ==
    /\ children[p] = "running"
    /\ children' = [children EXCEPT ![p] = "zombie"]
    /\ UNCHANGED <<execd, pending, listVars, fgPid, pc, cmd, child, at, ret, out>>

\* waitpid releases a child that has ended.
Reap(p) ==
    /\ children' = [children EXCEPT ![p] = "none"]
    /\ execd' = execd \ {p}
    /\ UNCHANGED pending

-----------------------------------------------------------------------------
(* ctrlCHandler *)

CtrlC ==
    /\ pc # "exited"
    /\ \/ fgPid = NoPid /\ UNCHANGED <<children, pending>>
       \/ fgPid # NoPid /\ Deliver(fgPid, "INT")
    /\ fgPid' = NoPid
    /\ UNCHANGED <<execd, listVars, pc, cmd, child, at, ret, out>>

-----------------------------------------------------------------------------
(* The job list *)

\* removeFinishedJobs starts; the shell goes on at r when it is done.
StartSweep(r) == pc' = "sweep" /\ at' = 1 /\ ret' = r

\* maxJobId after a removal: the id of the last job.
LastId(list) == IF list = <<>> THEN 0 ELSE Last(list).id

\* sort: JobEntry compares by id.
Sorted(list) ==
    LET Places == 1 .. Len(list) IN
    CHOOSE s \in {[i \in Places |-> list[p[i]]] : p \in Bijection(Places, Places)} :
        \A i, k \in Places : i < k => s[i].id <= s[k].id

\* Mutated form: the iterator stays where it is.
SkipJobNot == at' = at

SkipJob == at' = at + 1

\* One turn of removeFinishedJobs: isJobFinished asks waitpid with WNOHANG.
removeFinishedJobs ==
    /\ pc = "sweep"
    /\ \/ /\ at <= Len(jobList) /\ children[jobList[at].pid] = "zombie"
          /\ Reap(jobList[at].pid)
          /\ jobList' = RemoveAt(jobList, at)
          /\ UNCHANGED <<maxJobId, pc, at>>
       \/ /\ at <= Len(jobList) /\ children[jobList[at].pid] # "zombie"
          /\ SkipJob
          /\ UNCHANGED <<procVars, listVars, pc>>
       \/ /\ at > Len(jobList)
          /\ jobList' = Sorted(jobList)
          /\ maxJobId' = LastId(jobList')
          /\ pc' = ret /\ at' = 1
          /\ UNCHANGED procVars
    /\ UNCHANGED <<fgPid, cmd, child, ret, out>>

\* The command is done.  executeCommand sweeps once more; a redirected command
\* was executed by an executeCommand inside another.
Done == StartSweep(IF out = "file" THEN "restore" ELSE "prompt")

-----------------------------------------------------------------------------
(* executeCommand *)

ReadCommand ==
    /\ pc = "prompt"
    /\ cmd' \in Commands
    /\ \E redirected \in BOOLEAN : StartSweep(IF redirected THEN "redirect" ELSE "run")
    /\ UNCHANGED <<procVars, listVars, fgPid, child, out>>

\* RedirectionCommand opens the file and executes the rest of the line, or fails.
Redirect ==
    /\ pc = "redirect"
    /\ \/ out' = "file" /\ StartSweep("run")
       \/ out' = out /\ StartSweep("prompt")
    /\ UNCHANGED <<procVars, listVars, fgPid, cmd, child>>

Restore ==
    /\ pc = "restore"
    /\ out' = "tty"
    /\ StartSweep("prompt")
    /\ UNCHANGED <<procVars, listVars, fgPid, cmd, child>>

\* fork, for a foreground or a background command.
Fork ==
    /\ pc = "run"
    /\ \/ cmd = "external"
       \/ cmd = "background" /\ maxJobId < MaxJobs
    /\ \E p \in ChildPids :
         /\ children[p] = "none"
         /\ children' = [children EXCEPT ![p] = "running"]
         /\ child' = p
    /\ \/ cmd = "external" /\ pc' = "forked" /\ UNCHANGED <<at, ret>>
       \/ cmd = "background" /\ StartSweep("push")
    /\ UNCHANGED <<execd, pending, listVars, fgPid, cmd, out>>

ForkFails ==
    /\ pc = "run" /\ cmd \in {"external", "background"}
    /\ Done
    /\ UNCHANGED <<procVars, listVars, fgPid, cmd, child, out>>

setForegroundPid ==
    /\ pc = "forked"
    /\ fgPid' = child
    /\ pc' = "wait"
    /\ UNCHANGED <<procVars, listVars, cmd, child, at, ret, out>>

\* waitpid returns when the child has ended, and at once (ECHILD) when there is none.
WaitForeground ==
    /\ pc \in {"wait", "fg_wait"} /\ children[child] \in {"zombie", "none"}
    /\ Reap(child)
    /\ pc' = IF pc = "wait" THEN "reaped" ELSE "fg_reaped"
    /\ UNCHANGED <<listVars, fgPid, cmd, child, at, ret, out>>

\* Mutated form: fgPid is left to the handler.
ForegroundDoneNoReset ==
    /\ pc = "reaped"
    /\ child' = NoPid
    /\ Done
    /\ UNCHANGED <<procVars, listVars, fgPid, cmd, out>>

ForegroundDone ==
    /\ pc = "reaped"
    /\ fgPid' = NoPid /\ child' = NoPid
    /\ Done
    /\ UNCHANGED <<procVars, listVars, cmd, out>>

\* The rest of addJob.
addJob ==
    /\ pc = "push"
    /\ jobList' = Append(jobList, [id |-> maxJobId + 1, pid |-> child])
    /\ maxJobId' = maxJobId + 1
    /\ child' = NoPid
    /\ Done
    /\ UNCHANGED <<procVars, fgPid, cmd, out>>

-----------------------------------------------------------------------------
(* Built-in commands *)

\* fg of the last job or of one the user names; it waits for the job as it is.
ForegroundCommand ==
    /\ pc = "run" /\ cmd = "fg"
    /\ \E i \in 1 .. Len(jobList) :
         /\ fgPid' = jobList[i].pid
         /\ child' = jobList[i].pid
    /\ pc' = "fg_wait"
    /\ UNCHANGED <<procVars, listVars, cmd, at, ret, out>>

\* Mutated form: the job stays listed.
KeepJob(list, id) == list

\* The loop of removeJobById: what it leaves of the first i jobs.
Erased(list, id) ==
    LET left[i \in 0 .. Len(list)] ==
          IF i = 0 THEN <<>>
          ELSE IF list[i].id = id THEN left[i - 1] ELSE Append(left[i - 1], list[i])
    IN  left[Len(list)]

removeJobById(list, id) == Sorted(Erased(list, id))

ForegroundCommandDone ==
    /\ pc = "fg_reaped"
    /\ fgPid' = NoPid /\ child' = NoPid
    /\ \E i \in 1 .. Len(jobList) :
         jobList[i].pid = child /\ jobList' = removeJobById(jobList, jobList[i].id)
    /\ maxJobId' = LastId(jobList')
    /\ Done
    /\ UNCHANGED <<procVars, cmd, out>>

KillCommand ==
    /\ pc = "run" /\ cmd = "kill"
    /\ \E i \in 1 .. Len(jobList), sig \in Signals : Deliver(jobList[i].pid, sig)
    /\ Done
    /\ UNCHANGED <<execd, listVars, fgPid, cmd, child, out>>

\* fg or kill of a job that does not exist, or with wrong arguments.
NoSuchJob ==
    /\ pc = "run" /\ cmd \in {"fg", "kill"}
    /\ Done
    /\ UNCHANGED <<procVars, listVars, fgPid, cmd, child, out>>

\* jobs removes the finished ones, then prints the list.
JobsCommand ==
    /\ \/ pc = "run" /\ cmd = "jobs" /\ StartSweep("print")
       \/ pc = "print" /\ Done
    /\ UNCHANGED <<procVars, listVars, fgPid, cmd, child, out>>

QuitCommand ==
    /\ pc = "run"
    /\ \/ /\ cmd = "quit"
          /\ jobList' = <<>> /\ maxJobId' = 0
          /\ pc' = "exited" /\ UNCHANGED <<at, ret>>
       \/ /\ cmd = "quit kill"
          /\ StartSweep("kill_all") /\ UNCHANGED listVars
    /\ UNCHANGED <<procVars, fgPid, cmd, child, out>>

AllJobs == {jobList[i].pid : i \in 1 .. Len(jobList)}

\* A kill that fails is reported, and the loop goes on.
killAllJobs ==
    /\ pc = "kill_all"
    /\ \E failed \in SUBSET (AllJobs \cap Refusing) :
         /\ children' = [p \in ChildPids |-> IF p \in AllJobs \ failed /\ children[p] # "none"
                                            THEN "zombie" ELSE children[p]]
         /\ pending' = pending \ (AllJobs \ failed)
    /\ jobList' = <<>> /\ maxJobId' = 0
    /\ pc' = "exited"
    /\ UNCHANGED <<execd, fgPid, cmd, child, at, ret, out>>

-----------------------------------------------------------------------------
Shell ==
    \/ removeFinishedJobs \/ Redirect \/ Restore
    \/ Fork \/ ForkFails \/ setForegroundPid \/ WaitForeground \/ ForegroundDone \/ addJob
    \/ ForegroundCommand \/ ForegroundCommandDone \/ KillCommand \/ NoSuchJob
    \/ JobsCommand \/ QuitCommand \/ killAllJobs

ShellNext ==
    \/ ReadCommand \/ Shell \/ CtrlC
    \/ \E p \in ChildPids : Exec(p) \/ End(p)

ShellSpec == ShellInit /\ [][ShellNext]_shellVars

\* The shell runs.  Programs need not end, and nobody needs to type.
ShellFairSpec == ShellSpec /\ WF_shellVars(Shell)

-----------------------------------------------------------------------------
(* Properties *)

Listed == {jobList[i].pid : i \in 1 .. Len(jobList)}

\* No child is forgotten and none is listed after it was reaped: a process is in
\* the list exactly once or is the one the shell has just forked or waits
\* for, so every kill and every waitpid meets the process it is meant for.  The
\* list is sorted by job ids and the next id is new, through any mixture of
\* addJob, fg and jobs that end by themselves; quit kill leaves no job running
\* but those it may not kill.
EveryChildTracked ==
    /\ \A i, k \in 1 .. Len(jobList) : i < k => jobList[i].id < jobList[k].id
    /\ pc = "push" => \A i \in 1 .. Len(jobList) : jobList[i].id <= maxJobId
    /\ pc = "exited" /\ cmd = "quit kill" =>
         \A p \in ChildPids : children[p] \in {"none", "zombie"} \/ p \in Refusing
    /\ pc # "exited" =>
      /\ \A p \in ChildPids : children[p] # "none" => p \in Listed \cup {child}
      /\ \A i, k \in 1 .. Len(jobList) : jobList[i].pid = jobList[k].pid => i = k
      /\ \A p \in Listed : children[p] = "none" => pc = "fg_reaped" /\ p = child
      /\ pc \in {"wait", "push"} => child \notin Listed

\* At the prompt nothing of the last command is left, whatever the handler did
\* meanwhile: no foreground process, standard output on the terminal.
PromptIsClean ==
    pc = "prompt" => fgPid = NoPid /\ child = NoPid /\ out = "tty" /\ maxJobId = LastId(jobList)

\* The shell comes back to its prompt, or exits, unless it waits for a foreground
\* process that lives: background jobs, running or stopped for ever, never
\* hold it up (waitpid is called with WNOHANG in isJobFinished).
PromptReturns ==
    pc # "prompt" ~> \/ pc \in {"prompt", "exited"}
                     \/ pc \in {"wait", "fg_wait"} /\ children[child] \in {"running", "stopped"}

\* "when fg process killed return to default value" (signals.cpp): while the
\* shell waits for a foreground process that is not dead, fgPid names it, so
\* that Ctrl-C reaches it.
ForegroundIsKnown ==
    pc \in {"wait", "fg_wait"} /\ children[child] # "zombie" => fgPid = child
=============================================================================
