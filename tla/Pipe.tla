-------------------------------- MODULE Pipe --------------------------------
(***************************************************************************)
(* fs/pipe.c: one pipe or FIFO, the files through which it is used, and    *)
(* the pages its user is charged for.                                      *)
(*                                                                         *)
(* A file carries at most one call at a time; its caller is what sleeps,   *)
(* is woken and gets signals.  What happens between taking pipe->mutex and *)
(* releasing it is one step, or one step per turn of the loops of          *)
(* pipe_read and pipe_write: pipe_poll looks without the mutex.  A byte is *)
(* known by how much of its write was left when it was copied.             *)
(*                                                                         *)
(* kill_fasync, which goes with each wake-up, file times and the splice    *)
(* calls outside pipe.c are left out.                                      *)
(***************************************************************************)
EXTENDS PipeRing, FiniteSets, FiniteSetsExt

CONSTANTS
    Files,
    Inodes,            \* whether the inode is one of pipefs (TRUE) or a FIFO (FALSE)
    Kinds,             \* how a file may be opened: access mode and flags
    PIPE_DEF_BUFFERS,
    pipe_max_size,     \* in pages
    pipe_user_pages_soft, pipe_user_pages_hard,   \* 0: no limit
    CAP_SYS_RESOURCE, CAP_SYS_ADMIN,   \* whether callers have them
    Lengths,           \* the lengths passed to read and write
    PageCounts,        \* the sizes passed to F_SETPIPE_SZ, in pages
    MaxPolls,          \* bound: the calls of poll under way at one time
    NULL

PIPE_MIN_DEF_BUFFERS == 2

ASSUME PipeConstants ==
    /\ Kinds \subseteq [read : BOOLEAN, write : BOOLEAN, nonblock : BOOLEAN, packet : BOOLEAN]
    /\ \A k \in Kinds : k.read \/ k.write    \* fifo_open counts no other file (EINVAL)
    /\ \A n \in {PIPE_DEF_BUFFERS, pipe_max_size} : n \in Nat \ {0} /\ n = roundup_pow_of_two(n)
    /\ {pipe_user_pages_soft, pipe_user_pages_hard, MaxPolls} \subseteq Nat
    /\ {CAP_SYS_RESOURCE, CAP_SYS_ADMIN} \subseteq BOOLEAN /\ Inodes \subseteq BOOLEAN
    /\ Lengths \subseteq Nat \ {0} /\ PageCounts \subseteq Nat \ {0}
    /\ NULL \notin Files /\ IsFiniteSet(Files)

VARIABLES
    is_pipe,          \* whether the inode is one of pipefs, made by pipe()
    i_pipe,           \* whether the inode has a pipe
    pipe,             \* its ring
    tmp_page,         \* whether it keeps a spare page
    readers, writers, waiting_writers, files,
    mutex,            \* the file whose caller holds pipe->mutex, or NULL
    asleep,           \* the files whose callers are on pipe->wait, not yet woken
    user_bufs,        \* user->pipe_bufs
    kind,             \* per file: its f_mode and f_flags
    current,          \* the files with a copy of r_counter or w_counter that is still equal to it
    call,             \* per file: the call in progress
    signalled,        \* the files whose callers have a signal pending
    stream            \* history: the bytes written and not yet read, in order

ringVars  == <<pipe, tmp_page, stream>>
countVars == <<readers, writers, files, current>>
inodeVars == <<is_pipe, i_pipe>>
vars == <<inodeVars, ringVars, countVars, waiting_writers, mutex, asleep, user_bufs,
          kind, call, signalled>>

\* left is what remains to be copied, or the buffers asked for; got whether ret is not 0, wake is
\* do_wakeup; seen is what the caller has read from the pipe or user_bufs, and
\* spare the buffers of a pipe that no inode points to, its own to free.
NoCall(at) == [pc |-> at, left |-> 0, got |-> FALSE, wake |-> FALSE, seen |-> 0, spare |-> 0]

pc(f) == call[f].pc
Step(f, from) == pc(f) = from
Goto(f, to) == call' = [call EXCEPT ![f].pc = to]

Opening == {"register", "account", "alloc", "check", "install", "discard"}
Registered == {"idle", "partner", "read", "rwait", "merge", "write", "wwait", "wakein", "wakeout",
               "poll", "polled", "setsize", "close"}

NoKind == [read |-> FALSE, write |-> FALSE, nonblock |-> FALSE, packet |-> FALSE]

Init ==
    /\ is_pipe \in Inodes /\ i_pipe = FALSE
    /\ pipe = EmptyRing(PIPE_DEF_BUFFERS) /\ tmp_page = FALSE
    /\ readers = 0 /\ writers = 0 /\ waiting_writers = 0 /\ files = 0
    /\ current = {}
    /\ mutex = NULL /\ asleep = {} /\ user_bufs = 0
    /\ kind = [f \in Files |-> NoKind]
    /\ call = [f \in Files |-> NoCall("closed")]
    /\ signalled = {} /\ stream = <<>>

-----------------------------------------------------------------------------
(* Sleeping, waking and returning *)

\* Whether a wake-up by g reaches f.  pipe_write wakes with POLLIN and pipe_read with
\* POLLOUT, all others without a key or with all of them; who polls has a filter
\* for what it asked for, here all that its mode can give, and others have none.
Wakes(g, f) ==
    pc(f) \in {"poll", "polled"} =>
        /\ pc(g) \in {"merge", "write", "wakein"} => kind[f].read
        /\ pc(g) \in {"read", "wakeout"} => kind[f].write

\* wake_up_interruptible: whom it reaches on pipe->wait runs again.
WakeUp(g) == {f \in asleep : ~Wakes(g, f)}

\* pipe_wait, with the wake-up of others that precedes it: onto pipe->wait and off
\* the mutex; schedule() returns at once to a caller with a signal.
pipe_wait(f, wake) ==
    /\ mutex' = NULL
    /\ asleep' = (IF wake THEN WakeUp(f) ELSE asleep) \cup (IF f \in signalled THEN {} ELSE {f})

\* The caller is woken and gets the mutex back.
Awake(f) == f \notin asleep /\ mutex = NULL

\* A call returns; a pending signal is taken on the way to user mode.
Return(f, at) ==
    /\ call' = [call EXCEPT ![f] = NoCall(at)]
    /\ signalled' = signalled \ {f}

\* The struct file goes.
Forget(f) == kind' = [kind EXCEPT ![f] = NoKind]

\* Mutated form: do_wakeup is only looked at before sleeping.
UnlockSilent(f, wake) ==
    /\ mutex' = NULL
    /\ Return(f, "idle")

\* __pipe_unlock at the end of pipe_read and pipe_write; do_wakeup comes after it.
Unlock(f, wake) ==
    /\ mutex' = NULL
    /\ IF wake
       THEN /\ call' = [call EXCEPT ![f] = [NoCall(IF pc(f) = "read" THEN "wakeout" ELSE "wakein")
                                              EXCEPT !.wake = TRUE]]
            /\ UNCHANGED signalled
       ELSE Return(f, "idle")

\* A caller can get a signal where it is going to look for one.
Signal(f) ==
    /\ pc(f) \in {"read", "rwait", "write", "wwait", "partner", "polled"}
    /\ f \notin signalled
    /\ signalled' = signalled \cup {f}
    /\ asleep' = asleep \ {f}
    /\ UNCHANGED <<inodeVars, ringVars, countVars, waiting_writers, mutex, user_bufs, kind, call>>

-----------------------------------------------------------------------------
(* The user's pages *)

too_many_pipe_buffers_soft(n) == pipe_user_pages_soft # 0 /\ n > pipe_user_pages_soft
too_many_pipe_buffers_hard(n) == pipe_user_pages_hard # 0 /\ n > pipe_user_pages_hard
is_unprivileged_user == ~CAP_SYS_RESOURCE /\ ~CAP_SYS_ADMIN

\* The number of buffers alloc_pipe_info starts with.
DefaultBuffers ==
    IF PIPE_DEF_BUFFERS > pipe_max_size /\ ~CAP_SYS_RESOURCE THEN pipe_max_size ELSE PIPE_DEF_BUFFERS

\* alloc_pipe_info charges the user first, if it has memory for the pipe,
AllocAccount(f) ==
    /\ Step(f, "account")
    /\ \/ /\ user_bufs' = user_bufs + DefaultBuffers
          /\ call' = [call EXCEPT ![f].pc = "alloc", ![f].seen = user_bufs + DefaultBuffers]
          /\ UNCHANGED <<kind, signalled>>
       \/ /\ Return(f, "closed") /\ Forget(f)
          /\ UNCHANGED user_bufs
    /\ UNCHANGED <<inodeVars, ringVars, countVars, waiting_writers, mutex, asleep>>

\* then looks whether that was too much: above the soft limit the pipe gets fewer
\* buffers, and the charge is corrected;
AllocCheck(f) ==
    LET less == too_many_pipe_buffers_soft(call[f].seen) /\ is_unprivileged_user
        n    == IF less THEN PIPE_MIN_DEF_BUFFERS ELSE DefaultBuffers
    IN
    /\ Step(f, "alloc")
    /\ user_bufs' = user_bufs - DefaultBuffers + n
    /\ call' = [call EXCEPT ![f].pc = "check", ![f].left = n,
                            ![f].seen = IF less THEN user_bufs - DefaultBuffers + n ELSE @]
    /\ UNCHANGED <<inodeVars, ringVars, countVars, waiting_writers, mutex, asleep, kind, signalled>>

\* above the hard one, or without memory, there is none and the charge is taken back.
AllocBuffers(f) ==
    /\ Step(f, "check")
    /\ \/ /\ ~(too_many_pipe_buffers_hard(call[f].seen) /\ is_unprivileged_user)
          /\ call' = [call EXCEPT ![f] = [NoCall("install") EXCEPT !.spare = call[f].left]]
          /\ UNCHANGED <<user_bufs, kind, signalled>>
       \/ /\ user_bufs' = user_bufs - call[f].left
          /\ Return(f, "closed") /\ Forget(f)
    /\ UNCHANGED <<inodeVars, ringVars, countVars, waiting_writers, mutex, asleep>>

\* Mutated form: the user stays charged.
FreePipeCharged(f) ==
    UNCHANGED <<inodeVars, ringVars, countVars, waiting_writers, mutex, asleep, user_bufs>>

\* free_pipe_info of a pipe that no inode points to any more, or never did.
FreePipe(f) ==
    /\ user_bufs' = user_bufs - call[f].spare
    /\ UNCHANGED <<inodeVars, ringVars, countVars, waiting_writers, mutex, asleep>>

\* The pipe alloc_pipe_info made becomes the inode's, with no byte in it.
NewPipe(n) ==
    /\ i_pipe' = TRUE
    /\ pipe' = EmptyRing(n) /\ tmp_page' = FALSE /\ stream' = <<>>
    /\ UNCHANGED <<is_pipe, current>>
-----------------------------------------------------------------------------
(* Opening *)

\* fifo_open: pin the pipe of the inode, or make one.  An anonymous pipe is
\* opened again through /proc, while someone has it open.
fifo_open(f, k) ==
    /\ Step(f, "closed") /\ (is_pipe => \E g \in Files : pc(g) = "idle")
    /\ kind' = [kind EXCEPT ![f] = k]
    /\ IF i_pipe THEN files' = files + 1 /\ Goto(f, "register")
                 ELSE Goto(f, "account") /\ UNCHANGED files
    /\ UNCHANGED <<inodeVars, ringVars, readers, writers, current, waiting_writers, mutex, asleep,
                   user_bufs, signalled>>

\* The new pipe goes to the inode, unless another opener was faster.
InstallPipe(f) ==
    /\ Step(f, "install") /\ ~is_pipe
    /\ IF i_pipe
       THEN /\ files' = files + 1 /\ Goto(f, "discard")
            /\ UNCHANGED <<inodeVars, ringVars, current>>
       ELSE /\ NewPipe(call[f].spare)
            /\ files' = 1
            /\ call' = [call EXCEPT ![f].pc = "register", ![f].spare = 0]
    /\ UNCHANGED <<readers, writers, waiting_writers, mutex, asleep, user_bufs, kind, signalled>>

DiscardPipe(f) ==
    /\ Step(f, "discard")
    /\ call' = [call EXCEPT ![f].pc = "register", ![f].spare = 0]
    /\ FreePipe(f)
    /\ UNCHANGED <<kind, signalled>>

\* r_counter and w_counter are incremented by every open, and compared with copies
\* of them: wait_for_partner's cur and, for w_counter, f_version.  A reader has
\* a copy of w_counter, a writer one of r_counter; what is modelled is which of
\* them are still equal (the 2^32 opens after which a counter is again what it was
\* are not).  A file without a copy, f_version = 0, is in no case equal.
CopiesOf(side) == {f \in current : IF side = "w_counter" THEN kind[f].read ELSE kind[f].write}

\* Register as reader, as writer: the first one wakes up the partners.
WaitForPartner(f, first) ==
    /\ Goto(f, "partner")
    /\ pipe_wait(f, first)

OpenRead(f) ==
    LET alone == ~is_pipe /\ writers = 0 IN
    /\ Step(f, "register") /\ mutex = NULL
    /\ kind[f].read /\ ~kind[f].write
    /\ readers' = readers + 1
    /\ current' = (current \ CopiesOf("r_counter")) \cup (IF alone THEN {f} ELSE {})
    /\ IF alone /\ ~kind[f].nonblock
       THEN WaitForPartner(f, readers = 0) /\ UNCHANGED signalled
       ELSE /\ Return(f, "idle")
            /\ asleep' = (IF readers = 0 THEN {} ELSE asleep) /\ UNCHANGED mutex
    /\ UNCHANGED <<inodeVars, ringVars, writers, files, waiting_writers, user_bufs, kind>>

OpenWrite(f) ==
    LET alone == ~is_pipe /\ readers = 0 IN
    /\ Step(f, "register") /\ mutex = NULL
    /\ kind[f].write /\ ~kind[f].read
    /\ ~(alone /\ kind[f].nonblock)
    /\ writers' = writers + 1
    /\ current' = (current \ CopiesOf("w_counter")) \cup (IF alone THEN {f} ELSE {})
    /\ IF alone
       THEN WaitForPartner(f, writers = 0) /\ UNCHANGED signalled
       ELSE /\ Return(f, "idle")
            /\ asleep' = (IF writers = 0 THEN {} ELSE asleep) /\ UNCHANGED mutex
    /\ UNCHANGED <<inodeVars, ringVars, readers, files, waiting_writers, user_bufs, kind>>

\* ENXIO: there is no reader to write to.
OpenRefused(f) ==
    /\ Step(f, "register") /\ mutex = NULL
    /\ kind[f].write /\ ~kind[f].read /\ ~is_pipe /\ kind[f].nonblock /\ readers = 0
    /\ Goto(f, "put") /\ Forget(f)
    /\ UNCHANGED <<inodeVars, ringVars, countVars, waiting_writers, mutex, asleep, user_bufs, signalled>>

OpenBoth(f) ==
    /\ Step(f, "register") /\ mutex = NULL
    /\ kind[f].read /\ kind[f].write
    /\ readers' = readers + 1 /\ writers' = writers + 1
    /\ current' = {}
    /\ asleep' = IF readers = 0 \/ writers = 0 THEN {} ELSE asleep
    /\ Return(f, "idle")
    /\ UNCHANGED <<inodeVars, ringVars, files, waiting_writers, mutex, user_bufs, kind>>

\* wait_for_partner after each wake-up: the partner came, a signal did, or neither.
PartnerCame(f) ==
    /\ Step(f, "partner") /\ Awake(f) /\ f \notin current
    /\ Return(f, "idle")
    /\ UNCHANGED <<inodeVars, ringVars, countVars, waiting_writers, mutex, asleep, user_bufs, kind>>

\* Mutated form: after a signal the file still counts as reader or writer.
NoPartnerStillCounted(f) ==
    /\ Step(f, "partner") /\ Awake(f) /\ f \in current
    /\ IF f \in signalled
       THEN Goto(f, "put") /\ Forget(f) /\ current' = current \ {f} /\ UNCHANGED <<asleep, mutex>>
       ELSE pipe_wait(f, FALSE) /\ UNCHANGED <<call, current, kind>>
    /\ UNCHANGED <<inodeVars, ringVars, readers, writers, files, waiting_writers, user_bufs, signalled>>

NoPartner(f) ==
    /\ Step(f, "partner") /\ Awake(f) /\ f \in current
    /\ IF f \in signalled
       THEN /\ Goto(f, "put") /\ Forget(f) /\ current' = current \ {f}
            /\ readers' = IF kind[f].read THEN readers - 1 ELSE readers
            /\ writers' = IF kind[f].read THEN writers ELSE writers - 1
            /\ asleep' = IF (IF kind[f].read THEN readers ELSE writers) = 1 THEN {} ELSE asleep
            /\ UNCHANGED mutex
       ELSE pipe_wait(f, FALSE) /\ UNCHANGED <<call, readers, writers, current, kind>>
    /\ UNCHANGED <<inodeVars, ringVars, files, waiting_writers, user_bufs, signalled>>

\* pipe, which tests the ban of SyscallBan first, and pipe2, which does not: the
\* pipe is made like the one of a FIFO,
sys_pipe(f, k) ==
    /\ is_pipe /\ ~i_pipe /\ Step(f, "closed") /\ \A g \in Files : pc(g) \in {"closed", "free"}
    /\ k.write /\ ~k.read
    /\ kind' = [kind EXCEPT ![f] = k]
    /\ Goto(f, "account")
    /\ UNCHANGED <<inodeVars, ringVars, countVars, waiting_writers, mutex, asleep, user_bufs, signalled>>

\* and gets its two files.  Without descriptors for them both are closed again.
CreatePipeFiles(f, g) ==
    /\ Step(f, "install") /\ is_pipe /\ Step(g, "closed")
    /\ NewPipe(call[f].spare)
    /\ files' = 2 /\ readers' = 1 /\ writers' = 1
    /\ kind' = [kind EXCEPT ![g] = [read |-> TRUE, write |-> FALSE,
                                    nonblock |-> kind[f].nonblock, packet |-> FALSE]]
    /\ \E at \in {"idle", "close"} :
          call' = [call EXCEPT ![f] = NoCall(at), ![g] = NoCall(at)]
    /\ UNCHANGED <<waiting_writers, mutex, asleep, user_bufs, signalled>>

\* No dentry or file for it: the pipe is freed.
CreateFailed(f) ==
    /\ Step(f, "install") /\ is_pipe
    /\ Return(f, "closed") /\ Forget(f)
    /\ FreePipe(f)
-----------------------------------------------------------------------------
(* Reading and writing *)

\* read(n) and write(n), n > 0, take the mutex first; with n = 0 they return at once.
Call(f, n, at) ==
    /\ Step(f, "idle") /\ mutex = NULL
    /\ mutex' = f
    /\ call' = [call EXCEPT ![f] = [NoCall(at) EXCEPT !.left = n]]
    /\ UNCHANGED <<inodeVars, ringVars, countVars, waiting_writers, asleep, user_bufs, kind, signalled>>

Read(f, n) == kind[f].read /\ Call(f, n, "read")
Write(f, n) == kind[f].write /\ Call(f, n, "merge")

\* Back from pipe_wait.
Resume(f, from, to) ==
    /\ Step(f, from) /\ Awake(f)
    /\ mutex' = f
    /\ call' = [call EXCEPT ![f].pc = to, ![f].seen = 0]
    /\ UNCHANGED <<inodeVars, ringVars, countVars, asleep, user_bufs, kind, signalled>>

ReadAwake(f) == Resume(f, "rwait", "read") /\ UNCHANGED waiting_writers
WriteAwake(f) == Resume(f, "wwait", "write") /\ waiting_writers' = waiting_writers - 1

\* Whether there is a spare page after a buffer was released: there was one, or the
\* page becomes it, unless it is shared: another pipe or file got it by splice or tee.
anon_pipe_buf_release(shared) == tmp_page \/ ~shared

\* pipe_read with a buffer in the ring: take what is asked for, and go on until
\* it is enough.  Looking for the next buffer and finding none is ReadEmpty.
ReadBuffer(f) ==
    LET buf   == pipe.bufs[pipe.curbuf]
        chars == Min({Len(buf.data), call[f].left})
        gone  == IF buf.packet THEN Len(buf.data) ELSE chars
        left  == IF buf.packet THEN 0 ELSE call[f].left - chars
        wake  == call[f].wake \/ Consumes(pipe, chars)
    IN
    /\ Step(f, "read") /\ pipe.nrbufs > 0
    /\ pipe' = Consume(pipe, chars)
    /\ \E shared \in BOOLEAN :
         tmp_page' = IF Consumes(pipe, chars) THEN anon_pipe_buf_release(shared) ELSE tmp_page
    /\ stream' = SubSeq(stream, gone + 1, Len(stream))
    /\ IF left = 0
       THEN Unlock(f, wake)
       ELSE /\ call' = [call EXCEPT ![f].left = left, ![f].got = TRUE, ![f].wake = wake]
            /\ UNCHANGED <<mutex, signalled>>
    /\ UNCHANGED <<inodeVars, countVars, waiting_writers, asleep, user_bufs, kind>>

\* The copy to or from user memory fails, or alloc_page does: the call ends with
\* what it has done so far.
Fails(f, wake) ==
    /\ Unlock(f, wake)
    /\ UNCHANGED <<inodeVars, pipe, stream, countVars, waiting_writers, asleep, user_bufs, kind>>

ReadFault(f) ==
    /\ Step(f, "read") /\ pipe.nrbufs > 0
    /\ Fails(f, call[f].wake) /\ UNCHANGED tmp_page

\* A reader of an empty pipe returns at the end of the stream; it does not sleep
\* once it has something, or with O_NONBLOCK, unless a writer sleeps in the kernel.
MustReturn(f) ==
    \/ writers = 0
    \/ waiting_writers = 0 /\ (call[f].got \/ kind[f].nonblock)
    \/ f \in signalled

ReadEmpty(f) ==
    /\ Step(f, "read") /\ pipe.nrbufs = 0
    /\ IF MustReturn(f)
       THEN Unlock(f, call[f].wake) /\ UNCHANGED asleep
       ELSE pipe_wait(f, call[f].wake) /\ Goto(f, "rwait") /\ UNCHANGED signalled
    /\ UNCHANGED <<inodeVars, ringVars, countVars, waiting_writers, user_bufs, kind>>

\* The next n bytes of a write.
NextBytes(f, n) == [i \in 1 .. n |-> call[f].left - i + 1]

\* The first part of pipe_write: merge what does not fill a page into the last buffer.
WriteMerge(f) ==
    LET chars == call[f].left % PAGE_SIZE IN
    /\ Step(f, "merge") /\ readers > 0
    /\ IF CanMerge(pipe, chars)
       THEN /\ pipe' = Merge(pipe, NextBytes(f, chars))
            /\ stream' = stream \o NextBytes(f, chars)
            /\ IF call[f].left = chars
               THEN Unlock(f, TRUE)
               ELSE /\ call' = [call EXCEPT ![f].pc = "write", ![f].left = @ - chars,
                                            ![f].got = TRUE, ![f].wake = TRUE]
                    /\ UNCHANGED <<mutex, signalled>>
       ELSE Goto(f, "write") /\ UNCHANGED <<pipe, stream, mutex, signalled>>
    /\ UNCHANGED <<inodeVars, tmp_page, countVars, waiting_writers, asleep, user_bufs, kind>>

MergeFault(f) ==
    /\ Step(f, "merge") /\ readers > 0 /\ CanMerge(pipe, call[f].left % PAGE_SIZE)
    /\ Fails(f, FALSE) /\ UNCHANGED tmp_page

\* EPIPE: no one will read this.
WriteBroken(f) ==
    /\ pc(f) \in {"merge", "write"} /\ readers = 0
    /\ mutex = f
    /\ Fails(f, call[f].wake) /\ UNCHANGED tmp_page

\* The loop of pipe_write with room in the ring: a page, full if there is enough.
WriteBuffer(f) ==
    LET copied == Min({PAGE_SIZE, call[f].left}) IN
    /\ Step(f, "write") /\ readers > 0 /\ ~Full(pipe)
    /\ pipe' = Insert(pipe, NextBytes(f, copied), kind[f].packet)
    /\ stream' = stream \o NextBytes(f, copied)
    /\ tmp_page' = FALSE
    /\ IF call[f].left = copied
       THEN Unlock(f, TRUE)
       ELSE /\ call' = [call EXCEPT ![f].left = @ - copied, ![f].got = TRUE, ![f].wake = TRUE]
            /\ UNCHANGED <<mutex, signalled>>
    /\ UNCHANGED <<inodeVars, countVars, waiting_writers, asleep, user_bufs, kind>>

\* There was no page, or the copy to it failed and it is kept.
WriteNoPage(f) ==
    /\ Step(f, "write") /\ readers > 0 /\ ~Full(pipe) /\ ~tmp_page
    /\ Fails(f, call[f].wake) /\ UNCHANGED tmp_page

\* Mutated form: a failed copy wakes nobody.
WriteFaultSilent(f) ==
    /\ Step(f, "write") /\ readers > 0 /\ ~Full(pipe)
    /\ tmp_page' = TRUE
    /\ Fails(f, call[f].wake)

WriteFault(f) ==
    /\ Step(f, "write") /\ readers > 0 /\ ~Full(pipe)
    /\ tmp_page' = TRUE
    /\ Fails(f, TRUE)

WriteFull(f) ==
    /\ Step(f, "write") /\ readers > 0 /\ Full(pipe)
    /\ IF kind[f].nonblock \/ f \in signalled
       THEN Unlock(f, call[f].wake) /\ UNCHANGED <<asleep, waiting_writers>>
       ELSE /\ pipe_wait(f, call[f].wake)
            /\ waiting_writers' = waiting_writers + 1
            /\ call' = [call EXCEPT ![f].pc = "wwait", ![f].wake = FALSE, ![f].seen = pipe.buffers]
            /\ UNCHANGED signalled
    /\ UNCHANGED <<inodeVars, ringVars, countVars, user_bufs, kind>>

\* do_wakeup, after the mutex is released.
WakeOthers(f) ==
    /\ pc(f) \in {"wakein", "wakeout"}
    /\ asleep' = WakeUp(f)
    /\ Return(f, "idle")
    /\ UNCHANGED <<inodeVars, ringVars, countVars, waiting_writers, mutex, user_bufs, kind>>

-----------------------------------------------------------------------------
(* Polling, resizing and closing *)

\* poll: onto pipe->wait first, then pipe_poll reads nrbufs, then the rest; the
\* caller sleeps until it is woken if there is nothing to report.
Poll(f) ==
    /\ Step(f, "idle") /\ Cardinality({g \in Files : pc(g) \in {"poll", "polled"}}) < MaxPolls
    /\ asleep' = asleep \cup {f}
    /\ Goto(f, "poll")
    /\ UNCHANGED <<inodeVars, ringVars, countVars, waiting_writers, mutex, user_bufs, kind, signalled>>

PollBuffers(f) ==
    /\ Step(f, "poll")
    /\ call' = [call EXCEPT ![f].pc = "polled", ![f].seen = pipe.nrbufs]
    /\ UNCHANGED <<inodeVars, ringVars, countVars, waiting_writers, mutex, asleep, user_bufs, kind, signalled>>

\* POLLIN, POLLHUP, POLLOUT or POLLERR, with n buffers in use.
Ready(f, n) ==
    \/ kind[f].read /\ (n > 0 \/ (writers = 0 /\ f \notin current))
    \/ kind[f].write /\ (n < pipe.buffers \/ readers = 0)

PollReports(f) ==
    /\ Step(f, "polled") /\ Ready(f, call[f].seen)
    /\ asleep' = asleep \ {f}
    /\ Return(f, "idle")
    /\ UNCHANGED <<inodeVars, ringVars, countVars, waiting_writers, mutex, user_bufs, kind>>

\* Woken with nothing found: a signal ends the call, a wake-up asks again.
PollAgain(f) ==
    /\ Step(f, "polled") /\ ~Ready(f, call[f].seen) /\ f \notin asleep
    /\ IF f \in signalled
       THEN Return(f, "idle") /\ UNCHANGED asleep
       ELSE Goto(f, "poll") /\ asleep' = asleep \cup {f} /\ UNCHANGED signalled
    /\ UNCHANGED <<inodeVars, ringVars, countVars, waiting_writers, mutex, user_bufs, kind>>

\* F_SETPIPE_SZ: charge the difference to the user, under the mutex,
pipe_set_size(f, arg) ==
    LET nr_pages == roundup_pow_of_two(arg) IN
    /\ Step(f, "idle") /\ mutex = NULL
    /\ ~(nr_pages > pipe.buffers /\ nr_pages > pipe_max_size /\ ~CAP_SYS_RESOURCE)
    /\ mutex' = f
    /\ user_bufs' = user_bufs - pipe.buffers + nr_pages
    /\ call' = [call EXCEPT ![f] = [NoCall("setsize") EXCEPT !.left = nr_pages,
                                      !.seen = user_bufs - pipe.buffers + nr_pages]]
    /\ UNCHANGED <<inodeVars, ringVars, countVars, waiting_writers, asleep, kind, signalled>>

\* then check the limits and move the buffers, or take the charge back: above a
\* limit, with too many buffers in use, or without memory.
SetSize(f) ==
    LET n == call[f].left
        over == /\ n > pipe.buffers /\ is_unprivileged_user
                /\ too_many_pipe_buffers_hard(call[f].seen) \/ too_many_pipe_buffers_soft(call[f].seen)
    IN
    /\ Step(f, "setsize")
    /\ \/ /\ ~over /\ n >= pipe.nrbufs
          /\ pipe' = Resize(pipe, n)
          /\ UNCHANGED user_bufs
       \/ /\ user_bufs' = user_bufs - n + pipe.buffers
          /\ UNCHANGED pipe
    /\ mutex' = NULL
    /\ Return(f, "idle")
    /\ UNCHANGED <<inodeVars, tmp_page, stream, countVars, waiting_writers, asleep, kind>>

\* Those who stay are woken: a reader may have come to the end of the stream, a
\* writer may have lost its last reader.
pipe_release(f) ==
    /\ pc(f) \in {"idle", "close"} /\ mutex = NULL
    /\ readers' = IF kind[f].read THEN readers - 1 ELSE readers
    /\ writers' = IF kind[f].write THEN writers - 1 ELSE writers
    /\ asleep' = IF readers' > 0 \/ writers' > 0 THEN {} ELSE asleep
    /\ Goto(f, "put") /\ Forget(f) /\ current' = current \ {f}
    /\ UNCHANGED <<inodeVars, ringVars, files, waiting_writers, mutex,
                   user_bufs, signalled>>

\* The last one takes the pipe from the inode, and frees it.
put_pipe_info(f) ==
    /\ Step(f, "put")
    /\ files' = files - 1
    /\ IF files = 1
       THEN /\ i_pipe' = FALSE
            /\ call' = [call EXCEPT ![f] = [NoCall("free") EXCEPT !.spare = pipe.buffers]]
            /\ pipe' = EmptyRing(PIPE_DEF_BUFFERS) /\ tmp_page' = FALSE
            /\ stream' = <<>>
            /\ UNCHANGED signalled
       ELSE Return(f, "closed") /\ UNCHANGED <<i_pipe, ringVars>>
    /\ UNCHANGED <<is_pipe, readers, writers, current, waiting_writers, mutex, asleep, user_bufs, kind>>

FreeLast(f) ==
    /\ Step(f, "free")
    /\ Return(f, "closed") /\ Forget(f)
    /\ FreePipe(f)
-----------------------------------------------------------------------------
Next == \E f \in Files :
    \/ \E k \in Kinds : fifo_open(f, k) \/ sys_pipe(f, k)
    \/ AllocAccount(f) \/ AllocCheck(f) \/ AllocBuffers(f) \/ InstallPipe(f) \/ DiscardPipe(f)
    \/ OpenRead(f) \/ OpenWrite(f) \/ OpenRefused(f) \/ OpenBoth(f)
    \/ PartnerCame(f) \/ NoPartner(f)
    \/ \E g \in Files : CreatePipeFiles(f, g)
    \/ CreateFailed(f)
    \/ \E n \in Lengths : Read(f, n) \/ Write(f, n)
    \/ ReadAwake(f) \/ ReadBuffer(f) \/ ReadFault(f) \/ ReadEmpty(f)
    \/ WriteMerge(f) \/ MergeFault(f) \/ WriteBroken(f) \/ WriteBuffer(f)
    \/ WriteNoPage(f) \/ WriteFault(f) \/ WriteFull(f) \/ WriteAwake(f)
    \/ WakeOthers(f)
    \/ Poll(f) \/ PollBuffers(f) \/ PollReports(f) \/ PollAgain(f)
    \/ \E arg \in PageCounts : pipe_set_size(f, arg)
    \/ SetSize(f)
    \/ pipe_release(f) \/ put_pipe_info(f) \/ FreeLast(f)
    \/ Signal(f)

Spec == Init /\ [][Next]_vars

-----------------------------------------------------------------------------
(* Properties *)

\* What is in the ring is what was written and not yet read, in order and within the
\* pages: across merges, wrap-arounds, packets and changes of size, for all readers
\* and writers.
InOrder ==
    /\ Content(pipe) = stream
    /\ \A i \in DOMAIN pipe.bufs : pipe.bufs[i].offset + Len(pipe.bufs[i].data) <= PAGE_SIZE

\* The counts are those of the files, whichever way opening and closing ended: a
\* pipe lives exactly as long as someone holds it.
CountsExact ==
    LET Users(pcs) == {f \in Files : pc(f) \in pcs} IN
    /\ readers = Cardinality({f \in Users(Registered) : kind[f].read})
    /\ writers = Cardinality({f \in Users(Registered) : kind[f].write})
    /\ waiting_writers = Cardinality(Users({"wwait"}))
    /\ files = Cardinality(Users(Registered \cup {"register", "discard", "put"}))
    /\ i_pipe = (files > 0)

\* The pages of the pipe of the inode and of those on the way to it or from it.
PipePages ==
    LET spare == [f \in Files |-> call[f].spare]
    IN (IF i_pipe THEN pipe.buffers ELSE 0) + MapThenSumSet(LAMBDA f : spare[f], Files)

\* The user is charged for the pages there are and for those that are asked for,
\* however calls that charge, check and take back overlap.
ChargesExact ==
    LET asked == [f \in Files |-> CASE pc(f) = "alloc" -> DefaultBuffers
                                    [] pc(f) \in {"check", "setsize"} -> call[f].left
                                    [] OTHER -> 0]
        kept == IF mutex # NULL /\ pc(mutex) = "setsize" THEN pipe.buffers ELSE 0
    IN user_bufs + kept = PipePages + MapThenSumSet(LAMBDA f : asked[f], Files)

\* Someone is about to wake up f.
WakePending(f) == \E g \in Files :
    /\ pc(g) \in {"wakein", "wakeout"} \/ (mutex = g /\ call[g].wake)
    /\ Wakes(g, f)

\* Nobody sleeps through what it waits for.  A pipe that is made larger is the
\* exception: pipe_set_size wakes no one, so what counts for a writer is that no
\* buffer was freed since it found the ring full.
NoLostWakeup == \A f \in asleep :
    \/ WakePending(f)
    \/ pc(f) = "rwait" /\ pipe.nrbufs = 0 /\ writers > 0
    \/ pc(f) = "wwait" /\ pipe.nrbufs >= call[f].seen /\ readers > 0
    \/ pc(f) = "partner" /\ f \in current
    \/ pc(f) = "poll"
    \/ pc(f) = "polled" /\ Ready(f, call[f].seen)
    \/ /\ pc(f) = "polled"
       /\ kind[f].read => pipe.nrbufs = 0 /\ (writers > 0 \/ f \in current)
       /\ kind[f].write => pipe.nrbufs >= call[f].seen /\ readers > 0

\* f sleeps although O_NONBLOCK is set or it has got some data, which it may only as
\* long as a writer is in the kernel, and none is that would wake it.
LockedUp(f) ==
    /\ f \in asleep /\ pc(f) = "rwait" /\ (kind[f].nonblock \/ call[f].got)
    /\ waiting_writers = 0 /\ ~WakePending(f)
    /\ ~(mutex # NULL /\ pc(mutex) = "write")

\* "Always wake up, even if the copy fails. Otherwise we lock up (O_NONBLOCK-)readers
\* that sleep due to syscall merging. FIXME! Is this really true?" (pipe_write): it
\* is.  Such a reader is locked up only in a pipe that has no page left, neither in
\* its ring nor as a spare (its last one was shared, and put): then a write that gets
\* none breaks out before do_wakeup is set.
NoReaderLockup == \A f \in Files : LockedUp(f) => pipe.nrbufs = 0 /\ ~tmp_page
=============================================================================
