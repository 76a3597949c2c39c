------------------------------ MODULE SigPending ------------------------------
(***************************************************************************)
(* kernel/signal.c: struct sigpending, the set of pending signals with the *)
(* list of their sigqueue entries, and the functions that work on one of   *)
(* them.                                                                   *)
(*                                                                         *)
(* A signal is its number.  Of a siginfo the list keeps what the code      *)
(* decides on: the number, whether si_code is positive (sent by the kernel *)
(* or a fault), and SIGQUEUE_PREALLOC.  A function that frees entries      *)
(* returns, next to the new queue, how many it took off user->sigpending.  *)
(***************************************************************************)
EXTENDS Integers, Sequences, SequencesExt, FiniteSetsExt

SIGKILL == 9
SIGUSR1 == 10
SIGSEGV == 11
SIGCONT == 18
SIGSTOP == 19
SIGTSTP == 20
SIGRTMIN == 32

SIG_KERNEL_ONLY_MASK == {SIGKILL, SIGSTOP}
SIG_KERNEL_STOP_MASK == {SIGSTOP, SIGTSTP, 21, 22}
SIG_KERNEL_IGNORE_MASK == {SIGCONT, 17, 28, 23}
SYNCHRONOUS_MASK == {SIGSEGV, 7, 4, 5, 8, 31}

Sigqueue(sig, positive, prealloc) == [sig |-> sig, positive |-> positive, prealloc |-> prealloc]

EmptyPending == [signal |-> {}, list |-> <<>>]

\* __sigqueue_free: what it takes off user->sigpending, for one entry and for all
\* the entries of a list that have their signal in mask.
sigqueue_free1(q) == IF q.prealloc THEN 0 ELSE 1
Freed(list, mask) == Cardinality({i \in DOMAIN list : list[i].sig \in mask /\ ~list[i].prealloc})
FreeAll(list) == Cardinality({i \in DOMAIN list : ~list[i].prealloc})

has_pending_signals(signal, blocked) == signal \ blocked # {}

\* The synchronous signals first, then the lowest; 0 when all are blocked.
next_signal(p, mask) ==
    LET x == p.signal \ mask
    IN IF x = {} THEN 0
       ELSE Min(IF x \cap SYNCHRONOUS_MASK # {} THEN x \cap SYNCHRONOUS_MASK ELSE x)

\* Takes the first entry of sig, if there is one, off the list, and its bit off
\* the set when it was the last.  timer is resched_timer.
collect_signal(sig, p) ==
    LET i == SelectInSeq(p.list, LAMBDA q : q.sig = sig)
        more == i # 0 /\ SelectInSubSeq(p.list, i + 1, Len(p.list), LAMBDA q : q.sig = sig) # 0
    IN [pending |-> [signal |-> IF more THEN p.signal ELSE p.signal \ {sig},
                     list |-> IF i = 0 THEN p.list ELSE RemoveAt(p.list, i)],
        freed |-> IF i = 0 THEN 0 ELSE sigqueue_free1(p.list[i]),
        timer |-> i # 0 /\ p.list[i].prealloc]

\* The place of the first entry of an unblocked synchronous signal that the
\* kernel sent, or 0.
SynchronousEntry(p, blocked) ==
    IF (p.signal \ blocked) \cap SYNCHRONOUS_MASK = {} THEN 0
    ELSE SelectInSeq(p.list, LAMBDA q : q.positive /\ q.sig \in SYNCHRONOUS_MASK)

\* It looks for another entry of the signal behind the one it takes.
dequeue_synchronous_signal(p, blocked) ==
    LET i == SynchronousEntry(p, blocked)
        sig == p.list[i].sig
        more == SelectInSubSeq(p.list, i + 1, Len(p.list), LAMBDA q : q.sig = sig) # 0
    IN [pending |-> [signal |-> IF more THEN p.signal ELSE p.signal \ {sig}, list |-> RemoveAt(p.list, i)],
        freed |-> sigqueue_free1(p.list[i]), sig |-> sig, last |-> ~more]

\* The loop over the list, entry by entry.
Without(list, mask) ==
    LET kept[i \in 0 .. Len(list)] ==
            IF i = 0 THEN <<>>
            ELSE IF list[i].sig \in mask THEN kept[i - 1] ELSE Append(kept[i - 1], list[i])
    IN kept[Len(list)]

flush_sigqueue_mask(mask, p) ==
    IF mask \cap p.signal = {} THEN [pending |-> p, freed |-> 0]
    ELSE [pending |-> [signal |-> p.signal \ mask, list |-> Without(p.list, mask)],
          freed |-> Freed(p.list, mask)]

\* flush_sigqueue, when the queue goes away with its task.
flush_sigqueue(p) == [pending |-> EmptyPending, freed |-> FreeAll(p.list)]

\* A legacy signal is queued once.
legacy_queue(p, sig) == sig < SIGRTMIN /\ sig \in p.signal

Enqueue(p, q) == [signal |-> p.signal \cup {q.sig}, list |-> Append(p.list, q)]
SetOnly(p, sig) == [p EXCEPT !.signal = @ \cup {sig}]

\* The entry of the POSIX timer, wherever it is queued, loses SIGQUEUE_PREALLOC.
Disown(p) == [p EXCEPT !.list = [i \in DOMAIN @ |-> [@[i] EXCEPT !.prealloc = FALSE]]]
===============================================================================
