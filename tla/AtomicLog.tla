----------------------------- MODULE AtomicLog ------------------------------
(***************************************************************************)
(* What log.h promises the worker threads: a log to which a call of        *)
(* add_to_log adds one entry, and of which a call of get_log returns the   *)
(* whole text, each at a single instant between its call and its return.   *)
(* Nothing is said of locks, buffers or capacities.                        *)
(***************************************************************************)
EXTENDS Naturals, Sequences

CONSTANTS Threads, EntryLens

VARIABLES
    log,    \* the entries, each with the byte offset its text starts at
    size,   \* the length of the text of all of them
    phase,  \* per thread: "out", "get", "add", or "done" once it took effect
    want,   \* the length of the text a thread is adding
    reply   \* what a call of get_log is about to return

vars == <<log, size, phase, want, reply>>

NoReply == [text |-> <<>>, len |-> 0]

Init ==
    /\ log = <<>> /\ size = 0
    /\ phase = [t \in Threads |-> "out"]
    /\ want  = [t \in Threads |-> 0]
    /\ reply = [t \in Threads |-> NoReply]

CallGet(t) ==
    /\ phase[t] = "out"
    /\ phase' = [phase EXCEPT ![t] = "get"]
    /\ UNCHANGED <<log, size, want, reply>>

CallAdd(t, l) ==
    /\ phase[t] = "out"
    /\ phase' = [phase EXCEPT ![t] = "add"]
    /\ want' = [want EXCEPT ![t] = l]
    /\ UNCHANGED <<log, size, reply>>

Get(t) ==
    /\ phase[t] = "get"
    /\ phase' = [phase EXCEPT ![t] = "done"]
    /\ reply' = [reply EXCEPT ![t] = [text |-> log, len |-> size]]
    /\ UNCHANGED <<log, size, want>>

Add(t) ==
    /\ phase[t] = "add"
    /\ phase' = [phase EXCEPT ![t] = "done"]
    /\ log' = Append(log, [by |-> t, at |-> size, len |-> want[t]])
    /\ size' = size + want[t]
    /\ UNCHANGED <<want, reply>>

Return(t) ==
    /\ phase[t] = "done"
    /\ phase' = [phase EXCEPT ![t] = "out"]
    /\ want'  = [want EXCEPT ![t] = 0]
    /\ reply' = [reply EXCEPT ![t] = NoReply]
    /\ UNCHANGED <<log, size>>

Next == \E t \in Threads :
    \/ CallGet(t) \/ Get(t) \/ Add(t) \/ Return(t)
    \/ \E l \in EntryLens : CallAdd(t, l)

Spec == Init /\ [][Next]_vars
=============================================================================
