--------------------------- MODULE BoundedService ---------------------------
(***************************************************************************)
(* What the server promises its clients: connections are served in the     *)
(* order in which they were accepted, each by one worker, and never more   *)
(* than MaxSize of them are in the server.  A connection is known by its   *)
(* descriptor, which the kernel may hand out again once it is closed.      *)
(***************************************************************************)
EXTENDS Naturals, Sequences, FiniteSets

CONSTANTS Workers, Fds, MaxSize, NoFd

VARIABLES
    line,    \* the accepted connections no worker has taken yet, in order
    serving  \* the connection each worker serves, or NoFd

vars == <<line, serving>>

Busy   == {w \in Workers : serving[w] # NoFd}
InLine == {line[i] : i \in 1 .. Len(line)}
Served == {serving[w] : w \in Busy}

Init == line = <<>> /\ serving = [w \in Workers |-> NoFd]

Accept(fd) ==
    /\ Len(line) + Cardinality(Busy) < MaxSize
    /\ fd \notin InLine \cup Served
    /\ line' = Append(line, fd)
    /\ UNCHANGED serving

Dispatch(w) ==
    /\ serving[w] = NoFd
    /\ line # <<>>
    /\ serving' = [serving EXCEPT ![w] = Head(line)]
    /\ line' = Tail(line)

Close(w) ==
    /\ serving[w] # NoFd
    /\ serving' = [serving EXCEPT ![w] = NoFd]
    /\ UNCHANGED line

Next ==
    \/ \E fd \in Fds : Accept(fd)
    \/ \E w \in Workers : Dispatch(w) \/ Close(w)

Spec == Init /\ [][Next]_vars
=============================================================================
