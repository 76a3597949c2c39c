------------------------------ MODULE Request ------------------------------
(***************************************************************************)
(* request.c with the buffered input of segel.c: what a worker does with   *)
(* one connection, the CGI programs it forks (output.c is one) and the     *)
(* clients (client.c is one).                                              *)
(*                                                                         *)
(* A request is known by its connection; the same name stands for its pipe *)
(* and its CGI program.  fork copies every descriptor the server has open, *)
(* those of the other workers included, and none is closed by execve: open *)
(* says who holds what.                                                    *)
(*                                                                         *)
(* A byte of a request is "\r", "\n" or "c".  The counters of the thread   *)
(* and the texts of the answers are left out: nothing here depends on      *)
(* them.  add_to_log and get_log return (ServerLog).  Once the server has  *)
(* exited nothing is modelled.                                             *)
(***************************************************************************)
EXTENDS Integers, Sequences, FiniteSets, FiniteSetsExt

CONSTANTS
    Requests,
    Server,          \* the server process; its children have the names of the requests
    Workers,         \* the number of worker threads
    Inputs,          \* per connection: the requests its client may send, with the blank line
    Outputs,         \* how much a CGI program may write
    MAXLINE, RIO_BUFSIZE, MAXBUF,
    PipeSize         \* the bytes a pipe holds

ASSUME RequestConstants ==
    /\ Server \notin Requests
    /\ Workers \in Nat \ {0} /\ PipeSize \in Nat \ {0}
    /\ MAXLINE \in Nat /\ MAXLINE > 2    \* a blank line fits into buf
    /\ {RIO_BUFSIZE, MAXBUF} \subseteq Nat \ {0}
    /\ \A c \in Requests : \A s \in Inputs[c] : s \in Seq({"\r", "\n", "c"})
    /\ Outputs \subseteq Nat

VARIABLES
    up,       \* the server runs
    pc,       \* per request: where its handler is
    net,      \* per request: what was sent, and how far it has come
    gone,     \* the requests whose clients have left
    open,     \* per process: its descriptors
    child,    \* per request: its CGI program
    pipe,     \* per request: the bytes in its pipe
    total_read

vars == <<up, pc, net, gone, open, child, pipe, total_read>>

\* sent has come as far as arrived, rio_buf was filled up to filled and read up to
\* used; the line being read begins after start.
NoInput == [sent |-> <<>>, arrived |-> 0, filled |-> 0, used |-> 0, start |-> 0]

\* A program: its state, all it writes and what it has still to write.
NoChild == [is |-> "none", output |-> 0, left |-> 0]

conn(c) == <<"conn", c>>
p0(c) == <<"read", c>>
p1(c) == <<"write", c>>

Processes == Requests \cup {Server}

Init ==
    /\ up = TRUE
    /\ pc = [c \in Requests |-> "none"]
    /\ net = [c \in Requests |-> NoInput]
    /\ gone = {}
    /\ open = [p \in Processes |-> {}]
    /\ child = [c \in Requests |-> NoChild]
    /\ pipe = [c \in Requests |-> 0]
    /\ total_read = [c \in Requests |-> 0]

At(c, label) == up /\ pc[c] = label
Goto(c, label) == pc' = [pc EXCEPT ![c] = label]

Opens(p, ds) == open' = [open EXCEPT ![p] = @ \cup ds]
Closes(p, ds) == open' = [open EXCEPT ![p] = @ \ ds]
Held(d) == \E p \in Processes : d \in open[p]

\* unix_error, and SIGPIPE, which nobody handles: the whole server ends, and what
\* becomes of its programs and connections is not followed.
unix_error ==
    /\ up' = FALSE /\ gone' = {}
    /\ pc' = [c \in Requests |-> "none"] /\ net' = [c \in Requests |-> NoInput]
    /\ open' = [p \in Processes |-> {}] /\ child' = [c \in Requests |-> NoChild]
    /\ pipe' = [c \in Requests |-> 0] /\ total_read' = pipe'

Handling(c) == pc[c] \notin {"none", "closed"}

-----------------------------------------------------------------------------
(* Clients *)

\* A client connects, and the connection comes to a worker (ThreadPool).
Connect(c) ==
    /\ At(c, "none") /\ Cardinality({d \in Requests : Handling(d)}) < Workers
    /\ Goto(c, "line")
    /\ \E s \in Inputs[c] : net' = [net EXCEPT ![c] = [NoInput EXCEPT !.sent = s]]
    /\ Opens(Server, {conn(c)})
    /\ UNCHANGED <<up, gone, child, pipe, total_read>>

\* clientSend; the network delivers it in pieces.
Arrive(c) ==
    /\ up /\ c \notin gone
    /\ \E n \in net[c].arrived + 1 .. Len(net[c].sent) : net' = [net EXCEPT ![c].arrived = n]
    /\ UNCHANGED <<up, pc, gone, open, child, pipe, total_read>>

\* A client goes away before it has its answer, or before it has sent its request.
Leave(c) ==
    /\ up /\ Handling(c) /\ c \notin gone
    /\ gone' = gone \cup {c}
    /\ UNCHANGED <<up, pc, net, open, child, pipe, total_read>>

\* clientPrint reads until the end of file, which comes when nobody has the
\* connection open any more.
ClientDone(c) ==
    /\ At(c, "closed") /\ ~Held(conn(c))
    /\ Goto(c, "none")
    /\ gone' = gone \ {c}
    /\ UNCHANGED <<up, net, open, child, pipe, total_read>>

-----------------------------------------------------------------------------
(* Reading the request *)

Reading(c) == up /\ pc[c] \in {"line", "header1", "header"}

\* rio_read with an empty buffer: read() fills it with what has arrived.
rio_read(c) ==
    LET r == net[c] IN
    /\ Reading(c) /\ r.used = r.filled /\ r.arrived > r.filled
    /\ net' = [net EXCEPT ![c].filled = Min({r.arrived, r.filled + RIO_BUFSIZE})]
    /\ UNCHANGED <<up, pc, gone, open, child, pipe, total_read>>

\* The buffer and the socket are empty, and the client is gone.
EndOfFile(r, c) == r.used = r.arrived /\ c \in gone

\* What rio_readlineb takes from the buffer: up to the end of the line, but no more
\* than MAXLINE - 1 bytes of it.
Take(r) == [r EXCEPT !.used = Min({r.filled, r.start + MAXLINE - 1}
                                    \cup {i \in r.used + 1 .. r.filled : r.sent[i] = "\n"})]

\* rio_readlineb has the line: it ended, there is no room for more of it, or what
\* there is of it is followed by the end of the file.
IsLine(r, c) ==
    /\ r.used > r.start
    /\ \/ r.sent[r.used] = "\n"
       \/ r.used = r.start + MAXLINE - 1
       \/ EndOfFile(r, c)

\* The buffer is used up before the line ends.
PartOfLine(c) ==
    /\ Reading(c) /\ net[c].used < net[c].filled /\ ~IsLine(Take(net[c]), c)
    /\ net' = [net EXCEPT ![c] = Take(@)]
    /\ UNCHANGED <<up, pc, gone, open, child, pipe, total_read>>

\* A read error, other than EINTR, ends the server.  A connection that was merely closed
\* gives none: read returns 0, as often as it is called.
ReadError(c) == Reading(c) /\ c \in gone /\ unix_error

\* Mutated form: the next line begins where the buffer ends.
NextLineAfterBuffer(r) == [r EXCEPT !.start = r.filled, !.used = r.filled]

\* The next call of rio_readlineb begins where this one ended.
NextLine(r) == [r EXCEPT !.start = r.used]

\* The first line, or whatever is in buf if there is none, names a method and a
\* file; what they are is left open.
RequestLine(c) ==
    LET r == Take(net[c]) IN
    /\ At(c, "line") /\ (IsLine(r, c) \/ EndOfFile(r, c))
    /\ \/ Goto(c, "header1") /\ net' = [net EXCEPT ![c] = NextLine(r)]             \* GET
       \/ \E to \in {"log", "reply"} :                                            \* POST, 501
             Goto(c, to) /\ net' = [net EXCEPT ![c] = NoInput]
    /\ UNCHANGED <<up, gone, open, child, pipe, total_read>>

\* requestReadhdrs reads lines up to a blank one.
requestReadhdrs(c) ==
    LET r == Take(net[c])
        blank == SubSeq(r.sent, r.start + 1, r.used) = <<"\r", "\n">>
    IN
    /\ up /\ pc[c] \in {"header1", "header"} /\ IsLine(r, c)
    /\ Goto(c, IF blank THEN "lookup" ELSE "header")
    /\ net' = [net EXCEPT ![c] = NextLine(r)]
    /\ UNCHANGED <<up, gone, open, child, pipe, total_read>>

\* No line at all: the 0 that is returned is not looked at.  In the first turn buf
\* has no value yet, and may be a blank line; then it stays what it was, and the
\* loop goes on without end.
NoHeader(c) ==
    /\ At(c, "header1") /\ net[c].used = net[c].start /\ EndOfFile(net[c], c)
    /\ Goto(c, "lookup") \/ Goto(c, "header")
    /\ UNCHANGED <<up, net, gone, open, child, pipe, total_read>>

-----------------------------------------------------------------------------
(* Preparing the answer *)

\* What requestParseURI makes of a name: a file, or a CGI program with its arguments.
requestParseURI == {"static", "dynamic"}

\* The name is looked up with stat: it is what it should be, or the answer is 404 or 403.
Lookup(c) ==
    /\ At(c, "lookup")
    /\ \E to \in requestParseURI \cup {"reply"} : Goto(c, to)
    /\ net' = [net EXCEPT ![c] = NoInput]
    /\ UNCHANGED <<up, gone, open, child, pipe, total_read>>

\* The file is read, unless it has vanished since stat.
requestPrepareStatic(c) ==
    /\ At(c, "static")
    /\ \/ Goto(c, "log") /\ UNCHANGED <<up, net, gone, open, child, pipe, total_read>>
       \/ unix_error

\* requestPrepareDynamic: pipe(), or no answer but the header,
MakePipe(c) ==
    /\ At(c, "dynamic")
    /\ \/ Opens(Server, {p0(c), p1(c)}) /\ Goto(c, "fork")
       \/ Goto(c, "log") /\ UNCHANGED open
    /\ UNCHANGED <<up, net, gone, child, pipe, total_read>>

\* Fork(),
Fork(c) ==
    /\ At(c, "fork")
    /\ \/ /\ Goto(c, "parent")
          /\ child' = [child EXCEPT ![c].is = "forked"]
          /\ open' = [open EXCEPT ![c] = open[Server]]
          /\ UNCHANGED <<up, net, gone, pipe, total_read>>
       \/ unix_error

\* and the server lets go of the end that the program writes to.
Parent(c) ==
    /\ At(c, "parent")
    /\ Closes(Server, {p1(c)})
    /\ Goto(c, "read")
    /\ UNCHANGED <<up, net, gone, child, pipe, total_read>>

\* The child closes the other end and becomes the program, or ends without output.
Exit(c) ==
    /\ child' = [child EXCEPT ![c].is = "zombie"]
    /\ open' = [open EXCEPT ![c] = {}]

Child(c) ==
    /\ up /\ child[c].is = "forked"
    /\ \/ \E n \in Outputs :
             /\ child' = [child EXCEPT ![c] = [is |-> "runs", output |-> n, left |-> n]]
             /\ Closes(c, {p0(c)})
       \/ Exit(c)
    /\ UNCHANGED <<up, pc, net, gone, pipe, total_read>>

\* The program writes while the pipe has room, and ends.
CgiWrite(c) ==
    /\ up /\ child[c].is = "runs" /\ child[c].left > 0 /\ pipe[c] < PipeSize
    /\ child' = [child EXCEPT ![c].left = @ - 1]
    /\ pipe' = [pipe EXCEPT ![c] = @ + 1]
    /\ UNCHANGED <<up, pc, net, gone, open, total_read>>

CgiExit(c) ==
    /\ up /\ child[c].is = "runs" /\ child[c].left = 0
    /\ Exit(c)
    /\ UNCHANGED <<up, pc, net, gone, pipe, total_read>>

\* Rio_readn, as long as there is room in body,
ReadPipe(c) ==
    LET n == Min({pipe[c], MAXBUF - total_read[c]}) IN
    /\ At(c, "read") /\ n > 0
    /\ total_read' = [total_read EXCEPT ![c] = @ + n]
    /\ pipe' = [pipe EXCEPT ![c] = @ - n]
    /\ UNCHANGED <<up, pc, net, gone, open, child>>

\* Mutated form: what one read returns is all there is.
ShortRead(c) == total_read[c] > 0 \/ ~Held(p1(c))

\* Mutated form: the end of the file is not looked at.
FullBodyOnly(c) == total_read[c] = MAXBUF

\* The loop ends: body is full, or no one can write to the pipe any more.
NothingToRead(c) == total_read[c] = MAXBUF \/ (pipe[c] = 0 /\ ~Held(p1(c)))

EndOfBody(c) ==
    /\ At(c, "read") /\ NothingToRead(c)
    /\ Goto(c, "wait")
    /\ UNCHANGED <<up, net, gone, open, child, pipe, total_read>>

\* WaitPid, and Close of the read end.
Reap(c) ==
    /\ At(c, "wait") /\ child[c].is = "zombie"
    /\ child' = [child EXCEPT ![c].is = "none"]
    /\ Closes(Server, {p0(c)})
    /\ pipe' = [pipe EXCEPT ![c] = 0]
    /\ Goto(c, "log")
    /\ UNCHANGED <<up, net, gone, total_read>>

-----------------------------------------------------------------------------
(* Answering *)

\* add_to_log for GET, get_log for POST.
Log(c) ==
    /\ At(c, "log")
    /\ Goto(c, "reply")
    /\ UNCHANGED <<up, net, gone, open, child, pipe, total_read>>

\* Rio_writen of the header, then of the body; a client that is gone may be noticed.
Write(c, from, to) ==
    /\ At(c, from)
    /\ \/ Goto(c, to) /\ UNCHANGED <<up, net, gone, open, child, pipe, total_read>>
       \/ c \in gone /\ unix_error

SendHeader(c) == Write(c, "reply", "body")
SendBody(c) == Write(c, "body", "done")

\* The worker closes the connection.
CloseConnection(c) ==
    /\ At(c, "done")
    /\ Closes(Server, {conn(c)})
    /\ child' = [child EXCEPT ![c] = NoChild]
    /\ total_read' = [total_read EXCEPT ![c] = 0]
    /\ Goto(c, "closed")
    /\ UNCHANGED <<up, net, gone, pipe>>

-----------------------------------------------------------------------------
requestHandle(c) ==
    \/ rio_read(c) \/ PartOfLine(c) \/ RequestLine(c)
    \/ requestReadhdrs(c) \/ NoHeader(c)
    \/ Lookup(c) \/ requestPrepareStatic(c)
    \/ MakePipe(c) \/ Fork(c) \/ Parent(c) \/ ReadPipe(c) \/ EndOfBody(c) \/ Reap(c)
    \/ Log(c) \/ SendHeader(c) \/ SendBody(c) \/ CloseConnection(c)

Program(c) == Child(c) \/ CgiWrite(c) \/ CgiExit(c)

Next == \E c \in Requests :
    \/ Connect(c) \/ Arrive(c) \/ Leave(c) \/ ClientDone(c)
    \/ requestHandle(c) \/ ReadError(c)
    \/ Program(c)

\* Workers and programs run, and a client that does not leave sends its request.
\* Nothing makes an error happen.
Fairness == \A c \in Requests :
    /\ WF_vars(requestHandle(c)) /\ WF_vars(Program(c))
    /\ WF_vars(Arrive(c) \/ ClientDone(c))

Spec == Init /\ [][Next]_vars /\ Fairness

-----------------------------------------------------------------------------
(* Properties *)

\* Where the line of byte i begins in s, and the ends of its blank lines.
LineStart(s, i) == Max({0} \cup {j \in 1 .. i - 1 : s[j] = "\n"})
BlankLines(s) == {i \in 3 .. Len(s) : s[i - 2] = "\n" /\ s[i - 1] = "\r" /\ s[i] = "\n"}

\* The ends of the lines that fill buf, once or several times, up to their line end:
\* rio_readlineb returns that line end alone, and it looks like a blank line.
CutLines(s) == {i \in 3 .. Len(s) :
    /\ s[i - 2] # "\n" /\ s[i - 1] = "\r" /\ s[i] = "\n"
    /\ (i - 2 - LineStart(s, i)) % (MAXLINE - 1) = 0}

\* n is the first place of s where requestReadhdrs may stop.
EndsHeader(s, n) ==
    LET ends == BlankLines(s) \cup CutLines(s) IN n \in ends /\ \A i \in ends : n <= i

\* However the network cuts a request into pieces, requestReadhdrs stops exactly
\* behind its first blank line, never later, and earlier only for a line whose length
\* is such that buf cuts off its line end: rio_buf neither loses nor repeats a byte.
HeaderExact == \A c \in Requests :
    pc[c] = "lookup" /\ c \notin gone => EndsHeader(net[c].sent, net[c].used)

\* The body of a dynamic answer is the output of the request's own program, cut off
\* at MAXBUF: requestPrepareDynamic stops at the end of the file, and there is none
\* before the program has written everything, although other workers fork with the
\* write end open.
BodyComplete == \A c \in Requests :
    pc[c] \in {"wait", "log", "reply", "body", "done"} =>
        total_read[c] = Min({MAXBUF, child[c].output})

\* A program that writes more than its pipe and body hold, and has the descriptor d.
BlockedWith(d) == \E c \in Requests :
    child[c].is = "runs" /\ child[c].output > MAXBUF + PipeSize /\ d \in open[c]

\* Every request ends, with its answer or because its client has left, and the
\* connection is closed for good, unless an error ends the server, and with it all
\* requests.  There are two more exceptions.  requestReadhdrs does not notice the end of
\* the file, and reads for ever.  And WaitPid comes before the pipe is empty: a program
\* that writes too much blocks its own request, every request whose write end it got by
\* fork, and every client whose connection it got.
RequestsEnd == \A c \in Requests :
    up /\ pc[c] # "none" ~> \/ ~up
                            \/ pc[c] = "none"
                            \/ pc[c] = "header" /\ EndOfFile(net[c], c)
                            \/ Handling(c) /\ BlockedWith(p1(c))
                            \/ pc[c] = "closed" /\ BlockedWith(conn(c))
=============================================================================
