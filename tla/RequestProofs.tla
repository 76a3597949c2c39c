--------------------------- MODULE RequestProofs ----------------------------
(***************************************************************************)
(* What a worker reads, for any number of requests, any size of the        *)
(* buffers and any way the network cuts its input: the header ends at its  *)
(* blank line, and the body of a dynamic answer is the output of the       *)
(* request's own program.                                                  *)
(***************************************************************************)
EXTENDS Request, FiniteSums, SequenceTheorems, TLAPS

Waiting == {"parent", "read", "wait"}
Before == {"none", "line", "header1", "header", "lookup", "static", "dynamic", "fork", "closed"}
After == {"log", "reply", "body", "done"}
Pcs == Waiting \cup Before \cup After

Descriptors == {"conn", "read", "write"} \X Requests
ChildRecord == [is : {"none", "forked", "runs", "zombie"}, output : Nat, left : Nat]

BodyTypes ==
    /\ pc \in [Requests -> Pcs]
    /\ open \in [Processes -> SUBSET Descriptors]
    /\ child \in [Requests -> ChildRecord]
    /\ pipe \in [Requests -> Nat] /\ total_read \in [Requests -> Nat]

\* The bytes of a program are still to be written, in the pipe or read, and a program
\* that is to write holds the end it writes to: it got it by the fork from the server,
\* which has it open from pipe() on.
BodyOK(c) ==
    /\ pc[c] = "fork" => p1(c) \in open[Server]
    /\ pc[c] \in Before => child[c] = NoChild /\ total_read[c] = 0
    /\ pc[c] \notin Waiting => child[c].is = "none" /\ pipe[c] = 0
    /\ pc[c] \in Waiting =>
         /\ child[c].is # "none"
         /\ child[c].output = child[c].left + pipe[c] + total_read[c] /\ total_read[c] <= MAXBUF
         /\ child[c].is = "forked" => child[c].output = 0 /\ pc[c] # "wait"
         /\ child[c].is # "zombie" => p1(c) \in open[c]
         /\ child[c].is = "zombie" => child[c].left = 0
    /\ pc[c] \in After \cup {"wait"} => total_read[c] = Min({MAXBUF, child[c].output})

BodyInv == BodyTypes /\ \A c \in Requests : BodyOK(c)

LEMMA MinOfTwo ==
    ASSUME NEW a \in Nat, NEW b \in Nat
    PROVE  /\ Min({a, b}) \in Nat /\ Min({a, b}) <= a /\ Min({a, b}) <= b
           /\ a <= b => Min({a, b}) = a
           /\ b <= a => Min({a, b}) = b
<1>1. \E x \in {a, b} : \A y \in {a, b} : x <= y
  <2>1. CASE a <= b
    BY <2>1
  <2>2. CASE b <= a
    BY <2>2
  <2> QED
    BY <2>1, <2>2
<1>2. Min({a, b}) \in {a, b} /\ \A y \in {a, b} : Min({a, b}) <= y
  BY <1>1 DEF Min
<1> QED
  BY <1>2

\* n bytes that are moved from one place to another.
LEMMA Moved ==
    ASSUME NEW o \in Nat, NEW l \in Nat, NEW p \in Nat, NEW t \in Nat, NEW n \in Nat, NEW b \in Nat,
           o = l + p + t, n <= b - t
    PROVE  o = l + (p - n) + (t + n) /\ t + n <= b
OBVIOUS

LEMMA Names ==
    /\ Server \in Processes /\ Server \notin Requests /\ Requests \subseteq Processes
    /\ \A c \in Requests : {conn(c), p0(c), p1(c)} \subseteq Descriptors
    /\ \A c, d \in Requests : p1(c) # conn(d) /\ p1(c) # p0(d) /\ (p1(c) = p1(d) => c = d)
BY RequestConstants DEF Processes, Descriptors, conn, p0, p1

LEMMA NoChildType == NoChild \in ChildRecord /\ NoChild.is = "none" /\ NoChild.output = 0 /\ NoChild.left = 0
BY DEF NoChild, ChildRecord

-----------------------------------------------------------------------------
(* The body of an answer *)

\* Nothing is left of a request, as at the start and after unix_error.
LEMMA BodyReset ==
    ASSUME pc = [c \in Requests |-> "none"], open = [p \in Processes |-> {}],
           child = [c \in Requests |-> NoChild], pipe = [c \in Requests |-> 0],
           total_read = [c \in Requests |-> 0]
    PROVE  BodyInv
<1>1. BodyTypes
  BY NoChildType DEF BodyTypes, Pcs, Before
<1>2. ASSUME NEW c \in Requests
      PROVE  BodyOK(c)
  BY NoChildType DEF BodyOK, Waiting, After
<1> QED
  BY <1>1, <1>2 DEF BodyInv

LEMMA BodyError ==
    ASSUME unix_error
    PROVE  BodyInv'
<1>1. /\ pc' = [c \in Requests |-> "none"] /\ open' = [p \in Processes |-> {}]
      /\ child' = [c \in Requests |-> NoChild] /\ pipe' = [c \in Requests |-> 0]
      /\ total_read' = [c \in Requests |-> 0]
  BY DEF unix_error
<1>2. BodyTypes'
  BY <1>1, NoChildType DEF BodyTypes, Pcs, Before
<1>3. ASSUME NEW c \in Requests
      PROVE  BodyOK(c)'
  BY <1>1, NoChildType DEF BodyOK, Waiting, After
<1> QED
  BY <1>2, <1>3 DEF BodyInv

\* What a step of c leaves to the other requests.
Others(c) == \A d \in Requests \ {c} :
    /\ pc'[d] = pc[d] /\ child'[d] = child[d] /\ pipe'[d] = pipe[d] /\ total_read'[d] = total_read[d]
    /\ open'[d] = open[d] /\ (p1(d) \in open[Server] => p1(d) \in open'[Server])

LEMMA BodyStep ==
    ASSUME BodyInv, NEW c \in Requests, Others(c), BodyTypes', BodyOK(c)'
    PROVE  BodyInv'
<1>1. ASSUME NEW d \in Requests \ {c}
      PROVE  BodyOK(d)'
  <2>1. BodyOK(d)
    BY DEF BodyInv
  <2>2. /\ pc'[d] = pc[d] /\ child'[d] = child[d] /\ pipe'[d] = pipe[d] /\ total_read'[d] = total_read[d]
        /\ open'[d] = open[d] /\ (p1(d) \in open[Server] => p1(d) \in open'[Server])
    BY DEF Others
  <2>3. p1(d)' = p1(d)
    BY DEF p1
  <2> QED
    BY <2>1, <2>2 DEF BodyOK
<1> QED
  BY <1>1 DEF BodyInv

\* The handler of c goes on, and this is all.
LEMMA BodyGoto ==
    ASSUME BodyInv, NEW c \in Requests, NEW to \in Pcs, Goto(c, to), UNCHANGED <<open, child, pipe, total_read>>,
           pc[c] \notin Waiting, to \notin Waiting, to # "fork", to \in Before => pc[c] \in Before
    PROVE  BodyInv'
<1>1. pc' \in [Requests -> Pcs] /\ pc'[c] = to /\ \A d \in Requests \ {c} : pc'[d] = pc[d]
  BY DEF Goto, BodyInv, BodyTypes
<1>2. BodyTypes' /\ Others(c)
  BY <1>1 DEF BodyInv, BodyTypes, Others
<1>3. BodyOK(c) /\ pc[c] \in Before \cup After
  BY DEF BodyInv, BodyTypes, Pcs
<1>4. pc[c] \in Before => Min({MAXBUF, child[c].output}) = 0
  BY <1>3, RequestConstants, MinOfTwo, NoChildType DEF BodyOK
<1>5. BodyOK(c)'
  BY <1>1, <1>3, <1>4 DEF BodyOK, Waiting, After
<1> QED
  BY <1>2, <1>5, BodyStep

LEMMA BodyStutters ==
    ASSUME BodyInv, UNCHANGED <<pc, open, child, pipe, total_read>>
    PROVE  BodyInv'
BY DEF BodyInv, BodyTypes, BodyOK, p1

\* The steps that do not concern a program.
PlainStep(c) ==
    \/ Arrive(c) \/ Leave(c) \/ ClientDone(c)
    \/ rio_read(c) \/ PartOfLine(c) \/ RequestLine(c) \/ requestReadhdrs(c) \/ NoHeader(c)
    \/ Lookup(c) \/ Log(c) \/ SendHeader(c) \/ SendBody(c) \/ requestPrepareStatic(c)

LEMMA BodyPlain ==
    ASSUME BodyInv, NEW c \in Requests, PlainStep(c)
    PROVE  BodyInv'
<1>1. CASE Arrive(c) \/ Leave(c) \/ rio_read(c) \/ PartOfLine(c)
  <2>1. UNCHANGED <<pc, open, child, pipe, total_read>>
    BY <1>1 DEF Arrive, Leave, rio_read, PartOfLine
  <2> QED
    BY <2>1, BodyStutters
<1>2. CASE unix_error
  BY <1>2, BodyError
<1>3. CASE ClientDone(c)
  BY <1>3, BodyGoto DEF ClientDone, At, Pcs, Before, Waiting
<1>4. CASE RequestLine(c) \/ requestReadhdrs(c) \/ NoHeader(c)
  <2>1. UNCHANGED <<open, child, pipe, total_read>> /\ pc[c] \in {"line", "header1", "header"}
    BY <1>4 DEF RequestLine, requestReadhdrs, NoHeader, At
  <2>2. \E to \in {"header1", "header", "lookup", "log", "reply"} : Goto(c, to)
    BY <1>4 DEF RequestLine, requestReadhdrs, NoHeader
  <2> QED
    BY <2>1, <2>2, BodyGoto DEF Pcs, Before, After, Waiting
<1>5. CASE Lookup(c)
  <2>1. UNCHANGED <<open, child, pipe, total_read>> /\ pc[c] = "lookup"
    BY <1>5 DEF Lookup, At
  <2>2. \E to \in {"static", "dynamic", "reply"} : Goto(c, to)
    BY <1>5 DEF Lookup, requestParseURI
  <2> QED
    BY <2>1, <2>2, BodyGoto DEF Pcs, Before, After, Waiting
<1>6. CASE (Log(c) \/ SendHeader(c) \/ SendBody(c) \/ requestPrepareStatic(c)) /\ ~unix_error
  <2>1. UNCHANGED <<open, child, pipe, total_read>> /\ pc[c] \in {"log", "reply", "body", "static"}
    BY <1>6 DEF Log, SendHeader, SendBody, Write, requestPrepareStatic, At
  <2>2. \E to \in {"log", "reply", "body", "done"} : Goto(c, to)
    BY <1>6 DEF Log, SendHeader, SendBody, Write, requestPrepareStatic
  <2> QED
    BY <2>1, <2>2, BodyGoto DEF Pcs, Before, After, Waiting
<1> QED
  BY <1>1, <1>2, <1>3, <1>4, <1>5, <1>6 DEF PlainStep

\* Descriptors that the server opens or closes.
LEMMA ServerOpens ==
    ASSUME BodyInv, NEW c \in Requests, NEW ds \in SUBSET {conn(c), p0(c), p1(c)},
           Opens(Server, ds) \/ Closes(Server, ds)
    PROVE  /\ open' \in [Processes -> SUBSET Descriptors]
           /\ Opens(Server, ds) => open'[Server] = open[Server] \cup ds
           /\ \A d \in Requests : open'[d] = open[d]
           /\ \A d \in Requests \ {c} : p1(d) \in open[Server] => p1(d) \in open'[Server]
<1>1. /\ Server \in Processes /\ open \in [Processes -> SUBSET Descriptors] /\ ds \in SUBSET Descriptors
      /\ \A d \in Requests : d \in Processes /\ d # Server
  BY Names DEF BodyInv, BodyTypes
<1>2. \A d \in Requests \ {c} : p1(d) \notin ds
  BY Names
<1>3. CASE Opens(Server, ds)
  BY <1>1, <1>3 DEF Opens
<1>4. CASE Closes(Server, ds) /\ ~Opens(Server, ds)
  BY <1>1, <1>2, <1>4 DEF Closes
<1> QED
  BY <1>3, <1>4

LEMMA BodyConnect ==
    ASSUME BodyInv, NEW c \in Requests, Connect(c)
    PROVE  BodyInv'
<1>1. /\ pc[c] = "none" /\ Goto(c, "line") /\ Opens(Server, {conn(c)})
      /\ UNCHANGED <<child, pipe, total_read>>
  BY DEF Connect, At
<1>2. /\ open' \in [Processes -> SUBSET Descriptors] /\ \A d \in Requests : open'[d] = open[d]
      /\ \A d \in Requests \ {c} : p1(d) \in open[Server] => p1(d) \in open'[Server]
  BY <1>1, ServerOpens
<1>3. pc' \in [Requests -> Pcs] /\ pc'[c] = "line" /\ \A d \in Requests \ {c} : pc'[d] = pc[d]
  BY <1>1 DEF Goto, BodyInv, BodyTypes, Pcs, Before
<1>4. BodyTypes' /\ Others(c)
  BY <1>1, <1>2, <1>3 DEF BodyInv, BodyTypes, Others
<1>5. BodyOK(c)'
  BY <1>1, <1>3 DEF BodyInv, BodyOK, Before, After, Waiting
<1> QED
  BY <1>4, <1>5, BodyStep

LEMMA BodyMakePipe ==
    ASSUME BodyInv, NEW c \in Requests, MakePipe(c)
    PROVE  BodyInv'
<1>1. pc[c] = "dynamic" /\ UNCHANGED <<child, pipe, total_read>>
  BY DEF MakePipe, At
<1>2. CASE Goto(c, "log") /\ UNCHANGED open
  BY <1>1, <1>2, BodyGoto DEF Pcs, Before, After, Waiting
<1>3. CASE Opens(Server, {p0(c), p1(c)}) /\ Goto(c, "fork")
  <2>1. /\ open' \in [Processes -> SUBSET Descriptors] /\ \A d \in Requests : open'[d] = open[d]
        /\ \A d \in Requests \ {c} : p1(d) \in open[Server] => p1(d) \in open'[Server]
        /\ p1(c) \in open'[Server]
    BY <1>3, ServerOpens
  <2>2. pc' \in [Requests -> Pcs] /\ pc'[c] = "fork" /\ \A d \in Requests \ {c} : pc'[d] = pc[d]
    BY <1>3 DEF Goto, BodyInv, BodyTypes, Pcs, Before
  <2>3. BodyTypes' /\ Others(c)
    BY <1>1, <2>1, <2>2 DEF BodyInv, BodyTypes, Others
  <2>4. BodyOK(c)'
    BY <1>1, <2>1, <2>2 DEF BodyInv, BodyOK, Before, After, Waiting
  <2> QED
    BY <2>3, <2>4, BodyStep
<1> QED
  BY <1>2, <1>3 DEF MakePipe

\* The fields of a program after a step.
LEMMA ChildSteps ==
    ASSUME BodyInv, NEW c \in Requests, NEW is \in {"none", "forked", "runs", "zombie"}, NEW n \in Nat, NEW k \in Nat,
           child' = [child EXCEPT ![c] = [is |-> is, output |-> n, left |-> k]]
    PROVE  /\ child' \in [Requests -> ChildRecord] /\ \A d \in Requests \ {c} : child'[d] = child[d]
           /\ child'[c].is = is /\ child'[c].output = n /\ child'[c].left = k
<1> DEFINE new == [is |-> is, output |-> n, left |-> k]
<1>1. new \in ChildRecord /\ new.is = is /\ new.output = n /\ new.left = k
  BY DEF ChildRecord
<1> HIDE DEF new
<1>2. child' = [child EXCEPT ![c] = new]
  BY DEF new
<1> QED
  BY <1>1, <1>2 DEF BodyInv, BodyTypes

LEMMA ChildFields ==
    ASSUME BodyInv, NEW c \in Requests
    PROVE  /\ child[c] \in ChildRecord /\ child[c].output \in Nat /\ child[c].left \in Nat
           /\ pipe[c] \in Nat /\ total_read[c] \in Nat /\ BodyOK(c)
<1>1. child[c] \in ChildRecord /\ BodyOK(c) /\ pipe[c] \in Nat /\ total_read[c] \in Nat
  BY DEF BodyInv, BodyTypes
<1> QED
  BY <1>1 DEF ChildRecord

LEMMA ChildBecomes ==
    ASSUME BodyInv, NEW c \in Requests, NEW is \in {"none", "forked", "runs", "zombie"},
           child' = [child EXCEPT ![c].is = is]
    PROVE  /\ child' \in [Requests -> ChildRecord] /\ \A d \in Requests \ {c} : child'[d] = child[d]
           /\ child'[c].is = is /\ child'[c].output = child[c].output /\ child'[c].left = child[c].left
<1>1. child[c] \in ChildRecord
  BY ChildFields
<1> DEFINE new == [child[c] EXCEPT !.is = is]
<1>2. new \in ChildRecord /\ new.is = is /\ new.output = child[c].output /\ new.left = child[c].left
  BY <1>1 DEF ChildRecord
<1>3. child' = [child EXCEPT ![c] = new]
  OBVIOUS
<1> HIDE DEF new
<1> QED
  BY <1>2, <1>3 DEF BodyInv, BodyTypes

LEMMA ChildWrites ==
    ASSUME BodyInv, NEW c \in Requests, child[c].left > 0, child' = [child EXCEPT ![c].left = @ - 1]
    PROVE  /\ child' \in [Requests -> ChildRecord] /\ \A d \in Requests \ {c} : child'[d] = child[d]
           /\ child'[c].is = child[c].is /\ child'[c].output = child[c].output
           /\ child'[c].left = child[c].left - 1
<1>1. child[c] \in ChildRecord
  BY ChildFields
<1> DEFINE new == [child[c] EXCEPT !.left = @ - 1]
<1>2. new \in ChildRecord /\ new.is = child[c].is /\ new.output = child[c].output /\ new.left = child[c].left - 1
  BY <1>1 DEF ChildRecord
<1>3. child' = [child EXCEPT ![c] = new]
  OBVIOUS
<1> HIDE DEF new
<1> QED
  BY <1>2, <1>3 DEF BodyInv, BodyTypes

LEMMA BodyFork ==
    ASSUME BodyInv, NEW c \in Requests, Fork(c), ~unix_error
    PROVE  BodyInv'
<1>1. /\ pc[c] = "fork" /\ Goto(c, "parent") /\ child' = [child EXCEPT ![c].is = "forked"]
      /\ open' = [open EXCEPT ![c] = open[Server]] /\ UNCHANGED <<pipe, total_read>>
  BY DEF Fork, At
<1>2. /\ child' \in [Requests -> ChildRecord] /\ \A d \in Requests \ {c} : child'[d] = child[d]
      /\ child'[c].is = "forked" /\ child'[c].output = child[c].output /\ child'[c].left = child[c].left
  BY <1>1, ChildBecomes
<1>3. pc' \in [Requests -> Pcs] /\ pc'[c] = "parent" /\ \A d \in Requests \ {c} : pc'[d] = pc[d]
  BY <1>1 DEF Goto, BodyInv, BodyTypes, Pcs, Waiting
<1>4. /\ open' \in [Processes -> SUBSET Descriptors] /\ open'[c] = open[Server]
      /\ \A p \in Processes \ {c} : open'[p] = open[p]
  BY <1>1, Names DEF BodyInv, BodyTypes
<1>5. BodyTypes' /\ Others(c)
  BY <1>1, <1>2, <1>3, <1>4, Names DEF BodyInv, BodyTypes, Others
<1>6. p1(c) \in open[Server] /\ child[c].output = 0 /\ child[c].left = 0 /\ pipe[c] = 0 /\ total_read[c] = 0
  BY <1>1, NoChildType DEF BodyInv, BodyOK, Before, Waiting
<1>7. BodyOK(c)'
  BY <1>1, <1>2, <1>3, <1>4, <1>6, RequestConstants DEF BodyOK, Before, After, Waiting
<1> QED
  BY <1>5, <1>7, BodyStep

LEMMA BodyParent ==
    ASSUME BodyInv, NEW c \in Requests, Parent(c)
    PROVE  BodyInv'
<1>1. /\ pc[c] = "parent" /\ Goto(c, "read") /\ Closes(Server, {p1(c)})
      /\ UNCHANGED <<child, pipe, total_read>>
  BY DEF Parent, At
<1>2. /\ open' \in [Processes -> SUBSET Descriptors] /\ \A d \in Requests : open'[d] = open[d]
      /\ \A d \in Requests \ {c} : p1(d) \in open[Server] => p1(d) \in open'[Server]
  BY <1>1, ServerOpens
<1>3. pc' \in [Requests -> Pcs] /\ pc'[c] = "read" /\ \A d \in Requests \ {c} : pc'[d] = pc[d]
  BY <1>1 DEF Goto, BodyInv, BodyTypes, Pcs, Waiting
<1>4. BodyTypes' /\ Others(c)
  BY <1>1, <1>2, <1>3 DEF BodyInv, BodyTypes, Others
<1>5. BodyOK(c)'
  BY <1>1, <1>2, <1>3 DEF BodyInv, BodyOK, Before, After, Waiting
<1> QED
  BY <1>4, <1>5, BodyStep

\* A program runs only while its request waits for it.
LEMMA Alive ==
    ASSUME BodyInv, NEW c \in Requests, child[c].is # "none"
    PROVE  pc[c] \in Waiting
BY ChildFields DEF BodyOK

LEMMA BodyChild ==
    ASSUME BodyInv, NEW c \in Requests, Child(c)
    PROVE  BodyInv'
<1>1. child[c].is = "forked" /\ pc[c] \in Waiting /\ UNCHANGED <<pc, pipe, total_read>>
  BY Alive DEF Child
<1>2. /\ BodyOK(c) /\ pipe[c] \in Nat /\ total_read[c] \in Nat /\ child[c].left \in Nat /\ child[c].output \in Nat
  BY ChildFields
<1>3. /\ child[c].output = 0 /\ child[c].left = 0 /\ pipe[c] = 0 /\ total_read[c] = 0 /\ pc[c] # "wait"
      /\ p1(c) \in open[c]
  BY <1>1, <1>2 DEF BodyOK
<1>4. ASSUME NEW n \in Outputs, child' = [child EXCEPT ![c] = [is |-> "runs", output |-> n, left |-> n]],
             Closes(c, {p0(c)})
      PROVE  BodyInv'
  <2>1. n \in Nat
    BY RequestConstants
  <2>2. /\ child' \in [Requests -> ChildRecord] /\ \A d \in Requests \ {c} : child'[d] = child[d]
        /\ child'[c].is = "runs" /\ child'[c].output = n /\ child'[c].left = n
    BY <1>4, <2>1, ChildSteps
  <2>3. /\ open' \in [Processes -> SUBSET Descriptors] /\ p1(c) \in open'[c]
        /\ \A p \in Processes \ {c} : open'[p] = open[p]
    BY <1>3, <1>4, Names DEF BodyInv, BodyTypes, Closes
  <2>4. BodyTypes' /\ Others(c)
    BY <1>1, <2>2, <2>3, Names DEF BodyInv, BodyTypes, Others
  <2>5. BodyOK(c)'
    BY <1>1, <1>2, <1>3, <2>1, <2>2, <2>3, RequestConstants DEF BodyOK, Before, After, Waiting
  <2> QED
    BY <2>4, <2>5, BodyStep
<1>5. CASE Exit(c)
  <2>1. /\ child' \in [Requests -> ChildRecord] /\ \A d \in Requests \ {c} : child'[d] = child[d]
        /\ child'[c].is = "zombie" /\ child'[c].output = child[c].output /\ child'[c].left = child[c].left
    BY <1>5, ChildBecomes DEF Exit
  <2>2. /\ open' \in [Processes -> SUBSET Descriptors] /\ \A p \in Processes \ {c} : open'[p] = open[p]
    BY <1>5, Names DEF BodyInv, BodyTypes, Exit
  <2>3. BodyTypes' /\ Others(c)
    BY <1>1, <2>1, <2>2, Names DEF BodyInv, BodyTypes, Others
  <2>4. BodyOK(c)'
    BY <1>1, <1>2, <1>3, <2>1, RequestConstants DEF BodyOK, Before, After, Waiting
  <2> QED
    BY <2>3, <2>4, BodyStep
<1> QED
  BY <1>4, <1>5 DEF Child

LEMMA BodyCgi ==
    ASSUME BodyInv, NEW c \in Requests, CgiWrite(c) \/ CgiExit(c)
    PROVE  BodyInv'
<1>1. child[c].is = "runs" /\ pc[c] \in Waiting /\ UNCHANGED <<pc, total_read>>
  BY Alive DEF CgiWrite, CgiExit
<1>2. /\ BodyOK(c) /\ pipe[c] \in Nat /\ total_read[c] \in Nat /\ child[c].left \in Nat /\ child[c].output \in Nat
  BY ChildFields
<1>3. CASE CgiWrite(c)
  <2>1. /\ child[c].left > 0 /\ child' = [child EXCEPT ![c].left = @ - 1]
        /\ pipe' = [pipe EXCEPT ![c] = @ + 1] /\ UNCHANGED open
    BY <1>3 DEF CgiWrite
  <2>3. /\ child' \in [Requests -> ChildRecord] /\ \A d \in Requests \ {c} : child'[d] = child[d]
        /\ child'[c].is = "runs" /\ child'[c].output = child[c].output /\ child'[c].left = child[c].left - 1
    BY <1>1, <2>1, ChildWrites
  <2>4. /\ pipe' \in [Requests -> Nat] /\ pipe'[c] = pipe[c] + 1 /\ \A d \in Requests \ {c} : pipe'[d] = pipe[d]
    BY <2>1 DEF BodyInv, BodyTypes
  <2>5. BodyTypes' /\ Others(c)
    BY <1>1, <2>1, <2>3, <2>4 DEF BodyInv, BodyTypes, Others
  <2>6. BodyOK(c)'
    BY <1>1, <1>2, <2>1, <2>3, <2>4 DEF BodyOK, Before, After, Waiting
  <2> QED
    BY <2>5, <2>6, BodyStep
<1>4. CASE CgiExit(c)
  <2>1. child[c].left = 0 /\ Exit(c) /\ UNCHANGED pipe
    BY <1>4 DEF CgiExit
  <2>2. /\ child' \in [Requests -> ChildRecord] /\ \A d \in Requests \ {c} : child'[d] = child[d]
        /\ child'[c].is = "zombie" /\ child'[c].output = child[c].output /\ child'[c].left = child[c].left
    BY <2>1, ChildBecomes DEF Exit
  <2>3. /\ open' \in [Processes -> SUBSET Descriptors] /\ \A p \in Processes \ {c} : open'[p] = open[p]
    BY <2>1, Names DEF BodyInv, BodyTypes, Exit
  <2>4. BodyTypes' /\ Others(c)
    BY <1>1, <2>1, <2>2, <2>3, Names DEF BodyInv, BodyTypes, Others
  <2>5. BodyOK(c)'
    BY <1>1, <1>2, <2>1, <2>2 DEF BodyOK, Before, After, Waiting
  <2> QED
    BY <2>4, <2>5, BodyStep
<1> QED
  BY <1>3, <1>4

LEMMA BodyRead ==
    ASSUME BodyInv, NEW c \in Requests, ReadPipe(c)
    PROVE  BodyInv'
<1> DEFINE n == Min({pipe[c], MAXBUF - total_read[c]})
<1>1. /\ pc[c] = "read" /\ total_read' = [total_read EXCEPT ![c] = @ + n] /\ pipe' = [pipe EXCEPT ![c] = @ - n]
      /\ UNCHANGED <<pc, open, child>>
  BY DEF ReadPipe, At
<1>2. /\ BodyOK(c) /\ pipe[c] \in Nat /\ total_read[c] \in Nat /\ child[c].left \in Nat /\ child[c].output \in Nat
  BY ChildFields
<1>3. total_read[c] <= MAXBUF /\ MAXBUF \in Nat
  BY <1>1, <1>2, RequestConstants DEF BodyOK, Waiting
<1>4. n \in Nat /\ n <= pipe[c] /\ n <= MAXBUF - total_read[c]
  <2>1. MAXBUF - total_read[c] \in Nat
    BY <1>2, <1>3
  <2> QED
    BY <1>2, <2>1, MinOfTwo
<1> HIDE DEF n
<1>5. /\ total_read' \in [Requests -> Nat] /\ total_read'[c] = total_read[c] + n
      /\ pipe' \in [Requests -> Nat] /\ pipe'[c] = pipe[c] - n
      /\ \A d \in Requests \ {c} : pipe'[d] = pipe[d] /\ total_read'[d] = total_read[d]
  BY <1>1, <1>2, <1>4 DEF BodyInv, BodyTypes
<1>6. BodyTypes' /\ Others(c)
  BY <1>1, <1>5 DEF BodyInv, BodyTypes, Others
<1>8. child[c].output = child[c].left + pipe'[c] + total_read'[c] /\ total_read'[c] <= MAXBUF
  <2>1. child[c].output = child[c].left + pipe[c] + total_read[c]
    BY <1>1, <1>2 DEF BodyOK, Waiting
  <2>2. /\ child[c].output = child[c].left + (pipe[c] - n) + (total_read[c] + n)
        /\ total_read[c] + n <= MAXBUF
    BY <1>2, <1>3, <1>4, <2>1, Moved
  <2> QED
    BY <1>5, <2>2
<1>9. BodyOK(c)'
  BY <1>1, <1>2, <1>8 DEF BodyOK, Before, After, Waiting
<1> QED
  BY <1>6, <1>9, BodyStep

\* The end of the file comes only after the program has written all: as long as it
\* runs, it holds the end it writes to.
LEMMA BodyEnd ==
    ASSUME BodyInv, NEW c \in Requests, EndOfBody(c)
    PROVE  BodyInv'
<1>1. pc[c] = "read" /\ NothingToRead(c) /\ Goto(c, "wait") /\ UNCHANGED <<open, child, pipe, total_read>>
  BY DEF EndOfBody, At
<1>2. /\ BodyOK(c) /\ pipe[c] \in Nat /\ total_read[c] \in Nat /\ child[c].left \in Nat /\ child[c].output \in Nat
  BY ChildFields
<1>3. MAXBUF \in Nat \ {0}
  BY RequestConstants
<1>4. /\ child[c].output = child[c].left + pipe[c] + total_read[c] /\ total_read[c] <= MAXBUF
      /\ child[c].is = "forked" => child[c].output = 0
      /\ child[c].is # "zombie" => p1(c) \in open[c]
      /\ child[c].is = "zombie" => child[c].left = 0
  BY <1>1, <1>2 DEF BodyOK, Waiting
<1>5. child[c].is # "forked" /\ total_read[c] = Min({MAXBUF, child[c].output})
  <2>1. CASE total_read[c] = MAXBUF
    BY <1>2, <1>3, <1>4, <2>1, MinOfTwo
  <2>2. CASE pipe[c] = 0 /\ ~Held(p1(c))
    <3>1. child[c].is = "zombie"
      BY <1>4, <2>2, Names DEF Held
    <3>2. child[c].output = total_read[c]
      BY <1>2, <1>4, <2>2, <3>1
    <3> QED
      BY <1>2, <1>3, <1>4, <3>1, <3>2, MinOfTwo
  <2> QED
    BY <1>1, <2>1, <2>2 DEF NothingToRead
<1>6. pc' \in [Requests -> Pcs] /\ pc'[c] = "wait" /\ \A d \in Requests \ {c} : pc'[d] = pc[d]
  BY <1>1 DEF Goto, BodyInv, BodyTypes, Pcs, Waiting
<1>7. BodyTypes' /\ Others(c)
  BY <1>1, <1>6 DEF BodyInv, BodyTypes, Others
<1>8. BodyOK(c)'
  BY <1>1, <1>2, <1>5, <1>6 DEF BodyOK, Before, After, Waiting
<1> QED
  BY <1>7, <1>8, BodyStep

LEMMA BodyReap ==
    ASSUME BodyInv, NEW c \in Requests, Reap(c)
    PROVE  BodyInv'
<1>1. /\ pc[c] = "wait" /\ child' = [child EXCEPT ![c].is = "none"] /\ Closes(Server, {p0(c)})
      /\ pipe' = [pipe EXCEPT ![c] = 0] /\ Goto(c, "log") /\ UNCHANGED total_read
  BY DEF Reap, At
<1>2. /\ child' \in [Requests -> ChildRecord] /\ \A d \in Requests \ {c} : child'[d] = child[d]
      /\ child'[c].is = "none" /\ child'[c].output = child[c].output
  BY <1>1, ChildBecomes
<1>3. /\ open' \in [Processes -> SUBSET Descriptors] /\ \A d \in Requests : open'[d] = open[d]
      /\ \A d \in Requests \ {c} : p1(d) \in open[Server] => p1(d) \in open'[Server]
  BY <1>1, ServerOpens
<1>4. pc' \in [Requests -> Pcs] /\ pc'[c] = "log" /\ \A d \in Requests \ {c} : pc'[d] = pc[d]
  BY <1>1 DEF Goto, BodyInv, BodyTypes, Pcs, After
<1>5. pipe' \in [Requests -> Nat] /\ pipe'[c] = 0 /\ \A d \in Requests \ {c} : pipe'[d] = pipe[d]
  BY <1>1 DEF BodyInv, BodyTypes
<1>6. BodyTypes' /\ Others(c)
  BY <1>1, <1>2, <1>3, <1>4, <1>5 DEF BodyInv, BodyTypes, Others
<1>7. total_read[c] = Min({MAXBUF, child[c].output})
  BY <1>1, ChildFields DEF BodyOK
<1>8. BodyOK(c)'
  BY <1>1, <1>2, <1>4, <1>5, <1>7 DEF BodyOK, Before, After, Waiting
<1> QED
  BY <1>6, <1>8, BodyStep

LEMMA BodyClose ==
    ASSUME BodyInv, NEW c \in Requests, CloseConnection(c)
    PROVE  BodyInv'
<1>1. /\ pc[c] = "done" /\ child' = [child EXCEPT ![c] = NoChild] /\ Closes(Server, {conn(c)})
      /\ total_read' = [total_read EXCEPT ![c] = 0] /\ Goto(c, "closed") /\ UNCHANGED pipe
  BY DEF CloseConnection, At
<1>2. /\ child' \in [Requests -> ChildRecord] /\ child'[c] = NoChild /\ \A d \in Requests \ {c} : child'[d] = child[d]
  BY <1>1, NoChildType DEF BodyInv, BodyTypes
<1>3. /\ open' \in [Processes -> SUBSET Descriptors] /\ \A d \in Requests : open'[d] = open[d]
      /\ \A d \in Requests \ {c} : p1(d) \in open[Server] => p1(d) \in open'[Server]
  BY <1>1, ServerOpens
<1>4. pc' \in [Requests -> Pcs] /\ pc'[c] = "closed" /\ \A d \in Requests \ {c} : pc'[d] = pc[d]
  BY <1>1 DEF Goto, BodyInv, BodyTypes, Pcs, Before
<1>5. /\ total_read' \in [Requests -> Nat] /\ total_read'[c] = 0
      /\ \A d \in Requests \ {c} : total_read'[d] = total_read[d]
  BY <1>1 DEF BodyInv, BodyTypes
<1>6. BodyTypes' /\ Others(c)
  BY <1>1, <1>2, <1>3, <1>4, <1>5 DEF BodyInv, BodyTypes, Others
<1>7. BodyOK(c)'
  BY <1>1, <1>2, <1>4, <1>5, ChildFields, NoChildType DEF BodyOK, Before, After, Waiting
<1> QED
  BY <1>6, <1>7, BodyStep

LEMMA BodyNext == BodyInv /\ [Next]_vars => BodyInv'
<1> SUFFICES ASSUME BodyInv, [Next]_vars PROVE BodyInv'
  OBVIOUS
<1>1. CASE UNCHANGED vars
  BY <1>1, BodyStutters DEF vars
<1>2. ASSUME NEW c \in Requests, Connect(c) \/ Arrive(c) \/ Leave(c) \/ ClientDone(c) \/ requestHandle(c) \/ ReadError(c) \/ Program(c)
      PROVE  BodyInv'
  <2>1. CASE PlainStep(c)
    BY <2>1, BodyPlain
  <2>2. CASE unix_error
    BY <2>2, BodyError
  <2>3. CASE Program(c)
    BY <2>3, BodyChild, BodyCgi DEF Program
  <2>4. CASE requestHandle(c) /\ ~PlainStep(c) /\ ~unix_error
    BY <2>4, BodyMakePipe, BodyFork, BodyParent, BodyRead, BodyEnd, BodyReap, BodyClose
       DEF requestHandle, PlainStep
  <2>5. CASE ReadError(c)
    BY <2>5, BodyError DEF ReadError
  <2> QED
    BY <1>2, <2>1, <2>2, <2>3, <2>4, <2>5, BodyConnect DEF PlainStep
<1> QED
  BY <1>1, <1>2 DEF Next

\* The body of a dynamic answer is the output of the request's own program, cut off at
\* MAXBUF, for any number of workers that fork with each other's pipes open
\* (requestPrepareDynamic) and any sizes of the pipe and of the body.
THEOREM BodyCompleteHolds == Spec => []BodyComplete
<1>1. Init => BodyInv
  BY BodyReset DEF Init
<1>2. BodyInv => BodyComplete
  BY DEF BodyInv, BodyOK, BodyComplete, After
<1> QED
  BY <1>1, <1>2, BodyNext, PTL DEF Spec

-----------------------------------------------------------------------------
(* Where calls of rio_readlineb end *)

LEMMA MinOfSet ==
    ASSUME NEW S \in SUBSET Nat, S # {}
    PROVE  Min(S) \in S /\ \A k \in S : Min(S) <= k
BY LeastNatural DEF Min

LEMMA MaxOfSet ==
    ASSUME NEW b \in Nat, NEW S \in SUBSET (0 .. b), S # {}
    PROVE  Max(S) \in S /\ \A k \in S : Max(S) >= k
<1> DEFINE T == {b - x : x \in S}
<1>1. T \in SUBSET Nat /\ T # {}
  <2>1. PICK x \in S : TRUE
    OBVIOUS
  <2>2. b - x \in T
    BY <2>1
  <2>3. \A x1 \in S : b - x1 \in Nat
    OBVIOUS
  <2> QED
    BY <2>2, <2>3
<1>2. PICK t \in T : \A k \in T : t <= k
  <2> HIDE DEF T
  <2> QED
    BY <1>1, LeastNatural
<1>3. PICK x \in S : t = b - x
  BY <1>2
<1>4. \A k \in S : x >= k
  <2> SUFFICES ASSUME NEW k \in S PROVE x >= k
    OBVIOUS
  <2>1. b - x <= b - k
    BY <1>2, <1>3
  <2> QED
    BY <2>1
<1>5. \E y \in S : \A k \in S : y >= k
  BY <1>3, <1>4
<1> QED
  BY <1>5 DEF Max

LEMMA NoMultiple ==
    ASSUME NEW m \in Nat \ {0}, NEW k \in Int
    PROVE  m * k \notin 1 .. m - 1
<1>1. CASE k <= 0
  <2>1. -k \in Nat
    BY <1>1
  <2>2. m * (-k) >= 0
    BY <2>1
  <2>3. m * k = -(m * (-k))
    OBVIOUS
  <2> QED
    BY <2>2, <2>3
<1>2. CASE k >= 1
  <2>1. k - 1 \in Nat
    BY <1>2
  <2>2. m * (k - 1) >= 0
    BY <2>1
  <2>3. m * k = m * (k - 1) + m
    OBVIOUS
  <2> QED
    BY <2>2, <2>3
<1> QED
  BY <1>1, <1>2

LEMMA Remainders ==
    ASSUME NEW x \in Nat, NEW m \in Nat \ {0}, x % m = 0
    PROVE  (x + m) % m = 0 /\ \A d \in 1 .. m - 1 : (x + d) % m # 0
<1>1. ASSUME NEW y \in Nat
      PROVE  y = m * (y \div m) + (y % m) /\ y \div m \in Int /\ y % m \in 0 .. m - 1
  <2>1. y \div m \in Int /\ y % m \in 0 .. m - 1
    OBVIOUS
  <2>2. y = m * (y \div m) + (y % m)
    OBVIOUS
  <2> QED
    BY <2>1, <2>2
<1> DEFINE q == x \div m
<1>2. q \in Int /\ x = m * q
  BY <1>1
<1> HIDE DEF q
<1>3. ASSUME NEW d \in 1 .. m, (x + d) % m # 0
      PROVE  d # m
  <2> DEFINE p == (x + d) \div m
             r == (x + d) % m
  <2>1. x + d = m * p + r /\ p \in Int /\ r \in 1 .. m - 1
    BY <1>1, <1>3
  <2> HIDE DEF p, r
  <2>2. d = m => m * (q + 1 - p) = r
    BY <1>2, <2>1
  <2>3. q + 1 - p \in Int
    BY <1>2, <2>1
  <2> QED
    BY <2>1, <2>2, <2>3, NoMultiple
<1>4. ASSUME NEW d \in 1 .. m - 1, (x + d) % m = 0
      PROVE  FALSE
  <2> DEFINE p == (x + d) \div m
  <2>1. x + d = m * p /\ p \in Int
    BY <1>1, <1>4
  <2> HIDE DEF p
  <2>2. m * (p - q) = d /\ p - q \in Int
    BY <1>2, <2>1
  <2> QED
    BY <2>2, NoMultiple
<1> QED
  BY <1>3, <1>4

Byte == {"\r", "\n", "c"}

\* x is where the line of the byte i begins.
BeginsAt(s, i, x) ==
    /\ x \in 0 .. i - 1 /\ (x = 0 \/ s[x] = "\n")
    /\ \A j \in x + 1 .. i - 1 : s[j] # "\n"

LEMMA LineStartIs ==
    ASSUME NEW s, NEW i \in Nat \ {0}
    PROVE  /\ BeginsAt(s, i, LineStart(s, i))
           /\ \A x : BeginsAt(s, i, x) => x = LineStart(s, i)
<1> DEFINE S == {0} \cup {j \in 1 .. i - 1 : s[j] = "\n"}
<1>1. S \in SUBSET (0 .. i - 1) /\ S # {} /\ i - 1 \in Nat
  OBVIOUS
<1>2. LineStart(s, i) \in S /\ \A k \in S : LineStart(s, i) >= k
  <2> HIDE DEF S
  <2>1. Max(S) \in S /\ \A k \in S : Max(S) >= k
    BY <1>1, MaxOfSet
  <2> QED
    BY <2>1 DEF LineStart, S
<1>3. BeginsAt(s, i, LineStart(s, i))
  BY <1>2 DEF BeginsAt
<1>4. ASSUME NEW x, BeginsAt(s, i, x)
      PROVE  x = LineStart(s, i)
  <2>1. x \in S /\ x \in Nat /\ LineStart(s, i) \in Nat /\ x <= LineStart(s, i)
    BY <1>2, <1>4 DEF BeginsAt
  <2>2. ~(x < LineStart(s, i))
    BY <1>2, <1>4, <2>1 DEF BeginsAt
  <2> QED
    BY <2>1, <2>2
<1> QED
  BY <1>3, <1>4

\* Where a call of rio_readlineb ends in s: after a line or MAXLINE - 1 bytes of it.
CallEnds(s) == {i \in 1 .. Len(s) : s[i] = "\n" \/ (i - LineStart(s, i)) % (MAXLINE - 1) = 0}

LEMMA EndIs ==
    ASSUME NEW s \in Seq(Byte), NEW i \in 1 .. Len(s), NEW x, BeginsAt(s, i, x)
    PROVE  i \in CallEnds(s) <=> s[i] = "\n" \/ (i - x) % (MAXLINE - 1) = 0
<1>1. x = LineStart(s, i)
  BY LineStartIs
<1> QED
  BY <1>1 DEF CallEnds

LEMMA LineSize == MAXLINE - 1 \in Nat \ {0, 1}
BY RequestConstants

\* Where the line of the byte behind an end begins.
LEMMA BehindEnd ==
    ASSUME NEW s \in Seq(Byte), NEW a \in 0 .. Len(s), a = 0 \/ a \in CallEnds(s)
    PROVE  \E x \in 0 .. a : BeginsAt(s, a + 1, x) /\ (a - x) % (MAXLINE - 1) = 0
<1>0. a \in Nat /\ Len(s) \in Nat
  BY LenProperties
<1>1. \A n \in Nat \ {0} : 0 % n = 0
  OBVIOUS
<1>2. CASE a = 0 \/ s[a] = "\n"
  <2>1. BeginsAt(s, a + 1, a) /\ a - a = 0 /\ a \in 0 .. a
    BY <1>0, <1>2 DEF BeginsAt
  <2> QED
    BY <1>1, <2>1, LineSize
<1>3. CASE a # 0 /\ s[a] # "\n"
  <2> DEFINE x == LineStart(s, a)
  <2>1. a \in 1 .. Len(s) /\ BeginsAt(s, a, x)
    BY <1>0, <1>3, LineStartIs
  <2>2. (a - x) % (MAXLINE - 1) = 0
    BY <1>3, <2>1, EndIs
  <2> HIDE DEF x
  <2>3. BeginsAt(s, a + 1, x) /\ x \in 0 .. a
    BY <1>0, <1>3, <2>1 DEF BeginsAt
  <2> QED
    BY <2>2, <2>3
<1> QED
  BY <1>2, <1>3

\* The call that begins behind a ends at e.
EndsNext(s, a, e) ==
    /\ e \in a + 1 .. Len(s) /\ e <= a + (MAXLINE - 1)
    /\ \A j \in a + 1 .. e - 1 : s[j] # "\n"
    /\ s[e] = "\n" \/ e = a + (MAXLINE - 1)

LEMMA NextEnd ==
    ASSUME NEW s \in Seq(Byte), NEW a \in 0 .. Len(s), a = 0 \/ a \in CallEnds(s), NEW e, EndsNext(s, a, e)
    PROVE  e \in CallEnds(s) /\ \A j \in a + 1 .. e - 1 : j \notin CallEnds(s)
<1>0. a \in Nat /\ Len(s) \in Nat /\ e \in Nat /\ e >= a + 1 /\ e <= Len(s)
  BY LenProperties DEF EndsNext
<1> DEFINE m == MAXLINE - 1
<1>1. m \in Nat \ {0}
  BY LineSize
<1>2. PICK x \in 0 .. a : BeginsAt(s, a + 1, x) /\ (a - x) % m = 0
  BY BehindEnd
<1>3. ASSUME NEW j \in a + 1 .. e
      PROVE  /\ j \in 1 .. Len(s) /\ BeginsAt(s, j, x)
             /\ j - a \in 1 .. m /\ (a - x) + (j - a) = j - x
  <2>1. j \in 1 .. Len(s) /\ j - a \in 1 .. m /\ (a - x) + (j - a) = j - x
    BY <1>0, <1>1 DEF EndsNext
  <2>2. \A i \in x + 1 .. j - 1 : i \in x + 1 .. (a + 1) - 1 \/ i \in a + 1 .. e - 1
    BY <1>0
  <2>3. \A i \in x + 1 .. j - 1 : s[i] # "\n"
    BY <1>2, <2>2 DEF BeginsAt, EndsNext
  <2>4. x \in 0 .. j - 1 /\ (x = 0 \/ s[x] = "\n")
    BY <1>0, <1>2 DEF BeginsAt
  <2> QED
    BY <2>1, <2>3, <2>4 DEF BeginsAt
<1>4. a - x \in Nat
  BY <1>0
<1> HIDE DEF m
<1>5. ((a - x) + m) % m = 0 /\ \A d \in 1 .. m - 1 : ((a - x) + d) % m # 0
  BY <1>1, <1>2, <1>4, Remainders
<1>6. e \in CallEnds(s)
  <2>1. e \in a + 1 .. e
    BY <1>0
  <2>2. e \in 1 .. Len(s) /\ BeginsAt(s, e, x) /\ (a - x) + (e - a) = e - x
    BY <1>3, <2>1
  <2>3. CASE s[e] = "\n"
    BY <2>2, <2>3, EndIs
  <2>4. CASE e = a + m
    <3>1. e - a = m
      BY <1>0, <1>1, <2>4
    <3>2. (e - x) % m = 0
      BY <1>5, <2>2, <3>1
    <3> QED
      BY <2>2, <3>2, EndIs DEF m
  <2> QED
    BY <2>3, <2>4 DEF EndsNext, m
<1>7. ASSUME NEW j \in a + 1 .. e - 1
      PROVE  j \notin CallEnds(s)
  <2>1. j \in a + 1 .. e /\ s[j] # "\n"
    BY <1>0 DEF EndsNext
  <2>2. j \in 1 .. Len(s) /\ BeginsAt(s, j, x) /\ j - a \in 1 .. m /\ (a - x) + (j - a) = j - x
    BY <1>3, <2>1
  <2>3. j - a # m
    BY <1>0, <1>1 DEF EndsNext, m
  <2>4. j - a \in 1 .. m - 1
    BY <1>0, <1>1, <2>2, <2>3
  <2>5. (j - x) % m # 0
    BY <1>5, <2>2, <2>4
  <2> QED
    BY <2>1, <2>2, <2>5, EndIs DEF m
<1> QED
  BY <1>6, <1>7

\* Two calls in a row end a byte apart only at the end of a line: a buffer holds more.
LEMMA EndsApart ==
    ASSUME NEW s \in Seq(Byte), NEW a \in 2 .. Len(s), a \in CallEnds(s), a - 1 \in CallEnds(s)
    PROVE  s[a] = "\n"
<1> SUFFICES ASSUME s[a] # "\n" PROVE FALSE
  OBVIOUS
<1>0. a \in Nat /\ Len(s) \in Nat /\ a - 1 \in Nat /\ a - 1 \in 0 .. Len(s) /\ (a - 1) + 1 = a /\ a \in 1 .. Len(s)
  BY LenProperties
<1> DEFINE m == MAXLINE - 1
<1>1. m \in Nat \ {0, 1}
  BY LineSize
<1>2. PICK x \in 0 .. a - 1 : BeginsAt(s, (a - 1) + 1, x) /\ ((a - 1) - x) % m = 0
  BY <1>0, BehindEnd
<1>3. (a - x) % m = 0
  BY <1>0, <1>2, EndIs
<1> HIDE DEF m
<1>4. ((a - 1) - x) \in Nat /\ ((a - 1) - x) + 1 = a - x /\ 1 \in 1 .. m - 1 /\ m \in Nat \ {0}
  BY <1>0, <1>1
<1>5. (((a - 1) - x) + 1) % m # 0
  BY <1>2, <1>4, Remainders
<1> QED
  BY <1>3, <1>4, <1>5

\* A blank line behind another line ends at i.
BlankAt(s, i) == i \in CallEnds(s) /\ i - 2 \in CallEnds(s) /\ SubSeq(s, i - 1, i) = <<"\r", "\n">>

LEMMA EndsType == \A s \in Seq(Byte) : CallEnds(s) \subseteq 1 .. Len(s)
BY DEF CallEnds

LEMMA PairIs ==
    ASSUME NEW s \in Seq(Byte), NEW a \in 0 .. Len(s), NEW e \in a + 1 .. Len(s)
    PROVE  /\ SubSeq(s, a + 1, e) = <<"\r", "\n">> => e = a + 2
           /\ SubSeq(s, a + 1, e) = <<"\r", "\n">> => s[a + 1] = "\r" /\ s[e] = "\n"
<1>0. a \in Nat /\ Len(s) \in Nat /\ e \in Nat
  BY LenProperties
<1>1. Len(<<"\r", "\n">>) = 2 /\ <<"\r", "\n">>[1] = "\r" /\ <<"\r", "\n">>[2] = "\n"
  OBVIOUS
<1>2. /\ Len(SubSeq(s, a + 1, e)) = e - a
      /\ \A i \in 1 .. e - a : SubSeq(s, a + 1, e)[i] = s[a + i]
  <2>1. a + 1 \in 1 .. Len(s) + 1 /\ e \in a .. Len(s)
    BY <1>0
  <2>2. SubSeq(s, a + 1, e) = [i \in 1 .. e - (a + 1) + 1 |-> s[i + (a + 1) - 1]]
    BY <1>0, <2>1
  <2> QED
    BY <1>0, <2>2
<1> DEFINE w == SubSeq(s, a + 1, e)
<1>3. w = <<"\r", "\n">> => Len(w) = 2 /\ w[1] = "\r" /\ w[2] = "\n"
  <2> HIDE DEF w
  <2> QED
    BY <1>1
<1> HIDE DEF w
<1>4. Len(w) = e - a /\ \A i \in 1 .. e - a : w[i] = s[a + i]
  BY <1>2 DEF w
<1>5. ASSUME w = <<"\r", "\n">>
      PROVE  e = a + 2 /\ s[a + 1] = "\r" /\ s[e] = "\n"
  <2>1. Len(w) = 2 /\ w[1] = "\r" /\ w[2] = "\n"
    BY <1>3, <1>5
  <2>a. e - a = 2
    BY <1>4, <2>1
  <2>2. e = a + 2 /\ 1 \in 1 .. e - a /\ 2 \in 1 .. e - a
    BY <1>0, <2>a
  <2> QED
    BY <1>0, <1>4, <2>1, <2>2
<1> QED
  BY <1>5 DEF w

\* What the next call returns is the blank line or brings none.
LEMMA NextBlank ==
    ASSUME NEW s \in Seq(Byte), NEW a \in 0 .. Len(s), a = 0 \/ a \in CallEnds(s), NEW e, EndsNext(s, a, e),
           \A i \in 1 .. a : ~BlankAt(s, i)
    PROVE  /\ \A i \in 1 .. e - 1 : ~BlankAt(s, i)
           /\ BlankAt(s, e) <=> a > 0 /\ SubSeq(s, a + 1, e) = <<"\r", "\n">>
<1>0. a \in Nat /\ Len(s) \in Nat /\ e \in Nat /\ e >= a + 1 /\ e <= Len(s)
  BY LenProperties DEF EndsNext
<1>1. e \in CallEnds(s) /\ \A j \in a + 1 .. e - 1 : j \notin CallEnds(s)
  BY NextEnd
<1>2. ASSUME NEW i \in 1 .. e - 1
      PROVE  ~BlankAt(s, i)
  BY <1>0, <1>1 DEF BlankAt
<1>3. ASSUME a > 0, SubSeq(s, a + 1, e) = <<"\r", "\n">>
      PROVE  BlankAt(s, e)
  <2>1. e = a + 2
    BY <1>0, <1>3, PairIs
  <2>2. e - 2 = a /\ e - 1 = a + 1
    BY <1>0, <2>1
  <2> QED
    BY <1>1, <1>3, <2>2 DEF BlankAt
<1>4. ASSUME BlankAt(s, e)
      PROVE  a > 0 /\ SubSeq(s, a + 1, e) = <<"\r", "\n">>
  <2>1. e - 2 \in 1 .. Len(s) /\ e - 2 \in CallEnds(s)
    BY <1>4, EndsType DEF BlankAt
  <2>2. e - 2 \in 1 .. a
    BY <1>0, <1>1, <2>1
  <2>3. CASE e - 2 = a
    <3>1. e - 1 = a + 1 /\ a > 0
      BY <1>0, <2>2, <2>3
    <3> QED
      BY <1>4, <3>1 DEF BlankAt
  <2>4. CASE e - 2 # a
    <3>1. e - 2 = a - 1 /\ a \in 2 .. Len(s) /\ e - 1 = a
      BY <1>0, <2>2, <2>4
    <3>2. s[a] = "\n"
      BY <2>1, <3>1, EndsApart
    <3>3. s[a] = "\r"
      <4>1. a - 1 \in 0 .. Len(s) /\ e \in (a - 1) + 1 .. Len(s) /\ e - 1 = (a - 1) + 1 /\ (a - 1) + 1 = a
        BY <1>0, <3>1
      <4>2. SubSeq(s, (a - 1) + 1, e) = <<"\r", "\n">>
        BY <1>4, <4>1 DEF BlankAt
      <4> DEFINE b == a - 1
      <4> HIDE DEF b
      <4>3. b \in 0 .. Len(s) /\ e \in b + 1 .. Len(s) /\ SubSeq(s, b + 1, e) = <<"\r", "\n">>
        BY <4>1, <4>2 DEF b
      <4>4. s[b + 1] = "\r"
        BY <4>3, PairIs
      <4> QED
        BY <4>1, <4>4 DEF b
    <3> QED
      BY <3>2, <3>3
  <2> QED
    BY <2>3, <2>4
<1> QED
  BY <1>2, <1>3, <1>4

\* A pair of bytes.
LEMMA PairOf ==
    ASSUME NEW s \in Seq(Byte), NEW i \in 2 .. Len(s), s[i - 1] = "\r", s[i] = "\n"
    PROVE  SubSeq(s, i - 1, i) = <<"\r", "\n">>
<1>0. Len(s) \in Nat /\ i \in Nat /\ i - 1 \in 1 .. Len(s) /\ i - (i - 1) + 1 = 2
  BY LenProperties
<1>1. SubSeq(s, i - 1, i) = [j \in 1 .. i - (i - 1) + 1 |-> s[j + (i - 1) - 1]]
  BY <1>0
<1>2. 1 + (i - 1) - 1 = i - 1 /\ 2 + (i - 1) - 1 = i
  BY <1>0
<1>3. [j \in 1 .. 2 |-> s[j + (i - 1) - 1]] = <<"\r", "\n">>
  <2> DEFINE f == [j \in 1 .. 2 |-> s[j + (i - 1) - 1]]
  <2>1. f[1] = "\r" /\ f[2] = "\n"
    BY <1>2
  <2> HIDE DEF f
  <2>2. f \in Seq(Byte) /\ Len(f) = 2
    <3>1. \A j \in 1 .. 2 : j + (i - 1) - 1 \in 1 .. Len(s)
      BY <1>0
    <3>2. \A j \in 1 .. 2 : s[j + (i - 1) - 1] \in Byte
      BY <3>1, ElementOfSeq
    <3> QED
      BY <3>2, IsASeq DEF f
  <2>3. <<"\r", "\n">> \in Seq(Byte) /\ Len(<<"\r", "\n">>) = 2
    BY DEF Byte
  <2>4. \A j \in 1 .. 2 : f[j] = <<"\r", "\n">>[j]
    BY <2>1
  <2>5. f = <<"\r", "\n">>
    BY <2>2, <2>3, <2>4, SeqEqual
  <2> QED
    BY <2>5 DEF f
<1> QED
  BY <1>0, <1>1, <1>3

\* A line that is blank for requestReadhdrs is blank, or the end of a cut line.
LEMMA BlankIs ==
    ASSUME NEW s \in Seq(Byte), NEW i \in 1 .. Len(s)
    PROVE  BlankAt(s, i) <=> i \in BlankLines(s) \cup CutLines(s)
<1>0. Len(s) \in Nat /\ i \in Nat
  BY LenProperties
<1>1. ASSUME i \in 3 .. Len(s), s[i - 2] # "\n", s[i - 1] = "\r"
      PROVE  LineStart(s, i - 2) = LineStart(s, i)
  <2> DEFINE x == LineStart(s, i - 2)
  <2>1. i - 2 \in Nat \ {0} /\ i \in Nat \ {0}
    BY <1>0, <1>1
  <2>2. BeginsAt(s, i - 2, x)
    BY <2>1, LineStartIs
  <2> HIDE DEF x
  <2>3. BeginsAt(s, i, x)
    <3>1. x \in 0 .. i - 1
      BY <2>1, <2>2 DEF BeginsAt
    <3>2. ASSUME NEW j \in x + 1 .. i - 1 PROVE s[j] # "\n"
      <4>1. j \in x + 1 .. (i - 2) - 1 \/ j = i - 2 \/ j = i - 1
        BY <2>1, <3>1
      <4> QED
        BY <1>1, <2>2, <4>1 DEF BeginsAt
    <3> QED
      BY <2>2, <3>1, <3>2 DEF BeginsAt
  <2> QED
    BY <2>1, <2>3, LineStartIs DEF x
<1>2. ASSUME BlankAt(s, i)
      PROVE  i \in BlankLines(s) \cup CutLines(s)
  <2>1. i - 2 \in 1 .. Len(s) /\ i \in 3 .. Len(s) /\ i - 2 \in CallEnds(s)
    BY <1>0, <1>2, EndsType DEF BlankAt
  <2>2. s[i - 1] = "\r" /\ s[i] = "\n"
    <3> DEFINE a == i - 2
    <3>1. a \in 0 .. Len(s) /\ i \in a + 1 .. Len(s) /\ a + 1 = i - 1
      BY <1>0, <2>1
    <3>2. SubSeq(s, a + 1, i) = <<"\r", "\n">>
      BY <1>2, <3>1 DEF BlankAt
    <3> HIDE DEF a
    <3> QED
      BY <3>1, <3>2, PairIs
  <2>3. CASE s[i - 2] = "\n"
    BY <2>1, <2>2, <2>3 DEF BlankLines
  <2>4. CASE s[i - 2] # "\n"
    BY <1>1, <2>1, <2>2, <2>4 DEF CutLines, CallEnds
  <2> QED
    BY <2>3, <2>4
<1>3. ASSUME i \in BlankLines(s) \cup CutLines(s)
      PROVE  BlankAt(s, i)
  <2>1. i \in 3 .. Len(s) /\ s[i - 1] = "\r" /\ s[i] = "\n"
    BY <1>3 DEF BlankLines, CutLines
  <2>2. i \in CallEnds(s) /\ i - 2 \in 1 .. Len(s) /\ i \in 2 .. Len(s)
    BY <1>0, <2>1 DEF CallEnds
  <2>3. i - 2 \in CallEnds(s)
    BY <1>1, <1>3, <2>1, <2>2 DEF BlankLines, CutLines, CallEnds
  <2> QED
    BY <2>1, <2>2, <2>3, PairOf DEF BlankAt
<1> QED
  BY <1>2, <1>3

LEMMA FirstBlank ==
    ASSUME NEW s \in Seq(Byte), NEW e \in 1 .. Len(s), BlankAt(s, e), \A i \in 1 .. e - 1 : ~BlankAt(s, i)
    PROVE  EndsHeader(s, e)
<1> DEFINE ends == BlankLines(s) \cup CutLines(s)
<1>0. Len(s) \in Nat /\ e \in Nat /\ ends \subseteq 1 .. Len(s)
  BY LenProperties DEF BlankLines, CutLines
<1>1. e \in ends
  BY BlankIs
<1>2. ASSUME NEW i \in ends
      PROVE  e <= i
  <2> HIDE DEF ends
  <2>1. i \in 1 .. Len(s)
    BY <1>0
  <2>2. BlankAt(s, i)
    BY <2>1, BlankIs DEF ends
  <2> QED
    BY <1>0, <2>1, <2>2
<1> QED
  BY <1>1, <1>2 DEF EndsHeader

-----------------------------------------------------------------------------
(* The header of a request *)

NetRecord == [sent : Seq(Byte), arrived : Nat, filled : Nat, used : Nat, start : Nat]

\* The line that is being read has not ended yet, begins where the last call ended, and
\* no blank line came before it.
LineOK(r) ==
    /\ r.start <= r.used /\ r.used <= r.filled /\ r.filled <= r.arrived /\ r.arrived <= Len(r.sent)
    /\ r.used < r.start + (MAXLINE - 1)
    /\ \A i \in r.start + 1 .. r.used : r.sent[i] # "\n"
    /\ r.start = 0 \/ r.start \in CallEnds(r.sent)
    /\ \A i \in 1 .. r.start : ~BlankAt(r.sent, i)

Lines == {"line", "header1", "header"}

HeaderOK(c) ==
    c \notin gone =>
      /\ pc[c] \in Lines => LineOK(net[c])
      /\ pc[c] = "line" => net[c].start = 0
      /\ pc[c] \in {"header1", "header"} => net[c].start > 0
      /\ pc[c] = "lookup" => EndsHeader(net[c].sent, net[c].used)

HeaderInv == net \in [Requests -> NetRecord] /\ \A c \in Requests : HeaderOK(c)

LEMMA NoInputType ==
    /\ NoInput \in NetRecord
    /\ \A s \in Seq(Byte) : [NoInput EXCEPT !.sent = s] \in NetRecord /\ LineOK([NoInput EXCEPT !.sent = s])
                              /\ [NoInput EXCEPT !.sent = s].start = 0
<1>1. NoInput \in NetRecord
  BY EmptySeq DEF NoInput, NetRecord
<1>2. ASSUME NEW s \in Seq(Byte)
      PROVE  [NoInput EXCEPT !.sent = s] \in NetRecord /\ LineOK([NoInput EXCEPT !.sent = s])
               /\ [NoInput EXCEPT !.sent = s].start = 0
  <2> DEFINE r == [NoInput EXCEPT !.sent = s]
  <2>1. r \in NetRecord /\ r.sent = s /\ r.arrived = 0 /\ r.filled = 0 /\ r.used = 0 /\ r.start = 0
    BY DEF NoInput, NetRecord
  <2> HIDE DEF r
  <2>a. Len(s) \in Nat
    BY LenProperties
  <2>2. 0 <= Len(s) /\ 0 < 0 + (MAXLINE - 1)
    BY <2>a, RequestConstants
  <2>3. LineOK(r)
    BY <2>1, <2>2 DEF LineOK
  <2> QED
    BY <2>1, <2>3 DEF r
<1> QED
  BY <1>1, <1>2

\* What is taken from the buffer: up to the end of the line, if it is there.
LEMMA TakeOK ==
    ASSUME NEW r \in NetRecord
    PROVE  /\ Take(r) \in NetRecord /\ Take(r).sent = r.sent /\ Take(r).arrived = r.arrived
           /\ Take(r).filled = r.filled /\ Take(r).start = r.start
           /\ LineOK(r) => /\ Take(r).used >= r.used /\ Take(r).used <= r.filled
                           /\ Take(r).used <= r.start + (MAXLINE - 1)
                           /\ \A i \in r.start + 1 .. Take(r).used - 1 : r.sent[i] # "\n"
<1> DEFINE S == {r.filled, r.start + MAXLINE - 1} \cup {i \in r.used + 1 .. r.filled : r.sent[i] = "\n"}
           e == Min(S)
<1>1. /\ r.filled \in Nat /\ r.start \in Nat /\ r.used \in Nat /\ r.arrived \in Nat /\ r.sent \in Seq(Byte)
      /\ MAXLINE - 1 \in Nat /\ MAXLINE \in Nat
  BY RequestConstants DEF NetRecord
<1>2. S \in SUBSET Nat /\ S # {}
  BY <1>1
<1>3. e \in S /\ \A k \in S : e <= k
  <2> HIDE DEF S
  <2> QED
    BY <1>2, MinOfSet
<1>4. Take(r) = [r EXCEPT !.used = e]
  BY DEF Take
<1>5. e \in Nat /\ e <= r.filled /\ e <= r.start + (MAXLINE - 1)
  BY <1>1, <1>2, <1>3
<1>6. LineOK(r) => e >= r.used
  BY <1>1, <1>3 DEF LineOK
<1>7. ASSUME LineOK(r), NEW i \in r.start + 1 .. e - 1
      PROVE  r.sent[i] # "\n"
  <2>1. CASE i <= r.used
    BY <1>1, <1>7, <2>1 DEF LineOK
  <2>2. CASE i > r.used
    <3>1. i \in r.used + 1 .. r.filled /\ ~(e <= i)
      BY <1>1, <1>5, <2>2
    <3>2. i \notin S
      <4> HIDE DEF S
      <4> QED
        BY <1>3, <3>1
    <3> QED
      BY <3>1, <3>2
  <2> QED
    BY <1>1, <1>5, <2>1, <2>2
<1> HIDE DEF S, e
<1>8. /\ Take(r) \in NetRecord /\ Take(r).sent = r.sent /\ Take(r).arrived = r.arrived
      /\ Take(r).filled = r.filled /\ Take(r).start = r.start /\ Take(r).used = e
  BY <1>4, <1>5 DEF NetRecord
<1> QED
  BY <1>5, <1>6, <1>7, <1>8

\* What a step of c leaves to the other requests.
LEMMA HeaderStep ==
    ASSUME HeaderInv, NEW c \in Requests, net' \in [Requests -> NetRecord], HeaderOK(c)',
           \A d \in Requests \ {c} : net'[d] = net[d] /\ pc'[d] = pc[d] /\ (d \in gone' <=> d \in gone)
    PROVE  HeaderInv'
<1>1. ASSUME NEW d \in Requests \ {c}
      PROVE  HeaderOK(d)'
  <2>1. HeaderOK(d)
    BY DEF HeaderInv
  <2> QED
    BY <2>1 DEF HeaderOK
<1> QED
  BY <1>1 DEF HeaderInv

\* The handler of c goes on to where it does not read.
LEMMA HeaderGoto ==
    ASSUME BodyInv, HeaderInv, NEW c \in Requests, NEW to \in Pcs \ (Lines \cup {"lookup"}), Goto(c, to),
           net' = net \/ net' = [net EXCEPT ![c] = NoInput], UNCHANGED gone \/ gone' = gone \ {c}
    PROVE  HeaderInv'
<1>1. pc'[c] = to /\ \A d \in Requests \ {c} : pc'[d] = pc[d]
  BY DEF Goto, BodyInv, BodyTypes
<1>2. net' \in [Requests -> NetRecord] /\ \A d \in Requests \ {c} : net'[d] = net[d]
  BY NoInputType DEF HeaderInv
<1>3. HeaderOK(c)'
  BY <1>1 DEF HeaderOK, Lines
<1> QED
  BY <1>1, <1>2, <1>3, HeaderStep

LEMMA HeaderAside ==
    ASSUME HeaderInv, UNCHANGED <<pc, net, gone>>
    PROVE  HeaderInv'
BY DEF HeaderInv, HeaderOK

LEMMA HeaderError ==
    ASSUME unix_error
    PROVE  HeaderInv'
<1>1. net' = [c \in Requests |-> NoInput] /\ pc' = [c \in Requests |-> "none"]
  BY DEF unix_error
<1>2. ASSUME NEW c \in Requests
      PROVE  HeaderOK(c)'
  BY <1>1 DEF HeaderOK, Lines
<1> QED
  BY <1>1, <1>2, NoInputType DEF HeaderInv

LEMMA HeaderConnect ==
    ASSUME BodyInv, HeaderInv, NEW c \in Requests, Connect(c)
    PROVE  HeaderInv'
<1>1. /\ Goto(c, "line") /\ gone' = gone
  BY DEF Connect
<1>2. PICK s \in Inputs[c] : net' = [net EXCEPT ![c] = [NoInput EXCEPT !.sent = s]]
  BY DEF Connect
<1> DEFINE r == [NoInput EXCEPT !.sent = s]
<1>3. r \in NetRecord /\ LineOK(r) /\ r.start = 0
  BY RequestConstants, NoInputType DEF Byte
<1> HIDE DEF r
<1>4. net' = [net EXCEPT ![c] = r]
  BY <1>2 DEF r
<1>5. net' \in [Requests -> NetRecord] /\ net'[c] = r /\ \A d \in Requests \ {c} : net'[d] = net[d]
  BY <1>3, <1>4 DEF HeaderInv
<1>6. pc'[c] = "line" /\ \A d \in Requests \ {c} : pc'[d] = pc[d]
  BY <1>1 DEF Goto, BodyInv, BodyTypes
<1>7. HeaderOK(c)'
  BY <1>3, <1>5, <1>6 DEF HeaderOK, Lines
<1> QED
  BY <1>1, <1>5, <1>6, <1>7, HeaderStep

\* The fields of the input after more of it has come.
LEMMA Arrives ==
    ASSUME NEW r \in NetRecord, NEW n \in Nat
    PROVE  /\ [r EXCEPT !.arrived = n] \in NetRecord
           /\ [r EXCEPT !.arrived = n].start = r.start /\ [r EXCEPT !.arrived = n].used = r.used
           /\ [r EXCEPT !.arrived = n].sent = r.sent
           /\ LineOK(r) /\ n >= r.filled /\ n <= Len(r.sent) => LineOK([r EXCEPT !.arrived = n])
           /\ [r EXCEPT !.filled = n] \in NetRecord
           /\ [r EXCEPT !.filled = n].start = r.start
           /\ LineOK(r) /\ n >= r.used /\ n <= r.arrived => LineOK([r EXCEPT !.filled = n])
<1> DEFINE q == [r EXCEPT !.arrived = n]
           p == [r EXCEPT !.filled = n]
<1>1. /\ q \in NetRecord /\ q.arrived = n /\ q.sent = r.sent /\ q.filled = r.filled /\ q.used = r.used /\ q.start = r.start
      /\ p \in NetRecord /\ p.filled = n /\ p.sent = r.sent /\ p.arrived = r.arrived /\ p.used = r.used /\ p.start = r.start
  BY DEF NetRecord
<1>2. /\ r.filled \in Nat /\ r.start \in Nat /\ r.used \in Nat /\ r.arrived \in Nat
  BY DEF NetRecord
<1> HIDE DEF q, p
<1>3. LineOK(r) /\ n >= r.filled /\ n <= Len(r.sent) => LineOK(q)
  BY <1>1, <1>2 DEF LineOK
<1>4. LineOK(r) /\ n >= r.used /\ n <= r.arrived => LineOK(p)
  BY <1>1, <1>2 DEF LineOK
<1> QED
  BY <1>1, <1>3, <1>4 DEF q, p

LEMMA HeaderArrive ==
    ASSUME BodyInv, HeaderInv, NEW c \in Requests, Arrive(c)
    PROVE  HeaderInv'
<1> DEFINE r == net[c]
<1>1. UNCHANGED <<pc, gone>> /\ r \in NetRecord /\ HeaderOK(c)
  BY DEF Arrive, HeaderInv
<1>2. PICK n \in r.arrived + 1 .. Len(r.sent) : net' = [net EXCEPT ![c].arrived = n]
  BY DEF Arrive
<1>3. n \in Nat /\ n >= r.arrived /\ n <= Len(r.sent) /\ r.arrived \in Nat /\ r.filled \in Nat
  <2>1. r.arrived \in Nat /\ r.filled \in Nat /\ Len(r.sent) \in Nat
    BY <1>1, LenProperties DEF NetRecord
  <2> QED
    BY <2>1
<1> DEFINE q == [r EXCEPT !.arrived = n]
<1>4. /\ q \in NetRecord /\ q.start = r.start /\ q.used = r.used /\ q.sent = r.sent
      /\ LineOK(r) => LineOK(q)
  <2>1. LineOK(r) => n >= r.filled
    BY <1>3 DEF LineOK
  <2> QED
    BY <1>1, <1>3, <2>1, Arrives
<1>5. net' = [net EXCEPT ![c] = q]
  BY <1>2
<1> HIDE DEF q
<1>6. net' \in [Requests -> NetRecord] /\ net'[c] = q /\ \A d \in Requests \ {c} : net'[d] = net[d]
  BY <1>4, <1>5 DEF HeaderInv
<1>7. HeaderOK(c)'
  BY <1>1, <1>4, <1>6 DEF HeaderOK
<1> QED
  BY <1>1, <1>6, <1>7, HeaderStep

LEMMA HeaderFill ==
    ASSUME BodyInv, HeaderInv, NEW c \in Requests, rio_read(c)
    PROVE  HeaderInv'
<1> DEFINE r == net[c]
           n == Min({r.arrived, r.filled + RIO_BUFSIZE})
<1>1. /\ UNCHANGED <<pc, gone>> /\ r \in NetRecord /\ HeaderOK(c) /\ pc[c] \in Lines
      /\ r.used = r.filled /\ r.arrived > r.filled /\ net' = [net EXCEPT ![c].filled = n]
  BY DEF rio_read, Reading, Lines, HeaderInv
<1>2. r.arrived \in Nat /\ r.filled \in Nat /\ r.used \in Nat /\ RIO_BUFSIZE \in Nat
  BY <1>1, RequestConstants DEF NetRecord
<1>3. n \in Nat /\ n >= r.used /\ n <= r.arrived
  <2>1. r.filled + RIO_BUFSIZE \in Nat
    BY <1>2
  <2>2. n \in Nat /\ n <= r.arrived /\ (n = r.arrived \/ n = r.filled + RIO_BUFSIZE)
    BY <1>2, <2>1, MinOfTwo
  <2> QED
    BY <1>1, <1>2, <2>2
<1> HIDE DEF n
<1> DEFINE q == [r EXCEPT !.filled = n]
<1>4. q \in NetRecord /\ q.start = r.start /\ (LineOK(r) => LineOK(q))
  BY <1>1, <1>3, Arrives
<1>5. net' = [net EXCEPT ![c] = q]
  BY <1>1
<1> HIDE DEF q
<1>6. net' \in [Requests -> NetRecord] /\ net'[c] = q /\ \A d \in Requests \ {c} : net'[d] = net[d]
  BY <1>4, <1>5 DEF HeaderInv
<1>7. HeaderOK(c)'
  BY <1>1, <1>4, <1>6 DEF HeaderOK, Lines
<1> QED
  BY <1>1, <1>6, <1>7, HeaderStep

LEMMA HeaderPart ==
    ASSUME BodyInv, HeaderInv, NEW c \in Requests, PartOfLine(c)
    PROVE  HeaderInv'
<1> DEFINE r == net[c]
           q == Take(r)
<1>1. /\ UNCHANGED <<pc, gone>> /\ r \in NetRecord /\ HeaderOK(c) /\ pc[c] \in Lines
      /\ ~IsLine(q, c) /\ net' = [net EXCEPT ![c] = q]
  BY DEF PartOfLine, Reading, Lines, HeaderInv
<1>2. /\ q \in NetRecord /\ q.sent = r.sent /\ q.arrived = r.arrived /\ q.filled = r.filled /\ q.start = r.start
      /\ LineOK(r) => /\ q.used >= r.used /\ q.used <= r.filled /\ q.used <= r.start + (MAXLINE - 1)
                      /\ \A i \in r.start + 1 .. q.used - 1 : r.sent[i] # "\n"
  BY <1>1, TakeOK
<1>3. r.start \in Nat /\ r.used \in Nat /\ q.used \in Nat /\ MAXLINE \in Nat /\ MAXLINE > 2
  BY <1>1, <1>2, RequestConstants DEF NetRecord
<1> HIDE DEF q
<1>4. ASSUME LineOK(r) PROVE LineOK(q)
  <2>1. r.start <= r.used /\ q.used >= r.used /\ q.used <= r.start + (MAXLINE - 1)
    BY <1>2, <1>4 DEF LineOK
  <2>2. q.used > r.start => q.sent[q.used] # "\n" /\ q.used # r.start + (MAXLINE - 1)
    BY <1>1, <1>2, <1>3 DEF IsLine
  <2>3. q.used < q.start + (MAXLINE - 1)
    BY <1>2, <1>3, <2>1, <2>2
  <2>4. ASSUME NEW i \in q.start + 1 .. q.used PROVE q.sent[i] # "\n"
    <3>1. CASE i = q.used
      BY <1>2, <1>3, <2>2, <3>1
    <3>2. CASE i # q.used
      BY <1>2, <1>3, <1>4, <3>2
    <3> QED
      BY <3>1, <3>2
  <2> QED
    BY <1>2, <1>3, <1>4, <2>1, <2>3, <2>4 DEF LineOK
<1>5. net' \in [Requests -> NetRecord] /\ net'[c] = q /\ \A d \in Requests \ {c} : net'[d] = net[d]
  BY <1>1, <1>2 DEF HeaderInv
<1>6. HeaderOK(c)'
  BY <1>1, <1>2, <1>4, <1>5 DEF HeaderOK, Lines
<1> QED
  BY <1>1, <1>5, <1>6, HeaderStep

\* A call of rio_readlineb has a line whose client is there: the next call finds no blank
\* line behind it, or this line is the first blank one.
LEMMA LineEnds ==
    ASSUME NEW r \in NetRecord, LineOK(r), NEW c, c \notin gone, IsLine(Take(r), c)
    PROVE  LET q == NextLine(Take(r))
               blank == SubSeq(r.sent, r.start + 1, Take(r).used) = <<"\r", "\n">>
           IN  /\ q \in NetRecord /\ q.start > 0
               /\ ~(blank /\ r.start > 0) => LineOK(q)
               /\ blank /\ r.start > 0 => EndsHeader(q.sent, q.used)
<1> DEFINE t == Take(r)
           q == NextLine(t)
           blank == SubSeq(r.sent, r.start + 1, t.used) = <<"\r", "\n">>
           s == r.sent
           a == r.start
           e == t.used
<1>1. /\ t \in NetRecord /\ t.sent = s /\ t.arrived = r.arrived /\ t.filled = r.filled /\ t.start = a
      /\ t.used >= r.used /\ t.used <= r.filled /\ t.used <= a + (MAXLINE - 1)
      /\ \A i \in a + 1 .. t.used - 1 : s[i] # "\n"
  BY TakeOK
<1>2. /\ s \in Seq(Byte) /\ a \in Nat /\ r.filled \in Nat /\ r.arrived \in Nat /\ e \in Nat /\ Len(s) \in Nat
      /\ MAXLINE \in Nat /\ MAXLINE > 2
  <2>1. s \in Seq(Byte) /\ a \in Nat /\ r.filled \in Nat /\ r.arrived \in Nat
    BY DEF NetRecord
  <2>2. e \in Nat
    BY <1>1 DEF NetRecord
  <2> QED
    BY <2>1, <2>2, LenProperties, RequestConstants
<1>3. e > a /\ (s[e] = "\n" \/ e = a + (MAXLINE - 1))
  <2>1. t.used > t.start /\ (t.sent[t.used] = "\n" \/ t.used = t.start + MAXLINE - 1)
    BY DEF IsLine, EndOfFile
  <2> QED
    BY <1>1, <1>2, <2>1
<1>4. r.filled <= r.arrived /\ r.arrived <= Len(s)
  BY DEF LineOK
<1>5. EndsNext(s, a, e) /\ a \in 0 .. Len(s) /\ e \in 1 .. Len(s)
  <2>1. e <= r.filled /\ e <= a + (MAXLINE - 1) /\ \A i \in a + 1 .. e - 1 : s[i] # "\n"
    BY <1>1
  <2> HIDE DEF s, a, e
  <2>2. e <= Len(s)
    BY <1>2, <1>4, <2>1
  <2>3. a \in 0 .. Len(s) /\ e \in 1 .. Len(s) /\ e \in a + 1 .. Len(s)
    BY <1>2, <1>3, <2>2
  <2> QED
    BY <1>3, <2>1, <2>3 DEF EndsNext
<1>6. (a = 0 \/ a \in CallEnds(s)) /\ \A i \in 1 .. a : ~BlankAt(s, i)
  BY DEF LineOK
<1>7. /\ e \in CallEnds(s) /\ \A i \in 1 .. e - 1 : ~BlankAt(s, i)
      /\ BlankAt(s, e) <=> a > 0 /\ SubSeq(s, a + 1, e) = <<"\r", "\n">>
  BY <1>2, <1>5, <1>6, NextEnd, NextBlank
<1>8. /\ q \in NetRecord /\ q.sent = s /\ q.arrived = r.arrived /\ q.filled = r.filled
      /\ q.start = e /\ q.used = e
  <2> HIDE DEF t
  <2> QED
    BY <1>1, <1>2 DEF NextLine, NetRecord
<1> HIDE DEF t, q, s, a, e
<1>9. ASSUME ~(blank /\ a > 0)
      PROVE  LineOK(q)
  <2>1. \A i \in 1 .. e : ~BlankAt(s, i)
    <3>1. ~BlankAt(s, e)
      BY <1>7, <1>9 DEF s, a, e
    <3> QED
      BY <1>2, <1>7, <3>1
  <2>2. q.filled >= e /\ q.arrived >= q.filled /\ q.arrived <= Len(s)
    BY <1>1, <1>2, <1>4, <1>8 DEF e
  <2>3. e < e + (MAXLINE - 1) /\ e <= e /\ (\A i \in e + 1 .. e : FALSE)
    BY <1>2
  <2> QED
    BY <1>7, <1>8, <2>1, <2>2, <2>3 DEF LineOK
<1>10. ASSUME blank, a > 0
       PROVE  EndsHeader(q.sent, q.used)
  <2>1. BlankAt(s, e)
    BY <1>7, <1>10 DEF s, a, e
  <2> QED
    BY <1>2, <1>5, <1>7, <1>8, <2>1, FirstBlank
<1>11. q.start > 0
  BY <1>2, <1>3, <1>8
<1> QED
  BY <1>8, <1>9, <1>10, <1>11 DEF q, t, s, a, e

LEMMA HeaderLine ==
    ASSUME BodyInv, HeaderInv, NEW c \in Requests, RequestLine(c)
    PROVE  HeaderInv'
<1> DEFINE r == net[c]
           q == NextLine(Take(r))
<1>1. /\ UNCHANGED gone /\ r \in NetRecord /\ HeaderOK(c) /\ pc[c] = "line"
      /\ IsLine(Take(r), c) \/ EndOfFile(Take(r), c)
  BY DEF RequestLine, At, HeaderInv
<1>2. CASE \E to \in {"log", "reply"} : Goto(c, to) /\ net' = [net EXCEPT ![c] = NoInput]
  BY <1>1, <1>2, HeaderGoto DEF Pcs, After, Lines
<1>3. CASE Goto(c, "header1") /\ net' = [net EXCEPT ![c] = q]
  <2>1. Take(r) \in NetRecord
    BY <1>1, TakeOK
  <2>2. q \in NetRecord
    BY <2>1 DEF NextLine, NetRecord
  <2>3. c \notin gone => LineOK(q) /\ q.start > 0
    <3> SUFFICES ASSUME c \notin gone PROVE LineOK(q) /\ q.start > 0
      OBVIOUS
    <3>1. LineOK(r) /\ r.start = 0 /\ IsLine(Take(r), c)
      BY <1>1 DEF HeaderOK, Lines, EndOfFile
    <3>2. ~(r.start > 0)
      BY <3>1
    <3> QED
      BY <1>1, <3>1, <3>2, LineEnds
  <2> HIDE DEF q
  <2>4. net' \in [Requests -> NetRecord] /\ net'[c] = q /\ \A d \in Requests \ {c} : net'[d] = net[d]
    BY <1>3, <2>2 DEF HeaderInv
  <2>5. pc'[c] = "header1" /\ \A d \in Requests \ {c} : pc'[d] = pc[d]
    BY <1>3 DEF Goto, BodyInv, BodyTypes
  <2>6. HeaderOK(c)'
    BY <1>1, <2>3, <2>4, <2>5 DEF HeaderOK, Lines
  <2> QED
    BY <1>1, <2>4, <2>5, <2>6, HeaderStep
<1> QED
  BY <1>2, <1>3 DEF RequestLine

LEMMA HeaderHdrs ==
    ASSUME BodyInv, HeaderInv, NEW c \in Requests, requestReadhdrs(c)
    PROVE  HeaderInv'
<1> DEFINE r == net[c]
           q == NextLine(Take(r))
           blank == SubSeq(r.sent, r.start + 1, Take(r).used) = <<"\r", "\n">>
           to == IF blank THEN "lookup" ELSE "header"
<1>1. r \in NetRecord /\ HeaderOK(c)
  BY DEF HeaderInv
<1>2. Take(r) \in NetRecord /\ Take(r).sent = r.sent /\ Take(r).start = r.start
  BY <1>1, TakeOK
<1>3. /\ UNCHANGED gone /\ pc[c] \in {"header1", "header"} /\ IsLine(Take(r), c)
      /\ Goto(c, to) /\ net' = [net EXCEPT ![c] = q]
  BY <1>2 DEF requestReadhdrs
<1>4. q \in NetRecord
  BY <1>2 DEF NextLine, NetRecord
<1>5. c \notin gone => /\ q.start > 0 /\ (blank => EndsHeader(q.sent, q.used))
                       /\ ~blank => LineOK(q)
  <2> SUFFICES ASSUME c \notin gone
               PROVE  /\ q.start > 0 /\ (blank => EndsHeader(q.sent, q.used))
                      /\ ~blank => LineOK(q)
    OBVIOUS
  <2>1. LineOK(r) /\ r.start > 0
    BY <1>1, <1>3 DEF HeaderOK, Lines
  <2> QED
    BY <1>1, <1>3, <2>1, LineEnds
<1> HIDE DEF q, blank
<1>6. net' \in [Requests -> NetRecord] /\ net'[c] = q /\ \A d \in Requests \ {c} : net'[d] = net[d]
  BY <1>3, <1>4 DEF HeaderInv
<1>7. pc'[c] = to /\ \A d \in Requests \ {c} : pc'[d] = pc[d]
  BY <1>3 DEF Goto, BodyInv, BodyTypes
<1>8. HeaderOK(c)'
  BY <1>3, <1>5, <1>6, <1>7 DEF HeaderOK, Lines
<1> QED
  BY <1>3, <1>6, <1>7, <1>8, HeaderStep

\* A client that is not there asks for nothing.
LEMMA HeaderLeft ==
    ASSUME BodyInv, HeaderInv, NEW c \in Requests, NoHeader(c) \/ Leave(c)
    PROVE  HeaderInv'
<1>1. net' = net /\ c \in gone' /\ \A d \in Requests \ {c} : d \in gone' <=> d \in gone
  BY DEF NoHeader, Leave, EndOfFile
<1>2. \A d \in Requests \ {c} : pc'[d] = pc[d]
  BY DEF NoHeader, Leave, Goto, BodyInv, BodyTypes
<1>3. HeaderOK(c)'
  BY <1>1 DEF HeaderOK
<1> QED
  BY <1>1, <1>2, <1>3, HeaderStep DEF HeaderInv

\* The handler goes on behind the header.
LEMMA HeaderBehind ==
    ASSUME BodyInv, HeaderInv, NEW c \in Requests, ~unix_error,
           \/ ClientDone(c) \/ Lookup(c) \/ requestPrepareStatic(c) \/ MakePipe(c) \/ Fork(c) \/ Parent(c)
           \/ EndOfBody(c) \/ Reap(c) \/ Log(c) \/ SendHeader(c) \/ SendBody(c) \/ CloseConnection(c)
    PROVE  HeaderInv'
<1>1. /\ net' = net \/ net' = [net EXCEPT ![c] = NoInput]
      /\ UNCHANGED gone \/ gone' = gone \ {c}
  BY DEF ClientDone, Lookup, requestPrepareStatic, MakePipe, Fork, Parent, EndOfBody, Reap, Log,
         SendHeader, SendBody, Write, CloseConnection
<1>2. \E to \in {"none", "static", "dynamic", "log", "fork", "parent", "read", "wait", "reply", "body", "done", "closed"} :
         Goto(c, to)
  BY DEF ClientDone, Lookup, requestParseURI, requestPrepareStatic, MakePipe, Fork, Parent, EndOfBody, Reap, Log,
         SendHeader, SendBody, Write, CloseConnection
<1> QED
  BY <1>1, <1>2, HeaderGoto DEF Pcs, Before, Waiting, After, Lines

LEMMA HeaderNext == BodyInv /\ HeaderInv /\ [Next]_vars => HeaderInv'
<1> SUFFICES ASSUME BodyInv, HeaderInv, [Next]_vars PROVE HeaderInv'
  OBVIOUS
<1>1. CASE UNCHANGED vars
  BY <1>1, HeaderAside DEF vars
<1>2. ASSUME NEW c \in Requests, Connect(c) \/ Arrive(c) \/ Leave(c) \/ ClientDone(c) \/ requestHandle(c) \/ ReadError(c) \/ Program(c)
      PROVE  HeaderInv'
  <2>1. CASE unix_error
    BY <2>1, HeaderError
  <2>2. CASE Connect(c) \/ Arrive(c) \/ rio_read(c) \/ PartOfLine(c)
    BY <2>2, HeaderConnect, HeaderArrive, HeaderFill, HeaderPart
  <2>3. CASE RequestLine(c) \/ requestReadhdrs(c) \/ NoHeader(c) \/ Leave(c)
    BY <2>3, HeaderLine, HeaderHdrs, HeaderLeft
  <2>4. CASE ReadPipe(c) \/ Program(c)
    <3>1. UNCHANGED <<pc, net, gone>>
      BY <2>4 DEF ReadPipe, Program, Child, CgiWrite, CgiExit
    <3> QED
      BY <3>1, HeaderAside
  <2>5. CASE ReadError(c)
    BY <2>5, HeaderError DEF ReadError
  <2> QED
    BY <1>2, <2>1, <2>2, <2>3, <2>4, <2>5, HeaderBehind DEF requestHandle
<1> QED
  BY <1>1, <1>2 DEF Next

\* However the network cuts a request into pieces, and whatever the sizes of buf and of
\* rio_buf, requestReadhdrs stops exactly behind the first blank line of the request, or
\* behind an earlier line whose line end buf has cut off: rio_readlineb neither loses
\* nor repeats a byte.
THEOREM HeaderExactHolds == Spec => []HeaderExact
<1>1. Init => BodyInv /\ HeaderInv
  <2>1. Init => BodyInv
    BY BodyReset DEF Init
  <2>2. Init => HeaderInv
    BY NoInputType DEF Init, HeaderInv, HeaderOK, Lines
  <2> QED
    BY <2>1, <2>2
<1>2. BodyInv /\ HeaderInv /\ [Next]_vars => (BodyInv /\ HeaderInv)'
  BY BodyNext, HeaderNext
<1>3. BodyInv /\ HeaderInv => HeaderExact
  BY DEF HeaderInv, HeaderOK, HeaderExact
<1> QED
  BY <1>1, <1>2, <1>3, PTL DEF Spec
=============================================================================
