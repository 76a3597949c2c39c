\* Two requests at a time.  MAXBUF + PipeSize = 3 bytes of output are the most that do
\* not block; a program that cannot be run writes nothing.
CONSTANTS
    c1 = c1
    c2 = c2
    Requests = {c1, c2}
    Server = server
    Workers = 2
    Inputs <- MCInputs
    Outputs = {1, 3, 4}
    MAXLINE = 3
    RIO_BUFSIZE = 3
    MAXBUF = 2
    PipeSize = 1
SPECIFICATION Spec
CHECK_DEADLOCK FALSE
INVARIANTS HeaderExact BodyComplete
PROPERTY RequestsEnd
