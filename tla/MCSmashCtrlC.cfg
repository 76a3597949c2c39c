CONSTANTS
    ChildPids = {p1, p2}
    Foreign = {}
    NoPid = NoPid
    Signals = {}
    MaxJobs = 2
SPECIFICATION ShellSpec
CHECK_DEADLOCK FALSE
INVARIANT ForegroundIsKnown
