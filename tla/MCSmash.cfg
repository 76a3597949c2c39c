\* Three children, so that two jobs and a foreground command coexist and a pid is
\* used again; ids grow past the number of jobs.
CONSTANTS
    ChildPids = {p1, p2, p3}
    Foreign = {p3}
    NoPid = NoPid
    Signals = {"KILL", "STOP", "CONT"}
    MaxJobs = 3
SPECIFICATION ShellFairSpec
CHECK_DEADLOCK FALSE
INVARIANTS EveryChildTracked PromptIsClean
PROPERTY PromptReturns
