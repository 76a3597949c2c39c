CONSTANTS
    N = 5
    Ids = {0, 1}
    Limits <- SmallLimits
    InitialLimits <- StartLimits
    Priorities <- SmallPriorities
    sysctl_nr_open = 20
    Callers = {2, 3, 4, 5}
    MaxCalls = 4
    NULL = NULL
SPECIFICATION Spec
CHECK_DEADLOCK FALSE
INVARIANTS DropIsComplete SessionsAreSound SubreaperSeesAll
PROPERTIES NoNewPrivileges LimitsTighten
