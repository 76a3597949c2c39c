\* Two tasks besides process 1 and its parent: a branch of three, threads of one
\* process, and parents that exit while a child walks past them.
CONSTANTS
    Tasks = {swapper, init, a, b}
    Swapper = swapper
    Reaper = init
    Preemptible = FALSE
    Bans = {"k"}
    MaxHeight = 3
    MaxCalls = 2
SPECIFICATION BanSpec
SYMMETRY Symmetry
INVARIANTS FlipExact FollowsLiveTasks
