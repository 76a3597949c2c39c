CONSTANTS
    Tasks = {swapper, init, a}
    Swapper = swapper
    Reaper = init
    Preemptible = FALSE
    Bans = {"g", "p"}
    MaxHeight = 2
    MaxCalls = 2
SPECIFICATION BanSpec
PROPERTY KeepsOtherBans
