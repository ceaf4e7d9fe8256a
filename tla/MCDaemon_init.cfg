SPECIFICATION FairSpec
CONSTANTS
    Pid <- Pids4
    InitProcess = Init1
    Launcher = Shell
    Reaper = Init1
    Init1 = Init1
    Shell = Shell
    Subreaper = Subreaper
    Configs <- Mixed
    Broken = Broken
    None = None
    MaxEdits = 3
    MaxFaults = 2
INVARIANTS
    TypeOK
    WatcherFindsHandler
    NobodyElseHungUp
    NoneLeftAlive
    EditOnItsWay
PROPERTIES
    EditTaken
    TermEnds
CHECK_DEADLOCK FALSE
