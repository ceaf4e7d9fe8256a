SPECIFICATION Spec
CONSTANTS
    Pid <- Pids4
    InitProcess = Init1
    Launcher = Shell
    Reaper = Init1
    Init1 = Init1
    Shell = Shell
    Subreaper = Subreaper
    Configs <- OneDaemon
    Broken = Broken
    None = None
    MaxEdits = 0
    MaxFaults = 1
INVARIANTS
    ChildrenCanBeKilled
CHECK_DEADLOCK FALSE
