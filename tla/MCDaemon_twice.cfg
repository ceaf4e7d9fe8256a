SPECIFICATION Spec
CONSTANTS
    Pid <- Pids8
    InitProcess = Init1
    Launcher = Shell
    Reaper = Subreaper
    Init1 = Init1
    Shell = Shell
    Subreaper = Subreaper
    Configs <- TwoDaemons
    Broken = Broken
    None = None
    MaxEdits = 2
    MaxFaults = 1
INVARIANTS
    DaemonizedOnce
CHECK_DEADLOCK FALSE
