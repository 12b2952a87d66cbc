SPECIFICATION Spec
CONSTANTS
    Procs = {idle, a, b, c}
    Idle = idle
    NoProc = null
    MaxProcesses = 4
    WaitQueueMax = 2
    SleepArgs = {2}
PROPERTIES SleepersWake WaitersServed ComputingShares
CHECK_DEADLOCK TRUE
