SPECIFICATION Spec
CONSTANTS
  Idle = idle
  First = a
  Boot = boot
  NoProc = null
  Panic = panic
  Spent = spent
  Procs = {idle, a, b, c}
  MaxProcesses = 5
  WaitQueueMax = 5
  SleepArgs = {2}
  SleepMsArgs = {15}
  Calls = {"sleep", "wait", "create", "exit"}
  MaxTicks = 3
SYMMETRY Symmetry
INVARIANT TypeOK
INVARIANT ListedOnce
INVARIANT NoDangling
INVARIANT RunsAsItself
INVARIANT ScheduleFromNull
INVARIANT ReadyAboveMin
PROPERTY MinMonotone
