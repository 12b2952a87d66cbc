SPECIFICATION Spec
CONSTANTS
  Idle = idle
  First = a
  Boot = boot
  NoProc = null
  Panic = panic
  Spent = spent
  Procs = {idle, a, b, c}
  MaxProcesses = 5
  WaitQueueMax = 5
  SleepArgs = {1, 3}
  SleepMsArgs = {}
  Calls = {"sleep"}
  MaxTicks = 8
SYMMETRY Symmetry
INVARIANT IdleSwitchIsCorrect
