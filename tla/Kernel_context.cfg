SPECIFICATION Spec
CONSTANTS
  Idle = idle
  First = a
  Boot = boot
  NoProc = null
  Panic = panic
  Spent = spent
  Procs = {idle, a, b, c}
  MaxProcesses = 5
  WaitQueueMax = 5
  SleepArgs = {1, 3}
  SleepMsArgs = {}
  Calls = {"create", "exit"}
  MaxTicks = 4
SYMMETRY Symmetry
INVARIANT ContextIsOwn
