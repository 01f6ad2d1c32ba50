\* Two threads and two monitors: they may deadlock, as Java programs do.
CONSTANTS
  run = run
  step = step
  task = task
  a = a
  b = b
  Thread = {t1, t2}
  NoThread = NoThread
  Method = {run, step, task}
  Object = {a, b}
  NoObject = NoObject
  Engine <- MCEngine
  SyncOn <- MCSyncOn
  Catchers = {step, run}
  Throwers = {step}
  Blocks <- MCBlocks
  MaxFrames = 2
  MaxStack = 3
  MaxMeter = 3
SPECIFICATION Spec
SYMMETRY Symmetry
INVARIANTS
  MonitorsHeldExactly
  TraceIsStack
  BudgetHolds
CHECK_DEADLOCK FALSE
