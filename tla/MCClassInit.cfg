\* Three threads: two that meet in a circle of classes and one that waits for
\* them. A circle of threads is a deadlock of the code, so the runs may stop.
CONSTANTS
  A = A
  B = B
  C = C
  Thread = {t1, t2, t3}
  NoThread = NoThread
  Class = {A, B, C}
  NoClass = NoClass
  Super <- MCSuper
  Uses <- MCUses
  Throws = {A, C}
  Panics = {B}
SPECIFICATION FairSpec
INVARIANTS
  LockMatchesStack
  NoSelfWait
  SuperFirst
  ClinitOnce
PROPERTIES
  InitProgress
CHECK_DEADLOCK FALSE
