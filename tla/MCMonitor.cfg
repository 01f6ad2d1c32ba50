\* Three threads: an owner, the contender it wakes and a third that barges or
\* queues behind them. Depth 2 tells a full release from one level.
CONSTANTS
  Thread = {t1, t2, t3}
  NoThread = NoThread
  MaxDepth = 2
SPECIFICATION FairSpec
INVARIANTS
  DepthAgreement
  HandoffInFlight
  WaitListExact
  ParkedExact
PROPERTIES
  LockProgress
  ImplementsJavaMonitor
