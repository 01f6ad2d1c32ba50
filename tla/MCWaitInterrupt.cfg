\* A waiter, a thread that can wait, notify and interrupt, and one that can
\* notify and interrupt: two deciders can meet on one record. Once every live
\* thread waits untimed, or after a panic, nothing need move.
CONSTANTS
  Thread = {t1, t2, t3}
  NoThread = NoThread
  MaxDepth = 1
  Waiter = {t1, t2}
  Interrupter = {t2, t3}
SPECIFICATION SpecI
INVARIANTS
  NoStaleRecord
  WakeComing
  WaitListSound
PROPERTIES
  InterruptDecides
  MonitorDecidesOnce
CHECK_DEADLOCK FALSE
