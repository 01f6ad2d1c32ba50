\* Main and two threads it and t1 may start: two starters race on t2, every
\* thread sleeps and joins, t2 reads a socket, main and t1 interrupt.
CONSTANTS
  Thread = {main, t1, t2}
  Main = main
  NoThread = NoThread
  Starter = {main, t1}
  Interrupter = {main, t1}
  Reader = {t2}
SPECIFICATION FairSpec
INVARIANTS
  OneStarter
  LatchMeansDead
  InterruptReachesSleeper
  InterruptReachesReader
PROPERTIES
  JoinEnds
