---- MODULE WaitInterrupt ----
(***************************************************************************)
(* One monitor composed with the thread registry: natObjectWaitMillis,     *)
(* the publication of wait records in ThreadRegistry.waiting, and          *)
(* ThreadRegistry.Interrupt.  Notifiers and the deadline write a record's  *)
(* outcome under m.mu, interrupters under r.mu, so the load, the store and *)
(* the close are separate steps here and both mutexes are variables; the   *)
(* single-step critical sections of Monitor need m.mu free.                *)
(***************************************************************************)
EXTENDS Monitor

CONSTANTS
  Waiter,       \* bound: the threads whose programs call wait
  Interrupter   \* bound: the threads whose programs call interrupt

ASSUME RolesAssumption == Waiter \subseteq Thread /\ Interrupter \subseteq Thread

VARIABLES
  mu,         \* the thread inside a multi-step critical section of m.mu
  rmu,        \* the thread inside a multi-step critical section of r.mu
  flag,       \* JThread.interrupted
  published,  \* the threads with a record in ThreadRegistry.waiting
  closed,     \* the channel of the thread's latest wait record is closed
  step,       \* where each thread is between the steps of the operations below
  target      \* the thread whose record a notifier or interrupter works on

regVars == <<mu, rmu, flag, published, closed, step, target>>
allVars == <<vars, regVars>>

WaitSteps == {"cleared", "publish", "loop", "asleep", "dlStore", "return", "retract"}
NotifySteps == {"nStore", "nClose", "allScan", "allStore", "allClose"}
InterruptSteps == {"iScan", "iStore", "iClose"}
\* A goroutine that ran into a Go panic: closing a closed channel, or waiting
\* without ownership.
Panics == {"closedTwice", "unownedWait"}
Steps == {"none"} \cup WaitSteps \cup NotifySteps \cup InterruptSteps \cup Panics

InitI == /\ Init
         /\ mu = NoThread
         /\ rmu = NoThread
         /\ flag = [t \in Thread |-> FALSE]
         /\ published = {}
         /\ closed = [t \in Thread |-> FALSE]
         /\ step = [t \in Thread |-> "none"]
         /\ target = [t \in Thread |-> NoThread]

Idle(t) == pc[t] = "idle" /\ step[t] = "none"

Goto(t, s) == step' = [step EXCEPT ![t] = s]
Forget(t) == target' = [target EXCEPT ![t] = NoThread]

----
\* Monitor's own critical sections, while nobody is inside a longer one.
EnterI(t) == Idle(t) /\ mu = NoThread /\ Enter(t) /\ UNCHANGED regVars
RetryI(t) == mu = NoThread /\ Retry(t) /\ UNCHANGED regVars
ExitI(t) == Idle(t) /\ mu = NoThread /\ Exit(t) /\ UNCHANGED regVars
ReenterI(t) == mu = NoThread /\ Reenter(t) /\ UNCHANGED regVars

\* Thread.interrupted(): ClearInterrupted, whose ByKey takes r.mu.
Interrupted(t) == /\ Idle(t)
                  /\ rmu = NoThread
                  /\ flag[t]
                  /\ flag' = [flag EXCEPT ![t] = FALSE]
                  /\ UNCHANGED <<vars, mu, rmu, published, closed, step, target>>

\* natObjectWaitMillis: a set flag is consumed and InterruptedException thrown
\* instead of waiting.
NativeWait(t) == /\ Idle(t)
                 /\ t \in Waiter
                 /\ rmu = NoThread
                 /\ flag' = [flag EXCEPT ![t] = FALSE]
                 /\ IF flag[t] THEN UNCHANGED step ELSE Goto(t, "cleared")
                 /\ UNCHANGED <<vars, mu, rmu, published, closed, target>>

\* Monitor.Wait up to the release, or its panic on a thread that is not owner.
BeginWait(t) == /\ step[t] = "cleared"
                /\ mu = NoThread
                /\ \/ /\ Wait(t)
                      /\ Goto(t, "publish")
                      /\ closed' = [closed EXCEPT ![t] = FALSE]
                   \/ /\ owner # t
                      /\ Goto(t, "unownedWait")
                      /\ UNCHANGED <<vars, closed>>
                /\ UNCHANGED <<mu, rmu, flag, published, target>>

\* publishWait, after m.mu was released.
PublishWait(t) == /\ step[t] = "publish"
                  /\ rmu = NoThread
                  /\ published' = published \cup {t}
                  /\ Goto(t, "loop")
                  /\ UNCHANGED <<vars, mu, rmu, flag, closed, target>>

\* The loop of Wait reads stillWaiting and blocks on the channels.
Block(t) == /\ step[t] = "loop"
            /\ outcome[t] = "stillWaiting"
            /\ Goto(t, "asleep")
            /\ UNCHANGED <<vars, mu, rmu, flag, published, closed, target>>

\* Mutant: the look at the outcome without m.mu.
DeadlineLooksUnlocked(t) == /\ step[t] = "asleep"
                            /\ timed[t]
                            /\ IF outcome[t] = "stillWaiting"
                               THEN Goto(t, "dlStore") ELSE Goto(t, "loop")
                            /\ UNCHANGED <<vars, mu, rmu, flag, published, closed, target>>

\* The timer's channel is chosen: look at the outcome again under m.mu.
DeadlineI(t) == /\ step[t] = "asleep"
                /\ timed[t]
                /\ mu = NoThread
                /\ IF outcome[t] = "stillWaiting"
                   THEN Goto(t, "dlStore") /\ mu' = t
                   ELSE Goto(t, "loop") /\ UNCHANGED mu
                /\ UNCHANGED <<vars, rmu, flag, published, closed, target>>

DeadlineStore(t) == /\ step[t] = "dlStore"
                    /\ outcome' = [outcome EXCEPT ![t] = "hitDeadline"]
                    /\ waits' = RemoveFirst(waits, t)
                    /\ mu' = NoThread
                    /\ Goto(t, "loop")
                    /\ UNCHANGED <<lockVars, pc, due, timed, held,
                                   rmu, flag, published, closed, target>>

\* Mutant: a waiter that trusts whoever woke it to have removed its record.
LeaveLoopKeepsRecord(t) == /\ \/ step[t] = "loop"
                              \/ step[t] = "asleep" /\ closed[t]
                           /\ mu = NoThread
                           /\ pc[t] = "waiting"
                           /\ outcome[t] # "stillWaiting"
                           /\ pc' = [pc EXCEPT ![t] = "reenter"]
                           /\ Goto(t, "return")
                           /\ UNCHANGED <<lockVars, waitVars, due, held,
                                          mu, rmu, flag, published, closed, target>>

\* Awake, by a close or because the loop never blocked: the outcome is decided.
LeaveLoop(t) == /\ \/ step[t] = "loop"
                   \/ step[t] = "asleep" /\ closed[t]
                /\ mu = NoThread
                /\ RemoveWait(t)
                /\ Goto(t, "return")
                /\ UNCHANGED <<mu, rmu, flag, published, closed, target>>

\* Mutant: no deferred retractWait.
NoRetract(t) == /\ step[t] = "return"
                /\ pc[t] = "idle"
                /\ rmu = NoThread
                /\ Goto(t, "none")
                /\ UNCHANGED <<vars, mu, rmu, flag, published, closed, target>>

\* The lock is back: Wait reads the outcome it returns, then the deferred
\* retractWait runs.
RetractWait(t) == /\ step[t] = "return"
                  /\ pc[t] = "idle"
                  /\ rmu = NoThread
                  /\ published' = published \ {t}
                  /\ Goto(t, "none")
                  /\ UNCHANGED <<vars, mu, rmu, flag, closed, target>>

----
\* Notify and NotifyAll load the outcomes under m.mu; a record is taken up by
\* the step named next.
Pick(t, next) == \E i \in 1..Len(waits) :
                   /\ FirstWaiting(i)
                   /\ target' = [target EXCEPT ![t] = waits[i]]
                   /\ Goto(t, next)

NotifyScan(t) == /\ Idle(t)
                 /\ owner = t
                 /\ mu = NoThread
                 /\ Pick(t, "nStore")
                 /\ mu' = t
                 /\ UNCHANGED <<vars, rmu, flag, published, closed>>

\* Store the outcome and take the record off the list; the close is next.
NotifyStore(t) == /\ step[t] = "nStore"
                  /\ outcome' = [outcome EXCEPT ![target[t]] = "gotNotify"]
                  /\ waits' = RemoveFirst(waits, target[t])
                  /\ Goto(t, "nClose")
                  /\ UNCHANGED <<lockVars, pc, due, timed, held,
                                 mu, rmu, flag, published, closed, target>>

\* close(w.ch); the deferred Unlock runs even when it panics.
NotifyClose(t) == /\ step[t] = "nClose"
                  /\ IF closed[target[t]]
                     THEN Goto(t, "closedTwice") /\ UNCHANGED closed
                     ELSE Goto(t, "none") /\ closed' = [closed EXCEPT ![target[t]] = TRUE]
                  /\ mu' = NoThread
                  /\ Forget(t)
                  /\ UNCHANGED <<vars, rmu, flag, published>>

NotifyAllScan(t) == /\ \/ Idle(t) /\ owner = t /\ mu = NoThread /\ waits # <<>>
                       \/ step[t] = "allScan"
                    /\ \/ /\ Pick(t, "allStore")
                          /\ mu' = t
                          /\ UNCHANGED vars
                       \/ /\ \A i \in 1..Len(waits) : outcome[waits[i]] # "stillWaiting"
                          /\ waits' = <<>>
                          /\ mu' = NoThread
                          /\ Goto(t, "none")
                          /\ UNCHANGED <<lockVars, outcome, timed, pc, due, held, target>>
                    /\ UNCHANGED <<rmu, flag, published, closed>>

NotifyAllStore(t) == /\ step[t] = "allStore"
                     /\ outcome' = [outcome EXCEPT ![target[t]] = "gotNotify"]
                     /\ Goto(t, "allClose")
                     /\ UNCHANGED <<lockVars, waits, timed, pc, due, held,
                                    mu, rmu, flag, published, closed, target>>

NotifyAllClose(t) == /\ step[t] = "allClose"
                     /\ IF closed[target[t]]
                        THEN /\ Goto(t, "closedTwice")
                             /\ mu' = NoThread
                             /\ UNCHANGED closed
                        ELSE /\ Goto(t, "allScan")
                             /\ closed' = [closed EXCEPT ![target[t]] = TRUE]
                             /\ UNCHANGED mu
                     /\ Forget(t)
                     /\ UNCHANGED <<vars, rmu, flag, published>>

----
\* ThreadRegistry.Interrupt: ByKey and the flag.
Interrupt(t, k) == /\ Idle(t)
                   /\ t \in Interrupter
                   /\ rmu = NoThread
                   /\ flag' = [flag EXCEPT ![k] = TRUE]
                   /\ target' = [target EXCEPT ![t] = k]
                   /\ Goto(t, "iScan")
                   /\ UNCHANGED <<vars, mu, rmu, published, closed>>

\* Mutant: an interrupt that only forgets the record.
InterruptForgets(t) == /\ step[t] = "iScan"
                       /\ rmu = NoThread
                       /\ published' = published \ {target[t]}
                       /\ Goto(t, "none")
                       /\ Forget(t)
                       /\ UNCHANGED <<vars, mu, rmu, flag, closed>>

\* Under r.mu: a record that still waits is taken up, any other just leaves
\* the registry.
InterruptScan(t) == /\ step[t] = "iScan"
                    /\ rmu = NoThread
                    /\ IF target[t] \in published /\ outcome[target[t]] = "stillWaiting"
                       THEN /\ rmu' = t
                            /\ Goto(t, "iStore")
                            /\ UNCHANGED <<published, target>>
                       ELSE /\ published' = published \ {target[t]}
                            /\ Goto(t, "none")
                            /\ Forget(t)
                            /\ UNCHANGED rmu
                    /\ UNCHANGED <<vars, mu, flag, closed>>

\* Mutant: the outcome is stored and the channel never closed.
InterruptStoreOnly(t) == /\ step[t] = "iStore"
                         /\ outcome' = [outcome EXCEPT ![target[t]] = "gotInterrupt"]
                         /\ published' = published \ {target[t]}
                         /\ rmu' = NoThread
                         /\ Goto(t, "none")
                         /\ Forget(t)
                         /\ UNCHANGED <<lockVars, waits, timed, pc, due, held,
                                        mu, flag, closed>>

InterruptStore(t) == /\ step[t] = "iStore"
                     /\ outcome' = [outcome EXCEPT ![target[t]] = "gotInterrupt"]
                     /\ Goto(t, "iClose")
                     /\ UNCHANGED <<lockVars, waits, timed, pc, due, held,
                                    mu, rmu, flag, published, closed, target>>

\* close(rec.ch) and delete(r.waiting, key). r.mu has no deferred Unlock: a
\* panic here leaves it locked for ever.
InterruptClose(t) == /\ step[t] = "iClose"
                     /\ IF closed[target[t]]
                        THEN /\ Goto(t, "closedTwice")
                             /\ UNCHANGED <<rmu, published, closed>>
                        ELSE /\ Goto(t, "none")
                             /\ rmu' = NoThread
                             /\ published' = published \ {target[t]}
                             /\ closed' = [closed EXCEPT ![target[t]] = TRUE]
                     /\ Forget(t)
                     /\ UNCHANGED <<vars, mu, flag>>

NextI == \E t \in Thread :
  \/ EnterI(t) \/ RetryI(t) \/ ExitI(t) \/ ReenterI(t) \/ Interrupted(t)
  \/ NativeWait(t) \/ BeginWait(t) \/ PublishWait(t) \/ Block(t)
  \/ DeadlineI(t) \/ DeadlineStore(t) \/ LeaveLoop(t) \/ RetractWait(t)
  \/ NotifyScan(t) \/ NotifyStore(t) \/ NotifyClose(t)
  \/ NotifyAllScan(t) \/ NotifyAllStore(t) \/ NotifyAllClose(t)
  \/ (\E k \in Thread : Interrupt(t, k))
  \/ InterruptScan(t) \/ InterruptStore(t) \/ InterruptClose(t)

SpecI == InitI /\ [][NextI]_allVars

----
\* The registry holds records of waits in progress only: an interrupt can never
\* decide or close the record of a wait that has returned, nor of a later one.
NoStaleRecord == \A t \in published : step[t] \in WaitSteps \ {"cleared", "publish"}

\* A waiter asleep on its channel after its outcome was decided is woken: the
\* channel is closed, or whoever decided is about to close it.
WakeComing == \A t \in Thread :
  (step[t] = "asleep" /\ outcome[t] # "stillWaiting" /\ ~closed[t]) =>
    \E u \in Thread : /\ step[u] \in {"nClose", "allClose", "iClose"}
                      /\ target[u] = t

\* Every undecided waiter can be found by a notifier, and the list holds no
\* record of a wait that is over and no record twice, although interrupts leave
\* decided records in it.
WaitListSound ==
  /\ \A i \in 1..Len(waits) : pc[waits[i]] = "waiting"
  /\ IsInjective(waits)
  /\ \A t \in Thread : (pc[t] = "waiting" /\ outcome[t] = "stillWaiting") =>
                         Contains(waits, t)

\* A record leaves the registry only once its wait is decided: Interrupt never
\* forgets a waiter it did not wake.
InterruptDecides ==
  [][\A t \in Thread : (t \in published /\ t \notin published')
                         => outcome'[t] # "stillWaiting"]_allVars

\* One wait is decided at most once under m.mu: the deadline does not replace a
\* notify, nor a notify the deadline, although both look at the outcome first
\* and store it later.  Only an interrupt, under its own mutex, may come over
\* either.
MonitorDecidesOnce ==
  [][\A t \in Thread :
       (pc[t] # "idle" /\ outcome[t] \in {"gotNotify", "hitDeadline"})
         => outcome'[t] \in {outcome[t], "gotInterrupt"}]_allVars

\* waitRec: "outcome is written by notifiers/interrupters under m.mu".  Were it
\* so, the reason a wait ended would not be replaced while the waiter is on its
\* way out: a notify is not spent on a wait that then ends as interrupted.
OutcomeWrittenOnce ==
  [][\A t \in Thread : (pc[t] # "idle" /\ outcome[t] # "stillWaiting")
                         => outcome'[t] = outcome[t]]_allVars

\* ... and no two of them could close the channel of one record.
NoDoubleClose == \A t \in Thread : step[t] # "closedTwice"

\* ThreadRegistry gives "Interrupt a path to wake Object.wait waiters": a
\* thread asleep in wait with its flag set has an interrupt working on it.
InterruptReachesWaiter == \A t \in Thread :
  (step[t] = "asleep" /\ outcome[t] = "stillWaiting" /\ flag[t]) =>
    \E u \in Thread : step[u] \in InterruptSteps /\ target[u] = t
====
