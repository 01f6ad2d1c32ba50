---- MODULE Threads ----
(***************************************************************************)
(* Java threads: the records of kernel/thread.go and the natives on them.  *)
(* start() in its five steps, interrupt() in its steps, the two-check park *)
(* of sleep() and join(), the interruptible socket read of kernel/net.go,  *)
(* and termination as vm/spawn.go runs it.  Every thread here has a        *)
(* record; Object.wait is module WaitInterrupt's.                          *)
(***************************************************************************)
EXTENDS Naturals, FiniteSets

CONSTANTS
  Thread,        \* the Java threads
  Main,          \* the primordial thread, registered by vm.New
  NoThread,
  Starter,       \* bound: the threads whose programs call start
  Interrupter,   \* bound: the threads whose programs call interrupt
  Reader         \* bound: the threads whose programs read a socket

ASSUME MainAssumption == Main \in Thread /\ NoThread \notin Thread

VARIABLES
  state,     \* JThread.state
  alive,     \* JThread.alive
  keyed,     \* JThread.Key # 0
  attached,  \* the record is in ThreadRegistry.byID
  flag,      \* JThread.interrupted
  latch,     \* joinLatch is closed
  sleeper,   \* the thread's sleepRec: "none", "open", or "closed" by interrupt
  conn,      \* JThread.netConn is set (each thread reads a socket of its own)
  expired,   \* that connection's deadline is in the past
  early,     \* history: the flag was already set when the reader published conn
  late,      \* history: the flag was set by an interrupt that took a thread with
             \* a goroutine for an unstarted one
  pc,        \* where the thread's goroutine is
  target     \* the thread that start, interrupt or join works on

record == <<state, alive, keyed, attached, latch>>
parking == <<sleeper, conn, expired, early>>
vars == <<record, flag, late, parking, pc, target>>

StartSteps == {"mint", "attach", "alive", "spawn"}
InterruptSteps == {"iUnkeyed", "iFlag", "iSleeps", "iConn", "iDeadline"}
ParkSteps == {"sleepCheck", "sleepAdd", "sleepRecheck", "asleep",
              "joinAdd", "joinRecheck", "joining"}
ReadSteps == {"readPublish", "reading"}
DeathSteps == {"dying", "dyingState", "dyingLatch", "dead"}
Positions == {"off", "run"} \cup StartSteps \cup InterruptSteps
             \cup ParkSteps \cup ReadSteps \cup DeathSteps

\* vm.New registers main with its key; its record stays in state new and not
\* alive for the whole run.
Init == /\ state = [t \in Thread |-> "new"]
        /\ alive = [t \in Thread |-> FALSE]
        /\ keyed = [t \in Thread |-> t = Main]
        /\ attached = [t \in Thread |-> t = Main]
        /\ flag = [t \in Thread |-> FALSE]
        /\ latch = [t \in Thread |-> FALSE]
        /\ sleeper = [t \in Thread |-> "none"]
        /\ conn = [t \in Thread |-> FALSE]
        /\ expired = [t \in Thread |-> FALSE]
        /\ early = [t \in Thread |-> FALSE]
        /\ late = [t \in Thread |-> FALSE]
        /\ pc = [t \in Thread |-> IF t = Main THEN "run" ELSE "off"]
        /\ target = [t \in Thread |-> NoThread]

Goto(t, p) == pc' = [pc EXCEPT ![t] = p]
Aim(t, k, p) == target' = [target EXCEPT ![t] = k] /\ Goto(t, p)
Done(t) == Aim(t, NoThread, "run")

----
\* Mutant: a test of the state and a store instead of the compare-and-swap.
StartWithoutCas(t, k) == /\ pc[t] = "run"
                         /\ t \in Starter
                         /\ k # Main
                         /\ state[k] # "terminated"
                         /\ state' = [state EXCEPT ![k] = "running"]
                         /\ Aim(t, k, "mint")
                         /\ UNCHANGED <<alive, keyed, attached, latch, flag, late, parking>>

\* natThreadStart: the compare-and-swap from new to running decides who starts
\* the thread; a loser gets IllegalThreadStateException and changes nothing.
Start(t, k) == /\ pc[t] = "run"
               /\ t \in Starter
               /\ k # Main
               /\ state[k] = "new"
               /\ state' = [state EXCEPT ![k] = "running"]
               /\ Aim(t, k, "mint")
               /\ UNCHANGED <<alive, keyed, attached, latch, flag, late, parking>>

StartMint(t) == /\ pc[t] = "mint"
                /\ keyed' = [keyed EXCEPT ![target[t]] = TRUE]
                /\ Goto(t, "attach")
                /\ UNCHANGED <<state, alive, attached, latch, flag, late, parking, target>>

StartAttach(t) == /\ pc[t] = "attach"
                  /\ attached' = [attached EXCEPT ![target[t]] = TRUE]
                  /\ Goto(t, "alive")
                  /\ UNCHANGED <<state, alive, keyed, latch, flag, late, parking, target>>

\* Mutant: the goroutine is spawned first, alive is stored after it.
SpawnBeforeAlive(t) ==
  /\ pc[t] = "alive"
  /\ IF pc[target[t]] = "off"
     THEN pc' = [pc EXCEPT ![target[t]] = "run"] /\ UNCHANGED <<alive, target>>
     ELSE alive' = [alive EXCEPT ![target[t]] = TRUE] /\ Done(t)
  /\ UNCHANGED <<state, keyed, attached, latch, flag, late, parking>>

StartAlive(t) == /\ pc[t] = "alive"
                 /\ alive' = [alive EXCEPT ![target[t]] = TRUE]
                 /\ Goto(t, "spawn")
                 /\ UNCHANGED <<state, keyed, attached, latch, flag, late, parking, target>>

\* SpawnJavaThread: the goroutine runs, and start returns.
StartSpawn(t) == /\ pc[t] = "spawn"
                 /\ pc' = [pc EXCEPT ![t] = "run", ![target[t]] = "run"]
                 /\ target' = [target EXCEPT ![t] = NoThread]
                 /\ UNCHANGED <<record, flag, late, parking>>

\* runJavaThread: run() returned, threw or panicked; the deferred Terminate.
\* Main's end is the end of the process.
RunEnds(t) == /\ pc[t] = "run"
              /\ t # Main
              /\ Goto(t, "dying")
              /\ UNCHANGED <<record, flag, late, parking, target>>

TerminateAlive(t) == /\ pc[t] = "dying"
                     /\ alive' = [alive EXCEPT ![t] = FALSE]
                     /\ Goto(t, "dyingState")
                     /\ UNCHANGED <<state, keyed, attached, latch, flag, late, parking, target>>

TerminateState(t) == /\ pc[t] = "dyingState"
                     /\ state' = [state EXCEPT ![t] = "terminated"]
                     /\ Goto(t, "dyingLatch")
                     /\ UNCHANGED <<alive, keyed, attached, latch, flag, late, parking, target>>

\* Mutant: a termination that leaves the latch open.
LatchLeftOpen(t) == /\ pc[t] = "dyingLatch"
                    /\ Goto(t, "dead")
                    /\ UNCHANGED <<record, flag, late, parking, target>>

TerminateLatch(t) == /\ pc[t] = "dyingLatch"
                     /\ latch' = [latch EXCEPT ![t] = TRUE]
                     /\ Goto(t, "dead")
                     /\ UNCHANGED <<state, alive, keyed, attached, flag, late, parking, target>>

----
\* InterruptByKey reads the key, with no lock.
Interrupt(t, k) == /\ pc[t] = "run"
                   /\ t \in Interrupter
                   /\ Aim(t, k, IF keyed[k] THEN "iFlag" ELSE "iUnkeyed")
                   /\ UNCHANGED <<record, flag, late, parking>>

\* A record whose key was 0 only gets the flag, whether or not its thread was
\* started in the meantime.
InterruptUnkeyed(t) ==
  /\ pc[t] = "iUnkeyed"
  /\ flag' = [flag EXCEPT ![target[t]] = TRUE]
  /\ late' = IF flag[target[t]] \/ pc[target[t]] = "off" THEN late
             ELSE [late EXCEPT ![target[t]] = TRUE]
  /\ Done(t)
  /\ UNCHANGED <<record, parking>>

\* Interrupt: a key the registry does not know yet loses the interrupt.
InterruptFlag(t) == /\ pc[t] = "iFlag"
                    /\ IF attached[target[t]]
                       THEN /\ flag' = [flag EXCEPT ![target[t]] = TRUE]
                            /\ late' = [late EXCEPT ![target[t]] = FALSE]
                            /\ Goto(t, "iSleeps")
                            /\ UNCHANGED target
                       ELSE Done(t) /\ UNCHANGED <<flag, late>>
                    /\ UNCHANGED <<record, parking>>

\* interruptSleeps, under j.mu: it closes the channels of the sleeps in progress
\* and takes them off the map, so none is closed twice.
InterruptSleeps(t) == /\ pc[t] = "iSleeps"
                      /\ sleeper' = [sleeper EXCEPT
                                       ![target[t]] = IF @ = "open" THEN "closed" ELSE @]
                      /\ Goto(t, "iConn")
                      /\ UNCHANGED <<record, flag, late, conn, expired, early, target>>

InterruptConn(t) == /\ pc[t] = "iConn"
                    /\ IF conn[target[t]]
                       THEN Goto(t, "iDeadline") /\ UNCHANGED target
                       ELSE Done(t)
                    /\ UNCHANGED <<record, flag, late, parking>>

\* SetDeadline(now) on the connection loaded before.
InterruptDeadline(t) == /\ pc[t] = "iDeadline"
                        /\ expired' = [expired EXCEPT ![target[t]] = TRUE]
                        /\ Done(t)
                        /\ UNCHANGED <<record, flag, late, sleeper, conn, early>>

\* Thread.interrupted().
Interrupted(t) == /\ pc[t] = "run"
                  /\ flag[t]
                  /\ flag' = [flag EXCEPT ![t] = FALSE]
                  /\ UNCHANGED <<record, parking, pc, target, late>>

----
\* natStaticSleep: ClearInterrupted first, InterruptedException when it was set.
SleepCall(t) == /\ pc[t] = "run"
                /\ flag' = [flag EXCEPT ![t] = FALSE]
                /\ IF flag[t] THEN UNCHANGED pc ELSE Goto(t, "sleepCheck")
                /\ UNCHANGED <<record, parking, target, late>>

\* Sleep's own look at the flag.
SleepCheck(t) == /\ pc[t] = "sleepCheck"
                 /\ flag' = [flag EXCEPT ![t] = FALSE]
                 /\ Goto(t, IF flag[t] THEN "run" ELSE "sleepAdd")
                 /\ UNCHANGED <<record, parking, target, late>>

\* Join: the caller's flag first.
JoinCall(t, k) == /\ pc[t] = "run"
                  /\ flag' = [flag EXCEPT ![t] = FALSE]
                  /\ IF flag[t] THEN UNCHANGED <<pc, target>> ELSE Aim(t, k, "joinAdd")
                  /\ UNCHANGED <<record, parking, late>>

\* addSleeper, for Sleep and Join alike.
AddSleeper(t) == /\ pc[t] \in {"sleepAdd", "joinAdd"}
                 /\ sleeper' = [sleeper EXCEPT ![t] = "open"]
                 /\ Goto(t, IF pc[t] = "sleepAdd" THEN "sleepRecheck" ELSE "joinRecheck")
                 /\ UNCHANGED <<record, flag, late, conn, expired, early, target>>

\* Mutant: no second look at the flag.
ParkWithoutRecheck(t) ==
  /\ pc[t] \in {"sleepRecheck", "joinRecheck"}
  /\ Goto(t, IF pc[t] = "sleepRecheck" THEN "asleep" ELSE "joining")
  /\ UNCHANGED <<record, flag, late, parking, target>>

\* The second look, after registration; a set flag ends the operation.
Recheck(t) == /\ pc[t] \in {"sleepRecheck", "joinRecheck"}
              /\ flag' = [flag EXCEPT ![t] = FALSE]
              /\ IF flag[t]
                 THEN Done(t) /\ sleeper' = [sleeper EXCEPT ![t] = "none"]
                 ELSE /\ Goto(t, IF pc[t] = "sleepRecheck" THEN "asleep" ELSE "joining")
                      /\ UNCHANGED <<sleeper, target>>
              /\ UNCHANGED <<record, conn, expired, early, late>>

\* The select returns and the deferred removeSleeper runs.
Unpark(t) == /\ Done(t)
             /\ sleeper' = [sleeper EXCEPT ![t] = "none"]
             /\ UNCHANGED <<record, flag, late, conn, expired, early>>

\* The interrupt's channel: InterruptedException, with the flag as it is.
ParkInterrupted(t) == /\ pc[t] \in {"asleep", "joining"}
                      /\ sleeper[t] = "closed"
                      /\ Unpark(t)

\* The timer of a sleep or of a join with a timeout.
ParkTimeout(t) == /\ pc[t] \in {"asleep", "joining"}
                  /\ Unpark(t)

JoinReached(t) == /\ pc[t] = "joining"
                  /\ latch[target[t]]
                  /\ Unpark(t)

----
\* natStreamReadB: clear a stale deadline, publish the connection, read.
ReadCall(t) == /\ pc[t] = "run"
               /\ t \in Reader
               /\ expired' = [expired EXCEPT ![t] = FALSE]
               /\ Goto(t, "readPublish")
               /\ UNCHANGED <<record, flag, late, sleeper, conn, early, target>>

\* Mutant: the connection is published before its deadline is cleared.
PublishThenClear(t) ==
  /\ pc[t] = "readPublish"
  /\ IF ~conn[t]
     THEN /\ conn' = [conn EXCEPT ![t] = TRUE]
          /\ early' = [early EXCEPT ![t] = flag[t]]
          /\ UNCHANGED <<expired, pc>>
     ELSE /\ expired' = [expired EXCEPT ![t] = FALSE]
          /\ Goto(t, "reading")
          /\ UNCHANGED <<conn, early>>
  /\ UNCHANGED <<record, flag, late, sleeper, target>>

ReadPublish(t) == /\ pc[t] = "readPublish"
                  /\ conn' = [conn EXCEPT ![t] = TRUE]
                  /\ early' = [early EXCEPT ![t] = flag[t]]
                  /\ Goto(t, "reading")
                  /\ UNCHANGED <<record, flag, late, sleeper, expired, target>>

\* Bytes, the end of the stream or an error arrive, or the deadline has passed
\* (InterruptedIOException when the flag is set, end of stream when it is not);
\* the deferred Store(nil) runs.
ReadReturns(t) == /\ pc[t] = "reading"
                  /\ conn' = [conn EXCEPT ![t] = FALSE]
                  /\ early' = [early EXCEPT ![t] = FALSE]
                  /\ Goto(t, "run")
                  /\ UNCHANGED <<record, flag, late, sleeper, expired, target>>

Next == \E t \in Thread :
  \/ (\E k \in Thread : Start(t, k) \/ Interrupt(t, k) \/ JoinCall(t, k))
  \/ StartMint(t) \/ StartAttach(t) \/ StartAlive(t) \/ StartSpawn(t)
  \/ RunEnds(t) \/ TerminateAlive(t) \/ TerminateState(t) \/ TerminateLatch(t)
  \/ InterruptUnkeyed(t) \/ InterruptFlag(t) \/ InterruptSleeps(t)
  \/ InterruptConn(t) \/ InterruptDeadline(t)
  \/ Interrupted(t)
  \/ SleepCall(t) \/ SleepCheck(t) \/ AddSleeper(t) \/ Recheck(t)
  \/ ParkInterrupted(t) \/ ParkTimeout(t) \/ JoinReached(t)
  \/ ReadCall(t) \/ ReadPublish(t) \/ ReadReturns(t)

Terminate(t) == TerminateAlive(t) \/ TerminateState(t) \/ TerminateLatch(t)

\* A terminating thread goes through its deferred Terminate, and a goroutine
\* whose join latch is closed is scheduled.  Nothing is assumed of the programs,
\* the timers or the network.
Fairness == \A t \in Thread : WF_vars(Terminate(t)) /\ WF_vars(JoinReached(t))

Spec == Init /\ [][Next]_vars
FairSpec == Spec /\ Fairness

----
\* Types of the variables.
TypeOK == /\ state \in [Thread -> {"new", "running", "terminated"}]
          /\ alive \in [Thread -> BOOLEAN]
          /\ keyed \in [Thread -> BOOLEAN]
          /\ attached \in [Thread -> BOOLEAN]
          /\ flag \in [Thread -> BOOLEAN]
          /\ latch \in [Thread -> BOOLEAN]
          /\ sleeper \in [Thread -> {"none", "open", "closed"}]
          /\ conn \in [Thread -> BOOLEAN]
          /\ expired \in [Thread -> BOOLEAN]
          /\ early \in [Thread -> BOOLEAN]
          /\ late \in [Thread -> BOOLEAN]
          /\ pc \in [Thread -> Positions]
          /\ target \in [Thread -> Thread \cup {NoThread}]

\* However many threads race to start one record, one of them goes through the
\* steps of start, and the thread has no goroutine before that one spawns it.
OneStarter == \A t, u \in Thread :
  (pc[t] \in StartSteps /\ target[t] = u) =>
    /\ pc[u] = "off"
    /\ \A v \in Thread : (pc[v] \in StartSteps /\ target[v] = u) => v = t

\* A closed join latch means a dead thread for good: whoever joined sees
\* isAlive() false and TERMINATED, however late the starter's own steps are.
LatchMeansDead == \A t \in Thread :
  latch[t] => state[t] = "terminated" /\ ~alive[t] /\ pc[t] = "dead"

\* The flag and the wake of a started thread come together: whoever is parked in
\* a sleep or join with its flag set has its channel closed, or an interrupt about
\* to close it.  thread.go's comment on InterruptByKey says so; the key is read
\* before the flag is stored, and start() may come between.
StartedAreWoken == \A t \in Thread :
  (pc[t] \in {"asleep", "joining"} /\ flag[t] /\ sleeper[t] # "closed") =>
    \E u \in Thread : pc[u] = "iSleeps" /\ target[u] = t

\* The same of every interrupt that saw the thread's key: the check before and
\* the one after registration lose none of them.  The interrupts that read no key
\* and store the flag of a running thread (late) are the ones left out.
InterruptReachesSleeper == \A t \in Thread :
  (pc[t] \in {"asleep", "joining"} /\ flag[t] /\ ~late[t] /\ sleeper[t] # "closed") =>
    \E u \in Thread : pc[u] = "iSleeps" /\ target[u] = t

\* A reader interrupted while its connection is published is let go: the
\* deadline is in the past or an interrupt is on its way to put it there.  (An
\* interrupt before the publication is not covered, early, nor one that read no
\* key, late.)
InterruptReachesReader == \A t \in Thread :
  (pc[t] = "reading" /\ flag[t] /\ ~early[t] /\ ~late[t] /\ ~expired[t]) =>
    \E u \in Thread : /\ pc[u] \in {"iSleeps", "iConn", "iDeadline"}
                      /\ target[u] = t

\* A join on a thread whose run has ended comes back.
JoinEnds == \A t \in Thread :
  (pc[t] = "joining" /\ pc[target[t]] \in DeathSteps) ~> pc[t] # "joining"
====
