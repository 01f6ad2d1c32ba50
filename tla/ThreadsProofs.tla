---- MODULE ThreadsProofs ----
(***************************************************************************)
(* Theorems about Threads, for every set of threads and every choice of    *)
(* starters, interrupters and readers.                                     *)
(***************************************************************************)
EXTENDS Threads, TLAPS

(* What starts, interrupts or joins has a thread to work on.                *)
Aimed == \A t \in Thread :
  pc[t] \in StartSteps \cup InterruptSteps \cup {"joinAdd", "joinRecheck", "joining"}
    => target[t] \in Thread

(* A record that was never started has no goroutine and no starter; main,   *)
(* which nobody starts, has a goroutine for good.                           *)
Started == /\ \A t \in Thread : (t # Main /\ state[t] = "new") => pc[t] = "off"
           /\ \A t, u \in Thread : (pc[t] \in StartSteps /\ target[t] = u) => state[u] # "new"
           /\ pc[Main] \notin {"off"} \cup DeathSteps

(* A record has its key before its goroutine exists.                        *)
Keyed == /\ \A t \in Thread : pc[t] # "off" => keyed[t]
         /\ \A t, u \in Thread :
              (pc[t] \in {"attach", "alive", "spawn"} /\ target[t] = u) => keyed[u]

(* What each step of Terminate leaves behind.                               *)
Dying == \A t \in Thread :
  /\ pc[t] \in {"dyingState", "dyingLatch", "dead"} => ~alive[t]
  /\ pc[t] \in {"dyingLatch", "dead"} => state[t] = "terminated"
  /\ latch[t] => pc[t] = "dead"

(* A parked thread has a channel, and a connection is published only while  *)
(* its reader reads.                                                        *)
Parked == \A t \in Thread :
  /\ pc[t] \in {"sleepRecheck", "joinRecheck", "asleep", "joining"} => sleeper[t] # "none"
  /\ pc[t] = "reading" => conn[t]

IInv == /\ TypeOK
        /\ Aimed
        /\ OneStarter
        /\ Started
        /\ Keyed
        /\ Dying
        /\ Parked
        /\ InterruptReachesSleeper
        /\ InterruptReachesReader

USE MainAssumption

LEMMA InitIInv == Init => IInv
<1> SUFFICES ASSUME Init PROVE IInv
  OBVIOUS
<1> USE DEF Init, StartSteps, InterruptSteps, DeathSteps
<1>1. TypeOK
  BY DEF TypeOK, Positions
<1>2. Aimed /\ OneStarter
  BY DEF Aimed, OneStarter
<1>3. Started /\ Keyed /\ Dying
  BY DEF Started, Keyed, Dying
<1>4. Parked /\ InterruptReachesSleeper /\ InterruptReachesReader
  BY DEF Parked, InterruptReachesSleeper, InterruptReachesReader
<1> QED BY <1>1, <1>2, <1>3, <1>4 DEF IInv

(* The positions, one by one.                                               *)
LEMMA PositionsList ==
  /\ "off" \in Positions
  /\ "run" \in Positions
  /\ "mint" \in Positions
  /\ "attach" \in Positions
  /\ "alive" \in Positions
  /\ "spawn" \in Positions
  /\ "iUnkeyed" \in Positions
  /\ "iFlag" \in Positions
  /\ "iSleeps" \in Positions
  /\ "iConn" \in Positions
  /\ "iDeadline" \in Positions
  /\ "sleepCheck" \in Positions
  /\ "sleepAdd" \in Positions
  /\ "sleepRecheck" \in Positions
  /\ "asleep" \in Positions
  /\ "joinAdd" \in Positions
  /\ "joinRecheck" \in Positions
  /\ "joining" \in Positions
  /\ "readPublish" \in Positions
  /\ "reading" \in Positions
  /\ "dying" \in Positions
  /\ "dyingState" \in Positions
  /\ "dyingLatch" \in Positions
  /\ "dead" \in Positions
BY DEF Positions, StartSteps, InterruptSteps, ParkSteps, ReadSteps, DeathSteps

(* What a thread does that neither starts another nor ends.                 *)
ParkStep(t) == \/ Interrupted(t) \/ SleepCall(t) \/ SleepCheck(t)
               \/ (\E k \in Thread : JoinCall(t, k))
               \/ AddSleeper(t) \/ Recheck(t)
               \/ ParkInterrupted(t) \/ ParkTimeout(t) \/ JoinReached(t)
ReadStep(t) == ReadCall(t) \/ ReadPublish(t) \/ ReadReturns(t)
InterruptStep(t) == \/ \E k \in Thread : Interrupt(t, k)
                    \/ InterruptUnkeyed(t) \/ InterruptFlag(t) \/ InterruptSleeps(t)
                    \/ InterruptConn(t) \/ InterruptDeadline(t)
StartStep(t) == \/ \E k \in Thread : Start(t, k)
                \/ StartMint(t) \/ StartAttach(t) \/ StartAlive(t) \/ StartSpawn(t)
EndStep(t) == RunEnds(t) \/ Terminate(t)

Step(t) == StartStep(t) \/ EndStep(t) \/ ParkStep(t) \/ ReadStep(t) \/ InterruptStep(t)

LEMMA NextIsStep == Next => \E t \in Thread : Step(t)
BY DEF Next, Step, StartStep, EndStep, ParkStep, ReadStep, InterruptStep, Terminate

(* Every step keeps the types.                                              *)
LEMMA StepTypes ==
  ASSUME TypeOK, Aimed, NEW t \in Thread, Step(t)
  PROVE  TypeOK'
<1> USE PositionsList DEF TypeOK, Goto, Aim, Done, record, parking
<1>1. ASSUME NEW k \in Thread, Start(t, k) PROVE TypeOK'
  BY <1>1 DEF Start
<1>2. CASE StartMint(t)
  BY <1>2 DEF StartMint
<1>3. CASE StartAttach(t)
  BY <1>3 DEF StartAttach
<1>4. CASE StartAlive(t)
  BY <1>4 DEF StartAlive
<1>5. CASE StartSpawn(t)
  BY <1>5 DEF StartSpawn
<1>6. CASE RunEnds(t)
  BY <1>6 DEF RunEnds
<1>7. CASE TerminateAlive(t)
  BY <1>7 DEF TerminateAlive
<1>8. CASE TerminateState(t)
  BY <1>8 DEF TerminateState
<1>9. CASE TerminateLatch(t)
  BY <1>9 DEF TerminateLatch
<1>10. CASE Interrupted(t)
  BY <1>10 DEF Interrupted
<1>11. CASE SleepCall(t)
  BY <1>11 DEF SleepCall
<1>12. CASE SleepCheck(t)
  BY <1>12 DEF SleepCheck
<1>13. ASSUME NEW k \in Thread, JoinCall(t, k) PROVE TypeOK'
  BY <1>13 DEF JoinCall
<1>14. CASE AddSleeper(t)
  BY <1>14 DEF AddSleeper
<1>15. CASE Recheck(t)
  BY <1>15 DEF Recheck
<1>16. CASE ParkInterrupted(t)
  BY <1>16 DEF ParkInterrupted, Unpark
<1>17. CASE ParkTimeout(t)
  BY <1>17 DEF ParkTimeout, Unpark
<1>18. CASE JoinReached(t)
  BY <1>18 DEF JoinReached, Unpark
<1>19. CASE ReadCall(t)
  BY <1>19 DEF ReadCall
<1>20. CASE ReadPublish(t)
  BY <1>20 DEF ReadPublish
<1>21. CASE ReadReturns(t)
  BY <1>21 DEF ReadReturns
<1>22. ASSUME NEW k \in Thread, Interrupt(t, k) PROVE TypeOK'
  <2>1. CASE keyed[k]
    BY <1>22, <2>1 DEF Interrupt
  <2>2. CASE ~keyed[k]
    BY <1>22, <2>2 DEF Interrupt
  <2> QED BY <2>1, <2>2
<1>23. CASE InterruptFlag(t)
  <2>1. flag' \in [Thread -> BOOLEAN]
    BY <1>23 DEF InterruptFlag
  <2>2. late' \in [Thread -> BOOLEAN]
    BY <1>23 DEF InterruptFlag
  <2>3. pc' \in [Thread -> Positions]
    BY <1>23 DEF InterruptFlag
  <2>4. target' \in [Thread -> Thread \cup {NoThread}]
    BY <1>23 DEF InterruptFlag
  <2> QED BY <1>23, <2>1, <2>2, <2>3, <2>4 DEF InterruptFlag
<1>24. CASE InterruptSleeps(t)
  <2>1. target[t] \in Thread
    BY <1>24 DEF Aimed, InterruptSleeps, InterruptSteps
  <2>2. sleeper[target[t]] \in {"none", "open", "closed"}
    BY <2>1
  <2>3. \E v \in {"none", "open", "closed"} : sleeper' = [sleeper EXCEPT ![target[t]] = v]
    BY <1>24, <2>2 DEF InterruptSleeps
  <2>4. sleeper' \in [Thread -> {"none", "open", "closed"}]
    BY <2>3
  <2>5. pc' \in [Thread -> Positions]
    BY <1>24 DEF InterruptSleeps
  <2> QED BY <1>24, <2>4, <2>5 DEF InterruptSleeps
<1>25. CASE InterruptConn(t)
  BY <1>25 DEF InterruptConn
<1>26. CASE InterruptDeadline(t)
  BY <1>26 DEF InterruptDeadline
<1>27. CASE InterruptUnkeyed(t)
  <2>1. flag' \in [Thread -> BOOLEAN]
    BY <1>27 DEF InterruptUnkeyed
  <2>2. late' \in [Thread -> BOOLEAN]
    BY <1>27 DEF InterruptUnkeyed
  <2> QED BY <1>27, <2>1, <2>2 DEF InterruptUnkeyed
<1> QED BY <1>1, <1>2, <1>3, <1>4, <1>5, <1>6, <1>7, <1>8, <1>9, <1>10, <1>11, <1>12, <1>13,
           <1>14, <1>15, <1>16, <1>17, <1>18, <1>19, <1>20, <1>21, <1>22, <1>23, <1>24, <1>25, <1>26, <1>27
        DEF Step, StartStep, EndStep, Terminate, ParkStep, ReadStep, InterruptStep

(* Whoever sets out to start, interrupt or join aims at a thread.           *)
LEMMA StepAims ==
  ASSUME TypeOK, Aimed, NEW t \in Thread, Step(t)
  PROVE  Aimed'
<1> USE DEF TypeOK, Aimed, StartSteps, InterruptSteps, Goto, Aim, Done, record, parking
<1>1. ASSUME NEW k \in Thread, Start(t, k) PROVE Aimed'
  BY <1>1 DEF Start
<1>2. CASE StartMint(t)
  BY <1>2 DEF StartMint
<1>3. CASE StartAttach(t)
  BY <1>3 DEF StartAttach
<1>4. CASE StartAlive(t)
  BY <1>4 DEF StartAlive
<1>5. CASE StartSpawn(t)
  BY <1>5 DEF StartSpawn
<1>6. CASE RunEnds(t)
  BY <1>6 DEF RunEnds
<1>7. CASE TerminateAlive(t)
  BY <1>7 DEF TerminateAlive
<1>8. CASE TerminateState(t)
  BY <1>8 DEF TerminateState
<1>9. CASE TerminateLatch(t)
  BY <1>9 DEF TerminateLatch
<1>10. CASE Interrupted(t)
  BY <1>10 DEF Interrupted
<1>11. CASE SleepCall(t)
  BY <1>11 DEF SleepCall
<1>12. CASE SleepCheck(t)
  BY <1>12 DEF SleepCheck
<1>13. ASSUME NEW k \in Thread, JoinCall(t, k) PROVE Aimed'
  BY <1>13 DEF JoinCall
<1>14. CASE AddSleeper(t)
  BY <1>14 DEF AddSleeper
<1>15. CASE Recheck(t)
  BY <1>15 DEF Recheck
<1>16. CASE ParkInterrupted(t)
  BY <1>16 DEF ParkInterrupted, Unpark
<1>17. CASE ParkTimeout(t)
  BY <1>17 DEF ParkTimeout, Unpark
<1>18. CASE JoinReached(t)
  BY <1>18 DEF JoinReached, Unpark
<1>19. CASE ReadCall(t)
  BY <1>19 DEF ReadCall
<1>20. CASE ReadPublish(t)
  BY <1>20 DEF ReadPublish
<1>21. CASE ReadReturns(t)
  BY <1>21 DEF ReadReturns
<1>22. ASSUME NEW k \in Thread, Interrupt(t, k) PROVE Aimed'
  BY <1>22 DEF Interrupt
<1>23. CASE InterruptFlag(t)
  BY <1>23 DEF InterruptFlag
<1>24. CASE InterruptSleeps(t)
  BY <1>24 DEF InterruptSleeps
<1>25. CASE InterruptConn(t)
  BY <1>25 DEF InterruptConn
<1>26. CASE InterruptDeadline(t)
  BY <1>26 DEF InterruptDeadline
<1>27. CASE InterruptUnkeyed(t)
  BY <1>27 DEF InterruptUnkeyed
<1> QED BY <1>1, <1>2, <1>3, <1>4, <1>5, <1>6, <1>7, <1>8, <1>9, <1>10, <1>11, <1>12, <1>13,
           <1>14, <1>15, <1>16, <1>17, <1>18, <1>19, <1>20, <1>21, <1>22, <1>23, <1>24, <1>25, <1>26, <1>27
        DEF Step, StartStep, EndStep, Terminate, ParkStep, ReadStep, InterruptStep

(* Reading, parking and interrupting change no record, and no position but  *)
(* the thread's own, which is neither a starter's nor a terminating one.    *)
LEMMA Aside ==
  ASSUME TypeOK, NEW t \in Thread, ParkStep(t) \/ ReadStep(t) \/ InterruptStep(t)
  PROVE  /\ UNCHANGED <<state, alive, keyed, attached, latch>>
         /\ pc[t] \notin {"off"} \cup StartSteps \cup DeathSteps
         /\ pc'[t] \notin {"off"} \cup StartSteps \cup DeathSteps
         /\ \A u \in Thread \ {t} : pc'[u] = pc[u] /\ target'[u] = target[u]
<1> USE DEF TypeOK, StartSteps, DeathSteps, Goto, Aim, Done, record
<1>1. CASE ParkStep(t)
  BY <1>1 DEF ParkStep, Interrupted, SleepCall, SleepCheck, JoinCall, AddSleeper, Recheck,
              ParkInterrupted, ParkTimeout, JoinReached, Unpark
<1>2. CASE ReadStep(t)
  BY <1>2 DEF ReadStep, ReadCall, ReadPublish, ReadReturns
<1>3. CASE InterruptStep(t)
  BY <1>3 DEF InterruptStep, Interrupt, InterruptUnkeyed, InterruptFlag, InterruptSleeps, InterruptConn,
              InterruptDeadline
<1> QED BY <1>1, <1>2, <1>3

(* One starter per record, through the steps of start, of Terminate and all  *)
(* others.                                                                   *)
LEMMA StepLifecycle ==
  ASSUME TypeOK, Aimed, OneStarter, Started, Keyed, Dying, NEW t \in Thread, Step(t)
  PROVE  OneStarter' /\ Started' /\ Keyed' /\ Dying'
<1> USE DEF TypeOK, OneStarter, Started, Keyed, Dying, StartSteps, DeathSteps
<1>1. ASSUME NEW k \in Thread, Start(t, k) PROVE OneStarter' /\ Started' /\ Keyed' /\ Dying'
  <2>1. /\ state' = [state EXCEPT ![k] = "running"]
        /\ target' = [target EXCEPT ![t] = k] /\ pc' = [pc EXCEPT ![t] = "mint"]
        /\ UNCHANGED <<alive, keyed, attached, latch>>
        /\ pc[t] = "run" /\ k # Main /\ state[k] = "new" /\ pc[k] = "off"
    BY <1>1 DEF Start, Aim, Goto
  <2>2. OneStarter'
    BY <2>1
  <2>3. Started'
    BY <2>1
  <2>4. Keyed'
    BY <2>1
  <2>5. Dying'
    BY <2>1
  <2> QED BY <2>2, <2>3, <2>4, <2>5
<1>2. CASE StartMint(t) \/ StartAttach(t) \/ StartAlive(t)
  <2>1. /\ UNCHANGED <<state, latch, target>>
        /\ \E p \in {"attach", "alive", "spawn"} : pc' = [pc EXCEPT ![t] = p]
        /\ pc[t] \in StartSteps
        /\ keyed' = IF pc[t] = "mint" THEN [keyed EXCEPT ![target[t]] = TRUE] ELSE keyed
        /\ alive' = IF pc[t] = "alive" THEN [alive EXCEPT ![target[t]] = TRUE] ELSE alive
        /\ target[t] \in Thread /\ pc[target[t]] = "off"
    BY <1>2 DEF Aimed, StartMint, StartAttach, StartAlive, Goto
  <2>2. OneStarter'
    BY <2>1
  <2>3. Started'
    BY <2>1
  <2>4. Keyed'
    BY <2>1
  <2>5. Dying'
    BY <2>1
  <2> QED BY <2>2, <2>3, <2>4, <2>5
<1>3. CASE StartSpawn(t)
  <2>1. /\ UNCHANGED <<state, alive, keyed, latch>>
        /\ pc' = [pc EXCEPT ![t] = "run", ![target[t]] = "run"]
        /\ target' = [target EXCEPT ![t] = NoThread]
        /\ pc[t] = "spawn" /\ target[t] \in Thread /\ pc[target[t]] = "off"
        /\ keyed[target[t]]
    BY <1>3 DEF Aimed, StartSpawn, record
  <2>2. OneStarter'
    BY <2>1
  <2>3. Started'
    BY <2>1
  <2>4. Keyed'
    BY <2>1
  <2>5. Dying'
    BY <2>1
  <2> QED BY <2>2, <2>3, <2>4, <2>5
<1>4. CASE EndStep(t)
  <2>1. /\ UNCHANGED <<keyed, target>>
        /\ \A u \in Thread \ {t} : /\ pc'[u] = pc[u] /\ state'[u] = state[u]
                                   /\ alive'[u] = alive[u] /\ latch'[u] = latch[u]
        /\ pc[t] \in {"run", "dying", "dyingState", "dyingLatch"} /\ t # Main
        /\ pc'[t] \in DeathSteps /\ state'[t] # "new"
        /\ pc'[t] \in {"dyingState", "dyingLatch", "dead"} => ~alive'[t]
        /\ pc'[t] \in {"dyingLatch", "dead"} => state'[t] = "terminated"
        /\ latch'[t] => pc'[t] = "dead"
    BY <1>4 DEF EndStep, RunEnds, Terminate, TerminateAlive, TerminateState, TerminateLatch,
                Goto, record
  <2>2. OneStarter'
    BY <2>1
  <2>3. Started'
    BY <2>1
  <2>4. Keyed'
    BY <2>1
  <2>5. Dying'
    BY <2>1
  <2> QED BY <2>2, <2>3, <2>4, <2>5
<1>5. CASE ParkStep(t) \/ ReadStep(t) \/ InterruptStep(t)
  <2>1. /\ UNCHANGED <<state, alive, keyed, latch>>
        /\ pc[t] \notin {"off"} \cup StartSteps \cup DeathSteps
        /\ pc'[t] \notin {"off"} \cup StartSteps \cup DeathSteps
        /\ \A u \in Thread \ {t} : pc'[u] = pc[u] /\ target'[u] = target[u]
    BY <1>5, Aside
  <2>2. OneStarter'
    BY <2>1
  <2>3. Started'
    BY <2>1
  <2>4. Keyed'
    BY <2>1
  <2>5. Dying'
    BY <2>1
  <2> QED BY <2>2, <2>3, <2>4, <2>5
<1> QED BY <1>1, <1>2, <1>3, <1>4, <1>5 DEF Step, StartStep

(* A parked thread has a channel, a reader a published connection.           *)
LEMMA StepParks ==
  ASSUME TypeOK, Aimed, OneStarter, Parked, NEW t \in Thread, Step(t)
  PROVE  Parked'
<1> USE DEF TypeOK, Parked, Goto, Aim, Done, record, parking
<1>1. CASE StartStep(t)
  BY <1>1 DEF StartStep, Start, StartMint, StartAttach, StartAlive, StartSpawn
<1>2. CASE EndStep(t)
  BY <1>2 DEF EndStep, RunEnds, Terminate, TerminateAlive, TerminateState, TerminateLatch
<1>3. CASE ParkStep(t)
  BY <1>3 DEF ParkStep, Interrupted, SleepCall, SleepCheck, JoinCall, AddSleeper, Recheck,
              ParkInterrupted, ParkTimeout, JoinReached, Unpark
<1>4. CASE ReadStep(t)
  BY <1>4 DEF ReadStep, ReadCall, ReadPublish, ReadReturns
<1>5. CASE InterruptStep(t)
  BY <1>5 DEF InterruptStep, Interrupt, InterruptUnkeyed, InterruptFlag, InterruptSleeps, InterruptConn,
              InterruptDeadline
<1> QED BY <1>1, <1>2, <1>3, <1>4, <1>5 DEF Step

(* What the other steps leave of the parked threads, flags and interrupters. *)
LEMMA StepReaches ==
  ASSUME TypeOK, Aimed, OneStarter, Keyed, Parked, InterruptReachesSleeper,
         InterruptReachesReader, NEW t \in Thread, Step(t)
  PROVE  InterruptReachesSleeper' /\ InterruptReachesReader'
<1> USE DEF TypeOK, InterruptReachesSleeper, InterruptReachesReader
<1>1. CASE StartStep(t) \/ EndStep(t)
  <2>1. /\ UNCHANGED <<flag, late, sleeper, early, expired>>
        /\ \A u \in Thread : /\ pc'[u] \in {"asleep", "joining", "reading"} => pc'[u] = pc[u]
                             /\ pc[u] \in {"iSleeps", "iConn", "iDeadline"} =>
                                  pc'[u] = pc[u] /\ target'[u] = target[u]
    BY <1>1 DEF OneStarter, StartSteps, Goto, Aim, parking, StartStep, EndStep, Terminate,
                Start, StartMint, StartAttach, StartAlive, StartSpawn,
                RunEnds, TerminateAlive, TerminateState, TerminateLatch
  <2> QED BY <2>1
<1>2. CASE ParkStep(t)
  <2>1. /\ UNCHANGED <<early, late, expired>>
        /\ \A u \in Thread \ {t} : /\ pc'[u] = pc[u] /\ target'[u] = target[u]
                                   /\ flag'[u] = flag[u] /\ sleeper'[u] = sleeper[u]
        /\ pc[t] \notin InterruptSteps
        /\ pc'[t] # "reading"
        /\ pc'[t] \in {"asleep", "joining"} => ~flag'[t]
    BY <1>2 DEF ParkStep, Interrupted, SleepCall, SleepCheck, JoinCall, AddSleeper, Recheck,
                ParkInterrupted, ParkTimeout, JoinReached, Unpark, Goto, Aim, Done, parking,
                InterruptSteps
  <2> QED BY <2>1 DEF InterruptSteps
<1>3. CASE ReadStep(t)
  <2>1. /\ UNCHANGED <<flag, late, sleeper, target>>
        /\ \A u \in Thread \ {t} : /\ pc'[u] = pc[u] /\ early'[u] = early[u]
                                   /\ expired'[u] = expired[u]
        /\ pc[t] \notin InterruptSteps
        /\ pc'[t] \notin {"asleep", "joining"}
        /\ pc'[t] = "reading" => early'[t] = flag'[t]
    BY <1>3 DEF ReadStep, ReadCall, ReadPublish, ReadReturns, Goto, InterruptSteps
  <2> QED BY <2>1 DEF InterruptSteps
<1>4. CASE InterruptStep(t)
  <2> USE DEF Goto, Aim, Done, parking
  <2>1. ASSUME NEW k \in Thread, Interrupt(t, k)
        PROVE  InterruptReachesSleeper' /\ InterruptReachesReader'
    <3>1. /\ UNCHANGED <<flag, late, parking>>
          /\ \A u \in Thread \ {t} : pc'[u] = pc[u] /\ target'[u] = target[u]
          /\ pc[t] = "run" /\ pc'[t] \in {"iFlag", "iUnkeyed"}
      BY <2>1 DEF Interrupt
    <3> QED BY <3>1
  <2>2. CASE InterruptFlag(t)
    BY <2>2 DEF InterruptFlag, Aimed, InterruptSteps
  <2>3. CASE InterruptSleeps(t)
    BY <2>3 DEF InterruptSleeps, Aimed, InterruptSteps, Parked
  <2>4. CASE InterruptConn(t)
    BY <2>4 DEF InterruptConn, Aimed, InterruptSteps, Parked
  <2>5. CASE InterruptDeadline(t)
    BY <2>5 DEF InterruptDeadline, Aimed, InterruptSteps
  <2>6. CASE InterruptUnkeyed(t)
    <3>1. /\ UNCHANGED <<record, parking>>
          /\ target[t] \in Thread
          /\ \A u \in Thread \ {t} : pc'[u] = pc[u] /\ target'[u] = target[u]
          /\ pc[t] = "iUnkeyed" /\ pc'[t] = "run"
      BY <2>6 DEF InterruptUnkeyed, Aimed, InterruptSteps
    <3>2. /\ \A u \in Thread \ {target[t]} : flag'[u] = flag[u] /\ late'[u] = late[u]
          /\ late'[target[t]] \/ late'[target[t]] = late[target[t]]
          /\ ~late'[target[t]] => flag[target[t]] \/ pc[target[t]] = "off"
      BY <2>6, <3>1 DEF InterruptUnkeyed
    <3> QED BY <3>1, <3>2
  <2> QED BY <1>4, <2>1, <2>2, <2>3, <2>4, <2>5, <2>6 DEF InterruptStep
<1> QED BY <1>1, <1>2, <1>3, <1>4 DEF Step

THEOREM InductiveInvariant == Spec => []IInv
<1>1. Init => IInv
  BY InitIInv
<1>2. IInv /\ [Next]_vars => IInv'
  <2> SUFFICES ASSUME IInv, [Next]_vars PROVE IInv'
    OBVIOUS
  <2>1. CASE Next
    <3>1. PICK t \in Thread : Step(t)
      BY <2>1, NextIsStep
    <3>2. TypeOK' /\ Aimed'
      BY <3>1, StepTypes, StepAims DEF IInv
    <3>3. OneStarter' /\ Started' /\ Keyed' /\ Dying'
      BY <3>1, StepLifecycle DEF IInv
    <3>4. Parked'
      BY <3>1, StepParks DEF IInv
    <3>5. InterruptReachesSleeper' /\ InterruptReachesReader'
      BY <3>1, StepReaches DEF IInv
    <3> QED BY <3>2, <3>3, <3>4, <3>5 DEF IInv
  <2>2. CASE UNCHANGED vars
    BY <2>2 DEF vars, record, parking, IInv, TypeOK, Aimed, OneStarter, Started, Keyed, Dying,
                Parked, InterruptReachesSleeper, InterruptReachesReader
  <2> QED BY <2>1, <2>2
<1> QED BY <1>1, <1>2, PTL DEF Spec

(* Types hold for every number of threads.                                   *)
THEOREM TypeCorrect == Spec => []TypeOK
BY InductiveInvariant, PTL DEF IInv

(* A record is started by one thread only, and has no goroutine before.      *)
THEOREM StartCorrect == Spec => []OneStarter
BY InductiveInvariant, PTL DEF IInv

(* A closed join latch means a dead thread.                                  *)
THEOREM LatchCorrect == Spec => []LatchMeansDead
<1>1. IInv => LatchMeansDead
  BY DEF IInv, TypeOK, Dying, LatchMeansDead
<1> QED BY <1>1, InductiveInvariant, PTL

(* No interrupt that saw the thread's key is lost around a sleep or a join.  *)
THEOREM SleeperCorrect == Spec => []InterruptReachesSleeper
BY InductiveInvariant, PTL DEF IInv

(* Nor is one of a reader, once its connection is published.                 *)
THEOREM ReaderCorrect == Spec => []InterruptReachesReader
BY InductiveInvariant, PTL DEF IInv
====
