---- MODULE Monitor ----
(***************************************************************************)
(* kernel/monitor.go: the reentrant lock, contender queue and wait set     *)
(* behind every Java object.  Each critical section under m.mu is one      *)
(* action; a thread is identified with its owner key, key 0 is NoThread.   *)
(* The channel a contender or waiter sleeps on is identified with its      *)
(* thread, which has at most one at a time; a closed contender channel is  *)
(* pc = "woken".                                                           *)
(***************************************************************************)
EXTENDS Integers, SequencesExt

CONSTANTS
  Thread,     \* owner keys of the threads that use the monitor
  NoThread,   \* key 0
  MaxDepth    \* bound: nesting depth an Enter may reach

ASSUME NoThreadAssumption == NoThread \notin Thread
ASSUME MaxDepthAssumption == MaxDepth \in Nat \ {0}

VARIABLES
  owner,    \* Monitor.owner
  count,    \* Monitor.count
  parked,   \* Monitor.parked: contenders, first in first out
  waits,    \* Monitor.waits: the threads whose records are in the wait list
  outcome,  \* waitRec.outcome of each thread's latest record
  pc,       \* where each thread is in the monitor's code
  due,      \* the depth argument of the enterDepth or reenter call in progress
  timed,    \* the latest wait of the thread has a timeout
  held      \* history: the depth the thread's own code has entered and not left

lockVars == <<owner, count, parked>>
waitVars == <<waits, outcome, timed>>
vars == <<owner, count, parked, waits, outcome, pc, due, timed, held>>

Outcomes == {"stillWaiting", "gotNotify", "hitDeadline", "gotInterrupt"}

\* "idle": running Java code.   "parked": blocked on its contender channel.
\* "woken": that channel is closed, the retry is yet to run.
\* "waiting": in the loop of Wait.   "reenter": past removeWait.
Positions == {"idle", "parked", "woken", "waiting", "reenter"}

Init == /\ owner = NoThread
        /\ count = 0
        /\ parked = <<>>
        /\ waits = <<>>
        /\ outcome = [t \in Thread |-> "stillWaiting"]
        /\ pc = [t \in Thread |-> "idle"]
        /\ due = [t \in Thread |-> 1]
        /\ timed = [t \in Thread |-> FALSE]
        /\ held = [t \in Thread |-> 0]

----
\* One pass of the loop shared by enterDepth and reenter: take the free lock,
\* nest in the own one, or queue behind another owner.
TryAcquire(t, depth) ==
  \/ /\ owner = NoThread
     /\ owner' = t
     /\ count' = depth
     /\ pc' = [pc EXCEPT ![t] = "idle"]
     /\ UNCHANGED parked
  \/ /\ owner = t
     /\ count' = count + depth
     /\ pc' = [pc EXCEPT ![t] = "idle"]
     /\ UNCHANGED <<owner, parked>>
  \/ /\ owner \notin {t, NoThread}
     /\ parked' = Append(parked, t)
     /\ pc' = [pc EXCEPT ![t] = "parked"]
     /\ UNCHANGED <<owner, count>>

\* Mutant: a release that leaves the queue alone.
ReleaseWithoutHandoff(at) == /\ owner' = NoThread
                             /\ count' = 0
                             /\ pc' = at
                             /\ UNCHANGED parked

\* Mutant: a release that drops the head of the queue without waking it.
ReleaseDroppingHead(at) == /\ owner' = NoThread
                           /\ count' = 0
                           /\ parked' = IF parked = <<>> THEN parked ELSE Tail(parked)
                           /\ pc' = at

\* releaseLocked, with the caller's own move given as the function at.
ReleaseLocked(at) ==
  /\ owner' = NoThread
  /\ count' = 0
  /\ IF parked = <<>>
     THEN pc' = at /\ UNCHANGED parked
     ELSE /\ parked' = Tail(parked)
          /\ pc' = [at EXCEPT ![Head(parked)] = "woken"]

----
Enter(t) ==
  /\ pc[t] = "idle"
  /\ owner = t => count < MaxDepth
  /\ TryAcquire(t, 1)
  /\ due' = [due EXCEPT ![t] = 1]
  /\ held' = [held EXCEPT ![t] = @ + 1]
  /\ UNCHANGED waitVars

\* A woken contender locks m.mu again and goes round the loop.
Retry(t) ==
  /\ pc[t] = "woken"
  /\ TryAcquire(t, due[t])
  /\ UNCHANGED <<waitVars, due, held>>

\* Exit by a thread that is not the owner returns ErrNotMonitorOwner and
\* changes nothing.
Exit(t) ==
  /\ pc[t] = "idle"
  /\ owner = t
  /\ IF count - 1 > 0
     THEN count' = count - 1 /\ UNCHANGED <<owner, parked, pc>>
     ELSE ReleaseLocked(pc)
  /\ held' = [held EXCEPT ![t] = @ - 1]
  /\ UNCHANGED <<waitVars, due>>

\* Wait up to its first m.mu.Unlock.  publishWait, which follows, and the
\* deferred retractWait are WaitInterrupt's.
Wait(t) ==
  /\ pc[t] = "idle"
  /\ owner = t
  /\ due' = [due EXCEPT ![t] = count]
  /\ outcome' = [outcome EXCEPT ![t] = "stillWaiting"]
  /\ waits' = Append(waits, t)
  /\ \E b \in BOOLEAN : timed' = [timed EXCEPT ![t] = b]
  /\ ReleaseLocked([pc EXCEPT ![t] = "waiting"])
  /\ UNCHANGED held

\* Mutant: the deadline arm without the removal of the record.
DeadlineKeepsRecord(t) ==
  /\ pc[t] = "waiting"
  /\ timed[t]
  /\ outcome[t] = "stillWaiting"
  /\ outcome' = [outcome EXCEPT ![t] = "hitDeadline"]
  /\ UNCHANGED <<lockVars, waits, pc, due, timed, held>>

\* Mutant: the deadline arm without the second look at the outcome.
DeadlineWithoutRecheck(t) ==
  /\ pc[t] = "waiting"
  /\ timed[t]
  /\ outcome' = [outcome EXCEPT ![t] = "hitDeadline"]
  /\ waits' = RemoveFirst(waits, t)
  /\ UNCHANGED <<lockVars, pc, due, timed, held>>

\* The deadline arm of Wait's select.
Deadline(t) ==
  /\ pc[t] = "waiting"
  /\ timed[t]
  /\ outcome[t] = "stillWaiting"
  /\ outcome' = [outcome EXCEPT ![t] = "hitDeadline"]
  /\ waits' = RemoveFirst(waits, t)
  /\ UNCHANGED <<lockVars, pc, due, timed, held>>

\* The loop of Wait ends on an outcome; removeWait.
RemoveWait(t) ==
  /\ pc[t] = "waiting"
  /\ outcome[t] # "stillWaiting"
  /\ waits' = RemoveFirst(waits, t)
  /\ pc' = [pc EXCEPT ![t] = "reenter"]
  /\ UNCHANGED <<lockVars, outcome, due, timed, held>>

\* Mutant: a reacquisition that forgets the depth.
ReenterAtDepthOne(t) ==
  /\ pc[t] = "reenter"
  /\ TryAcquire(t, 1)
  /\ UNCHANGED <<waitVars, due, held>>

Reenter(t) ==
  /\ pc[t] = "reenter"
  /\ TryAcquire(t, due[t])
  /\ UNCHANGED <<waitVars, due, held>>

\* The record at position i is the first one Notify's scan accepts.
FirstWaiting(i) == /\ outcome[waits[i]] = "stillWaiting"
                   /\ \A j \in 1..(i - 1) : outcome[waits[j]] # "stillWaiting"

\* Mutant: Notify without the ownership check.
NotifyByAnyone(t) ==
  /\ pc[t] = "idle"
  /\ \E i \in 1..Len(waits) :
       /\ FirstWaiting(i)
       /\ outcome' = [outcome EXCEPT ![waits[i]] = "gotNotify"]
       /\ waits' = RemoveAt(waits, i)
  /\ UNCHANGED <<lockVars, pc, due, timed, held>>

Notify(t) ==
  /\ pc[t] = "idle"
  /\ owner = t
  /\ \E i \in 1..Len(waits) :
       /\ FirstWaiting(i)
       /\ outcome' = [outcome EXCEPT ![waits[i]] = "gotNotify"]
       /\ waits' = RemoveAt(waits, i)
  /\ UNCHANGED <<lockVars, pc, due, timed, held>>

NotifyAll(t) ==
  /\ pc[t] = "idle"
  /\ owner = t
  /\ waits # <<>>
  /\ outcome' = [w \in Thread |->
                   IF /\ Contains(waits, w)
                      /\ outcome[w] = "stillWaiting"
                   THEN "gotNotify" ELSE outcome[w]]
  /\ waits' = <<>>
  /\ UNCHANGED <<lockVars, pc, due, timed, held>>

\* The monitor's own way to interrupt the waits of key, under m.mu.  Only
\* monitor_test.go calls it: Thread.interrupt goes through the registry, which
\* decides under another mutex, and that is WaitInterrupt's.
InterruptWaiters(key) ==
  /\ Contains(waits, key)
  /\ outcome[key] = "stillWaiting"
  /\ outcome' = [outcome EXCEPT ![key] = "gotInterrupt"]
  /\ waits' = RemoveFirst(waits, key)
  /\ UNCHANGED <<lockVars, pc, due, timed, held>>

Next == \E t \in Thread :
          \/ Enter(t) \/ Retry(t) \/ Exit(t)
          \/ Wait(t) \/ Deadline(t) \/ RemoveWait(t) \/ Reenter(t)
          \/ Notify(t) \/ NotifyAll(t) \/ InterruptWaiters(t)

\* A runnable goroutine is scheduled: a closed channel's receiver goes on, a
\* thread past its wait tries to reenter, an armed timer fires.
Fairness == \A t \in Thread : /\ WF_vars(Retry(t))
                              /\ WF_vars(RemoveWait(t))
                              /\ WF_vars(Reenter(t))
                              /\ WF_vars(Deadline(t))

Spec == Init /\ [][Next]_vars
FairSpec == Spec /\ Fairness

----
\* Types of the variables; the bounds on count and due are MaxDepth's.
TypeOK == /\ owner \in Thread \cup {NoThread}
          /\ count \in 0..MaxDepth
          /\ parked \in Seq(Thread)
          /\ waits \in Seq(Thread)
          /\ outcome \in [Thread -> Outcomes]
          /\ pc \in [Thread -> Positions]
          /\ due \in [Thread -> 1..MaxDepth]
          /\ timed \in [Thread -> BOOLEAN]
          /\ held \in [Thread -> 0..MaxDepth]

\* What each thread's own code believes about its nesting is what the monitor
\* records: at most one thread is inside, only a running one, wait gives back
\* exactly the depth it released, and nobody else's Exit takes a level away.
DepthAgreement ==
  /\ owner = NoThread <=> count = 0
  /\ \A t \in Thread : IF pc[t] = "idle"
                       THEN held[t] = IF owner = t THEN count ELSE 0
                       ELSE owner # t /\ held[t] = due[t]

\* A free monitor with contenders in its queue has one on its way to retry: no
\* release, barging acquisition or re-parking loses the wake-up.
HandoffInFlight == (owner = NoThread /\ parked # <<>>) =>
                     \E t \in Thread : pc[t] = "woken"

\* The wait list holds exactly one record for each thread that still waits, so
\* a notify is never spent on a wait that has ended.
WaitListExact == /\ \A t \in Thread :
                      Contains(waits, t) <=>
                      (pc[t] = "waiting" /\ outcome[t] = "stillWaiting")
                 /\ IsInjective(waits)

\* A queued contender is blocked on the channel in the queue, once: closing
\* the head's channel wakes a thread that is really there.
ParkedExact == /\ \A t \in Thread :
                    Contains(parked, t) <=> pc[t] = "parked"
               /\ IsInjective(parked)

\* A free lock somebody wants is taken: the thread a release woke, one that is
\* back from a wait, or a barging one.
LockProgress == (owner = NoThread /\ \E t \in Thread : pc[t] \in {"parked", "woken", "reenter"})
                  ~> owner # NoThread

----
\* A thread whose outcome is decided has left the abstract wait set although
\* its record's owner is still on its way through Wait.
AbstractStatus == [t \in Thread |->
                     CASE pc[t] = "idle" -> "idle"
                       [] pc[t] = "waiting" /\ outcome[t] = "stillWaiting" -> "waiting"
                       [] OTHER -> "blocked"]

Abstract == INSTANCE JavaMonitor WITH status <- AbstractStatus

\* Every step of the monitor is a step of the Java monitor or invisible to it.
ImplementsJavaMonitor == Abstract!Spec
====
