---- MODULE JavaMonitor ----
(***************************************************************************)
(* What a Java intrinsic monitor promises (the header comment of           *)
(* kernel/monitor.go): one owner with a nesting depth, a set of waiters    *)
(* that gave the lock up, and a wake-up that hands every woken thread the  *)
(* depth it had.  No queues, channels or records: Monitor is shown to      *)
(* implement this.                                                         *)
(***************************************************************************)
EXTENDS Naturals, FiniteSets

CONSTANTS Thread, NoThread

VARIABLES owner,    \* the thread that owns the monitor, or NoThread
          count,    \* its nesting depth
          status,   \* "idle" (running code), "blocked" (wants the lock), "waiting"
          due,      \* the depth a thread gets when it next acquires the lock
          outcome   \* how each thread's latest wait ended

vars == <<owner, count, status, due, outcome>>

Reasons == {"gotNotify", "hitDeadline", "gotInterrupt"}

Waiters == {t \in Thread : status[t] = "waiting"}

Init == /\ owner = NoThread
        /\ count = 0
        /\ status = [t \in Thread |-> "idle"]
        /\ due = [t \in Thread |-> 1]
        /\ outcome = [t \in Thread |-> "stillWaiting"]

\* A thread finds the lock taken by another and blocks.
Block(t) == /\ status[t] = "idle"
            /\ owner \notin {t, NoThread}
            /\ status' = [status EXCEPT ![t] = "blocked"]
            /\ due' = [due EXCEPT ![t] = 1]
            /\ UNCHANGED <<owner, count, outcome>>

\* A thread takes the free lock: at depth 1, or at the depth a wait owes it.
Acquire(t) == /\ owner = NoThread
              /\ owner' = t
              /\ \/ /\ status[t] = "idle"
                    /\ count' = 1
                    /\ due' = [due EXCEPT ![t] = 1]
                    /\ UNCHANGED status
                 \/ /\ status[t] = "blocked"
                    /\ count' = due[t]
                    /\ status' = [status EXCEPT ![t] = "idle"]
                    /\ UNCHANGED due
              /\ UNCHANGED outcome

Nest(t) == /\ status[t] = "idle"
           /\ owner = t
           /\ count' = count + 1
           /\ due' = [due EXCEPT ![t] = 1]
           /\ UNCHANGED <<owner, status, outcome>>

Exit(t) == /\ status[t] = "idle"
           /\ owner = t
           /\ count' = count - 1
           /\ owner' = IF count = 1 THEN NoThread ELSE t
           /\ UNCHANGED <<status, due, outcome>>

\* Object.wait gives up the whole depth and remembers it.
Wait(t) == /\ status[t] = "idle"
           /\ owner = t
           /\ owner' = NoThread
           /\ count' = 0
           /\ status' = [status EXCEPT ![t] = "waiting"]
           /\ due' = [due EXCEPT ![t] = count]
           /\ outcome' = [outcome EXCEPT ![t] = "stillWaiting"]

\* The threads of S stop waiting for the reason why and contend for the lock.
Wake(S, why) == /\ S # {}
                /\ S \subseteq Waiters
                /\ status' = [t \in Thread |-> IF t \in S THEN "blocked" ELSE status[t]]
                /\ outcome' = [t \in Thread |-> IF t \in S THEN why ELSE outcome[t]]
                /\ UNCHANGED <<owner, count, due>>

\* Only the owner notifies, and it wakes one waiter or all of them.
Notify(t) == /\ owner = t
             /\ status[t] = "idle"
             /\ \/ \E w \in Waiters : Wake({w}, "gotNotify")
                \/ Wake(Waiters, "gotNotify")

Next == \E t \in Thread : \/ Block(t) \/ Acquire(t) \/ Nest(t) \/ Exit(t)
                          \/ Wait(t) \/ Notify(t)
                          \/ Wake({t}, "hitDeadline")
                          \/ Wake({t}, "gotInterrupt")

Spec == Init /\ [][Next]_vars
====
