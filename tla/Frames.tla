---- MODULE Frames ----
(***************************************************************************)
(* The Java call stack of each thread, across the interpreter              *)
(* (vm/interp.go), emitted bodies (genrt) and natives: what a call enters  *)
(* (synchronized method, depth meter, stack-trace frame) and what a        *)
(* return, an exception or a StackOverflowError leaves again.  Monitors    *)
(* are as module JavaMonitor promises.                                     *)
(***************************************************************************)
EXTENDS Naturals, FiniteSetsExt, SequencesExt

CONSTANTS
  Thread, NoThread,
  Method,
  Object,     \* objects and classes that are locked
  NoObject,
  Engine,     \* what runs each method: "interp", "emitted" or "native"
  SyncOn,     \* the object a synchronized method locks, else NoObject
  Catchers,   \* methods with a catch around their whole body
  Throwers,   \* bound: methods that throw, or use a class whose <clinit> does
  Blocks,     \* bound: how deep a method nests synchronized blocks
  MaxFrames,  \* Options.MaxFrames
  MaxStack,   \* bound: calls on a stack
  MaxMeter    \* bound: no calls by a thread whose meter is beyond

ASSUME NamesAssumption == NoThread \notin Thread /\ NoObject \notin Object
ASSUME MethodAssumption == /\ Engine \in [Method -> {"interp", "emitted", "native"}]
                           /\ SyncOn \in [Method -> Object \cup {NoObject}]
                           /\ Blocks \in [Method -> Nat]
                           /\ \A m \in Method : Engine[m] = "native" => Blocks[m] = 0
ASSUME BoundsAssumption == /\ Catchers \subseteq Method /\ Throwers \subseteq Method
                           /\ MaxFrames \in Nat /\ MaxStack \in Nat /\ MaxMeter \in Nat

VARIABLES
  lock,    \* each object's monitor: its owner and depth
  stack,   \* each thread's calls, innermost last
  depth,   \* vm.Thread.depth
  jstack,  \* vm.Thread.jstack, the methods of the stack trace
  exc      \* the exception in flight in the innermost call

vars == <<lock, stack, depth, jstack, exc>>

\* sync: the object the caller locked for the call.  blocks: the objects its
\* synchronized blocks hold.  metered: the ExitFrames it has deferred.
Call == [m : Method, sync : Object \cup {NoObject}, blocks : Seq(Object), metered : 0..2]

\* "thrown" looks for a handler in the innermost call; "athrow" does not.
Exceptions == {"none", "thrown", "athrow"}

Init == /\ lock = [o \in Object |-> [owner |-> NoThread, depth |-> 0]]
        /\ stack = [t \in Thread |-> <<>>]
        /\ depth = [t \in Thread |-> 0]
        /\ jstack = [t \in Thread |-> <<>>]
        /\ exc = [t \in Thread |-> "none"]

Free(t, o) == o # NoObject => lock[o].owner \in {NoThread, t}
Entered(l, t, o) ==
  IF o = NoObject THEN l ELSE [l EXCEPT ![o] = [owner |-> t, depth |-> @.depth + 1]]
Exited(l, o) ==
  IF o = NoObject THEN l
  ELSE [l EXCEPT ![o] = [owner |-> IF @.depth = 1 THEN NoThread ELSE @.owner,
                         depth |-> @.depth - 1]]

Runs(t) == stack[t] # <<>> /\ exc[t] = "none"
Top(t) == Last(stack[t])
EngineOf(t) == IF stack[t] = <<>> THEN "go" ELSE Engine[Top(t).m]

\* The meters a call passes: invokeChecked's in an emitted caller, and
\* InvokeInterpreted's when the callee is interpreted.
Metered(caller, m) == (IF caller = "emitted" THEN 1 ELSE 0) +
                      (IF Engine[m] = "interp" THEN 1 ELSE 0)

\* Only the interpreter's invoke instructions lock for a synchronized method.
SyncFor(caller, m) == IF caller = "interp" THEN SyncOn[m] ELSE NoObject

\* A call may be made: by a thread that starts, or by a call that runs.
CanCall(t, m) == /\ stack[t] = <<>> \/ Runs(t)
                 /\ Len(stack[t]) < MaxStack
                 /\ depth[t] <= MaxMeter
                 /\ Free(t, SyncFor(EngineOf(t), m))

Overflows(t, m) == Metered(EngineOf(t), m) > 0 /\ depth[t] + Metered(EngineOf(t), m) > MaxFrames

\* Mutant: the frame of the trace is pushed for interpreted methods only.
InvokeUntraced(t, m) ==
  /\ CanCall(t, m)
  /\ ~Overflows(t, m)
  /\ LET caller == EngineOf(t) IN
     /\ lock' = Entered(lock, t, SyncFor(caller, m))
     /\ stack' = [stack EXCEPT ![t] = Append(@,
          [m |-> m, sync |-> SyncFor(caller, m), blocks |-> <<>>,
           metered |-> Metered(caller, m)])]
     /\ depth' = [depth EXCEPT ![t] = @ + Metered(caller, m)]
  /\ jstack' = IF Engine[m] = "interp" THEN [jstack EXCEPT ![t] = Append(@, m)] ELSE jstack
  /\ UNCHANGED exc

\* A call: the caller locks, the meters count, the trace grows.
Invoke(t, m) ==
  /\ CanCall(t, m)
  /\ ~Overflows(t, m)
  /\ LET caller == EngineOf(t) IN
     /\ lock' = Entered(lock, t, SyncFor(caller, m))
     /\ stack' = [stack EXCEPT ![t] = Append(@,
          [m |-> m, sync |-> SyncFor(caller, m), blocks |-> <<>>,
           metered |-> Metered(caller, m)])]
     /\ depth' = [depth EXCEPT ![t] = @ + Metered(caller, m)]
  /\ jstack' = [jstack EXCEPT ![t] = Append(@, m)]
  /\ UNCHANGED exc

\* Mutant: the count is taken back twice when the call is refused.
OverflowUncounted(t, m) ==
  /\ CanCall(t, m)
  /\ Overflows(t, m)
  /\ depth[t] > 0
  /\ depth' = [depth EXCEPT ![t] = @ - 1]
  /\ exc' = [exc EXCEPT ![t] = IF stack[t] = <<>> THEN "none" ELSE "thrown"]
  /\ UNCHANGED <<lock, stack, jstack>>

\* The meter is exhausted: StackOverflowError in the caller, everything the call
\* entered left again, but for the count of the meter that refused.
Overflow(t, m) ==
  /\ CanCall(t, m)
  /\ Overflows(t, m)
  /\ depth' = [depth EXCEPT ![t] = @ + 1]
  /\ exc' = [exc EXCEPT ![t] = IF stack[t] = <<>> THEN "none" ELSE "thrown"]
  /\ UNCHANGED <<lock, stack, jstack>>

\* Mutant: a synchronized method that ends leaves its monitor.
LeaveLocked(t) ==
  /\ stack' = [stack EXCEPT ![t] = Front(@)]
  /\ depth' = [depth EXCEPT ![t] = @ - Top(t).metered]
  /\ jstack' = [jstack EXCEPT ![t] = Front(@)]
  /\ UNCHANGED lock

\* The innermost call ends: the deferred pops, then the caller's unlock.
Leave(t) ==
  /\ stack' = [stack EXCEPT ![t] = Front(@)]
  /\ depth' = [depth EXCEPT ![t] = @ - Top(t).metered]
  /\ jstack' = [jstack EXCEPT ![t] = Front(@)]
  /\ lock' = Exited(lock, Top(t).sync)

\* A return; the compiler has every block exited before.
Return(t) == /\ Runs(t) /\ Top(t).blocks = <<>>
             /\ Leave(t)
             /\ UNCHANGED exc

\* monitorenter and monitorexit of a synchronized block.
MonitorEnter(t, o) ==
  /\ Runs(t)
  /\ Len(Top(t).blocks) < Blocks[Top(t).m]
  /\ Free(t, o)
  /\ lock' = Entered(lock, t, o)
  /\ stack' = [stack EXCEPT ![t][Len(stack[t])].blocks = Append(@, o)]
  /\ UNCHANGED <<depth, jstack, exc>>

ExitBlock(t) ==
  /\ Top(t).blocks # <<>>
  /\ lock' = Exited(lock, Last(Top(t).blocks))
  /\ stack' = [stack EXCEPT ![t][Len(stack[t])].blocks = Front(@)]
  /\ UNCHANGED <<depth, jstack>>

MonitorExit(t) == Runs(t) /\ ExitBlock(t) /\ UNCHANGED exc

\* An instruction or a native throws; a call that failed throws in its caller.
Fault(t) == /\ Runs(t)
            /\ exc' = [exc EXCEPT ![t] = "thrown"]
            /\ UNCHANGED <<lock, stack, depth, jstack>>

\* The interpreter's athrow, and its instructions that initialize a class, return
\* the exception to the caller at once; an emitted throw goes to the handlers of
\* its own body first.
Athrow(t) == IF Engine[Top(t).m] = "interp" THEN "athrow" ELSE "thrown"

Throw(t) == /\ Runs(t) /\ Top(t).m \in Throwers
            /\ exc' = [exc EXCEPT ![t] = Athrow(t)]
            /\ UNCHANGED <<lock, stack, depth, jstack>>

\* The handler the compiler puts around a synchronized block: unlock, rethrow.
UnlockAndRethrow(t) ==
  /\ stack[t] # <<>> /\ exc[t] = "thrown"
  /\ ExitBlock(t)
  /\ exc' = [exc EXCEPT ![t] = Athrow(t)]

\* A catch clause that matches.
Catch(t) ==
  /\ stack[t] # <<>> /\ exc[t] = "thrown"
  /\ Top(t).m \in Catchers /\ Top(t).blocks = <<>>
  /\ exc' = [exc EXCEPT ![t] = "none"]
  /\ UNCHANGED <<lock, stack, depth, jstack>>

\* No handler (left): the exception goes to the caller, or ends the thread.
Unwind(t) ==
  /\ stack[t] # <<>>
  /\ exc[t] = "athrow" \/ (exc[t] = "thrown" /\ Top(t).blocks = <<>>)
  /\ Leave(t)
  /\ exc' = [exc EXCEPT ![t] = IF Len(stack[t]) = 1 THEN "none" ELSE "thrown"]

Next == \E t \in Thread :
  \/ \E m \in Method : Invoke(t, m) \/ Overflow(t, m)
  \/ \E o \in Object : MonitorEnter(t, o)
  \/ Return(t) \/ MonitorExit(t)
  \/ Fault(t) \/ Throw(t) \/ UnlockAndRethrow(t) \/ Catch(t) \/ Unwind(t)

Spec == Init /\ [][Next]_vars

----
\* The places in a stack of calls that hold o: <<i, 0>> is what the i-th call was
\* locked for, <<i, j>> the j-th synchronized block it is in.
Place(s, i, j) == IF j = 0 THEN s[i].sync ELSE s[i].blocks[j]
HeldIn(s, o) == {p \in UNION {{i} \X (0..Len(s[i].blocks)) : i \in DOMAIN s} :
                   Place(s, p[1], p[2]) = o}

\* Locking is structured across engines and exceptions: a thread owns a monitor
\* exactly as deep as its live calls entered it, so what ends with an exception
\* or an overflow leaves no monitor behind.
MonitorsHeldExactly == \A t \in Thread, o \in Object :
  Cardinality(HeldIn(stack[t], o)) = (IF lock[o].owner = t THEN lock[o].depth ELSE 0)

\* An interpreted call that throws leaves without the unlock of its blocks
\* (Athrow): a program in which none is in a block, but the one it rethrows from.
ThrowsUnlocked == \A m \in Method : Engine[m] = "interp" =>
                    Blocks[m] <= 1 /\ (m \in Throwers => Blocks[m] = 0)

\* A throwable created at any moment carries the trace of the calls under way,
\* whichever engines run them (javastack.go).
TraceIsStack == \A t \in Thread :
  jstack[t] = [i \in DOMAIN stack[t] |-> stack[t][i].m]

\* However engines alternate and errors are caught, a thread never has more
\* interpreted calls under way than its budget.
BudgetHolds == \A t \in Thread :
  Cardinality({i \in DOMAIN stack[t] : Engine[stack[t][i].m] = "interp"}) <= MaxFrames

----
\* The comment of interp.go, "Method-level synchronized (JVMS 2.11.10): instance
\* methods lock the receiver": a synchronized method that runs holds its lock.
\* Emitted callers, natives and Thread.start do not lock.
SyncMethodHoldsLock == \A t \in Thread : \A i \in DOMAIN stack[t] :
  LET o == SyncOn[stack[t][i].m] IN o # NoObject => lock[o].owner = t

\* The comment of interp.go, "one budget spans both engines like a real JVM
\* stack": a thread without calls has its whole budget.
MeterRestored == \A t \in Thread : stack[t] = <<>> => depth[t] = 0
====
