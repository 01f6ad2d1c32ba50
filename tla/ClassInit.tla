---- MODULE ClassInit ----
(***************************************************************************)
(* kernel/class.go, EnsureInitialized: a mutex per class, held while the   *)
(* superclass is initialized and <clinit> runs, and a tracker per thread   *)
(* that lets a thread pass a class it is initializing itself.  A thread's  *)
(* nested calls of EnsureInitialized are the frames of its stack.          *)
(***************************************************************************)
EXTENDS Naturals, SequencesExt

CONSTANTS
  Thread,   \* threads, each with a tracker of its own
  NoThread,
  Class,    \* classes loaded from class files
  NoClass,  \* no superclass to initialize: Object, or another born-initialized one
  Super,    \* the superclass of each class
  Uses,     \* the classes each <clinit> touches
  Throws,   \* bound: the classes whose <clinit> may throw
  Panics    \* bound: the classes whose <clinit> may run into an engine panic

ASSUME NamesAssumption == NoThread \notin Thread /\ NoClass \notin Class
ASSUME GraphAssumption == /\ Super \in [Class -> Class \cup {NoClass}]
                          /\ Uses \in [Class -> SUBSET Class]
ASSUME BoundsAssumption == Throws \subseteq Class /\ Panics \subseteq Class

VARIABLES
  state,   \* Class.state
  initMu,  \* the holder of Class.initMu
  initing, \* InitTracker: the classes the thread has in progress
  stack,   \* the thread's frames of EnsureInitialized, innermost last
  starts,  \* history: how often a thread has entered the class's <clinit>
  panics   \* history: how often a panic ended its initialization

vars == <<state, initMu, initing, stack, starts, panics>>

States == {"defined", "initializing", "initialized", "erroneous"}
\* "lock": about to lock initMu.   "super": before the super leg.
\* "waitSuper": inside it.   "failed": it returned an error.
\* "clinit": running <clinit>.
Positions == {"lock", "super", "waitSuper", "failed", "clinit"}
Frame == [cls : Class, at : Positions]

Init == /\ state = [c \in Class |-> "defined"]
        /\ initMu = [c \in Class |-> NoThread]
        /\ initing = [t \in Thread |-> {}]
        /\ stack = [t \in Thread |-> <<>>]
        /\ starts = [c \in Class |-> 0]
        /\ panics = [c \in Class |-> 0]

At(t, p) == stack[t] # <<>> /\ Last(stack[t]).at = p
Current(t) == Last(stack[t]).cls

\* EnsureInitialized returns at once: initialized, or in progress in this thread.
Passes(t, c) == state[c] = "initialized" \/ c \in initing[t]

Call(s, c) == Append(s, [cls |-> c, at |-> "lock"])
MoveTo(s, p) == [s EXCEPT ![Len(s)].at = p]

\* The innermost frame returns; a super leg learns whether it succeeded.
Return(s, ok) == LET rest == Front(s) IN
  IF rest # <<>> /\ Last(rest).at = "waitSuper"
  THEN MoveTo(rest, IF ok THEN "super" ELSE "failed")
  ELSE rest

----
\* A static access, new or invokestatic: from the program, or from a <clinit>.
\* (A call that passes changes nothing.)
Use(t, c) == /\ \/ stack[t] = <<>>
                \/ At(t, "clinit") /\ c \in Uses[Current(t)]
             /\ ~Passes(t, c)
             /\ stack' = [stack EXCEPT ![t] = Call(@, c)]
             /\ UNCHANGED <<state, initMu, initing, starts, panics>>

\* Mutant: the state is not looked at again under the mutex.
AcquireWithoutRecheck(t) ==
  LET c == Current(t) IN
  /\ At(t, "lock")
  /\ initMu[c] = NoThread
  /\ initMu' = [initMu EXCEPT ![c] = t]
  /\ initing' = [initing EXCEPT ![t] = @ \cup {c}]
  /\ state' = [state EXCEPT ![c] = "initializing"]
  /\ stack' = [stack EXCEPT ![t] = MoveTo(@, "super")]
  /\ UNCHANGED <<starts, panics>>

\* Mutant: no BeginInit before the super leg.
AcquireUntracked(t) ==
  LET c == Current(t) IN
  /\ At(t, "lock")
  /\ initMu[c] = NoThread
  /\ IF state[c] \in {"initialized", "erroneous"}
     THEN /\ stack' = [stack EXCEPT ![t] = Return(@, state[c] = "initialized")]
          /\ UNCHANGED <<initMu, state>>
     ELSE /\ initMu' = [initMu EXCEPT ![c] = t]
          /\ state' = [state EXCEPT ![c] = "initializing"]
          /\ stack' = [stack EXCEPT ![t] = MoveTo(@, "super")]
  /\ UNCHANGED <<initing, starts, panics>>

\* initMu is locked and the state looked at again: another thread's success or
\* failure is returned, and anything else makes this thread the initializer.
Acquire(t) ==
  LET c == Current(t) IN
  /\ At(t, "lock")
  /\ initMu[c] = NoThread
  /\ IF state[c] \in {"initialized", "erroneous"}
     THEN /\ stack' = [stack EXCEPT ![t] = Return(@, state[c] = "initialized")]
          /\ UNCHANGED <<initMu, initing, state>>
     ELSE /\ initMu' = [initMu EXCEPT ![c] = t]
          /\ initing' = [initing EXCEPT ![t] = @ \cup {c}]
          /\ state' = [state EXCEPT ![c] = "initializing"]
          /\ stack' = [stack EXCEPT ![t] = MoveTo(@, "super")]
  /\ UNCHANGED <<starts, panics>>

\* Mutant: <clinit> runs whatever became of the superclass.
SuperIgnored(t) ==
  LET c == Current(t) IN
  /\ At(t, "super")
  /\ stack' = [stack EXCEPT ![t] = MoveTo(@, "clinit")]
  /\ starts' = [starts EXCEPT ![c] = @ + 1]
  /\ UNCHANGED <<state, initMu, initing, panics>>

\* The super leg: a superclass that passes, now or after its frame returned,
\* lets <clinit> start; another is initialized first.
SuperLeg(t) ==
  LET c == Current(t) IN
  /\ At(t, "super")
  /\ IF Super[c] = NoClass \/ Passes(t, Super[c])
     THEN /\ stack' = [stack EXCEPT ![t] = MoveTo(@, "clinit")]
          /\ starts' = [starts EXCEPT ![c] = @ + 1]
     ELSE /\ stack' = [stack EXCEPT ![t] = Call(MoveTo(@, "waitSuper"), Super[c])]
          /\ UNCHANGED starts
  /\ UNCHANGED <<state, initMu, initing, panics>>

\* Mutant: an initialization that ends without unlocking.
LeaveLocked(t, s) ==
  LET c == Current(t) IN
  /\ state' = [state EXCEPT ![c] = s]
  /\ initing' = [initing EXCEPT ![t] = @ \ {c}]
  /\ stack' = [stack EXCEPT ![t] = Return(@, s = "initialized")]
  /\ UNCHANGED <<initMu, starts, panics>>

\* The state is set, then the deferred EndInit and Unlock run.
Leave(t, s) ==
  LET c == Current(t) IN
  /\ state' = [state EXCEPT ![c] = s]
  /\ initMu' = [initMu EXCEPT ![c] = NoThread]
  /\ initing' = [initing EXCEPT ![t] = @ \ {c}]
  /\ stack' = [stack EXCEPT ![t] = Return(@, s = "initialized")]
  /\ UNCHANGED <<starts, panics>>

SuperFailed(t) == At(t, "failed") /\ Leave(t, "erroneous")
ClinitReturns(t) == At(t, "clinit") /\ Leave(t, "initialized")
ClinitThrows(t) == At(t, "clinit") /\ Current(t) \in Throws /\ Leave(t, "erroneous")

\* A Go panic unwinds every frame to runJavaThread's recover: the deferred
\* EndInit and Unlock of each run, and no state is written.  One per class.
ClinitPanics(t) ==
  /\ At(t, "clinit")
  /\ Current(t) \in Panics
  /\ panics[Current(t)] = 0
  /\ initMu' = [c \in Class |-> IF initMu[c] = t THEN NoThread ELSE initMu[c]]
  /\ panics' = [c \in Class |-> IF initMu[c] = t THEN panics[c] + 1 ELSE panics[c]]
  /\ initing' = [initing EXCEPT ![t] = {}]
  /\ stack' = [stack EXCEPT ![t] = <<>>]
  /\ UNCHANGED <<state, starts>>

Next == \E t \in Thread :
  \/ \E c \in Class : Use(t, c)
  \/ Acquire(t) \/ SuperLeg(t) \/ SuperFailed(t)
  \/ ClinitReturns(t) \/ ClinitThrows(t) \/ ClinitPanics(t)

\* A goroutine that can lock a free mutex does.  A <clinit> touches classes
\* finitely often before it ends: strong, since each touch may block it.
Fairness == \A t \in Thread :
  /\ WF_vars(Acquire(t))
  /\ WF_vars(SuperLeg(t))
  /\ WF_vars(SuperFailed(t))
  /\ SF_vars(ClinitReturns(t) \/ ClinitThrows(t) \/ ClinitPanics(t))

Spec == Init /\ [][Next]_vars
FairSpec == Spec /\ Fairness

----
\* Types of the variables.
TypeOK == /\ state \in [Class -> States]
          /\ initMu \in [Class -> Thread \cup {NoThread}]
          /\ initing \in [Thread -> SUBSET Class]
          /\ stack \in [Thread -> Seq(Frame)]
          /\ starts \in [Class -> Nat]
          /\ panics \in [Class -> Nat]

Frames(t) == Range(stack[t])
Holds(t) == {f.cls : f \in {g \in Frames(t) : g.at # "lock"}}

\* The mutex, the tracker and the frames tell one story, however calls nest:
\* a thread holds and tracks exactly the classes it is initializing.
LockMatchesStack == \A t \in Thread : /\ Holds(t) = {c \in Class : initMu[c] = t}
                                      /\ Holds(t) = initing[t]

\* No thread waits for a class it is initializing itself: recursion from a
\* <clinit>, through any chain of superclasses and uses, passes.
NoSelfWait == \A t \in Thread : At(t, "lock") => initMu[Current(t)] # t

\* <clinit> runs only with the superclass initialized or being initialized
\* further out by the same thread.
SuperFirst == \A t \in Thread : \A f \in Frames(t) :
  (f.at = "clinit" /\ Super[f.cls] # NoClass) =>
    state[Super[f.cls]] = "initialized" \/ initMu[Super[f.cls]] = t

\* However many threads race to a class, its <clinit> runs once, and once more
\* for each run a panic cut short.
ClinitOnce == \A c \in Class : starts[c] <= 1 + panics[c]

\* Initialized and erroneous are final.
Final == [][\A c \in Class :
              state[c] \in {"initialized", "erroneous"} => state'[c] = state[c]]_vars

WaitsFor(t, u) == At(t, "lock") /\ initMu[Current(t)] = u

\* Threads that wait for each other in a circle.
Circle(S) == S # {} /\ \A t \in S : \E u \in S : WaitsFor(t, u)

\* A thread blocked on a class gets on, unless threads wait for each other in a
\* circle: that is the only way to be stuck (and class.go defers breaking it).
InitProgress == \A t \in Thread :
  At(t, "lock") ~> (~At(t, "lock") \/ \E S \in SUBSET Thread : Circle(S))
====
