# Verification of catty

catty runs Java programs in Go: an interpreter for class files, an emitter that
turns class files into Go, and one kernel under both that has the object
monitors, threads, class registry and library natives. This directory holds TLA+
models of the parts of it whose correctness depends on the order of events, the
TLC configurations that check them and TLAPS proofs about them. Beside those are
the sequential algorithms that several parts of the system must compute alike. Paths are
relative to the repository; `kernel/` stands for `internal/kernel/`, and so on.

Check a model with `tlc -config MCMonitor.cfg MCMonitor`, a proof with
`tlapm MonitorProofs.tla`.

## 1. The system

| Component | Code | State | Operations | Used by |
|---|---|---|---|---|
| Object monitors | kernel/monitor.go | owner, count, contender queue, wait list, outcome of each wait record | Enter, Exit, Wait, Notify, NotifyAll, InterruptWaiters | every engine, by object header |
| Thread registry and lifecycle | kernel/thread.go, vm/spawn.go, natives of Thread | JThread state, alive, key, interrupt flag, join latch, sleepers, connection; registry maps byID, waiting, depths, initStacks | start, run, terminate, interrupt, interrupted, sleep, join | natives, monitors |
| Sockets | kernel/net.go | the connection a thread reads | connect, accept, read, write | interrupt sets a deadline on the connection |
| Class initialization | kernel/class.go | Class.state, initMu; the tracker of each thread | EnsureInitialized | every static access |
| Loading, linking, layout | kernel/loader.go, kernel/kernel.go | registry of classes, loader mutex and cycle set; superclass, interfaces, fields, statics of each | Load, LoadClassBytesWith, DefineClass, ResolveClass | every engine, by name |
| Calls and frames | kernel/kernel.go InvokeAs, kernel/javastack.go, vm/interp.go, genrt | depth meter and Java frames of each thread | InvokeAs, EnterFrame, ExitFrame, Push/PopJavaFrame | the three engines call each other through InvokeAs |
| Interpreter | vm/interp.go | frame: locals, operand stack, pc | one case per opcode | InvokeInterpreted |
| Emitted code | emitter/, genrt/, gen/ | genrt's kernel pointer, method cache, inline caches | CallStatic, CallVirtual, GetStatic, ... | EmitBody of a method |
| Verifier | verify/ | none across calls | structure, stack maps, dataflow | at link time |
| Class files | classfile/ | none | parse, stack effects | loader, emitter |
| Library natives | kernel/natives*.go, bootstrap*.go, routec.go, reflect.go | payloads of instances | strings, builders, HashMap, files, reflection | InvokeAs |
| Interop | interop/ | bindings | Bind | embedding Go programs |
| Commands | cmd/ | none | catty, cattaot, genemit, embeddemo | |

The parts meet in four places. A Java thread is a goroutine with an owner key;
monitors record that key, and the registry finds the thread's record by it. A
wait record is shared by a monitor (under its own mutex) and by the registry
(under another), which is how an interrupt reaches a thread in `wait`. A static
access resolves its class (registry, loader) and initializes it (class mutex),
both of which may run Java code. A call in any engine passes InvokeAs, which
keeps the Java frames, and the depth meter, which interpreted and emitted callers
share.

What is hard in it, and what must be true:

* Monitors: a lost handoff leaves a free lock with sleepers; a nested lock must
  come back from `wait` at its depth; one deadline, notify or interrupt decides a
  wait.
* Interrupt: the flag, the monitors, the sleepers and the socket are four places
  without a common mutex; no interrupt may fall between them.
* Lifecycle: a record is started once, joiners see a dead thread.
* Class initialization: `<clinit>` once, superclass first, recursion passes,
  other threads wait; only a circle of threads may be stuck.
* Loading: two threads get one class, whole; a failed load leaves nothing; fields
  do not share slots.
* Frames: what a call enters (monitor, meter, trace) is left on every way out.
* Lazily created things (monitors, mirrors, hashes, strings, boxes, inline
  caches): whoever races, all get the same one.
* Operand stack: interpreter, emitter and verifier each keep their own; all must
  follow the JVM's. The emitter computes its depths ahead, from a table of
  effects and a walk over the body; so do control flow and exception tables.
* Member lookup: four walks over the hierarchy must find what the JVM
  specification finds.
* HashMap and HashSet: two Go maps behind one Java object, indexed by a key that
  must be equal exactly when Java's `equals` says so.

`PROJECT.json` lists the hazards one by one, with the line where each bites and
the properties that watch it.

## 2. Modules

| Module | Models | Kind |
|---|---|---|
| `JavaMonitor` | what the Java language promises of one monitor | abstract specification |
| `Monitor` | kernel/monitor.go, one action per critical section | detailed specification |
| `MonitorProofs` | theorems about `Monitor` and `WaitInterrupt`, and that `Monitor` implements `JavaMonitor` | proofs |
| `WaitInterrupt` | `Monitor` with the natives of Object and the registry's interrupt, at the grain of single loads, stores and closes | composition, extends `Monitor` |
| `Threads` | kernel/thread.go, vm/spawn.go, natives of Thread, the socket read | detailed specification |
| `ThreadsProofs` | theorems about `Threads` | proofs |
| `ClassInit` | EnsureInitialized, kernel/class.go | detailed specification |
| `ClassInitProofs` | theorems about `ClassInit` | proofs |
| `ClassLoading` | kernel/loader.go, LoadClassBytesWith | detailed specification |
| `ClassLoadingProofs` | theorems about `ClassLoading` | proofs |
| `Frames` | InvokeAs, the invoke, monitor and throw instructions of three engines | detailed specification; assumes the monitor of `JavaMonitor` |
| `CallsProofs` | theorems about `Frames` and `MemberLookup` | proofs |
| `SharedCaches` | lazily created monitors, mirrors, hashes, interned strings, small boxes; the inline cache of genrt | detailed specification |
| `NativeStateProofs` | theorems about `SharedCaches` and `HashMaps` | proofs |
| `OperandStack` | one block of instructions on four operand stacks: JVM, interpreter, emitter, verifier | algorithms in lock step |
| `OperandStackProofs` | theorems about `OperandStack` | proofs |
| `MethodBody` | one body with branches and handlers through the verifier's dataflow, the emitter's plan and three executions | algorithms in lock step |
| `MethodBodyProofs` | theorems about `MethodBody` | proofs |
| `MemberLookup` | resolution, method selection, subtype tests, getMethod and invoke | algorithms beside their definition |
| `JavaMap` | what java.util.Map and Set promise of one map and one set | abstract specification |
| `HashMaps` | the HashMap and HashSet natives, kernel/natives_p7.go | detailed specification |
| `MC...` | a small instance of each | model checking |

`CallsProofs` and `NativeStateProofs` extend two models each, for what a call finds
and what it leaves belong together, and so do the two kinds of state behind the
natives. The definitions that each model has for itself have names of their own
there: `LookupSpec` and `MapSpec` beside `Spec`.

Definitions named mutants or plausible bugs in a comment are wrong versions of the
definition below them. They appear in no specification: each shows that a
property can fail, when it is put in place of the right version.

### Monitor and JavaMonitor

`owner`, `count`, `parked` and `waits` are the fields of the Go struct. A thread
is its owner key, and its channel (of which it has one at a time) is identified
with it: "closed" is `pc = "woken"`. `enterDepth` is `Enter`, up to the channel
receive, and `Retry`, from it; `TryAcquire` is the loop body they share with
`reenter`. `Wait` is everything up to the select, `Deadline` the timer arm,
`RemoveWait` the way out of the loop and `Reenter` the loop that takes the lock
back. A woken contender does not own the lock: anyone may barge in first, and
the model allows it.

`held` is a history variable: the depth the thread's own code has entered. Wait
callers own the monitor (the code panics when they do not).

`JavaMonitor` has an owner, the threads' depths, and for each thread whether it
runs, is blocked or waits; it knows no queue, record or channel. Exit does not
say who gets the lock, a wait may end at any time, and a lock that is free can be
taken by any blocked thread. `ImplementsJavaMonitor` states the refinement.

### WaitInterrupt

`Monitor` treats Notify, deadline and interrupt as one step each. In the code the
first two run under the monitor's mutex and ThreadRegistry.Interrupt under the
registry's. Each is split here into scan, store and close, with the two mutexes
as variables, the interrupt flag, the native's look at it and
publish/retract of the record. A `close` of a closed channel is a panic, which
ends the thread. `Waiter` and `Interrupter` bound who may do what. The interrupt of
`Monitor`, `InterruptWaiters`, takes the monitor's mutex; only a test of the
repository calls it. What is true of the outcome of a wait is therefore said here:
under m.mu it is decided once (`MonitorDecidesOnce`), and the registry's interrupt
may still replace it (`OutcomeWrittenOnce`, violated).

### Threads

A record's fields and the position of each goroutine. `start()` takes five steps
(compare-and-swap, key, attach, alive, spawn), `interrupt` five (the read of the key,
flag, sleepers, load of the connection, deadline; or, where the key was 0, the flag
alone), termination three. `Sleep` and `Join` look at
the flag, register, look again and park. Each actor may be between any two of
another's steps. The main thread's record stays in state new, as vm.New leaves
it; the programs of the model do not call start() on it (the code would let
them). `early` marks a reader whose flag was set before it published its
connection: the code does not look at the flag there, and such an interrupt does
not end the read. `late` marks a thread whose flag was set by an interrupt that had
read its key before it was started: such an interrupt wakes nobody. The two
interrupt properties leave these out, and `StartedAreWoken`, which does not, is
violated.

### ClassInit

A frame per nested call of EnsureInitialized. `Use` is the first look at the
state and the tracker, `Acquire` the lock of the class mutex and the second look,
`SuperLeg` the superclass, `Leave` the final state with the deferred EndInit and
Unlock. `<clinit>` bodies are the sets of classes they use; a throw makes the
class erroneous and a Go panic unwinds to runJavaThread without writing a state.
Every thread of the model has that recover; the main thread of the program has
not, its panic ends the process. Threads have keys of their own (owners without
one share key 0 and so one tracker; not modelled).

### ClassLoading

`status` is what the registry answers for a name: absent, a placeholder, or
linked. A frame per nested loadLocked. `Resolve` is the lookup before the mutex,
`Lock` the mutex, the second lookup and the cycle test, `Register` parsing and
the entry of the placeholder, `Depend` the superclass and interfaces in order,
`Link` layout and verification, `Fail` the removal. The class graph, its fields
(with widths) and the subclass questions of the verifier are constants. Layout:
a field is known by its place, how far up the chain of superclasses its class is
and its number there; the loop of LoadClassBytesWith takes the places in the
order `Before`, root first, and the running slot at a field is the `Width` of the
instance fields before it. A synthesized ancestor contributes no places
(`LoadedFields`), as in the code. A field's name stands for name and descriptor, the
key of the code's map. `Garbled` are the classes with a static constant that cannot
be read: their load fails in the layout, and the model does not keep how far the
layout came in the placeholder that is deleted.

### Frames

A call keeps the object the caller locked for it, the objects its synchronized
blocks hold and how many meters it passed. `Invoke` and `Overflow` are the two
outcomes of the same code: the meter refuses or not. `Leave` is the deferred
ExitFrame and PopJavaFrame and the caller's unlock. `exc` says whether an
exception looks for a handler of the innermost call ("thrown") or skips them
("athrow": the athrow instruction and failed class initialization in the
interpreter). The compiler's code is taken to be structured: blocks nest, each
has an any-handler that unlocks and rethrows.

### SharedCaches

A *thing* is what something is created for: an object header, a class, a string's
content, a small number. `slot` is the field or map entry that holds what was
created. `Look`, `Swap` and `Reload` are the load, the compare-and-swap and the
loser's second load of Monitor() and ClassObjectOf; `LoadOrStore` is sync.Map's.
`Draw` and `SwapHash` are the loop of IdentityHash, with the counter cut to the
width of the stored hash. `Lock` to `Unlock` are Intern and IntegerOf under
`k.mu`; IntegerOf's first look (`LookBox`) is outside it, so the box's field is
written (`Fill`) in a step before the one that publishes it. `Dispatch` and
`Resolve` are a virtual call's hit and miss in the inline cache, whose index two
sites may share. Answers are kept in history variables.

### OperandStack

The program is any sequence of instructions whose operands are there by the rules
of the JVM. A value is its kind and an identity, so the arithmetic itself does not
matter and where a value ends up does. `jvm` is the JVM's stack and locals in units
of depth, of which a long or double takes two. `interp` is the interpreter's slots,
where a long is its value and a sentinel above it, popped by the widths the code of
each case pops (`InterpPops`), the arguments of a call slot by slot. `emit` is the
emitter's variables, read at depths it computed from StackEffect, not from the
values. `ver` is the verifier's types, and `Checked` its pops, each on what the ones
before it left. A call takes any of `Signatures`. `InterpDrift`, `EmitDrift` and
`VerDrift` are the instructions in which each engine is known to differ (section 5);
`Avoided` is what the program does without.

### MethodBody

A body is instructions with their exception table, without values: the stack is
its depth. First the analyses run, one work-list step per action: the verifier's
dataflow (`Verify`), reachability (`Reachable`), canonical depths
(`CanonicalDepths`), linear emission (`Emit`). Then the JVM, the interpreter and
the emitted function execute together, a call throwing what it likes.
`InvokeStatic` and `New` (which stands for getstatic as well) may fail before they
begin, when the class cannot be initialized: the interpreter then leaves the method
without a look at the table, an emitted call runs the method all the same, and an
emitted `new` or field access goes on with the error dropped. `strayed` notes an
analysis or engine that took a step known to be wrong (the interpreter at such a
failure or at an athrow, emitted code at such a failure or a failed cast, the
verifier when an exception whose edge it does not follow enters a handler it has not
seen); nothing is claimed of it from there on, and of the others everything still
is. `InDepths` and `InReach` say what the emitter's analyses must visit, as the
least set closed under the edges they follow; `HandlersReached` and
`StraightHandlers` say with them which bodies they handle right.

### MemberLookup

One name with its descriptor in a growing hierarchy. Every hierarchy within the
bounds is a state. `Resolve` and `WalkIfaces` are the code's walks (`FirstFound` is
what a walk does at one type); `Resolved`,
`Selected` and `MostSpecific` are the specification's sections 5.4.3 and 5.4.6.
`Disagree` says on which hierarchies the two are known to differ, and `Avoided`
which of those the property leaves aside.

### HashMaps and JavaMap

A Java object is a record with what `hashKey` and the natives of `equals` look at:
its Go type, its class, its first field, a string's UTF-16 units and, beside them,
the text that `x.Go()` makes of it, in which all unpaired surrogates are alike.
`Equal` is the code's: that of strings, of Integer, of the other wrappers (which
compare first fields and no classes) and of Object. `PlainObjects`, in the proofs,
says which keys `hashKey` and `Equal` agree on.
The four Go maps are variables, each native an action. `JavaMap` has keys that
are equality classes. The refinement maps an equality class to the entry under
the Go key of its members. No native calls back into Java `equals` or `hashCode`:
the code does not either.

## 3. Runs

| Run | Instance | Shows |
|---|---|---|
| monitor | 3 threads, depth 2 | locks, wait list and queue agree; a free lock is handed on; the code implements `JavaMonitor` |
| wait_interrupt | 2 waiters, 2 interrupters | a decided waiter is woken and, under m.mu, decided once; no dead record stays; an interrupt of a published waiter decides |
| threads | main, 2 threads, 2 starters, 2 interrupters, 1 reader | one starter; closed latch means dead; no interrupt that saw a key lost around sleep, join, read; joins end |
| class_init | 3 threads, 3 classes that extend and use each other | `<clinit>` once, superclass first, circles of threads the only deadlock |
| class_loading | 2 threads, 7 classes, one missing, one with a bad constant | loads fail only for cause; linked classes whole; nothing half loaded; slots disjoint; every load ends |
| frames | 2 threads, 3 methods (one per engine), 2 objects | structured locking, exact traces, the frame budget |
| shared_caches | 3 threads, one thing of each sort, 2 call sites on one cache slot | one answer for everybody; every call runs its receiver's method |
| operand_stack | 5 kinds of values, 4 stack slots, 2 locals | interpreter, emitter and verifier follow the JVM's stack |
| method_body | bodies with try, finally, loop, ternary, throw, cast and class initialization, with every range of two handlers | the engines go where the exception tables say, at the depth of the code, in verified code |
| member_lookup | every hierarchy of 3 interfaces and 2 classes | lookup and dispatch agree with the specification, known disagreements apart |
| hash_maps | 6 keys, some equal and not identical, 2 values | the Go maps agree with each other and implement `JavaMap` |
| lost_interrupt | as wait_interrupt | an interrupt before publishWait wakes nobody (violated) |

**Bounds.** Three threads are the least with an owner, a contender that was woken and
a third that barges or queues behind it, and the least with a waiter and two deciders.
Depth 2 tells a full release from one level. Three classes give a superclass, a
subclass and a user of both, and every circle of two or three threads. Seven class
names give a synthesized, a missing and a loaded superclass, an interface, a class
that fails because of its superclass and one that fails in its layout, and one with a
bad constant; running code names five of them, the other two are loaded for these
(`Mentioned`); two threads suffice because loads are serialized: the second stands for
everyone who meets a load under way. `MaxFrames = 2` with stacks of 3 reaches overflow
from each engine; `MaxMeter` stops calls by a thread whose meter ran away, which
happens (section 5). `Throws`, `Panics` and `Throwers` say which programs are
considered: run `frames` keeps throw statements to emitted code. In `shared_caches`,
three threads are a winner, a loser and one that comes late; the sorts of things share
no step, so one thing of each will do, and threads are interchangeable (symmetry).
`HashNumbers = 16` is more hashes than the run draws. In `operand_stack`, four slots
hold two longs, or a long and two ints in any order, which is all that the shuffles
read or leave but for dup2_x1 and dup2_x2 (left out, section 5); values of one kind
are told apart by their identity, two at most, and each instruction is a step, so
blocks are as long as they like. In `method_body`, the layouts are those javac gives
the statements named; the two handlers of the try statement take every range that
includes the division. In `member_lookup`, three interfaces make a diamond, two
classes a class with an inherited interface. In `hash_maps`, the keys are two equal
strings, two equal boxes, a box of another class with the same number, and an object
compared by identity: a key of every branch of `hashKey`, null apart, which is one
more singleton. The values are interchangeable (symmetry). `BoxKeys`, `PointKeys` and
`SurrogateKeys` are keys that PlainObjects excludes.

**Types.** Type correctness of `Monitor`, `Threads`, `ClassInit`, `WaitInterrupt`
and `SharedCaches` is proved (section 4), which is why no run repeats it.

**Deadlock** is not checked where the program itself may stop: threads that all
wait (wait_interrupt), circles of classes (class_init), Java programs that lock
two objects in two orders (frames), bodies that return (method_body) and a
hierarchy that is complete (member_lookup).

**Fairness.** Only what Go's scheduler gives: a goroutine that can take its next
step without anyone's help does so. In `monitor`, woken contenders retry, waiters
whose record is decided go on, and timers fire: all weakly fair. No owner is
assumed to leave the lock and no program to notify; LockProgress speaks of a lock
that is free.
In `threads`, a terminating goroutine finishes its deferred Terminate and a joiner
whose latch is closed is scheduled; nothing is assumed of timers and the network.
In `class_init`, goroutines take free class mutexes and go on (weak), and a
`<clinit>` ends however often the classes it touches block it (strong: every
touch disables its end for a while, and it touches finitely many). In
`class_loading`, a load goes on (weak) and the loader's mutex is granted to
someone who asks again and again (strong: Go's sync.Mutex hands over to a starving
waiter).

## 4. Proofs

For every set of threads, classes, objects and every bound, TLAPS checks:

* `MonitorProofs`: `TypeCorrect`, `DepthCorrect`, `HandoffCorrect`, `WaitListCorrect`,
  `ParkedCorrect`, the safety invariants of `Monitor`. The inductive invariant `IInv`
  is their conjunction, no part of which is inductive alone: the two queues have no
  repetitions, a thread is in the contender queue exactly while parked and in the wait
  list exactly while its record is undecided. Without the first, removal at an index
  could leave a second copy; without the second, a release could wake a thread that is
  elsewhere. Also `MonitorImplementsJavaMonitor`, `Spec => Abstract!Spec`: one lemma
  per action maps it to an abstract step or a stutter, under `IInv`. About
  `WaitInterrupt`, in the same module: `RegistryCorrect` (NoStaleRecord),
  `WakeCorrect` (WakeComing), `RacedListCorrect` (WaitListSound) and `ForgetsNobody`
  (InterruptDecides), although interrupts race with notifiers. WaitListExact does not
  hold here, since an interrupt leaves its record in the list. The inductive invariant
  `RInv` adds the queue of contenders, that the native's position tells where the
  monitor has the thread (`Staged`), that a wait returns decided (`Decided`), and that
  an interrupter between its look and its close holds the registry, with the record in
  it (`Deciding`). `DecidedUnderMuOnce` (MonitorDecidesOnce) needs one more: whoever
  is between a look at an outcome and its store under the monitor's mutex holds it
  (`HoldsMu`).
* `ThreadsProofs`: `TypeCorrect`, `StartCorrect` (OneStarter), `LatchCorrect`
  (LatchMeansDead), `SleeperCorrect` (InterruptReachesSleeper) and
  `ReaderCorrect` (InterruptReachesReader), of the interrupts that saw a key (those
  that did not are lost, section 5). The inductive invariant adds what a
  reader of the code takes for granted: a record in state new has no goroutine
  (`Started`), a goroutine's record has its key (`Keyed`, without which interrupt
  would set the flag of a parked thread and not look for its sleepers), each step
  of termination leaves its trace (`Dying`), a parked thread has a channel and a
  reader a published connection (`Parked`). Reading, parking and interrupting
  touch no record (`Aside`), so one argument serves all of them.
* `ClassInitProofs`: `TypeCorrect`, `LockCorrect` (LockMatchesStack), `NoSelfDeadlock`
  (NoSelfWait), `SuperclassFirst` (SuperFirst), `ClinitAtMostOnce` (ClinitOnce) and
  `FinalStates`. The inductive invariant is about stacks of nested calls: every call
  but the innermost waits for its superclass or runs its `<clinit>` (`Shape`), the
  calls that hold a mutex and the mutexes held are the same (`Held`), one stack has a
  class inside its initialization once (`Distinct`), and what each position says of
  the class and its superclass (`Outer`, `Once`).
* `ClassLoadingProofs`: `NothingLeftBehind` (NothingHalfLoadedAtRest) of any class
  files, circular ones included. Its invariant `GInv` says that only the holder of the
  loader's mutex is in loadLocked, that the classes of its stack are distinct and are
  the marks of the cycle set, and that those past `Register` are the placeholders.
  `ClosureCorrect` (LinkedClosed) of files none of which needs itself, by `DInv`: what
  is linked is closed (`Closure`), the classes of the stack each need the next
  (`Chained`), and each has the pointers it took so far, to linked classes (`Fits`).
  The last needs the hypothesis: a dependency found in the registry is linked because,
  were it a placeholder, it would be on the stack and need the class that needs it.
  `ErrorsCorrect` (ErrorsJustified) with the further hypothesis `AsksSound`: what
  verification asks of two classes is so, and neither waits for the class being
  verified. Under it verification sees all it asks about (`VerificationPasses`), and a
  failure, of a file or of a constant, climbs the stack from a class that every class
  on it needs. `LayoutCorrect` (SlotsDisjoint) under `Acyclic` and `SynthPlain`: no
  synthesized class has instance fields. The view and the size of a linked class are
  the layout of the fields of its file's superclasses, and stay so (`VInv`); a name
  that a superclass's view has is in the class's own view, so that resolution ends
  there; and of two fields the later one's slot is at least the earlier one's and its
  width, because slots are cardinalities of sets of which one contains the other.
* `CallsProofs`, of `Frames`: `TraceCorrect` (TraceIsStack); `BudgetCorrect`
  (BudgetHolds), by the invariant that the meter is at least what the calls on the
  stack have in it (`Metering`); it is more after an overflow, which never lets it
  return to zero. `LocksCorrect` (MonitorsHeldExactly) under `ThrowsUnlocked`: no
  interpreted method throws inside a synchronized block. The invariant identifies each
  place where a call holds an object (its own, or the n-th of its blocks) and counts
  the places per object, so that entering and leaving adds or takes one. Of
  `MemberLookup`: `LookupCorrect` (FollowsJVMS), for any number of classes and
  interfaces, when `Avoided` is all of `Disagreements`. The inductive invariant is
  that types name only lower ones (`Hierarchy`), which makes being a supertype an
  order and gives every recursive walk its equation at one type; from there each part
  of FollowsJVMS is about one type that is clear of the disagreements. The heart of it
  is that the interface walk, where no entry of a list hides a later one, ends in the
  declaration that overrides all others.
* `OperandStackProofs`: `InterpreterFollowsJVM` (InterpMatches), `EmitterFollowsJVM`
  (EmitMatches) and `VerifierFollowsJVM` (VerifierMatches), for any stack, any number
  of locals and any signatures, when `Avoided` has the engine's own drift. They share
  one invariant of the JVM (`JvmOK`): the stack is made of whole values (`Whole`: a
  pad lies exactly above a long or a double), so that operands of the kinds an
  instruction takes lie where the running sums of their widths say (`Depths`). Given
  that, the property of each engine is inductive with the types of its variables
  (`InterpOK`, `EmitOK`, `VerOK`).
  Every family of instructions is one lemma on what it takes and gives, and calls
  are argued for any list of arguments. `Checked` needs most: a check of a
  pair looks at two slots, and what is left after it is whole again.
* `NativeStateProofs`, of `SharedCaches`: `DispatchCorrect` (DispatchExact), by the
  invariant that a cache entry holds what resolution finds for the site and class in it; and
  `IdentityCorrect`, `Spec /\ [](hashCtr < HashNumbers) => []OneIdentity`. The
  hypothesis is needed: a counter that wraps draws the hash that means unassigned
  (section 5). The invariant says that every answer is what the slot holds
  (`Settled`), what each position knows of its slot (`Progress`), who has `k.mu`
  (`Locked`), and that a box is filled before it can be found (`Filled`).
* `MethodBodyProofs`: `InterpCorrect` (InterpFollows), for every body and table: the
  first entry that covers and catches, counted from one with zero for none, is the
  least in the specification's order. `VerifierCorrect` (VerifierSees), for every
  body. Its invariant `SeenInv` is the one of a worklist: what is visited has its
  successors visited or queued, so that at the end the visited set is closed
  (`SeenClosed`), and an execution that leaves it has just taken an exception that is
  no edge of the dataflow. `EmitCorrect` (EmitFollows) under `HandlersReached` and
  `StraightHandlers`, by one invariant per pass: the reached set stays below the least
  closed set and is it at the end (`ReachInv`); a depth given is the depth of the
  code, and the instructions that have one are closed (`DepthInv`); emission goes
  upwards, so that an instruction without a depth of its own follows the one before it
  (`LinearInv`); and the execution stays within what was reached (`RunInv`), with
  nothing between an instruction and the one it falls through to. Facts about the
  analyses' functions over tables are by least counterexample.
* `NativeStateProofs`, of `HashMaps`: `BuffersCorrect` (BuffersAgree);
  `HashMapsImplementJavaMap`, `PlainObjects => (MapSpec => ImplementsJavaMap)`, in
  two parts: `PlainKeysRespectEquals`, that `hashKey` and the natives of `equals`
  agree on plain objects, and one lemma per native for keys that agree
  (`RespectfulKeysImplement`). Plain objects are strings no two of which have one
  text, instances that have a number first exactly if they are boxes, boxes of
  different classes with different numbers or types, and no class with an `equals`
  of its own.

Assumptions: the named ASSUMEs of the modules (NoThread is not a thread, bounds are
naturals, strings and boxes are not headers or classes), and the hypotheses stated in
twelve theorems. Each of these excludes what the code is known to get wrong (section
5), and nothing else: `ThrowsUnlocked` the interpreter's throw, `Acyclic` class files
that need themselves, which the loader does not look for, `AsksSound` the rejected
superclass, `SynthPlain` the ancestors whose fields the layout leaves out, the bound
on hashes the wrapping counter, `PlainObjects` the keys of HashMap, `HandlersReached`
and `StraightHandlers` handlers whose code the emitter's searches do not come to by
another way, `Avoided` the instructions and hierarchies in which an engine or a walk
differs, each theorem of `OperandStack` only those of its own engine. In
`MCOperandStack` and `MCMemberLookup`, `Avoided` is all of these. `MCFrames`,
`MCClassLoading` and `MCMethodBody` assume theirs, so TLC evaluates them on the
instances that are checked.

Only model-checked: liveness (LockProgress, JoinEnds, InitProgress, LoadEnds),
because TLAPS does not do fairness here. Every other property of a run that is
expected to pass is a theorem too. Where a definition is a recursive function (the
walks of `MemberLookup`, the sums of `OperandStack`, the analyses of `MethodBody`,
the layout of `ClassLoading`), the library's induction theorems cannot be
instantiated, and a least counterexample takes their place.

## 5. What the models show about the code

Each of these is a finding in `PROJECT.json`, with the line it quotes. In brackets
is what to change in a `.cfg` to see TLC's counterexample.

Threads:

* **Two deciders.** A wait record is decided by a load and a store. Notify does it
  under the monitor's mutex, Interrupt under the registry's; both may find it
  undecided, and the interrupt replaces a notify's outcome. [PROPERTY
  OutcomeWrittenOnce in MCWaitInterrupt] The second close panics, in Interrupt with
  the registry locked. [INVARIANT NoDoubleClose in MCWaitInterrupt]
* **Late interrupt.** `interrupt` reads a key of 0, the thread is started, looks at
  its flag and parks, and only then is the flag set; the sleeper is not woken.
  [INVARIANT StartedAreWoken in MCThreads]
* **Lost interrupt.** `wait` looks at the flag, then publishes; nothing looks
  again. Sleep and join do look again, and pass. [run lost_interrupt]
* **Hash zero.** When the counter's low 32 bits are 0, that object's hash is
  handed out and not stored; its next is another. [HashNumbers = 2 in
  MCSharedCaches]

Classes:

* **Placeholder initialized.** The registry answers a second thread with a class
  that is still loading. It has no methods yet, so it is marked initialized and
  its `<clinit>` never runs. [INVARIANT InitializedWithClinit in MCClassLoading]
* **Statics through a subclass.** The slot is an index of the declaring class's
  Statics and is applied to the named class's. [INVARIANT StaticsHaveOneHome in
  MCClassLoading]
* **Overlapping slots** below a synthesized class with fields.
  [Fields <- MCLibFields in MCClassLoading, without the ASSUME of SynthPlain]
* **Rejected superclass.** A verification fails because the asking superclass is
  older than the subclass's superclass pointer. [Asks <- MCFactoryAsks in
  MCClassLoading, without the ASSUME of AsksSound]
* **Lookup.** Four ways to find another member than the specification: interfaces
  of a superclass are not searched; the first of several interfaces wins; private
  methods take part in overriding; Method.invoke does not dispatch. [one of them
  left out of MCAvoided in MCMemberLookup]

Calls and instructions:

* **throw in the interpreter** returns without looking for a handler in its own
  method: catch blocks are skipped, monitors leak. [the interpreted method in
  Throwers of MCFrames, without the ASSUME of ThrowsUnlocked]
* **synchronized methods** lock only when the interpreter calls them.
  [INVARIANT SyncMethodHoldsLock in MCFrames]
* **The meter** loses one frame per overflow. [INVARIANT MeterRestored in MCFrames]
* **dup2_x1 and dup2_x2** of the interpreter misplace words, those of the emitter
  reverse the lower copy of the pair.
  [Avoided <- ShuffleDrift, MaxStack = 5 in MCOperandStack]
* **Stack effects.** StackEffect is wrong for ineg, fneg, land, lor and lxor, so
  emitted code reads other variables. [Avoided <- EffectDrift in MCOperandStack]
  The verifier leaves a slot too many after lneg and dneg and rejects wide lload
  and dload. [Avoided <- TypeDrift, likewise]
* **Handlers are not followed** by the reachability of the emitter beyond their
  first instruction. [Bodies <- TryReturn in MCMethodBody, without its ASSUME] Nor by
  the verifier, when only a call or a field access leads to them.
  [INVARIANT HandlersVerified in MCMethodBody]
* **Failed initialization** is not caught by the method it happens in, in the
  interpreter. [INVARIANT ThrownIsRouted and Bodies <- StaticCatch in MCMethodBody]
  Emitted static calls do not initialize at all, and emitted `new` and field accesses
  drop the error. [INVARIANT EmittedInitializes and Bodies <- StaticCall in
  MCMethodBody]
* **A failed cast** in emitted code goes on with the exception as the object.

Library:

* **HashMap keys.** Objects of a user class whose first field is an int are one key
  when that field is equal. [Object <- PointKeys in MCHashMaps] Strings that differ in
  unpaired surrogates are one key. [Object <- SurrogateKeys, likewise] A Short is
  equal to the Integer of its value, which is not equal to it, and the two are two
  keys. [Object <- BoxKeys, likewise] Double and Float keys are compared by identity;
  LinkedHashMap's keySet is empty and its order Go's.

From reading: circles of threads in class initialization are not broken; circular
superclass chains do not end; reflection initializes no class; the method cache of
genrt is a plain map that every thread writes.

## 6. Not modelled, and the plan

Not modelled:

* the generated bodies of the library (`internal/gen`) and the benchmark programs
  under docs: they are output of the emitter, whose shape `OperandStack` and
  `MethodBody` model, and most of the repository's lines;
* parsing of class files, commands, files, formatting;
* what arithmetic, strings, builders and maths compute: functions of their
  arguments, for which tests are the better tool;
* conversions between Go and Java values (interop, arguments of reflection);
* the emitter's folding of string builders;
* uninitialized objects and the merging of stack map frames in the verifier;
* writes to Statics by running code while a subclass load appends to them;
* the memory model: plain fields are read and written in one step, and where the
  code races on a Go map, the program ends, which is a finding.

Still to do: the verifier's uninitialized objects in `MethodBody`, and the values of
static fields in `ClassLoading`.
