----------------------------- MODULE MethodBody -----------------------------
(***************************************************************************)
(* One method body with exception handlers, through every analysis and     *)
(* engine of the runtime: the verifier's dataflow (verify/dataflow.go), the *)
(* emitter's plan (verify/reach.go, emitter/canonical_depth.go) and linear  *)
(* emission (emitter/body.go), and then the three executions in lockstep:   *)
(* the JVM specification's, the interpreter's (vm/interp.go) and that of    *)
(* the emitted Go function.  An instruction is one pc; values are left to   *)
(* OperandStack, and here the stack is its depth.                           *)
(***************************************************************************)
EXTENDS Integers, Sequences, SequencesExt, FiniteSetsExt

CONSTANTS
    Bodies,   \* records [code, handlers]: the bodies to compile and run
    Exc,      \* the classes of the exceptions a call may throw
    Supers,   \* for each of Exc, the catch types that catch it
    Arith,    \* the class that a division throws
    Throwable \* their common superclass, which no entry names

\* An instruction is [op, target, depth]: depth is the operand stack's depth
\* before it, which is also what the StackMapTable says at a branch target.  An
\* exception table entry is [start, end, handler, catch], catch "any" for finally.
\* "invoke" is a call of an instance, "invokestatic" of a class, and "new" stands
\* for getstatic too: the last two may run a class initializer first.
Ops == {"const", "store", "invoke", "invokestatic", "new", "div", "checkcast",
        "if", "goto", "return", "athrow"}
Pcs(b) == DOMAIN b.code
Covers(h, pc) == h.start <= pc /\ pc < h.end
Ends(op) == op \in {"goto", "return", "athrow"}

StackEffect(op) ==
    CASE op \in {"const", "invoke", "invokestatic", "new"} -> 1
      [] op \in {"store", "if", "return", "athrow", "div"} -> -1
      [] op \in {"checkcast", "goto"} -> 0

\* The pcs with a stack map frame: what control reaches other than in sequence.
Framed(b) ==
    {b.code[pc].target : pc \in {q \in Pcs(b) : b.code[q].op \in {"if", "goto"}}}
    \cup {h.handler : h \in Range(b.handlers)}
    \cup {pc \in Pcs(b) : pc > 0 /\ Ends(b.code[pc - 1].op)}

\* What the specification's verifier accepts: every edge stays in the body and
\* arrives with the depth of its target.
WellTyped(b) ==
    /\ IsFiniteSet(Pcs(b)) /\ Pcs(b) = 0 .. Cardinality(Pcs(b)) - 1 /\ 0 \in Pcs(b)
    /\ b.code[0].depth = 0
    /\ \A pc \in Pcs(b) :
         LET i == b.code[pc] IN
         /\ i.op \in Ops /\ i.depth \in Nat
         /\ i.op \in {"if", "goto"} => i.target \in Pcs(b)
                           /\ b.code[i.target].depth = i.depth + StackEffect(i.op)
         /\ ~Ends(i.op) => pc + 1 \in Pcs(b)
                           /\ b.code[pc + 1].depth = i.depth + StackEffect(i.op)
    /\ b.handlers \in Seq(Range(b.handlers))
    /\ \A h \in Range(b.handlers) : h.handler \in Pcs(b) /\ b.code[h.handler].depth = 1

None == "none"

ASSUME BodyAssumption == \A b \in Bodies : WellTyped(b)
ASSUME ClassAssumption == Arith \in Exc /\ {Throwable, None, "running"} \cap Exc = {}
                          /\ \A c \in Exc : {c, "any"} \subseteq Supers[c]

VARIABLES
    body,      \* the body at hand
    phase,     \* the pass that is running
    queue,     \* its worklist
    verified,  \* the pcs the verifier's dataflow visited
    reach,     \* Reachable's result
    depths,    \* computeCanonicalDepths's result, a partial function
    emitted,   \* the stack depth each instruction was emitted with, partial
    eDepth,    \* methodEmitter.depth, the depth after the last emission
    java,      \* where the execution is by the JVM specification: [pc, out]
    interp,    \* where the interpreter's is
    emit,      \* where the emitted function's is
    exc,       \* the variable exc of the emitted function
    strayed    \* the analyses and engines that took one of their known departures

plan == <<verified, reach, depths, emitted, eDepth>>
machines == <<java, interp, emit, exc, strayed>>
vars == <<body, phase, queue, plan, machines>>

At(pc) == [pc |-> pc, out |-> "running"]
Left(out) == [pc |-> -1, out |-> out]
code == body.code
N == Cardinality(Pcs(body))

Init ==
    /\ body \in Bodies
    /\ phase = "verify" /\ queue = <<0>>
    /\ verified = {} /\ reach = {} /\ depths = [pc \in {} |-> 0]
    /\ emitted = [pc \in {} |-> 0] /\ eDepth = 0
    /\ java = At(0) /\ interp = At(0) /\ emit = At(0) /\ exc = None /\ strayed = {}

-----------------------------------------------------------------------------
(* The verifier.                                                             *)

\* throwSuccs: the handlers an exception of class c may reach.
MayCatch(h, pc, c) ==
    Covers(h, pc) /\ (h.catch = "any" \/ (c \in Exc /\ h.catch \in Supers[c]))

ThrowSuccs(pc, c) ==
    LET out[i \in 0 .. Len(body.handlers)] ==
          IF i = 0 THEN <<>>
          ELSE IF MayCatch(body.handlers[i], pc, c)
               THEN Append(out[i - 1], body.handlers[i].handler) ELSE out[i - 1]
    IN out[Len(body.handlers)]

\* A plausible bug: the branch not taken is forgotten.
TakenOnly(pc) ==
    LET op == code[pc].op IN
    CASE op = "div" -> <<pc + 1>> \o ThrowSuccs(pc, Arith)
      [] op = "athrow" -> ThrowSuccs(pc, Throwable)
      [] op = "return" -> <<>>
      [] op \in {"goto", "if"} -> <<code[pc].target>>
      [] OTHER -> <<pc + 1>>

\* A division has edges to its handlers, an athrow (of a value whose static type
\* is Throwable) to those that catch anything; calls, casts and new have none.
VerifierSuccs(pc) ==
    LET op == code[pc].op IN
    CASE op = "div" -> <<pc + 1>> \o ThrowSuccs(pc, Arith)
      [] op = "athrow" -> ThrowSuccs(pc, Throwable)
      [] op = "return" -> <<>>
      [] op = "goto" -> <<code[pc].target>>
      [] op = "if" -> <<pc + 1, code[pc].target>>
      [] OTHER -> <<pc + 1>>

Verify ==
    /\ phase = "verify" /\ queue # <<>>
    /\ LET pc == Last(queue) IN
       /\ verified' = verified \cup {pc}
       /\ queue' = Front(queue) \o IF pc \in verified THEN <<>> ELSE VerifierSuccs(pc)
    /\ UNCHANGED <<body, phase, reach, depths, emitted, eDepth, machines>>

VerifyDone ==
    /\ phase = "verify" /\ queue = <<>>
    /\ phase' = "reach" /\ queue' = <<0>>
    /\ UNCHANGED <<body, plan, machines>>

-----------------------------------------------------------------------------
(* The emitter's plan.                                                       *)

\* The instruction after a goto is queued too, reachable or not.
ReachSuccs(pc) ==
    CASE code[pc].op \in {"return", "athrow"} -> <<>>
      [] code[pc].op = "goto" ->
             <<code[pc].target>> \o IF pc + 1 < N /\ pc + 1 \notin reach THEN <<pc + 1>> ELSE <<>>
      [] code[pc].op = "if" -> <<code[pc].target, pc + 1>>
      [] OTHER -> <<pc + 1>>

Reachable ==
    /\ phase = "reach" /\ queue # <<>>
    /\ LET pc == Last(queue)
           new == pc \in Pcs(body) \ reach
       IN /\ reach' = IF new THEN reach \cup {pc} ELSE reach
          /\ queue' = Front(queue) \o IF new THEN ReachSuccs(pc) ELSE <<>>
    /\ UNCHANGED <<body, phase, verified, depths, emitted, eDepth, machines>>

HandlerPcs == {h.handler : h \in Range(body.handlers)}

\* Handler entries are marked when the search has ended; computeCanonicalDepths
\* begins at the method's entry.
ReachableDone ==
    /\ phase = "reach" /\ queue = <<>>
    /\ reach' = reach \cup HandlerPcs
    /\ phase' = "depths"
    /\ depths' = [pc \in {0} |-> 0] /\ queue' = <<[pc |-> 0, depth |-> 0]>>
    /\ UNCHANGED <<body, verified, emitted, eDepth, machines>>

\* A plausible bug: stack map frames are not consulted.
PropagatedOnly(pc, d) == IF pc \in HandlerPcs THEN 1 ELSE d

GroundTruth(pc, d) ==
    IF pc \in HandlerPcs THEN 1
    ELSE IF pc \in Framed(body) THEN code[pc].depth ELSE d

\* enqueue: a pc keeps the first depth it is given.
Enqueue(w, e) ==
    IF e.pc \notin reach \/ e.pc \in DOMAIN w.depths THEN w
    ELSE LET d == GroundTruth(e.pc, e.depth) IN
         [depths |-> [pc \in DOMAIN w.depths \cup {e.pc} |->
                        IF pc = e.pc THEN d ELSE w.depths[pc]],
          queue |-> Append(w.queue, [pc |-> e.pc, depth |-> d])]

\* The edges out of an instruction; a conditional branch gives its target the
\* depth before its operands are popped and leaves the rest to the frame there.
DepthEdges(it) ==
    LET after == Max({0, it.depth + StackEffect(code[it.pc].op)})
        next == [pc |-> it.pc + 1, depth |-> after]
        target(d) == [pc |-> code[it.pc].target, depth |-> d]
    IN CASE code[it.pc].op \in {"return", "athrow"} -> <<>>
         [] code[it.pc].op = "goto" -> <<target(after)>>
         [] code[it.pc].op = "if" -> <<target(it.depth), next>>
         [] OTHER -> <<next>>

EnqueueAll(w, edges) ==
    CASE Len(edges) = 0 -> w
      [] Len(edges) = 1 -> Enqueue(w, edges[1])
      [] Len(edges) = 2 -> Enqueue(Enqueue(w, edges[1]), edges[2])

CanonicalDepths ==
    /\ phase = "depths" /\ queue # <<>>
    /\ LET w == EnqueueAll([depths |-> depths, queue |-> Front(queue)], DepthEdges(Last(queue)))
       IN depths' = w.depths /\ queue' = w.queue
    /\ UNCHANGED <<body, phase, verified, reach, emitted, eDepth, machines>>

\* Handler entries not reached by an edge are given depth 1, and nothing after them.
CanonicalDepthsDone ==
    /\ phase = "depths" /\ queue = <<>>
    /\ depths' = [pc \in DOMAIN depths \cup HandlerPcs |->
                    IF pc \in DOMAIN depths THEN depths[pc] ELSE 1]
    /\ phase' = "emit"
    /\ UNCHANGED <<body, queue, verified, reach, emitted, eDepth, machines>>

\* body: the reachable instructions in order, each at its canonical depth or,
\* without one, at the depth the instruction before left.
Emit ==
    /\ phase = "emit" /\ reach # DOMAIN emitted
    /\ LET pc == Min(reach \ DOMAIN emitted)
           d == IF pc \in DOMAIN depths THEN depths[pc] ELSE eDepth
       IN /\ emitted' = [q \in DOMAIN emitted \cup {pc} |-> IF q = pc THEN d ELSE emitted[q]]
          /\ eDepth' = d + StackEffect(code[pc].op)
    /\ UNCHANGED <<body, phase, queue, verified, reach, depths, machines>>

EmitDone ==
    /\ phase = "emit" /\ reach = DOMAIN emitted
    /\ phase' = "run"
    /\ UNCHANGED <<body, queue, plan, machines>>

-----------------------------------------------------------------------------
(* The executions.                                                           *)

\* JVMS 2.10: the first entry of the table that covers the pc and catches.
JavaCatch(pc, c) ==
    LET hs == {i \in DOMAIN body.handlers :
                 Covers(body.handlers[i], pc) /\ body.handlers[i].catch \in Supers[c]}
    IN IF hs = {} THEN Left(c) ELSE At(body.handlers[Min(hs)].handler)

\* A plausible bug: the end of the range is taken to be covered.
CatchAtEnd(pc, c) ==
    LET f == SelectInSeq(body.handlers,
                         LAMBDA h : h.start <= pc /\ pc <= h.end /\ h.catch \in Supers[c])
    IN IF f = 0 THEN Left(c) ELSE At(body.handlers[f].handler)

\* throwOrHandle.  exec calls it for what a division, a cast or a called method
\* throws, and neither for an athrow nor for what a class initializer throws.
ThrowOrHandle(pc, c) ==
    LET f == SelectInSeq(body.handlers, LAMBDA h : Covers(h, pc) /\ h.catch \in Supers[c])
    IN IF f = 0 THEN Left(c) ELSE At(body.handlers[f].handler)

\* excDispatch, the code emitted after an instruction that may throw: the tests
\* of the handlers that cover it, in the table's order.
ExcDispatch(pc, e, next) ==
    IF e = None THEN next
    ELSE LET f == SelectInSeq(body.handlers, LAMBDA h : Covers(h, pc) /\ h.catch \in Supers[e])
         IN IF f = 0 THEN Left(e) ELSE At(body.handlers[f].handler)

\* Where emitted code goes after the instruction at pc: to the next that was
\* emitted, and at last to the terminal return of nil.
EmittedNext(pc) ==
    LET after == {q \in reach : q > pc}
    IN IF after = {} THEN Left("returned nil") ELSE At(Min(after))

\* The engines run on while they are together.
Together == interp = java /\ emit.pc = java.pc
Running(op) ==
    phase = "run" /\ java.out = "running" /\ Together /\ code[java.pc].op = op
Stay == UNCHANGED <<body, phase, queue, plan>>

\* An instruction that cannot throw (and does not touch exc).
Plain ==
    /\ Running("const") \/ Running("store")
    /\ java' = At(java.pc + 1) /\ interp' = At(java.pc + 1) /\ emit' = EmittedNext(java.pc)
    /\ UNCHANGED <<exc, strayed>> /\ Stay

Return ==
    /\ Running("return")
    /\ java' = Left("returned") /\ interp' = Left("returned") /\ emit' = Left("returned")
    /\ UNCHANGED <<exc, strayed>> /\ Stay

Goto ==
    /\ Running("goto")
    /\ LET to == At(code[java.pc].target) IN java' = to /\ interp' = to /\ emit' = to
    /\ UNCHANGED <<exc, strayed>> /\ Stay

Branch ==
    /\ Running("if")
    /\ \/ LET to == At(code[java.pc].target) IN java' = to /\ interp' = to /\ emit' = to
       \/ /\ java' = At(java.pc + 1) /\ interp' = At(java.pc + 1)
          /\ emit' = EmittedNext(java.pc)
    /\ UNCHANGED <<exc, strayed>> /\ Stay

\* The handler that java enters by an exception which the verifier follows to the
\* given handlers only, if nothing else had led its dataflow there.
Unseen(followed) ==
    IF java'.out = "running" /\ java'.pc \notin followed \cup verified THEN {"verifier"} ELSE {}

\* A call or a division: exc is assigned, by a success too.
Throws(c) ==
    /\ java' = JavaCatch(java.pc, c)
    /\ interp' = ThrowOrHandle(java.pc, c)
    /\ exc' = c
    /\ emit' = ExcDispatch(java.pc, c, EmittedNext(java.pc))

Succeeds ==
    /\ java' = At(java.pc + 1) /\ interp' = At(java.pc + 1)
    /\ exc' = None
    /\ emit' = ExcDispatch(java.pc, None, EmittedNext(java.pc))

\* What a called method throws.
CalleeThrows(c) == Throws(c) /\ strayed' = strayed \cup Unseen({})

Invoke ==
    /\ Running("invoke")
    /\ \/ Succeeds /\ UNCHANGED strayed
       \/ \E c \in Exc : CalleeThrows(c)
    /\ Stay

\* EnsureInitialized fails before the call or the field access: the interpreter
\* leaves the method without a look at the table.
InitFails(c) == java' = JavaCatch(java.pc, c) /\ interp' = Left(c)

Strays == strayed' = strayed \cup Unseen({})
                     \cup (IF interp' = java' THEN {} ELSE {"interp"})
                     \cup (IF emit' = java' THEN {} ELSE {"emit"})

\* genrt.CallStatic does not initialize the class: the method runs all the same,
\* and returns or throws an exception of its own.
InvokeStatic ==
    /\ Running("invokestatic")
    /\ \/ Succeeds /\ UNCHANGED strayed
       \/ \E c \in Exc : CalleeThrows(c)
       \/ \E c \in Exc, e \in Exc \cup {None} :
             /\ InitFails(c)
             /\ exc' = e
             /\ emit' = ExcDispatch(java.pc, e, EmittedNext(java.pc))
             /\ Strays
    /\ Stay

\* genrt.New and GetStatic drop the error of EnsureInitialized, and emitted code
\* goes on without a test of exc.
New ==
    /\ Running("new")
    /\ emit' = EmittedNext(java.pc) /\ UNCHANGED exc
    /\ \/ java' = At(java.pc + 1) /\ interp' = At(java.pc + 1) /\ UNCHANGED strayed
       \/ (\E c \in Exc : InitFails(c)) /\ Strays
    /\ Stay

Divide ==
    /\ Running("div")
    /\ Succeeds \/ Throws(Arith)
    /\ UNCHANGED strayed /\ Stay

\* The interpreter leaves the method without a look at the table.
Athrow ==
    /\ Running("athrow")
    /\ \E c \in Exc :
         /\ java' = JavaCatch(java.pc, c)
         /\ interp' = Left(c)
         /\ exc' = c
         /\ emit' = ExcDispatch(java.pc, c, EmittedNext(java.pc))
         /\ strayed' = strayed \cup Unseen(Range(ThrowSuccs(java.pc, Throwable)))
                       \cup IF interp' = java' THEN {} ELSE {"interp"}
    /\ Stay

\* Emitted code does not assign exc: CheckCast returns the ClassCastException as
\* the value, and an exception caught before is dispatched again.
Checkcast ==
    /\ Running("checkcast")
    /\ \/ java' = At(java.pc + 1) /\ interp' = At(java.pc + 1)
       \/ \E c \in Exc : java' = JavaCatch(java.pc, c) /\ interp' = ThrowOrHandle(java.pc, c)
    /\ emit' = ExcDispatch(java.pc, exc, EmittedNext(java.pc))
    /\ strayed' = IF exc = None /\ java' = At(java.pc + 1) THEN strayed
                  ELSE strayed \cup {"emit"} \cup Unseen({})
    /\ UNCHANGED exc /\ Stay

Next ==
    \/ Verify \/ VerifyDone \/ Reachable \/ ReachableDone
    \/ CanonicalDepths \/ CanonicalDepthsDone \/ Emit \/ EmitDone
    \/ Plain \/ Return \/ Goto \/ Branch \/ Invoke \/ InvokeStatic \/ New
    \/ Divide \/ Athrow \/ Checkcast

Spec == Init /\ [][Next]_vars

-----------------------------------------------------------------------------
(* What each analysis reaches of a body, and what that must be for the       *)
(* properties below.                                                         *)

HandlersOf(b) == {h.handler : h \in Range(b.handlers)}

\* S holds the entry and what its instructions pass control to, nothing thrown:
\* the edges that give an instruction its canonical depth.
DepthClosed(b, S) ==
    /\ 0 \in S
    /\ \A pc \in S :
         LET i == b.code[pc] IN
         (i.op \in {"if", "goto"} => i.target \in S) /\ (~Ends(i.op) => pc + 1 \in S)

\* The emitter's search goes on after a goto as well.
ReachClosed(b, S) ==
    DepthClosed(b, S) /\ \A pc \in S : b.code[pc].op = "goto" /\ pc + 1 \in Pcs(b) => pc + 1 \in S

InDepths(b) == {pc \in Pcs(b) : \A S \in SUBSET Pcs(b) : DepthClosed(b, S) => pc \in S}
InReach(b) == {pc \in Pcs(b) : \A S \in SUBSET Pcs(b) : ReachClosed(b, S) => pc \in S}

\* Every handler comes after a goto, as javac places it, or after straight code.
HandlersReached == \A b \in Bodies : HandlersOf(b) \subseteq InReach(b)

\* What is emitted and entered only by way of a handler is straight code.
StraightHandlers == \A b \in Bodies :
    LET reached == InReach(b)  deep == InDepths(b) IN
    \A pc \in reached :
       \/ pc \in deep \cup HandlersOf(b)
       \/ pc - 1 \in reached /\ ~Ends(b.code[pc - 1].op)

-----------------------------------------------------------------------------
\* The interpreter catches in the handler the specification names or leaves with
\* the exception it names (throwOrHandle, interp.go), but for an athrow and a
\* failed class initialization that the method itself catches.
InterpFollows == "interp" \notin strayed => interp = java

\* The emitted function is where the specification says, at an instruction that
\* was emitted with the depth the stack has there, whatever exceptions brought it
\* there (Reachable, computeCanonicalDepths, body, excDispatch), but for casts
\* that fail or follow an exception and for failed class initializations.
EmitFollows ==
    phase = "run" /\ "emit" \notin strayed =>
        /\ emit = java
        /\ java.out = "running" =>
             java.pc \in DOMAIN emitted /\ emitted[java.pc] = code[java.pc].depth

\* Nothing runs that the verifier's dataflow did not visit (checkMethodDataflow,
\* throwSuccs), until an exception that it does not follow (of a call, a cast or a
\* class initializer, or an athrow into a typed handler) enters a handler that
\* nothing else had led it to.
VerifierSees ==
    phase = "run" /\ java.out = "running" /\ "verifier" \notin strayed => java.pc \in verified

\* "throwSuccs enqueues exception-handler entries covering pc" (irregular.go):
\* nothing at all runs unverified.  A handler that only a call enters does.
HandlersVerified == phase = "run" /\ java.out = "running" => java.pc \in verified

\* "throwOrHandle routes a thrown error into a matching handler in this frame"
\* (interp.go): the interpreter catches whatever is caught.  It never asks for
\* what an athrow or a class initializer throws.
ThrownIsRouted == interp = java

\* CallStatic "initializes the declaring class" (genrt.go): a call whose class
\* cannot be initialized ends as the specification has it.  InvokeAs, which it
\* leaves this to, does not initialize: the method runs.
EmittedInitializes == phase = "run" /\ java.out \in Exc => emit = java
=============================================================================
