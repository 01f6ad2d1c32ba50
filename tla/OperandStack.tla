---------------------------- MODULE OperandStack ----------------------------
(***************************************************************************)
(* One basic block of Java bytecode, followed in lock step by the four     *)
(* parts of the runtime that each keep their own operand stack:            *)
(*                                                                         *)
(*   - jvm      the stack and locals of the JVM specification (JVMS 2.6),  *)
(*              the reference: a stack of typed values, counted in units   *)
(*              of depth, two for a long or a double (JVMS 2.6.2);         *)
(*   - interp   the interpreter's slots (internal/vm): a long or double is *)
(*              its value and a sentinel in the slot above;                *)
(*   - emit     the Go variables s0, s1, ... of the ahead-of-time emitter   *)
(*              (internal/emitter), addressed by a depth that is computed  *)
(*              beforehand from the stack effects of classfile.StackEffect; *)
(*   - ver      the verifier's types (internal/verify).                    *)
(*                                                                         *)
(* The program is any legal sequence of instructions: Next takes any       *)
(* instruction whose operands lie on top of the JVM's stack.  Kinds are    *)
(* those of the computational types: i, f, a take one slot, l, d two.  A   *)
(* value is its kind and an identity, so that two engines agree when they  *)
(* hold the same values in the same places.  The stack is written in slots *)
(* with its top last; lists of operands begin with the top one.            *)
(***************************************************************************)
EXTENDS Integers, Sequences, Functions

CONSTANTS
    Kinds,       \* the kinds in play, a subset of {"i", "f", "a", "l", "d"}
    MaxStack,    \* max_stack of the method, in slots
    MaxLocals,   \* max_locals of the method, in slots
    MaxLive,     \* [Kinds -> Nat], how many values of a kind are alive at once
    Signatures,  \* the argument lists of the methods called, last argument first
    Avoided      \* pairs <<op, kind>> the program does not use

ASSUME StackAssumption ==
    /\ {"i", "a"} \subseteq Kinds /\ Kinds \subseteq {"i", "f", "a", "l", "d"}
    /\ MaxStack \in Nat /\ MaxLocals \in Nat /\ MaxLive \in [Kinds -> Nat]
    /\ Signatures \subseteq Seq(Kinds)

\* Where the engines are known to differ: what the interpreter shuffles wrongly,
\* what the emitter has a wrong effect or order for, what the verifier pops half.
InterpDrift == {<<"dup2_x1", "any">>, <<"dup2_x2", "any">>}
EmitDrift == InterpDrift \cup {<<"neg", "i">>, <<"neg", "f">>, <<"logic", "l">>}
VerDrift == {<<"neg", "l">>, <<"neg", "d">>, <<"wload", "l">>, <<"wload", "d">>}

VARIABLES jvm, interp, emit, ver

vars == <<jvm, interp, emit, ver>>

Cat2(k) == k \in {"l", "d"}
Width(k) == IF Cat2(k) THEN 2 ELSE 1
Widths(kinds) == [j \in DOMAIN kinds |-> Width(kinds[j])]

Pad == [kind |-> "pad", id |-> 0]       \* the second slot of a long or double
Junk == [kind |-> "junk", id |-> 0]     \* a variable no live value is in
NoValue == [kind |-> "none", id |-> 0]  \* a local the method has not set

Value == [kind : Kinds, id : Nat]
SlotsOf(v) == IF Cat2(v.kind) THEN <<v, Pad>> ELSE <<v>>

\* How far below the top the k-th of the operands of widths ws begins.
Depths(ws) ==
    LET down[k \in 0 .. Len(ws)] == IF k = 0 THEN 0 ELSE down[k - 1] + ws[k]
    IN  down
Total(ws) == Depths(ws)[Len(ws)]

Top(s, n) == SubSeq(s, Len(s) - n + 1, Len(s))
Below(s, n) == SubSeq(s, 1, Len(s) - n)
SlotAt(s, d) == IF d \in 1 .. Len(s) THEN s[Len(s) - d + 1] ELSE Junk

\* What popping operands of the widths ws reads, each value with its distance
\* from the top; a long or double is read at the lower of its slots.
Read(s, ws) == {<<Depths(ws)[k], SlotAt(s, Depths(ws)[k])>> : k \in DOMAIN ws}

Locals == 0 .. MaxLocals - 1

-----------------------------------------------------------------------------
(* The instructions, by family; k is the kind in the opcode's first letter *)

Ins(op, k, to) == [op |-> op, k |-> k, to |-> to]
Numeric == Kinds \ {"a"}
Allowed(instructions) == {i \in instructions : <<i.op, i.k>> \notin Avoided}

Shuffles == Allowed({Ins(op, "any", "v") :
    op \in {"pop", "pop2", "dup", "dup_x1", "dup_x2", "dup2", "dup2_x1", "dup2_x2", "swap"}})

LocalOps(ops, kinds) ==
    Allowed({[op |-> op, k |-> k, to |-> k, n |-> n] : op \in ops, k \in kinds, n \in Locals})

Constants == {Ins("const", k, k) : k \in Kinds}

Arithmetic ==
    {Ins(op, k, k) : op \in {"binary", "neg"}, k \in Numeric}
    \cup {Ins(op, k, k) : op \in {"shift", "logic"}, k \in Kinds \cap {"i", "l"}}

Conversions == {i \in {Ins("conv", k, to) : k \in Numeric, to \in Numeric} :
                    i.k # i.to \/ i.k = "i"}

Comparisons == {Ins("cmp", k, "i") : k \in Numeric \ {"i"}}

Branches == {Ins(op, k, "v") : op \in {"if1", "if2"}, k \in {"i", "a"}}
            \cup {Ins("switch", "i", "v")}

Returns == {Ins("return", k, k) : k \in Kinds}

Fields == {Ins(op, k, k) : op \in {"getstatic", "putstatic", "getfield", "putfield"}, k \in Kinds}

ArrayAccesses == {Ins(op, k, k) : op \in {"xaload", "xastore"}, k \in Kinds}

Objects == {Ins("new", "a", "a"), Ins("newarray", "a", "a"), Ins("multianewarray", "a", "a"),
            Ins("arraylength", "a", "i"), Ins("checkcast", "a", "a"),
            Ins("instanceof", "a", "i"), Ins("monitor", "a", "v")}

Calls ==
    {[op |-> op, k |-> "any", to |-> to, args |-> args] :
        op \in {"invokevirtual", "invokestatic"}, to \in Kinds \cup {"v"},
        args \in Signatures}

Plain == Allowed(Constants \cup Arithmetic \cup Conversions \cup Comparisons \cup Branches
                 \cup Fields \cup ArrayAccesses \cup Objects \cup Calls)

-----------------------------------------------------------------------------
(* The JVM: what an instruction takes, top first, and gives                *)

Takes(i) ==
    CASE i.op \in {"const", "load", "wload", "getstatic", "new", "iinc"} -> <<>>
      [] i.op \in {"store", "wstore", "putstatic", "neg", "conv", "if1", "return"} -> <<i.k>>
      [] i.op \in {"binary", "logic", "cmp", "if2"} -> <<i.k, i.k>>
      [] i.op = "shift" -> <<"i", i.k>>
      [] i.op = "xaload" -> <<"i", "a">>
      [] i.op = "xastore" -> <<i.k, "i", "a">>
      [] i.op \in {"getfield", "arraylength", "checkcast", "instanceof", "monitor"} -> <<"a">>
      [] i.op = "putfield" -> <<i.k, "a">>
      [] i.op \in {"switch", "newarray"} -> <<"i">>
      [] i.op = "multianewarray" -> <<"i", "i">>
      [] i.op = "invokestatic" -> i.args
      [] i.op = "invokevirtual" -> Append(i.args, "a")

Gives(i) ==
    IF i.op \in {"store", "wstore", "putstatic", "putfield", "xastore", "return", "iinc"}
    THEN "v" ELSE i.to

\* A value that is nowhere in the frame: the result of an instruction.
Free(k) ==
    LET live == Range(jvm.stack) \cup {jvm.locals[n] : n \in Locals}
    IN  {id \in 1 .. MaxLive[k] : [kind |-> k, id |-> id] \notin live}
Fresh(k) == [kind |-> k, id |-> CHOOSE id \in Free(k) : TRUE]

OperandSlots(i) == Total(Widths(Takes(i)))
GivenSlots(i) == IF Gives(i) = "v" THEN 0 ELSE Width(Gives(i))
Room(slots) == Len(jvm.stack) + slots <= MaxStack

\* The operands of i are on top of the stack and its result fits.
Legal(i) ==
    /\ OperandSlots(i) <= Len(jvm.stack)
    /\ \A k \in DOMAIN Takes(i) :
           SlotAt(jvm.stack, Depths(Widths(Takes(i)))[k]).kind = Takes(i)[k]
    /\ Room(GivenSlots(i) - OperandSlots(i))

Taken(i) == Read(jvm.stack, Widths(Takes(i)))

\* The value i gives, and the slots it is pushed as.
Computed(i) == IF i.op = "checkcast" THEN SlotAt(jvm.stack, 1) ELSE Fresh(Gives(i))
Result(i) == IF Gives(i) = "v" THEN <<>> ELSE SlotsOf(Computed(i))

\* A shuffle copies the n top slots below the next m ones; neither block may
\* cut a value in two (JVMS 6.5, the forms of dup2_x1 and its like).
Block(op) == CASE op = "dup" -> <<1, 0>>      [] op = "dup_x1" -> <<1, 1>>
               [] op = "dup_x2" -> <<1, 2>>   [] op = "dup2" -> <<2, 0>>
               [] op = "dup2_x1" -> <<2, 1>>  [] op = "dup2_x2" -> <<2, 2>>
               [] op = "swap" -> <<1, 1>>     [] op = "pop" -> <<1, 0>>
               [] op = "pop2" -> <<2, 0>>

Shuffled(op, s) ==
    LET n == Block(op)[1]
        m == Block(op)[2]
        block == Top(s, n)
        skipped == Top(Below(s, n), m)
        rest == Below(s, n + m)
    IN  CASE op \in {"pop", "pop2"} -> rest
          [] op = "swap" -> rest \o block \o skipped
          [] OTHER -> rest \o block \o skipped \o block

LegalShuffle(op) ==
    LET s == jvm.stack
        n == Block(op)[1]
        m == Block(op)[2]
    IN  /\ Len(s) >= n + m
        /\ SlotAt(s, n) # Pad
        /\ SlotAt(s, n + m) # Pad
        /\ Len(Shuffled(op, s)) <= MaxStack

\* Storing a value drops the long or double it overlaps (JVMS 2.6.1).
Stored(locals, n, v) ==
    [m \in Locals |->
        CASE m = n -> v
          [] m = n - 1 /\ Cat2(locals[m].kind) -> NoValue
          [] m = n + 1 /\ Cat2(v.kind) -> NoValue
          [] OTHER -> locals[m]]

-----------------------------------------------------------------------------
(* The interpreter: the slots each instruction pops, top first             *)

\* A plausible bug: the value is popped before the count.
ShiftValueFirst(i) == <<Width(i.k), 1>>

InterpShift(i) == <<1, Width(i.k)>>

Singly(n) == [j \in 1 .. n |-> 1]

InterpPops(i) ==
    CASE i.op \in {"const", "load", "wload", "getstatic", "new", "iinc"} -> <<>>
      [] i.op \in {"store", "wstore", "putstatic", "neg", "conv", "if1", "return"} ->
             <<Width(i.k)>>
      [] i.op \in {"binary", "logic", "cmp", "if2"} -> <<Width(i.k), Width(i.k)>>
      [] i.op = "shift" -> InterpShift(i)
      [] i.op \in {"xaload", "multianewarray"} -> <<1, 1>>
      [] i.op = "xastore" -> <<Width(i.k), 1, 1>>
      [] i.op = "putfield" -> <<Width(i.k), 1>>
      [] i.op \in {"getfield", "arraylength", "checkcast", "instanceof", "monitor",
                   "switch", "newarray"} -> <<1>>
      [] i.op = "invokestatic" -> Singly(Total(Widths(i.args)))
      [] i.op = "invokevirtual" -> Singly(Total(Widths(i.args)) + 1)

\* The arguments of a call are popped slot by slot and the sentinels dropped.
InterpRead(i) == {o \in Read(interp.slots, InterpPops(i)) : o[2] # Pad}

\* What a shuffle leaves, bottom to top, as distances from the old top.
InterpShuffle(op) ==
    CASE op = "pop" -> <<>>                 [] op = "pop2" -> <<>>
      [] op = "dup" -> <<1, 1>>             [] op = "dup_x1" -> <<1, 2, 1>>
      [] op = "dup_x2" -> <<1, 3, 2, 1>>    [] op = "dup2" -> <<2, 1, 2, 1>>
      [] op = "dup2_x1" -> <<1, 2, 3, 2, 1>>
      [] op = "dup2_x2" -> <<1, 2, 4, 3, 2, 1>>
      [] op = "swap" -> <<1, 2>>

InterpShuffled(op) ==
    LET s == interp.slots
        order == InterpShuffle(op)
    IN  Below(s, Block(op)[1] + Block(op)[2])
            \o [j \in DOMAIN order |-> SlotAt(s, order[j])]

-----------------------------------------------------------------------------
(* The emitter: variables addressed by the canonical depth                 *)

EmitPops(i) ==
    CASE i.op \in {"const", "load", "getstatic", "new", "iinc"} -> <<>>
      [] i.op \in {"store", "putstatic", "neg", "conv", "if1", "return"} -> <<Width(i.k)>>
      [] i.op \in {"binary", "logic", "cmp", "if2"} -> <<Width(i.k), Width(i.k)>>
      [] i.op = "shift" -> <<1, Width(i.k)>>
      [] i.op = "xaload" -> <<1, 1>>
      [] i.op = "xastore" -> <<Width(i.k), 1, 1>>
      [] i.op = "putfield" -> <<Width(i.k), 1>>
      [] i.op \in {"getfield", "arraylength", "checkcast", "instanceof", "monitor",
                   "switch", "newarray"} -> <<1>>
      [] i.op = "invokestatic" -> Widths(i.args)
      [] i.op = "invokevirtual" -> Append(Widths(i.args), 1)

Unsupported(op) == op \in {"swap", "wload", "wstore", "multianewarray"}

CallEffect(i) ==
    (IF i.to = "v" THEN 0 ELSE Width(i.to))
        - Total(Widths(i.args))
        - (IF i.op = "invokestatic" THEN 0 ELSE 1)

\* The net effect of an instruction on the depth, in slots (StackEffect, and
\* instrEffect for the fields and the calls).
StackEffect(i) ==
    CASE i.op \in {"const", "load", "getstatic"} -> Width(i.k)
      [] i.op \in {"store", "putstatic"} -> 0 - Width(i.k)
      [] i.op = "xaload" -> IF Cat2(i.k) THEN 0 ELSE -1
      [] i.op = "xastore" -> IF Cat2(i.k) THEN -4 ELSE -3
      [] i.op = "getfield" -> Width(i.k) - 1
      [] i.op = "putfield" -> 0 - (1 + Width(i.k))
      [] i.op \in {"pop", "if1", "switch", "monitor", "shift"} -> -1
      [] i.op = "pop2" -> -2
      [] i.op \in {"dup", "dup_x1", "dup_x2", "new"} -> 1
      [] i.op \in {"dup2", "dup2_x1", "dup2_x2"} -> 2
      [] i.op = "binary" -> IF Cat2(i.k) THEN -2 ELSE -1
      [] i.op = "logic" -> IF i.k = "i" THEN -1 ELSE 0
      [] i.op = "neg" -> IF Cat2(i.k) THEN 0 ELSE -1
      [] i.op = "conv" -> Width(i.to) - Width(i.k)
      [] i.op = "cmp" -> IF Cat2(i.k) THEN -3 ELSE -1
      [] i.op = "if2" -> -2
      [] i.op \in {"iinc", "newarray", "arraylength", "checkcast", "instanceof"} -> 0
      [] i.op \in {"invokestatic", "invokevirtual"} -> CallEffect(i)

Variables == 0 .. MaxStack + 1
NextDepth(i) == IF emit.depth + StackEffect(i) < 0 THEN 0 ELSE emit.depth + StackEffect(i)
Var(d) == IF d \in Variables THEN emit.s[d] ELSE Junk
EmitRead(i) ==
    LET at == Depths(EmitPops(i))
    IN  {<<at[k], Var(emit.depth - at[k])>> : k \in DOMAIN EmitPops(i)}

\* A variable at or above the depth is dead.
Live(s, depth) == [d \in Variables |-> IF d < depth THEN s[d] ELSE Junk]

\* The assignments of a shuffle, in order, as offsets from the depth.
Assignments(op) ==
    CASE op \in {"pop", "pop2"} -> <<>>
      [] op = "dup" -> << <<0, -1>> >>
      [] op = "dup_x1" -> << <<0, -1>>, <<-1, -2>>, <<-2, 0>> >>
      [] op = "dup_x2" -> << <<0, -1>>, <<-1, -2>>, <<-2, -3>>, <<-3, 0>> >>
      [] op = "dup2" -> << <<0, -2>>, <<1, -1>> >>
      [] op = "dup2_x1" -> << <<0, -2>>, <<1, -1>>, <<-1, -3>>, <<-2, 0>>, <<-3, 1>> >>
      [] op = "dup2_x2" ->
             << <<0, -2>>, <<1, -1>>, <<-1, -4>>, <<-2, -3>>, <<-3, 0>>, <<-4, 1>> >>

Assign(s, t, to, from) == IF {to, from} \subseteq Variables THEN [s EXCEPT ![to] = t[from]] ELSE s

\* A plausible bug: every assignment reads the stack as it was before the first.
AssignedAtOnce(s, d, assignments) ==
    LET after[k \in 0 .. Len(assignments)] ==
            IF k = 0 THEN s
            ELSE Assign(after[k - 1], s, d + assignments[k][1], d + assignments[k][2])
    IN  after[Len(assignments)]

Assigned(s, d, assignments) ==
    LET after[k \in 0 .. Len(assignments)] ==
            IF k = 0 THEN s
            ELSE Assign(after[k - 1], after[k - 1], d + assignments[k][1], d + assignments[k][2])
    IN  after[Len(assignments)]

-----------------------------------------------------------------------------
(* The verifier: the checks of an instruction on the types, top first      *)

Pair == [how |-> "pair", k |-> "any"]         \* popCat2
AnyType == [how |-> "any", k |-> "any"]       \* pop
Expect(k) == [how |-> "expect", k |-> k]      \* popExpect
Exact(k) == [how |-> "exact", k |-> k]        \* pop and compare

\* A plausible bug: longs and doubles are popped as one slot.
NeverPair(check, k) == check

PairOr(check, k) == IF Cat2(k) THEN Pair ELSE check

Arguments(kinds) == [j \in DOMAIN kinds |-> PairOr(Exact(kinds[j]), kinds[j])]

VerPops(i) ==
    CASE i.op \in {"const", "getstatic", "new", "iinc", "load", "wload"} -> <<>>
      [] i.op \in {"store", "conv"} -> <<PairOr(Expect(i.k), i.k)>>
      [] i.op \in {"wstore", "putstatic", "return"} -> <<PairOr(AnyType, i.k)>>
      [] i.op \in {"neg", "if1"} -> <<Expect(i.k)>>
      [] i.op \in {"binary", "logic", "cmp"} ->
             <<PairOr(Expect(i.k), i.k), PairOr(Expect(i.k), i.k)>>
      [] i.op = "if2" -> <<Expect(i.k), Expect(i.k)>>
      [] i.op = "shift" -> <<Expect("i"), Expect(i.k)>>
      [] i.op = "xaload" -> <<Expect("i"), Expect("a")>>
      [] i.op = "xastore" -> <<PairOr(Expect(i.k), i.k), Expect("i"), Expect("a")>>
      [] i.op = "putfield" -> <<PairOr(AnyType, i.k), Expect("a")>>
      [] i.op \in {"getfield", "arraylength", "checkcast", "instanceof", "monitor"} ->
             <<Expect("a")>>
      [] i.op \in {"switch", "newarray"} -> <<Expect("i")>>
      [] i.op = "multianewarray" -> <<Expect("i"), Expect("i")>>
      [] i.op = "invokestatic" -> Arguments(i.args)
      [] i.op = "invokevirtual" -> Append(Arguments(i.args), Exact("a"))

Reject == [ver EXCEPT !.ok = FALSE]
Accepts(types, check) ==
    LET n == Len(types) IN
    CASE check.how = "pair" -> n >= 2 /\ types[n] = "top" /\ Cat2(types[n - 1])
      [] check.how = "any" -> n >= 1
      [] check.how = "expect" ->
             n >= 1 /\ (types[n] = check.k \/ (types[n] = "top" /\ check.k # "a"))
      [] check.how = "exact" -> n >= 1 /\ types[n] = check.k

\* The state after the checks of an instruction, each on what the ones before
\* it left.
Checked(checks) ==
    LET popped == [k \in DOMAIN checks |-> IF checks[k].how = "pair" THEN 2 ELSE 1]
        passed == \A k \in DOMAIN checks :
                      Accepts(Below(ver.types, Depths(popped)[k - 1]), checks[k])
    IN  IF ver.ok /\ passed THEN [ver EXCEPT !.types = Below(@, Total(popped))] ELSE Reject

Push(v, t) == [v EXCEPT !.types = @ \o (IF Cat2(t) THEN <<t, "top">> ELSE <<t>>)]

\* shift pushes back the very type it popped.
VerPush(i) == IF i.op = "shift" THEN ver.types[Len(ver.types) - 1] ELSE Gives(i)

VerStep(i) ==
    LET checked == Checked(VerPops(i))
    IN  IF Gives(i) = "v" \/ ~checked.ok THEN checked ELSE Push(checked, VerPush(i))

VerShuffle(op) ==
    IF \/ Len(ver.types) < Block(op)[1] + Block(op)[2]
       \/ op = "swap" /\ \E t \in Range(Top(ver.types, 2)) : Cat2(t)
    THEN Reject
    ELSE [ver EXCEPT !.types = Shuffled(op, @)]

VerLoad(i) ==
    IF (i.op = "wload" /\ Cat2(i.k)) \/ ver.locals[i.n] # i.k
    THEN Reject ELSE Push(ver, i.k)

-----------------------------------------------------------------------------
Unset == [n \in Locals |-> NoValue]

\* A method is entered: the stacks are empty and no local is set.
EmitEntry == [on |-> TRUE, ok |-> TRUE, depth |-> 0, locals |-> Unset,
              s |-> [d \in Variables |-> Junk]]
EmitOff == [EmitEntry EXCEPT !.on = FALSE]

Init ==
    /\ jvm = [stack |-> <<>>, locals |-> Unset]
    /\ interp = [slots |-> <<>>, locals |-> Unset, ok |-> TRUE]
    /\ emit = EmitEntry
    /\ ver = [types |-> <<>>, locals |-> [n \in Locals |-> "top"], ok |-> TRUE]

\* The emitter gives up the whole method at an opcode it does not know;
\* otherwise the depth at the next pc is the canonical one.
Emitted(i, s, locals, ok) ==
    IF ~emit.on \/ Unsupported(i.op) THEN EmitOff
    ELSE [on |-> TRUE, ok |-> emit.ok /\ ok, depth |-> NextDepth(i), locals |-> locals,
          s |-> Live(s, NextDepth(i))]

\* The depth at which the emitter leaves its operands and puts its result.
ResultAt(i) == emit.depth - Total(EmitPops(i))
Written(s, d, v) == IF d \in Variables THEN [s EXCEPT ![d] = v] ELSE s

\* An instruction that takes operands from the stack and may push a result:
\* constants, arithmetic, conversions, comparisons, branches, fields, arrays,
\* objects, monitors and calls.
Compute(i) ==
    /\ Legal(i)
    /\ Gives(i) # "v" => Free(Gives(i)) # {}
    /\ jvm' = [jvm EXCEPT !.stack = Below(@, OperandSlots(i)) \o Result(i)]
    /\ interp' = [interp EXCEPT !.slots = Below(@, Total(InterpPops(i))) \o Result(i),
                                !.ok = @ /\ InterpRead(i) = Taken(i)]
    /\ emit' = Emitted(i, IF Gives(i) = "v" THEN emit.s
                          ELSE Written(emit.s, ResultAt(i), Computed(i)),
                       emit.locals, EmitRead(i) = Taken(i))
    /\ ver' = VerStep(i)

\* pop, dup, swap and their kin move slots and look at no value.
Shuffle(i) ==
    /\ LegalShuffle(i.op)
    /\ jvm' = [jvm EXCEPT !.stack = Shuffled(i.op, @)]
    /\ interp' = [interp EXCEPT !.slots = InterpShuffled(i.op)]
    /\ emit' = IF Unsupported(i.op) THEN EmitOff
               ELSE Emitted(i, Assigned(emit.s, emit.depth, Assignments(i.op)), emit.locals,
                            TRUE)
    /\ ver' = VerShuffle(i.op)

Load(i) ==
    /\ jvm.locals[i.n].kind = i.k
    /\ Room(Width(i.k))
    /\ jvm' = [jvm EXCEPT !.stack = @ \o SlotsOf(jvm.locals[i.n])]
    /\ interp' = [interp EXCEPT !.slots = @ \o SlotsOf(interp.locals[i.n])]
    /\ emit' = Emitted(i, Written(emit.s, emit.depth, emit.locals[i.n]), emit.locals, TRUE)
    /\ ver' = VerLoad(i)

\* A store; what an engine keeps in a local that the store made unusable is
\* dropped, since no legal instruction reads it.
Store(i) ==
    /\ Legal(i)
    /\ i.n + Width(i.k) <= MaxLocals
    /\ LET v == SlotAt(jvm.stack, Width(i.k))
           locals == Stored(jvm.locals, i.n, v)
           Kept(old, new, none) ==
               [m \in Locals |-> IF locals[m] = NoValue THEN none ELSE IF m = i.n THEN new ELSE old[m]]
       IN
       /\ jvm' = [stack |-> Below(jvm.stack, Width(i.k)), locals |-> locals]
       /\ interp' = [slots |-> Below(interp.slots, Total(InterpPops(i))),
                     locals |-> Kept(interp.locals, SlotAt(interp.slots, Total(InterpPops(i))), NoValue),
                     ok |-> interp.ok /\ InterpRead(i) = Taken(i)]
       /\ emit' = IF ~emit.on \/ Unsupported(i.op) THEN EmitOff
                  ELSE Emitted(i, emit.s, Kept(emit.locals, Var(ResultAt(i)), NoValue),
                               EmitRead(i) = Taken(i))
       /\ ver' = LET checked == Checked(VerPops(i))
                 IN  IF checked.ok THEN [checked EXCEPT !.locals = Kept(@, i.k, "top")]
                     ELSE checked

\* iinc replaces an int local in place.
Iinc(i) ==
    /\ jvm.locals[i.n].kind = "i"
    /\ Free("i") # {}
    /\ LET v == Fresh("i") IN
       /\ jvm' = [jvm EXCEPT !.locals[i.n] = v]
       /\ interp' = [interp EXCEPT !.locals[i.n] = v,
                                   !.ok = @ /\ interp.locals[i.n] = jvm.locals[i.n]]
       /\ emit' = Emitted(i, emit.s, [emit.locals EXCEPT ![i.n] = v],
                          emit.locals[i.n] = jvm.locals[i.n])
    /\ ver' = IF ver.locals[i.n] = "i" THEN ver ELSE Reject

\* A return takes its value; the next instruction is another method's first.
Return(i) ==
    /\ Legal(i)
    /\ jvm' = [stack |-> <<>>, locals |-> Unset]
    /\ interp' = [slots |-> <<>>, locals |-> Unset,
                  ok |-> interp.ok /\ InterpRead(i) = Taken(i)]
    /\ emit' = [EmitEntry EXCEPT !.ok = emit.on => emit.ok /\ EmitRead(i) = Taken(i)]
    /\ ver' = [types |-> <<>>, locals |-> [n \in Locals |-> "top"],
               ok |-> Checked(VerPops(i)).ok]

Next ==
    \/ \E i \in Plain : Compute(i)
    \/ \E i \in Shuffles : Shuffle(i)
    \/ \E i \in LocalOps({"load", "wload"}, Kinds) : Load(i)
    \/ \E i \in LocalOps({"store", "wstore"}, Kinds) : Store(i)
    \/ \E i \in LocalOps({"iinc"}, {"i"}) : Iinc(i)
    \/ \E i \in Returns : Return(i)

Spec == Init /\ [][Next]_vars

-----------------------------------------------------------------------------
(* Properties                                                              *)

\* The interpreter's slots are the JVM's stack, every long and double a value
\* and its sentinel, its locals hold the JVM's, and every instruction read the
\* operands the JVM gives it (internal/vm/interp.go, exec).
InterpMatches ==
    /\ interp.ok
    /\ interp.slots = jvm.stack
    /\ \A n \in Locals : jvm.locals[n] # NoValue => interp.locals[n] = jvm.locals[n]

\* The emitted Go code reads every operand from the variable the JVM's stack
\* puts it in, and the depth computed for a pc is the height of the stack there,
\* although the depths come from a table of net effects that was written apart
\* from the translation (internal/emitter/emit_one.go, canonical_depth.go).
EmitMatches == emit.on =>
    /\ emit.ok
    /\ emit.depth = Len(jvm.stack)
    /\ \A p \in DOMAIN jvm.stack : jvm.stack[p] # Pad => Var(p - 1) = jvm.stack[p]
    /\ \A n \in Locals : jvm.locals[n] # NoValue => emit.locals[n] = jvm.locals[n]

TypesOf(slots) ==
    [p \in DOMAIN slots |-> IF slots[p] = Pad THEN "top" ELSE slots[p].kind]

\* The verifier accepts every legal block and its types are those of the JVM's
\* stack and locals (internal/verify).
VerifierMatches ==
    /\ ver.ok
    /\ ver.types = TypesOf(jvm.stack)
    /\ \A n \in Locals : jvm.locals[n] # NoValue => ver.locals[n] = jvm.locals[n].kind

=============================================================================
