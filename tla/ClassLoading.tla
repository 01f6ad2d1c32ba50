---- MODULE ClassLoading ----
(***************************************************************************)
(* kernel/loader.go and kernel/kernel.go: threads resolve class names      *)
(* against the registry (k.classes, guarded by k.mu) and, when the name is *)
(* absent, load the class file under the loader's mutex, its superclass    *)
(* and interfaces first.  A class enters the registry before they do.      *)
(* Field layout and the verifier's subclass questions are part of linking. *)
(***************************************************************************)
EXTENDS Naturals, FiniteSetsExt, SequencesExt

CONSTANTS
  Thread, NoThread,
  Class,     \* every class name but java/lang/Object
  NoClass,   \* java/lang/Object: always there, no fields
  Super,     \* the superclass each class file names
  Ifaces,    \* the interfaces it names, in order
  Synth,     \* the classes synthesized at bootstrap
  Bad,       \* names with no class file, or one that does not parse
  Garbled,   \* classes with a ConstantValue constPoolPrimitive does not read
  Fields,    \* those each class declares: name (and descriptor), width, static
  Mentioned, \* those running code names; others are only loaded for these
  Asks       \* the pairs a class's verification wants to be subclass and class

ASSUME ThreadAssumption == NoThread \notin Thread /\ NoClass \notin Class
ASSUME GraphAssumption == /\ IsFiniteSet(Class)
                          /\ Super \in [Class -> Class \cup {NoClass}]
                          /\ Ifaces \in [Class -> Seq(Class)]
ASSUME FieldAssumption == \A c \in Class :
  /\ Fields[c] \in Seq(Range(Fields[c]))
  /\ \A f \in Range(Fields[c]) : f.width \in 1..2 /\ f.static \in BOOLEAN
ASSUME SynthAssumption == /\ Synth \subseteq Class /\ Bad \cup Garbled \subseteq Class \ Synth
                          /\ \A c \in Synth : /\ Super[c] \in Synth \cup {NoClass}
                                              /\ Ifaces[c] = <<>>

VARIABLES
  lmu,     \* the holder of ClassPathLoader.mu
  cycle,   \* ClassPathLoader.cycle
  status,  \* absent from the registry, a placeholder in it, or linked
  super,   \* Class.Super
  ifaces,  \* Class.Ifaces, as a set
  view,    \* Class.fieldsByKey: own and inherited fields by name
  size,    \* Class.layoutSize
  statics, \* len(Class.Statics)
  stack,   \* each thread's nested calls of loadLocked, innermost last
  got,     \* what the thread's last call of Load returned
  init     \* whether the class was initialized, and with its <clinit> or not

record == <<super, ifaces, view, size, statics>>
vars == <<lmu, cycle, status, record, stack, got, init>>

Positions == {"lock", "read", "deps", "failed"}
Frame == [cls : Class, at : Positions, done : Nat]
Nothing == [cls |-> NoClass, ok |-> TRUE]

Deps(c) == (IF Super[c] = NoClass THEN <<>> ELSE <<Super[c]>>) \o Ifaces[c]

\* c and what it names, and what that names, along pointers up and across: the
\* least set with c that the pointers do not leave.
ClosedUp(S, up, across) == \A x \in S : across[x] \subseteq S /\ up[x] \in S \cup {NoClass}
Upward(c, up, across) ==
  {x \in Class : \A S \in SUBSET Class : c \in S /\ ClosedUp(S, up, across) => x \in S}

\* c, its superclass, and so on up; circular pointers never end.
Up(c, up) ==
  LET at[n \in 0..Cardinality(Class)] ==
        IF n = 0 THEN c ELSE IF at[n - 1] = NoClass THEN NoClass ELSE up[at[n - 1]]
  IN at
Ends(c, up) == Up(c, up)[Cardinality(Class)] = NoClass

----
(* Layout: the fields of a class and its superclasses, root first.  A field *)
(* is known by its class, how far up that is, and its number there.  Static *)
(* fields are appended to their class's Statics.                            *)

Places(at, skipped) == UNION {
  {[far |-> i, cls |-> at[i], num |-> j] : j \in DOMAIN Fields[at[i]]} :
    i \in {n \in DOMAIN at : at[n] \notin skipped \cup {NoClass}}}

Fld(p) == Fields[p.cls][p.num]
Before(p, q) == p.far > q.far \/ (p.far = q.far /\ p.num < q.num)
LastOf(S) == CHOOSE p \in S : \A q \in S \ {p} : Before(q, p)

Instance(all) == {p \in all : ~Fld(p).static}
StaticsOf(all, x) == {p \in all : Fld(p).static /\ p.cls = x}

\* Mutant: a long takes one slot.
NarrowWidth(S) == Cardinality(S)

\* How many slots the fields S take.
Width(S) == Cardinality(UNION {{p} \X (1..Fld(p).width) : p \in S})

Slot(all, p, lens) ==
  IF Fld(p).static
  THEN lens[p.cls] + Cardinality({q \in StaticsOf(all, p.cls) : Before(q, p)})
  ELSE Width({q \in Instance(all) : Before(q, p)})

\* The flat view: a later field hides an earlier one of its name.  The code's key
\* is name and descriptor: fields of one name and two types are two names here.
ViewOf(all, lens) ==
  [n \in {Fld(p).name : p \in all} |->
    LET p == LastOf({q \in all : Fld(q).name = n})
    IN [home |-> p.cls, static |-> Fld(p).static,
        width |-> Fld(p).width, slot |-> Slot(all, p, lens)]]

\* DefineClass lays a synthesized class out with all its superclasses;
\* LoadClassBytesWith leaves the synthesized ones out.
SynthFields(c) == Places(Up(c, Super), {})
LoadedFields(c) == Places(Up(c, super), Synth)

----
Init ==
  /\ lmu = NoThread
  /\ cycle = {}
  /\ status = [c \in Class |-> IF c \in Synth THEN "linked" ELSE "absent"]
  /\ super = [c \in Class |-> IF c \in Synth THEN Super[c] ELSE NoClass]
  /\ ifaces = [c \in Class |-> {}]
  /\ view = [c \in Class |-> IF c \in Synth
               THEN ViewOf(SynthFields(c), [x \in Class |-> 0]) ELSE <<>>]
  /\ size = [c \in Class |-> IF c \in Synth
               THEN Width(Instance(SynthFields(c))) ELSE 0]
  /\ statics = [c \in Class |-> Cardinality(
                  {d \in Synth : c \in Range(Up(d, Super))} \X
                  {j \in DOMAIN Fields[c] : Fields[c][j].static})]
  /\ stack = [t \in Thread |-> <<>>]
  /\ got = [t \in Thread |-> Nothing]
  /\ init = [c \in Class |-> IF c \in Synth THEN "ran" ELSE "no"]

At(t, p) == stack[t] # <<>> /\ Last(stack[t]).at = p
Current(t) == Last(stack[t]).cls
MoveTo(s, p) == [s EXCEPT ![Len(s)].at = p]
Call(s, c) == Append(s, [cls |-> c, at |-> "read", done |-> 0])

\* ResolveClass and Load: a registered class is returned as it is, linked or
\* not; for an absent one the thread queues for the loader's mutex.
Resolve(t, c) ==
  /\ c \in Mentioned /\ stack[t] = <<>>
  /\ IF status[c] # "absent"
     THEN /\ got' = [got EXCEPT ![t] = [cls |-> c, ok |-> TRUE]]
          /\ UNCHANGED stack
     ELSE /\ stack' = [stack EXCEPT ![t] = <<[cls |-> c, at |-> "lock", done |-> 0]>>]
          /\ got' = [got EXCEPT ![t] = Nothing]
  /\ UNCHANGED <<lmu, cycle, status, record, init>>

\* Mutant: the winner of the race for the mutex is not looked for.
LockWithoutRecheck(t) ==
  /\ At(t, "lock")
  /\ lmu = NoThread
  /\ lmu' = t
  /\ cycle' = cycle \cup {Current(t)}
  /\ stack' = [stack EXCEPT ![t] = MoveTo(@, "read")]
  /\ UNCHANGED <<status, record, got, init>>

\* The mutex is taken and loadLocked looks again for a class registered
\* meanwhile.  (Its test of l.cycle never hits: a class being loaded is in the
\* registry, and found there, before the load can come back to it.)
Lock(t) ==
  LET c == Current(t) IN
  /\ At(t, "lock")
  /\ lmu = NoThread
  /\ IF status[c] # "absent"
     THEN /\ stack' = [stack EXCEPT ![t] = <<>>]
          /\ got' = [got EXCEPT ![t] = [cls |-> c, ok |-> TRUE]]
          /\ UNCHANGED <<lmu, cycle>>
     ELSE /\ lmu' = t
          /\ cycle' = cycle \cup {c}
          /\ stack' = [stack EXCEPT ![t] = MoveTo(@, "read")]
          /\ UNCHANGED got
  /\ UNCHANGED <<status, record, init>>

\* Mutant: the outermost call returns without unlocking.
ReturnLocked(t, ok) ==
  LET c == Current(t)  rest == Front(stack[t]) IN
  /\ cycle' = cycle \ {c}
  /\ stack' = [stack EXCEPT ![t] =
                 IF rest = <<>> \/ ok THEN rest ELSE MoveTo(rest, "failed")]
  /\ got' = IF rest = <<>> THEN [got EXCEPT ![t] = [cls |-> c, ok |-> ok]] ELSE got
  /\ UNCHANGED lmu

\* loadLocked returns: to the class that depends on this one (which finds it in
\* the registry, or fails as well), or out of Load, the mutex released.
Return(t, ok) ==
  LET c == Current(t)  rest == Front(stack[t]) IN
  /\ cycle' = cycle \ {c}
  /\ stack' = [stack EXCEPT ![t] =
                 IF rest = <<>> \/ ok THEN rest ELSE MoveTo(rest, "failed")]
  /\ IF rest = <<>>
     THEN /\ lmu' = NoThread
          /\ got' = [got EXCEPT ![t] = [cls |-> c, ok |-> ok]]
     ELSE UNCHANGED <<lmu, got>>

\* The file is read and parsed, and a placeholder with no superclass, fields
\* or methods registered.
Register(t) ==
  LET c == Current(t) IN
  /\ At(t, "read")
  /\ IF c \in Bad \/ status[c] # "absent"
     THEN Return(t, FALSE) /\ UNCHANGED <<status, record, init>>
     ELSE /\ status' = [status EXCEPT ![c] = "placed"]
          /\ super' = [super EXCEPT ![c] = NoClass]
          /\ ifaces' = [ifaces EXCEPT ![c] = {}]
          /\ view' = [view EXCEPT ![c] = <<>>]
          /\ size' = [size EXCEPT ![c] = 0]
          /\ statics' = [statics EXCEPT ![c] = 0]
          /\ init' = [init EXCEPT ![c] = "no"]
          /\ stack' = [stack EXCEPT ![t] = MoveTo(@, "deps")]
          /\ UNCHANGED <<lmu, cycle, got>>

\* The next superclass or interface: taken from the registry, in whatever
\* state it is there, or loaded.
Depend(t) ==
  LET c == Current(t)
      i == Last(stack[t]).done + 1
      d == Deps(c)[i]
  IN
  /\ At(t, "deps")
  /\ i <= Len(Deps(c))
  /\ IF status[d] # "absent"
     THEN /\ IF i = 1 /\ Super[c] # NoClass
             THEN super' = [super EXCEPT ![c] = d] /\ UNCHANGED ifaces
             ELSE ifaces' = [ifaces EXCEPT ![c] = @ \cup {d}] /\ UNCHANGED super
          /\ stack' = [stack EXCEPT ![t][Len(stack[t])].done = i]
          /\ UNCHANGED cycle
     ELSE /\ stack' = [stack EXCEPT ![t] = Call(@, d)]
          /\ cycle' = cycle \cup {d}
          /\ UNCHANGED <<super, ifaces>>
  /\ UNCHANGED <<lmu, status, view, size, statics, got, init>>

\* The verifier's answer: names it does not know pass, known ones are judged
\* by the pointers they have now.
Accepts(x, y) == \/ x = y
                 \/ status[x] = "absent" \/ status[y] = "absent"
                 \/ y \in Upward(x, super, ifaces)

\* The layout of c, from the fields of the loaded classes of its chain.
Layout(c, all) ==
  /\ view' = [view EXCEPT ![c] = ViewOf(all, statics)]
  /\ size' = [size EXCEPT ![c] = Width(Instance(all))]
  /\ statics' = [x \in Class |-> statics[x] + Cardinality(StaticsOf(all, x))]

\* The constants of its static fields are read and its methods verified.
Passes(c) == c \notin Garbled /\ \A p \in Asks[c] : Accepts(p[1], p[2])

\* Mutant: linking does not wait for the interfaces.
LinkEarly(t) ==
  LET c == Current(t) IN
  /\ At(t, "deps")
  /\ Last(stack[t]).done >= 1 \/ Deps(c) = <<>>
  /\ Ends(c, super)
  /\ \E all \in {LoadedFields(c)} : Layout(c, all)
  /\ status' = [status EXCEPT ![c] = "linked"]
  /\ Return(t, TRUE)
  /\ UNCHANGED <<super, ifaces, init>>

\* Layout, methods and verification.  A circle of superclass pointers keeps
\* the layout loop in it for ever: no step.  (A constant that is not read ends
\* the layout at its field; the class's placeholder is deleted at once, so how
\* much of it was laid out is left out, its superclasses' Statics apart.)
Link(t) ==
  LET c == Current(t) IN
  /\ At(t, "deps")
  /\ Last(stack[t]).done = Len(Deps(c))
  /\ Ends(c, super)
  /\ \E all \in {LoadedFields(c)} : Layout(c, all)
  /\ IF Passes(c)
     THEN /\ status' = [status EXCEPT ![c] = "linked"]
          /\ Return(t, TRUE)
     ELSE /\ stack' = [stack EXCEPT ![t] = MoveTo(@, "failed")]
          /\ UNCHANGED <<lmu, cycle, status, got>>
  /\ UNCHANGED <<super, ifaces, init>>

\* Mutant: a failed load leaves its placeholder.
FailKeepingPlaceholder(t) ==
  /\ At(t, "failed")
  /\ Return(t, FALSE)
  /\ UNCHANGED <<status, record, init>>

\* A dependency, a constant or the verification failed: the placeholder is deleted.
Fail(t) ==
  /\ At(t, "failed")
  /\ status' = [status EXCEPT ![Current(t)] = "absent"]
  /\ Return(t, FALSE)
  /\ UNCHANGED <<record, init>>

\* EnsureInitialized of a class the thread has resolved, as one step (module
\* ClassInit has the rest of it): a class without methods has no <clinit>.
Initialize(t, c) ==
  /\ stack[t] = <<>>
  /\ got[t] = [cls |-> c, ok |-> TRUE]
  /\ status[c] # "absent" /\ init[c] = "no"
  /\ init' = [init EXCEPT ![c] = IF status[c] = "linked" THEN "ran" ELSE "skipped"]
  /\ UNCHANGED <<lmu, cycle, status, record, stack, got>>

Load(t) == Register(t) \/ Depend(t) \/ Link(t) \/ Fail(t)

Next == \E t \in Thread :
  \/ \E c \in Class : Resolve(t, c) \/ Initialize(t, c)
  \/ Lock(t) \/ Load(t)

\* Go's mutex gives a starving waiter its turn: strong fairness.
Fairness == \A t \in Thread : SF_vars(Lock(t)) /\ WF_vars(Load(t))

Spec == Init /\ [][Next]_vars
FairSpec == Spec /\ Fairness

----
\* Types of the variables.
Entry == [home : Class, static : BOOLEAN, width : Nat, slot : Nat]
\* The files a class's file needs, itself included.
Files == [c \in Class |-> Upward(c, Super, [x \in Class |-> Range(Ifaces[x])])]

\* No file needs itself: the loader does not look for circles of interfaces, and
\* a circle of superclasses stops it (Link).
Acyclic == \A c \in Class : \A d \in Range(Deps(c)) : c \notin Files[d]

\* What verification wants of two classes is so, and it asks nothing of a class
\* whose load is waiting for this one: the answer would be from half a class.
AsksSound == \A c \in Class : \A p \in Asks[c] :
  /\ p[1] \in Class /\ p[2] \in Files[p[1]]
  /\ p[1] = c \/ c \notin Files[p[1]]

\* The classes synthesized at bootstrap, whose fields LoadClassBytesWith leaves
\* out of a layout, have none in an object.
SynthPlain == \A c \in Synth : \A f \in Range(Fields[c]) : f.static

\* Load fails only for a file that is missing, does not parse or has a constant
\* of the wrong kind, the class's own or one it needs: a race of loads of one
\* class fails for nobody.
ErrorsJustified == \A t \in Thread :
  ~got[t].ok => Files[got[t].cls] \cap (Bad \cup Garbled) # {}

\* A linked class has the superclass and interfaces its file names, and they are
\* linked as well, whatever failed or raced on the way.
LinkedClosed == \A c \in Class : status[c] = "linked" =>
  /\ super[c] = Super[c] /\ ifaces[c] = Range(Ifaces[c])
  /\ \A d \in Files[c] : status[d] = "linked"

\* While nobody loads, nothing is half loaded: every placeholder was linked or
\* deleted, every mark of l.cycle removed.
NothingHalfLoadedAtRest ==
  lmu = NoThread => cycle = {} /\ \A c \in Class : status[c] # "placed"

\* The class whose view the resolution of a name ends in (ResolveField).
Chain(c) == Range(Up(c, super)) \ {NoClass}
Holder(c, n) == LET at == Up(c, super)
                IN at[Min({i \in DOMAIN at : at[i] # NoClass /\ n \in DOMAIN view[at[i]]})]
Names(c) == UNION {DOMAIN view[x] : x \in Chain(c)}
Field(c, n) == view[Holder(c, n)][n]
Slots(f) == f.slot .. (f.slot + f.width - 1)

\* Two fields of an object, wherever up its chain they were declared, share no
\* slot, and every field's slots lie within the object.
SlotsDisjoint == \A c \in Class : status[c] = "linked" =>
  LET own == {n \in Names(c) : ~Field(c, n).static} IN
  /\ \A n \in own : Slots(Field(c, n)) \subseteq 0 .. (size[c] - 1)
  /\ \A n, o \in own : n # o => Slots(Field(c, n)) \cap Slots(Field(c, o)) = {}

\* Every load ends: the mutex comes round to each waiter, and no chain of
\* dependencies, failed or not, holds it for ever.
LoadEnds == \A t \in Thread : stack[t] # <<>> ~> stack[t] = <<>>

----
\* The claim of loader.go's "waiters ... receive the winner's class": a thread
\* that races to a class never finds it without its methods.  A thread that
\* needs no mutex, because it meets the placeholder, does, and initializes the
\* class without its <clinit>.
InitializedWithClinit == \A c \in Class : init[c] # "skipped"

\* The comment on Field.StaticSlot, "index into Holder.Statics": the cell an
\* access through any class reaches (that class's Statics, at the slot its flat
\* view gives) is the cell of the class that declares the field.
StaticsHaveOneHome == \A c \in Class : status[c] = "linked" =>
  \A n \in {m \in Names(c) : Field(c, m).static} :
    LET f == Field(c, n) IN
    f.home \notin Synth => <<c, f.slot>> = <<f.home, view[f.home][n].slot>>
====
