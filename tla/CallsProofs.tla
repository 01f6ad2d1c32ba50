---- MODULE CallsProofs ----
(***************************************************************************)
(* Theorems about what a call finds and what it leaves: first Frames, for  *)
(* every set of threads, methods and objects, every choice of engines and  *)
(* every size of the depth budget; then MemberLookup, for every number of  *)
(* types and interfaces.                                                   *)
(***************************************************************************)
EXTENDS Frames, MemberLookup, SequenceTheorems, FiniteSetTheorems,
        WellFoundedInduction, TLAPS


(***************************************************************************)
(* Stacks of calls.                                                        *)
(***************************************************************************)

(* What Append, Front and Last do, position by position.                   *)
LEMMA AppendFacts ==
  ASSUME NEW S, NEW s \in Seq(S), NEW x \in S
  PROVE  /\ Append(s, x) \in Seq(S) /\ Append(s, x) # <<>>
         /\ Len(Append(s, x)) = Len(s) + 1
         /\ DOMAIN Append(s, x) = 1..(Len(s) + 1)
         /\ \A i \in 1..Len(s) : Append(s, x)[i] = s[i]
         /\ Append(s, x)[Len(s) + 1] = x
OBVIOUS

LEMMA FrontFacts ==
  ASSUME NEW S, NEW s \in Seq(S), s # <<>>
  PROVE  /\ Len(s) \in Nat \ {0} /\ DOMAIN s = 1..Len(s)
         /\ Front(s) \in Seq(S) /\ Len(Front(s)) = Len(s) - 1
         /\ DOMAIN Front(s) = 1..(Len(s) - 1)
         /\ \A i \in 1..(Len(s) - 1) : Front(s)[i] = s[i]
         /\ Last(s) = s[Len(s)] /\ Last(s) \in S
<1>1. Len(s) \in Nat \ {0} /\ DOMAIN s = 1..Len(s) /\ s[Len(s)] \in S
  BY EmptySeq, LenProperties, ElementOfSeq
<1>2. \A i \in 1..(Len(s) - 1) : s[i] \in S
  BY <1>1, ElementOfSeq
<1>3. 1 \in Int /\ Len(s) - 1 \in Int
  BY <1>1
<1>4. /\ SubSeq(s, 1, Len(s) - 1) \in Seq(S)
      /\ Len(SubSeq(s, 1, Len(s) - 1)) = IF 1 <= Len(s) - 1 THEN Len(s) - 1 - 1 + 1 ELSE 0
      /\ \A i \in 1..(Len(s) - 1 - 1 + 1) : SubSeq(s, 1, Len(s) - 1)[i] = s[1 + i - 1]
  BY <1>2, <1>3, SubSeqProperties
<1>5. Front(s) = SubSeq(s, 1, Len(s) - 1) /\ Last(s) = s[Len(s)]
  BY DEF Front, Last
<1>6. Front(s) \in Seq(S) /\ Len(Front(s)) = Len(s) - 1
  BY <1>1, <1>4, <1>5
<1>7. DOMAIN Front(s) = 1..(Len(s) - 1)
  BY <1>6, LenProperties
<1>8. \A i \in 1..(Len(s) - 1) : Front(s)[i] = s[i]
  BY <1>1, <1>4, <1>5
<1> QED BY <1>1, <1>5, <1>6, <1>7, <1>8

LEMMA AppendFront ==
  ASSUME NEW S, NEW s \in Seq(S), s # <<>>
  PROVE  Append(Front(s), Last(s)) = s
<1>1. /\ Append(Front(s), Last(s)) \in Seq(S)
      /\ Len(Append(Front(s), Last(s))) = Len(s)
      /\ \A i \in 1..Len(s) : Append(Front(s), Last(s))[i] = s[i]
  BY FrontFacts, AppendFacts
<1> QED BY <1>1, SeqEqual

(* What it is for a place to be in HeldIn.                                  *)
LEMMA HeldInOf ==
  ASSUME NEW s \in Seq(Call), NEW o
  PROVE  /\ HeldIn(s, o) \subseteq (1..Len(s)) \X Nat
         /\ \A i \in 1..Len(s), j \in Nat :
              <<i, j>> \in HeldIn(s, o) <=> (j <= Len(s[i].blocks) /\ Place(s, i, j) = o)
<1>1. DOMAIN s = 1..Len(s) /\ \A i \in 1..Len(s) : Len(s[i].blocks) \in Nat
  BY LenProperties, ElementOfSeq DEF Call
<1> QED BY <1>1 DEF HeldIn

(* A call that is entered holds what it was locked for, and nothing else.   *)
OneCallMore(s, t, n) == /\ Len(s) = n /\ Len(t) = n + 1
                        /\ \A i \in 1..n : t[i] = s[i]
                        /\ t[n + 1].blocks = <<>>

LEMMA HeldByCall ==
  ASSUME NEW s \in Seq(Call), NEW t \in Seq(Call), NEW n \in Nat,
         OneCallMore(s, t, n), NEW o
  PROVE  /\ <<n + 1, 0>> \notin HeldIn(s, o)
         /\ HeldIn(t, o) = IF t[n + 1].sync = o THEN HeldIn(s, o) \cup {<<n + 1, 0>>}
                                                ELSE HeldIn(s, o)
<1> USE DEF OneCallMore
<1>1. Len(t[n + 1].blocks) = 0
  OBVIOUS
<1>2. HeldIn(s, o) \subseteq (1..n) \X Nat /\ HeldIn(t, o) \subseteq (1..(n + 1)) \X Nat
  BY HeldInOf
<1>3. ASSUME NEW i \in 1..n, NEW j \in Nat
      PROVE  <<i, j>> \in HeldIn(t, o) <=> <<i, j>> \in HeldIn(s, o)
  <2>1. Place(t, i, j) = Place(s, i, j) /\ t[i].blocks = s[i].blocks /\ i \in 1..(n + 1)
    BY DEF Place
  <2>2. <<i, j>> \in HeldIn(t, o) <=> (j <= Len(t[i].blocks) /\ Place(t, i, j) = o)
    BY <2>1, HeldInOf
  <2>3. <<i, j>> \in HeldIn(s, o) <=> (j <= Len(s[i].blocks) /\ Place(s, i, j) = o)
    BY HeldInOf
  <2> QED BY <2>1, <2>2, <2>3
<1>4. ASSUME NEW j \in Nat
      PROVE  <<n + 1, j>> \in HeldIn(t, o) <=> (j = 0 /\ t[n + 1].sync = o)
  <2>1. n + 1 \in 1..(n + 1) /\ Len(t[n + 1].blocks) = 0 /\ Place(t, n + 1, 0) = t[n + 1].sync
    BY <1>1 DEF Place
  <2>2. <<n + 1, j>> \in HeldIn(t, o) <=> (j <= 0 /\ Place(t, n + 1, j) = o)
    BY <2>1, HeldInOf
  <2> QED BY <2>1, <2>2
<1>5. \A i \in 1..(n + 1) : i \in 1..n \/ i = n + 1
  OBVIOUS
<1>6. ASSUME NEW p
      PROVE  p \in HeldIn(t, o) <=> (p \in HeldIn(s, o) \/ (t[n + 1].sync = o /\ p = <<n + 1, 0>>))
  BY <1>2, <1>3, <1>4, <1>5
<1>7. <<n + 1, 0>> \notin HeldIn(s, o)
  BY <1>2
<1> QED BY <1>6, <1>7

(* Two stacks that differ in one block, the innermost call's last.          *)
OneBlockMore(s, t, n, k, x) ==
  /\ Len(s) = n /\ Len(t) = n /\ \A i \in 1..(n - 1) : t[i] = s[i]
  /\ t[n].sync = s[n].sync
  /\ Len(s[n].blocks) = k /\ Len(t[n].blocks) = k + 1
  /\ \A j \in 1..k : t[n].blocks[j] = s[n].blocks[j]
  /\ t[n].blocks[k + 1] = x

LEMMA HeldByBlock ==
  ASSUME NEW s \in Seq(Call), NEW t \in Seq(Call), NEW n \in Nat \ {0},
         NEW k \in Nat, NEW x, OneBlockMore(s, t, n, k, x), NEW o
  PROVE  /\ <<n, k + 1>> \notin HeldIn(s, o)
         /\ HeldIn(t, o) = IF x = o THEN HeldIn(s, o) \cup {<<n, k + 1>>} ELSE HeldIn(s, o)
<1>0. Len(s) = n /\ Len(t) = n
  BY DEF OneBlockMore
<1>1. /\ HeldIn(s, o) \subseteq (1..n) \X Nat /\ HeldIn(t, o) \subseteq (1..n) \X Nat
      /\ \A i \in 1..n, j \in Nat :
           /\ <<i, j>> \in HeldIn(s, o) <=> (j <= Len(s[i].blocks) /\ Place(s, i, j) = o)
           /\ <<i, j>> \in HeldIn(t, o) <=> (j <= Len(t[i].blocks) /\ Place(t, i, j) = o)
  BY <1>0, HeldInOf
<1> USE DEF OneBlockMore
<1>2. ASSUME NEW i \in 1..(n - 1), NEW j \in Nat
      PROVE  <<i, j>> \in HeldIn(t, o) <=> <<i, j>> \in HeldIn(s, o)
  <2>1. Place(t, i, j) = Place(s, i, j) /\ t[i].blocks = s[i].blocks /\ i \in 1..n
    BY DEF Place
  <2> QED BY <1>1, <2>1
<1>3. ASSUME NEW j \in 0..k
      PROVE  <<n, j>> \in HeldIn(t, o) <=> <<n, j>> \in HeldIn(s, o)
  <2>1. Place(t, n, j) = Place(s, n, j) /\ n \in 1..n
    BY DEF Place
  <2> QED BY <1>1, <2>1
<1>4. ASSUME NEW j \in Nat, ~ (j \in 0..k)
      PROVE  /\ <<n, j>> \notin HeldIn(s, o)
             /\ <<n, j>> \in HeldIn(t, o) <=> (j = k + 1 /\ x = o)
  <2>1. Place(t, n, k + 1) = x /\ n \in 1..n /\ j > k
    BY <1>4 DEF Place
  <2> QED BY <1>1, <2>1
<1>5. \A i \in 1..n : i \in 1..(n - 1) \/ i = n
  OBVIOUS
<1>6. k + 1 \in Nat /\ ~ (k + 1 \in 0..k)
  OBVIOUS
<1>7. ASSUME NEW p
      PROVE  p \in HeldIn(t, o) <=> (p \in HeldIn(s, o) \/ (x = o /\ p = <<n, k + 1>>))
  <2>1. CASE p \in (1..n) \X Nat
    <3>1. PICK i \in 1..n, j \in Nat : p = <<i, j>>
      BY <2>1
    <3>2. CASE i \in 1..(n - 1)
      <4>1. p # <<n, k + 1>>
        BY <3>1, <3>2
      <4> QED BY <3>1, <3>2, <4>1, <1>2
    <3>3. CASE i = n /\ j \in 0..k
      <4>1. p # <<n, k + 1>>
        BY <3>1, <3>3
      <4> QED BY <3>1, <3>3, <4>1, <1>3
    <3>4. CASE i = n /\ ~ (j \in 0..k)
      <4>1. p = <<n, k + 1>> <=> j = k + 1
        BY <3>1, <3>4
      <4> QED BY <3>1, <3>4, <4>1, <1>4
    <3> QED BY <3>2, <3>3, <3>4, <1>5
  <2>2. CASE p \notin (1..n) \X Nat
    BY <2>2, <1>1
  <2> QED BY <2>1, <2>2
<1> QED BY <1>4, <1>6, <1>7

(* A change of the innermost call's blocks changes nothing else.            *)
WithBlocks(s, v) == [s EXCEPT ![Len(s)].blocks = v]

LEMMA TopBlocks ==
  ASSUME NEW s \in Seq(Call), s # <<>>, NEW v \in Seq(Object)
  PROVE  /\ WithBlocks(s, v) \in Seq(Call)
         /\ Len(WithBlocks(s, v)) = Len(s) /\ WithBlocks(s, v) # <<>>
         /\ \A i \in 1..Len(s) : /\ WithBlocks(s, v)[i].m = s[i].m
                                 /\ WithBlocks(s, v)[i].sync = s[i].sync
                                 /\ WithBlocks(s, v)[i].metered = s[i].metered
         /\ \A i \in 1..(Len(s) - 1) : WithBlocks(s, v)[i] = s[i]
         /\ WithBlocks(s, v)[Len(s)].blocks = v
<1>1. Len(s) \in Nat \ {0} /\ Len(s) \in 1..Len(s) /\ s[Len(s)] \in Call
  BY FrontFacts
<1>2. PICK c : c = [s[Len(s)] EXCEPT !.blocks = v]
  OBVIOUS
<1>3. /\ c \in Call /\ c.blocks = v /\ c.m = s[Len(s)].m /\ c.sync = s[Len(s)].sync
      /\ c.metered = s[Len(s)].metered
  BY <1>1, <1>2 DEF Call
<1>4. PICK t : t = WithBlocks(s, v)
  OBVIOUS
<1>5. t = [s EXCEPT ![Len(s)] = c]
  BY <1>2, <1>4 DEF WithBlocks
<1>6. PICK n \in 1..Len(s) : n = Len(s)
  BY <1>1
<1>7. t = [s EXCEPT ![n] = c]
  BY <1>5, <1>6
<1>8. /\ [s EXCEPT ![n] = c] \in Seq(Call) /\ Len([s EXCEPT ![n] = c]) = Len(s)
      /\ \A i \in 1..Len(s) : [s EXCEPT ![n] = c][i] = IF i = n THEN c ELSE s[i]
  BY <1>3, ExceptSeq
<1> QED BY <1>1, <1>3, <1>4, <1>6, <1>7, <1>8, EmptySeq

(***************************************************************************)
(* The types of the variables, and what each kind of step does to a stack. *)
(***************************************************************************)
Types ==
  /\ lock \in [Object -> [owner : Thread \cup {NoThread}, depth : Int]]
  /\ stack \in [Thread -> Seq(Call)]
  /\ depth \in [Thread -> Int]
  /\ jstack \in [Thread -> Seq(Method)]
  /\ exc \in [Thread -> Exceptions]

(* The call that t begins by calling m.                                     *)
NewCall(t, m) == [m |-> m, sync |-> SyncFor(EngineOf(t), m), blocks |-> <<>>,
                  metered |-> Metered(EngineOf(t), m)]

LEMMA NewCallFacts ==
  ASSUME NEW t \in Thread, NEW m \in Method
  PROVE  /\ NewCall(t, m) \in Call
         /\ NewCall(t, m).m = m /\ NewCall(t, m).blocks = <<>>
         /\ NewCall(t, m).sync = SyncFor(EngineOf(t), m)
         /\ NewCall(t, m).metered = Metered(EngineOf(t), m)
         /\ Metered(EngineOf(t), m) \in 0..2
         /\ Engine[m] = "interp" => Metered(EngineOf(t), m) \in 1..2
<1>1. Metered(EngineOf(t), m) \in 0..2 /\ (Engine[m] = "interp" => Metered(EngineOf(t), m) \in 1..2)
  BY DEF Metered
<1>2. SyncFor(EngineOf(t), m) \in Object \cup {NoObject}
  BY MethodAssumption DEF SyncFor
<1> QED BY <1>1, <1>2 DEF NewCall, Call

LEMMA LockTypes ==
  ASSUME lock \in [Object -> [owner : Thread \cup {NoThread}, depth : Int]],
         NEW t \in Thread, NEW o \in Object \cup {NoObject}
  PROVE  /\ Entered(lock, t, o) \in [Object -> [owner : Thread \cup {NoThread}, depth : Int]]
         /\ Exited(lock, o) \in [Object -> [owner : Thread \cup {NoThread}, depth : Int]]
BY DEF Entered, Exited

LEMMA InvokeTypes ==
  ASSUME Types, NEW t \in Thread, NEW m \in Method, Invoke(t, m)
  PROVE  /\ Types'
         /\ stack' = [stack EXCEPT ![t] = Append(@, NewCall(t, m))]
         /\ lock' = Entered(lock, t, NewCall(t, m).sync)
         /\ depth' = [depth EXCEPT ![t] = @ + NewCall(t, m).metered]
<1>1. /\ stack' = [stack EXCEPT ![t] = Append(@, NewCall(t, m))]
      /\ lock' = Entered(lock, t, NewCall(t, m).sync)
      /\ depth' = [depth EXCEPT ![t] = @ + NewCall(t, m).metered]
  BY DEF Invoke, NewCall
<1>2. NewCall(t, m) \in Call /\ NewCall(t, m).sync \in Object \cup {NoObject}
      /\ NewCall(t, m).metered \in Int
  BY NewCallFacts DEF Call
<1>3. lock' \in [Object -> [owner : Thread \cup {NoThread}, depth : Int]]
  BY <1>1, <1>2, LockTypes DEF Types
<1>4. Append(stack[t], NewCall(t, m)) \in Seq(Call) /\ Append(jstack[t], m) \in Seq(Method)
  BY <1>2, AppendFacts DEF Types
<1>5. stack' \in [Thread -> Seq(Call)] /\ depth' \in [Thread -> Int]
      /\ jstack' \in [Thread -> Seq(Method)] /\ exc' \in [Thread -> Exceptions]
  BY <1>1, <1>2, <1>4 DEF Types, Invoke
<1> QED BY <1>1, <1>3, <1>5 DEF Types

LEMMA LeaveTypes ==
  ASSUME Types, NEW t \in Thread, stack[t] # <<>>, jstack[t] # <<>>, Leave(t),
         exc' \in [Thread -> Exceptions]
  PROVE  Types'
<1>1. /\ Last(stack[t]) \in Call /\ Front(stack[t]) \in Seq(Call) /\ Front(jstack[t]) \in Seq(Method)
  BY FrontFacts DEF Types
<1>2. Top(t).sync \in Object \cup {NoObject} /\ Top(t).metered \in Int
  BY <1>1 DEF Top, Call
<1>3. lock' \in [Object -> [owner : Thread \cup {NoThread}, depth : Int]]
  BY <1>2, LockTypes DEF Types, Leave
<1>4. stack' \in [Thread -> Seq(Call)] /\ jstack' \in [Thread -> Seq(Method)]
  BY <1>1 DEF Types, Leave
<1>5. depth' \in [Thread -> Int]
  BY <1>2 DEF Types, Leave
<1> QED BY <1>3, <1>4, <1>5 DEF Types

LEMMA EnterTypes ==
  ASSUME Types, NEW t \in Thread, NEW o \in Object, MonitorEnter(t, o)
  PROVE  /\ Types' /\ stack[t] # <<>>
         /\ stack[t][Len(stack[t])].blocks \in Seq(Object)
         /\ stack' = [stack EXCEPT ![t] =
              WithBlocks(stack[t], Append(stack[t][Len(stack[t])].blocks, o))]
<1>1. stack[t] \in Seq(Call) /\ stack[t] # <<>>
  BY DEF Types, MonitorEnter, Runs
<1>2. stack[t][Len(stack[t])].blocks \in Seq(Object)
  <2>1. stack[t][Len(stack[t])] \in Call
    BY <1>1, FrontFacts
  <2> QED BY <2>1 DEF Call
<1>3. Append(stack[t][Len(stack[t])].blocks, o) \in Seq(Object)
  BY <1>2, AppendFacts
<1>4. WithBlocks(stack[t], Append(stack[t][Len(stack[t])].blocks, o))
        \in Seq(Call)
  BY <1>1, <1>3, TopBlocks
<1>5. stack' = [stack EXCEPT ![t] =
              WithBlocks(stack[t], Append(stack[t][Len(stack[t])].blocks, o))]
  BY DEF MonitorEnter, Types, WithBlocks
<1>6. stack' \in [Thread -> Seq(Call)]
  BY <1>4, <1>5 DEF Types
<1>7. lock' \in [Object -> [owner : Thread \cup {NoThread}, depth : Int]]
  BY LockTypes DEF Types, MonitorEnter
<1> QED BY <1>1, <1>2, <1>5, <1>6, <1>7 DEF Types, MonitorEnter

LEMMA ExitTypes ==
  ASSUME Types, NEW t \in Thread, stack[t] # <<>>, ExitBlock(t),
         exc' \in [Thread -> Exceptions]
  PROVE  /\ Types'
         /\ stack[t][Len(stack[t])].blocks \in Seq(Object)
         /\ stack[t][Len(stack[t])].blocks # <<>>
         /\ Last(stack[t][Len(stack[t])].blocks) \in Object
         /\ lock' = Exited(lock, Last(stack[t][Len(stack[t])].blocks))
         /\ stack' = [stack EXCEPT ![t] =
              WithBlocks(stack[t], Front(stack[t][Len(stack[t])].blocks))]
<1>1. /\ stack[t] \in Seq(Call) /\ Top(t) = stack[t][Len(stack[t])]
      /\ stack[t][Len(stack[t])].blocks \in Seq(Object)
  <2>1. stack[t] \in Seq(Call)
    BY DEF Types
  <2>2. Last(stack[t]) = stack[t][Len(stack[t])] /\ stack[t][Len(stack[t])] \in Call
    BY <2>1, FrontFacts
  <2> QED BY <2>1, <2>2 DEF Top, Call
<1>2. /\ stack[t][Len(stack[t])].blocks # <<>>
      /\ lock' = Exited(lock, Last(stack[t][Len(stack[t])].blocks))
  BY <1>1 DEF ExitBlock
<1>3. /\ Last(stack[t][Len(stack[t])].blocks) \in Object
      /\ Front(stack[t][Len(stack[t])].blocks) \in Seq(Object)
  BY <1>1, <1>2, FrontFacts
<1>4. WithBlocks(stack[t], Front(stack[t][Len(stack[t])].blocks))
        \in Seq(Call)
  BY <1>1, <1>3, TopBlocks
<1>5. stack' = [stack EXCEPT ![t] =
              WithBlocks(stack[t], Front(stack[t][Len(stack[t])].blocks))]
  BY DEF ExitBlock, Types, WithBlocks
<1>6. stack' \in [Thread -> Seq(Call)]
  BY <1>4, <1>5 DEF Types
<1>7. lock' \in [Object -> [owner : Thread \cup {NoThread}, depth : Int]]
  BY <1>2, <1>3, LockTypes DEF Types
<1> QED BY <1>1, <1>2, <1>3, <1>5, <1>6, <1>7 DEF Types, ExitBlock

(* Every action, by what it does to the stack of the thread that takes it.  *)
LEMMA StepKinds ==
  ASSUME Types, Next
  PROVE  \E t \in Thread :
           \/ \E m \in Method : Invoke(t, m)
           \/ \E o \in Object : MonitorEnter(t, o)
           \/ stack[t] # <<>> /\ ExitBlock(t) /\ exc' \in [Thread -> Exceptions]
           \/ /\ stack[t] # <<>> /\ Leave(t) /\ exc' \in [Thread -> Exceptions]
              /\ exc[t] = "athrow" \/ Top(t).blocks = <<>>
           \/ /\ UNCHANGED <<lock, stack, jstack>> /\ exc' \in [Thread -> Exceptions]
              /\ UNCHANGED depth \/ depth' = [depth EXCEPT ![t] = @ + 1]
<1>1. PICK t \in Thread :
        \/ \E m \in Method : Invoke(t, m) \/ Overflow(t, m)
        \/ \E o \in Object : MonitorEnter(t, o)
        \/ Return(t) \/ MonitorExit(t)
        \/ Fault(t) \/ Throw(t) \/ UnlockAndRethrow(t) \/ Catch(t) \/ Unwind(t)
  BY DEF Next
<1>2. \A v \in Exceptions : [exc EXCEPT ![t] = v] \in [Thread -> Exceptions]
  BY DEF Types
<1>3. "none" \in Exceptions /\ "thrown" \in Exceptions /\ Athrow(t) \in Exceptions
  BY DEF Exceptions, Athrow
<1>4. CASE \E m \in Method : Invoke(t, m)
  BY <1>4
<1>5. CASE \E m \in Method : Overflow(t, m)
  <2>1. exc' \in [Thread -> Exceptions]
    BY <1>5, <1>2, <1>3 DEF Overflow
  <2> QED BY <1>5, <2>1 DEF Overflow
<1>6. CASE \E o \in Object : MonitorEnter(t, o)
  BY <1>6
<1>7. CASE Return(t)
  BY <1>7 DEF Return, Runs, Types
<1>8. CASE MonitorExit(t)
  BY <1>8 DEF MonitorExit, Runs, Types
<1>9. CASE Fault(t)
  BY <1>9, <1>2, <1>3 DEF Fault
<1>10. CASE Throw(t)
  BY <1>10, <1>2, <1>3 DEF Throw
<1>11. CASE UnlockAndRethrow(t)
  BY <1>11, <1>2, <1>3 DEF UnlockAndRethrow
<1>12. CASE Catch(t)
  BY <1>12, <1>2, <1>3 DEF Catch
<1>13. CASE Unwind(t)
  <2>1. exc' \in [Thread -> Exceptions]
    BY <1>13, <1>2, <1>3 DEF Unwind
  <2> QED BY <1>13, <2>1 DEF Unwind
<1> QED BY <1>1, <1>4, <1>5, <1>6, <1>7, <1>8, <1>9, <1>10, <1>11, <1>12, <1>13

LEMMA TypesInit == Init => Types
BY EmptySeq DEF Init, Types, Exceptions

(***************************************************************************)
(* The stack trace.                                                        *)
(***************************************************************************)
LEMMA TraceMeans ==
  ASSUME NEW s \in Seq(Call), NEW j \in Seq(Method)
  PROVE  j = [i \in DOMAIN s |-> s[i].m] <=>
           (Len(j) = Len(s) /\ \A i \in 1..Len(s) : j[i] = s[i].m)
<1>1. DOMAIN s = 1..Len(s) /\ DOMAIN j = 1..Len(j) /\ Len(s) \in Nat /\ Len(j) \in Nat
      /\ j = [i \in 1..Len(j) |-> j[i]]
  BY LenProperties
<1>2. ASSUME j = [i \in DOMAIN s |-> s[i].m]
      PROVE  Len(j) = Len(s) /\ \A i \in 1..Len(s) : j[i] = s[i].m
  <2>1. DOMAIN j = DOMAIN s
    BY <1>2
  <2> QED BY <1>1, <1>2, <2>1
<1>3. ASSUME Len(j) = Len(s), \A i \in 1..Len(s) : j[i] = s[i].m
      PROVE  j = [i \in DOMAIN s |-> s[i].m]
  BY <1>1, <1>3
<1> QED BY <1>2, <1>3

Traced(s, j) == Len(j) = Len(s) /\ \A i \in 1..Len(s) : j[i] = s[i].m

(* Types and the trace: each needs the other, for Leave shortens both.      *)
TInv == Types /\ \A t \in Thread : Traced(stack[t], jstack[t])

LEMMA TInvStep ==
  ASSUME TInv, [Next]_vars
  PROVE  TInv'
<1>1. CASE UNCHANGED vars
  BY <1>1 DEF vars, TInv, Types, Traced
<1>2. CASE Next
  <2>1. Types /\ \A u \in Thread : Traced(stack[u], jstack[u])
    BY DEF TInv
  <2>2. PICK t \in Thread :
           \/ \E m \in Method : Invoke(t, m)
           \/ \E o \in Object : MonitorEnter(t, o)
           \/ stack[t] # <<>> /\ ExitBlock(t) /\ exc' \in [Thread -> Exceptions]
           \/ stack[t] # <<>> /\ Leave(t) /\ exc' \in [Thread -> Exceptions]
           \/ /\ UNCHANGED <<lock, stack, jstack>> /\ exc' \in [Thread -> Exceptions]
              /\ UNCHANGED depth \/ depth' = [depth EXCEPT ![t] = @ + 1]
    BY <1>2, <2>1, StepKinds
  <2>3. stack[t] \in Seq(Call) /\ jstack[t] \in Seq(Method) /\ Traced(stack[t], jstack[t])
    BY <2>1 DEF Types
  <2>4. ASSUME NEW m \in Method, Invoke(t, m) PROVE TInv'
    <3>1. Types' /\ stack' = [stack EXCEPT ![t] = Append(@, NewCall(t, m))]
      BY <2>1, <2>4, InvokeTypes
    <3>2. jstack' = [jstack EXCEPT ![t] = Append(@, m)]
      BY <2>4 DEF Invoke
    <3>3. Traced(Append(stack[t], NewCall(t, m)), Append(jstack[t], m))
      BY <2>3, NewCallFacts, AppendFacts, LenProperties DEF Traced
    <3>4. \A u \in Thread : Traced(stack'[u], jstack'[u])
      BY <2>1, <3>1, <3>2, <3>3 DEF Types
    <3> QED BY <3>1, <3>4 DEF TInv, Traced
  <2>5. ASSUME NEW o \in Object, MonitorEnter(t, o) PROVE TInv'
    <3>1. /\ Types' /\ stack[t] # <<>> /\ stack[t][Len(stack[t])].blocks \in Seq(Object)
          /\ stack' = [stack EXCEPT ![t] =
               WithBlocks(stack[t], Append(stack[t][Len(stack[t])].blocks, o))]
      BY <2>1, <2>5, EnterTypes
    <3>2. jstack' = jstack
      BY <2>5 DEF MonitorEnter
    <3>3. Append(stack[t][Len(stack[t])].blocks, o) \in Seq(Object)
      BY <3>1, AppendFacts
    <3>4. Traced(WithBlocks(stack[t], Append(stack[t][Len(stack[t])].blocks, o)), jstack[t])
      <4>1. PICK r : r = WithBlocks(stack[t], Append(stack[t][Len(stack[t])].blocks, o))
        OBVIOUS
      <4>2. Len(r) = Len(stack[t]) /\ \A i \in 1..Len(stack[t]) : r[i].m = stack[t][i].m
        BY <2>3, <3>1, <3>3, <4>1, TopBlocks
      <4> QED BY <2>3, <4>1, <4>2 DEF Traced
    <3>5. \A u \in Thread : Traced(stack'[u], jstack'[u])
      BY <2>1, <3>1, <3>2, <3>4 DEF Types
    <3> QED BY <3>1, <3>5 DEF TInv, Traced
  <2>6. ASSUME stack[t] # <<>>, ExitBlock(t), exc' \in [Thread -> Exceptions] PROVE TInv'
    <3>1. /\ Types' /\ stack[t][Len(stack[t])].blocks \in Seq(Object)
          /\ stack[t][Len(stack[t])].blocks # <<>>
          /\ stack' = [stack EXCEPT ![t] =
               WithBlocks(stack[t], Front(stack[t][Len(stack[t])].blocks))]
      BY <2>1, <2>6, ExitTypes
    <3>2. jstack' = jstack
      BY <2>6 DEF ExitBlock
    <3>3. Front(stack[t][Len(stack[t])].blocks) \in Seq(Object)
      BY <3>1, FrontFacts
    <3>4. Traced(WithBlocks(stack[t], Front(stack[t][Len(stack[t])].blocks)), jstack[t])
      <4>1. PICK r : r = WithBlocks(stack[t], Front(stack[t][Len(stack[t])].blocks))
        OBVIOUS
      <4>2. Len(r) = Len(stack[t]) /\ \A i \in 1..Len(stack[t]) : r[i].m = stack[t][i].m
        BY <2>3, <2>6, <3>3, <4>1, TopBlocks
      <4> QED BY <2>3, <4>1, <4>2 DEF Traced
    <3>5. \A u \in Thread : Traced(stack'[u], jstack'[u])
      BY <2>1, <3>1, <3>2, <3>4 DEF Types
    <3> QED BY <3>1, <3>5 DEF TInv, Traced
  <2>7. ASSUME stack[t] # <<>>, Leave(t), exc' \in [Thread -> Exceptions] PROVE TInv'
    <3>1. jstack[t] # <<>>
      BY <2>3, <2>7, EmptySeq DEF Traced
    <3>2. Types'
      BY <2>1, <2>7, <3>1, LeaveTypes
    <3>3. stack' = [stack EXCEPT ![t] = Front(@)] /\ jstack' = [jstack EXCEPT ![t] = Front(@)]
      BY <2>7 DEF Leave
    <3>4. Traced(Front(stack[t]), Front(jstack[t]))
      <4>1. /\ Len(stack[t]) \in Nat \ {0} /\ Len(Front(stack[t])) = Len(stack[t]) - 1
            /\ \A i \in 1..(Len(stack[t]) - 1) : Front(stack[t])[i] = stack[t][i]
        BY <2>3, <2>7, FrontFacts
      <4>2. /\ Len(Front(jstack[t])) = Len(jstack[t]) - 1
            /\ \A i \in 1..(Len(jstack[t]) - 1) : Front(jstack[t])[i] = jstack[t][i]
        BY <2>3, <3>1, FrontFacts
      <4>3. PICK n \in Nat : n + 1 = Len(stack[t])
        BY <4>1
      <4>4. PICK s, j : s = Front(stack[t]) /\ j = Front(jstack[t])
        OBVIOUS
      <4>5. Len(stack[t]) = Len(jstack[t]) /\ \A i \in 1..Len(stack[t]) : jstack[t][i] = stack[t][i].m
        BY <2>3 DEF Traced
      <4>6. Len(s) = n /\ Len(j) = n
        BY <4>1, <4>2, <4>3, <4>4, <4>5
      <4>7. ASSUME NEW i \in 1..n PROVE j[i] = s[i].m
        <5>1. i \in 1..(Len(stack[t]) - 1) /\ i \in 1..(Len(jstack[t]) - 1) /\ i \in 1..Len(stack[t])
          BY <4>3, <4>5, <4>7
        <5> QED BY <4>1, <4>2, <4>4, <4>5, <5>1
      <4> QED BY <4>4, <4>6, <4>7 DEF Traced
    <3>5. \A u \in Thread : Traced(stack'[u], jstack'[u])
      BY <2>1, <3>3, <3>4 DEF Types
    <3> QED BY <3>2, <3>5 DEF TInv, Traced
  <2>8. ASSUME UNCHANGED <<lock, stack, jstack>>, exc' \in [Thread -> Exceptions],
               UNCHANGED depth \/ depth' = [depth EXCEPT ![t] = @ + 1]
        PROVE  TInv'
    <3>1. depth' \in [Thread -> Int]
      BY <2>1, <2>8 DEF Types
    <3>2. Types'
      BY <2>1, <2>8, <3>1 DEF Types
    <3>3. \A u \in Thread : Traced(stack'[u], jstack'[u])
      BY <2>1, <2>8
    <3> QED BY <3>2, <3>3 DEF TInv, Traced
  <2> QED BY <2>2, <2>4, <2>5, <2>6, <2>7, <2>8
<1> QED BY <1>1, <1>2

LEMMA TInvAlways == Spec => []TInv
<1>1. Init => TInv
  BY TypesInit, EmptySeq DEF Init, TInv, Traced
<1>2. TInv /\ [Next]_vars => TInv'
  BY TInvStep
<1> QED BY <1>1, <1>2, PTL DEF Spec

(* Whatever mixture of engines runs, and however calls end, a throwable     *)
(* created now would carry exactly the calls under way (javastack.go).      *)
THEOREM TraceCorrect == Spec => []TraceIsStack
<1>1. TInv => TraceIsStack
  BY TraceMeans DEF TInv, Types, Traced, TraceIsStack
<1> QED BY <1>1, TInvAlways, PTL

(***************************************************************************)
(* The depth budget.  The meter of a thread is at least the number of       *)
(* counts its calls will take back; a refused call only adds to it.         *)
(***************************************************************************)
MetersIn(s) == UNION {{i} \X (1..s[i].metered) : i \in DOMAIN s}
InterpIn(s) == {i \in DOMAIN s : Engine[s[i].m] = "interp"}
Counts(n, k) == {<<n, j>> : j \in 1..k}

Metering(s) == /\ IsFiniteSet(MetersIn(s))
               /\ \A i \in 1..Len(s) : Engine[s[i].m] = "interp" => s[i].metered \in 1..2
               /\ Cardinality(InterpIn(s)) <= MaxFrames

BInv == TInv /\ \A t \in Thread : /\ Metering(stack[t])
                                  /\ depth[t] >= Cardinality(MetersIn(stack[t]))

LEMMA MetersInOf ==
  ASSUME NEW s \in Seq(Call)
  PROVE  /\ MetersIn(s) \subseteq (1..Len(s)) \X Nat
         /\ \A i \in 1..Len(s), j \in Nat : <<i, j>> \in MetersIn(s) <=> j \in 1..s[i].metered
         /\ InterpIn(s) \subseteq 1..Len(s)
         /\ \A i \in 1..Len(s) : i \in InterpIn(s) <=> Engine[s[i].m] = "interp"
<1>1. DOMAIN s = 1..Len(s)
  BY LenProperties
<1> QED BY <1>1 DEF MetersIn, InterpIn

(* The innermost call's counts are one or two elements, or none.            *)
LEMMA MetersByCall ==
  ASSUME NEW s \in Seq(Call), NEW t \in Seq(Call), NEW n \in Nat,
         Len(s) = n, Len(t) = n + 1, \A i \in 1..n : t[i] = s[i]
  PROVE  /\ MetersIn(t) = MetersIn(s) \cup Counts(n + 1, t[n + 1].metered)
         /\ \A j \in Nat : <<n + 1, j>> \notin MetersIn(s)
         /\ InterpIn(t) = InterpIn(s) \cup (IF Engine[t[n + 1].m] = "interp" THEN {n + 1} ELSE {})
         /\ n + 1 \notin InterpIn(s)
<1>1. /\ MetersIn(s) \subseteq (1..n) \X Nat /\ MetersIn(t) \subseteq (1..(n + 1)) \X Nat
      /\ InterpIn(s) \subseteq 1..n /\ InterpIn(t) \subseteq 1..(n + 1)
  BY MetersInOf
<1>2. \A i \in 1..(n + 1) : i \in 1..n \/ i = n + 1
  OBVIOUS
<1>3. ASSUME NEW i \in 1..n, NEW j \in Nat
      PROVE  <<i, j>> \in MetersIn(t) <=> <<i, j>> \in MetersIn(s)
  <2>1. i \in 1..Len(t) /\ i \in 1..Len(s) /\ t[i] = s[i]
    OBVIOUS
  <2>2. <<i, j>> \in MetersIn(t) <=> j \in 1..t[i].metered
    BY <2>1, MetersInOf
  <2>3. <<i, j>> \in MetersIn(s) <=> j \in 1..s[i].metered
    BY <2>1, MetersInOf
  <2> QED BY <2>1, <2>2, <2>3
<1>4. ASSUME NEW j \in Nat
      PROVE  <<n + 1, j>> \in MetersIn(t) <=> j \in 1..t[n + 1].metered
  <2>1. n + 1 \in 1..Len(t)
    OBVIOUS
  <2> QED BY <2>1, MetersInOf
<1>5. \A j : j \in 1..t[n + 1].metered => j \in Nat
  <2>1. t[n + 1] \in Call
    BY ElementOfSeq
  <2> QED BY <2>1 DEF Call
<1>6. ASSUME NEW p
      PROVE  p \in MetersIn(t) <=>
               (p \in MetersIn(s) \/ \E j \in 1..t[n + 1].metered : p = <<n + 1, j>>)
  <2>1. ASSUME p \in MetersIn(t)
        PROVE  p \in MetersIn(s) \/ \E j \in 1..t[n + 1].metered : p = <<n + 1, j>>
    <3>1. PICK i \in 1..(n + 1), j \in Nat : p = <<i, j>>
      BY <2>1, <1>1
    <3> QED BY <2>1, <3>1, <1>2, <1>3, <1>4
  <2>2. ASSUME p \in MetersIn(s) PROVE p \in MetersIn(t)
    <3>1. PICK i \in 1..n, j \in Nat : p = <<i, j>>
      BY <2>2, <1>1
    <3> QED BY <2>2, <3>1, <1>3
  <2> QED BY <2>1, <2>2, <1>4, <1>5
<1>7. \A j \in Nat : <<n + 1, j>> \notin MetersIn(s)
  BY <1>1
<1>8. ASSUME NEW i \in 1..n PROVE i \in InterpIn(t) <=> i \in InterpIn(s)
  <2>1. i \in 1..Len(t) /\ i \in 1..Len(s) /\ t[i] = s[i]
    OBVIOUS
  <2> QED BY <2>1, MetersInOf
<1>9. n + 1 \in InterpIn(t) <=> Engine[t[n + 1].m] = "interp"
  <2>1. n + 1 \in 1..Len(t)
    OBVIOUS
  <2> QED BY <2>1, MetersInOf
<1>10. n + 1 \notin InterpIn(s)
  BY <1>1
<1>11. InterpIn(t) = InterpIn(s) \cup (IF Engine[t[n + 1].m] = "interp" THEN {n + 1} ELSE {})
  BY <1>1, <1>2, <1>8, <1>9
<1>12. MetersIn(t) = MetersIn(s) \cup Counts(n + 1, t[n + 1].metered)
  BY <1>6 DEF Counts
<1> QED BY <1>7, <1>10, <1>11, <1>12

(* So the counts grow by as many as the call passed meters.                 *)
LEMMA MetersGrow ==
  ASSUME NEW M, IsFiniteSet(M), NEW n \in Nat, \A j \in Nat : <<n, j>> \notin M,
         NEW k \in 0..2
  PROVE  /\ IsFiniteSet(M \cup Counts(n, k))
         /\ Cardinality(M \cup Counts(n, k)) = Cardinality(M) + k
<1> SUFFICES ASSUME NEW N, N = M \cup Counts(n, k)
             PROVE  IsFiniteSet(N) /\ Cardinality(N) = Cardinality(M) + k
  OBVIOUS
<1>1. Cardinality(M) \in Nat
  BY FS_CardinalityType
<1>2. CASE k = 0
  <2>1. N = M
    BY <1>2 DEF Counts
  <2>2. IsFiniteSet(N) /\ Cardinality(N) = Cardinality(M)
    BY <2>1
  <2>3. Cardinality(M) + k = Cardinality(M)
    BY <1>1, <1>2
  <2> QED BY <2>2, <2>3
<1>3. /\ IsFiniteSet(M \cup {<<n, 1>>})
      /\ Cardinality(M \cup {<<n, 1>>}) = Cardinality(M) + 1
  BY FS_AddElement
<1>4. CASE k = 1
  <2>1. N = M \cup {<<n, 1>>}
    BY <1>4 DEF Counts
  <2> QED BY <1>3, <1>4, <2>1
<1>5. CASE k = 2
  <2>1. N = (M \cup {<<n, 1>>}) \cup {<<n, 2>>}
    <3>1. \A j : j \in 1..2 <=> (j = 1 \/ j = 2)
      OBVIOUS
    <3> QED BY <1>5, <3>1 DEF Counts
  <2>2. <<n, 2>> \notin M \cup {<<n, 1>>}
    OBVIOUS
  <2>3. /\ IsFiniteSet((M \cup {<<n, 1>>}) \cup {<<n, 2>>})
        /\ Cardinality((M \cup {<<n, 1>>}) \cup {<<n, 2>>}) = Cardinality(M \cup {<<n, 1>>}) + 1
    BY <1>3, <2>2, FS_AddElement
  <2> QED BY <1>1, <1>3, <1>5, <2>1, <2>3
<1> QED BY <1>2, <1>4, <1>5

(* Every interpreted call is counted.                                       *)
LEMMA InterpCounted ==
  ASSUME NEW s \in Seq(Call), IsFiniteSet(MetersIn(s)),
         \A i \in 1..Len(s) : Engine[s[i].m] = "interp" => s[i].metered \in 1..2
  PROVE  /\ IsFiniteSet(InterpIn(s))
         /\ Cardinality(InterpIn(s)) <= Cardinality(MetersIn(s))
<1>1. PICK f : f = [i \in InterpIn(s) |-> <<i, 1>>]
  OBVIOUS
<1>2. ASSUME NEW i \in InterpIn(s) PROVE <<i, 1>> \in MetersIn(s)
  <2>1. i \in 1..Len(s) /\ 1 \in 1..s[i].metered
    BY <1>2, MetersInOf
  <2> QED BY <2>1, MetersInOf
<1>3. f \in Injection(InterpIn(s), MetersIn(s))
  BY <1>1, <1>2 DEF Injection, IsInjective
<1> QED BY <1>3, FS_Injection

LEMMA SameMeters ==
  ASSUME NEW s \in Seq(Call), NEW t \in Seq(Call), Len(t) = Len(s), Metering(s),
         \A i \in 1..Len(s) : t[i].m = s[i].m /\ t[i].metered = s[i].metered
  PROVE  Metering(t) /\ MetersIn(t) = MetersIn(s)
<1>1. DOMAIN s = 1..Len(s) /\ DOMAIN t = 1..Len(s)
  BY LenProperties
<1>2. InterpIn(t) = InterpIn(s)
  BY <1>1 DEF InterpIn
<1>3. MetersIn(t) = MetersIn(s)
  BY <1>1 DEF MetersIn
<1> QED BY <1>2, <1>3 DEF Metering

(* Invoke: a call that passes a meter was refused unless it fits the budget. *)
LEMMA InvokeMetering ==
  ASSUME NEW s \in Seq(Call), Metering(s), NEW d \in Int, d >= Cardinality(MetersIn(s)),
         NEW c \in Call, Engine[c.m] = "interp" => c.metered \in 1..2,
         c.metered > 0 => d + c.metered <= MaxFrames,
         NEW n \in Nat, Len(s) = n, NEW t \in Seq(Call), Len(t) = n + 1,
         \A i \in 1..n : t[i] = s[i], t[n + 1] = c
  PROVE  Metering(t) /\ d + c.metered >= Cardinality(MetersIn(t))
<1>2. /\ MetersIn(t) = MetersIn(s) \cup Counts(n + 1, c.metered)
      /\ \A j \in Nat : <<n + 1, j>> \notin MetersIn(s)
      /\ InterpIn(t) = InterpIn(s) \cup (IF Engine[c.m] = "interp" THEN {n + 1} ELSE {})
  BY MetersByCall
<1>3. c.metered \in 0..2
  BY DEF Call
<1>4. IsFiniteSet(MetersIn(s)) /\ Cardinality(MetersIn(s)) \in Nat
  BY FS_CardinalityType DEF Metering
<1>5. IsFiniteSet(MetersIn(t)) /\ Cardinality(MetersIn(t)) = Cardinality(MetersIn(s)) + c.metered
  <2>1. n + 1 \in Nat
    OBVIOUS
  <2>2. PICK M : M = MetersIn(s)
    OBVIOUS
  <2>3. IsFiniteSet(M) /\ \A j \in Nat : <<n + 1, j>> \notin M
    BY <1>2, <1>4, <2>2
  <2>4. /\ IsFiniteSet(M \cup Counts(n + 1, c.metered))
        /\ Cardinality(M \cup Counts(n + 1, c.metered)) = Cardinality(M) + c.metered
    BY <1>3, <2>1, <2>3, MetersGrow
  <2> QED BY <1>2, <2>2, <2>4
<1>6. d + c.metered >= Cardinality(MetersIn(t))
  BY <1>3, <1>4, <1>5
<1>7. \A i \in 1..Len(t) : Engine[t[i].m] = "interp" => t[i].metered \in 1..2
  BY DEF Metering
<1>8. Cardinality(InterpIn(t)) <= MaxFrames
  <2>1. CASE Engine[c.m] = "interp"
    <3>1. IsFiniteSet(InterpIn(t)) /\ Cardinality(InterpIn(t)) <= Cardinality(MetersIn(t))
      BY <1>5, <1>7, InterpCounted
    <3>2. Cardinality(InterpIn(t)) \in Nat /\ Cardinality(MetersIn(t)) \in Nat
      BY <1>5, <3>1, FS_CardinalityType
    <3>3. d + c.metered <= MaxFrames
      BY <2>1
    <3> QED BY <1>3, <1>6, <3>1, <3>2, <3>3, BoundsAssumption
  <2>2. CASE Engine[c.m] # "interp"
    BY <1>2, <2>2 DEF Metering
  <2> QED BY <2>1, <2>2
<1> QED BY <1>5, <1>6, <1>7, <1>8 DEF Metering

(* Leave: the counts of the call that ends are taken back.                  *)
LEMMA LeaveMetering ==
  ASSUME NEW s \in Seq(Call), NEW n \in Nat, Len(s) = n + 1, Metering(s),
         NEW d \in Int, d >= Cardinality(MetersIn(s)),
         NEW t \in Seq(Call), Len(t) = n, \A i \in 1..n : s[i] = t[i],
         NEW c \in Call, s[n + 1] = c
  PROVE  Metering(t) /\ d - c.metered >= Cardinality(MetersIn(t))
<1>2. /\ MetersIn(s) = MetersIn(t) \cup Counts(n + 1, c.metered)
      /\ \A j \in Nat : <<n + 1, j>> \notin MetersIn(t)
      /\ InterpIn(t) \subseteq InterpIn(s)
  BY MetersByCall
<1>3. c.metered \in 0..2
  BY DEF Call
<1>4. IsFiniteSet(MetersIn(t)) /\ Cardinality(MetersIn(t)) \in Nat
  <2>1. IsFiniteSet(MetersIn(s)) /\ MetersIn(t) \in SUBSET MetersIn(s)
    BY <1>2 DEF Metering
  <2> QED BY <2>1, FS_Subset, FS_CardinalityType
<1>5. Cardinality(MetersIn(s)) = Cardinality(MetersIn(t)) + c.metered
  <2>1. n + 1 \in Nat
    OBVIOUS
  <2>2. PICK M : M = MetersIn(t)
    OBVIOUS
  <2>3. IsFiniteSet(M) /\ \A j \in Nat : <<n + 1, j>> \notin M
    BY <1>2, <1>4, <2>2
  <2>4. Cardinality(M \cup Counts(n + 1, c.metered)) = Cardinality(M) + c.metered
    BY <1>3, <2>1, <2>3, MetersGrow
  <2> QED BY <1>2, <2>2, <2>4
<1>6. \A i \in 1..Len(t) : Engine[t[i].m] = "interp" => t[i].metered \in 1..2
  BY DEF Metering
<1>7. Cardinality(InterpIn(t)) <= MaxFrames
  <2>1. IsFiniteSet(InterpIn(s)) /\ InterpIn(t) \in SUBSET InterpIn(s)
    BY <1>2, InterpCounted DEF Metering
  <2>2. /\ Cardinality(InterpIn(t)) <= Cardinality(InterpIn(s))
        /\ Cardinality(InterpIn(t)) \in Nat /\ Cardinality(InterpIn(s)) \in Nat
    BY <2>1, FS_Subset, FS_CardinalityType
  <2> QED BY <2>2, BoundsAssumption DEF Metering
<1> QED BY <1>3, <1>4, <1>5, <1>6, <1>7 DEF Metering

LEMMA BInvStep ==
  ASSUME BInv, [Next]_vars
  PROVE  BInv'
<1>1. CASE UNCHANGED vars
  <2>1. TInv'
    BY <1>1, TInvStep DEF BInv
  <2> QED BY <1>1, <2>1 DEF vars, BInv
<1>2. CASE Next
  <2>1. /\ Types /\ TInv'
        /\ \A u \in Thread : Metering(stack[u]) /\ depth[u] >= Cardinality(MetersIn(stack[u]))
        /\ \A u \in Thread : stack[u] \in Seq(Call) /\ depth[u] \in Int
    BY TInvStep DEF BInv, TInv, Types
  <2> DEFINE Budget(s, d) == Metering(s) /\ d >= Cardinality(MetersIn(s))
  <2>2. SUFFICES \A u \in Thread : Budget(stack'[u], depth'[u])
    BY <2>1 DEF BInv, Metering, MetersIn, InterpIn
  <2>3. \A u \in Thread : Budget(stack[u], depth[u])
    BY <2>1
  <2>4. PICK t \in Thread :
           \/ \E m \in Method : Invoke(t, m)
           \/ \E o \in Object : MonitorEnter(t, o)
           \/ stack[t] # <<>> /\ ExitBlock(t) /\ exc' \in [Thread -> Exceptions]
           \/ stack[t] # <<>> /\ Leave(t) /\ exc' \in [Thread -> Exceptions]
           \/ /\ UNCHANGED <<lock, stack, jstack>> /\ exc' \in [Thread -> Exceptions]
              /\ UNCHANGED depth \/ depth' = [depth EXCEPT ![t] = @ + 1]
    BY <1>2, <2>1, StepKinds
  <2>5. ASSUME NEW m \in Method, Invoke(t, m)
        PROVE  \A u \in Thread : Budget(stack'[u], depth'[u])
    <3>1. /\ stack' = [stack EXCEPT ![t] = Append(@, NewCall(t, m))]
          /\ depth' = [depth EXCEPT ![t] = @ + NewCall(t, m).metered]
      BY <2>1, <2>5, InvokeTypes
    <3>2. /\ NewCall(t, m) \in Call
          /\ Engine[NewCall(t, m).m] = "interp" => NewCall(t, m).metered \in 1..2
      BY NewCallFacts
    <3>3. NewCall(t, m).metered > 0 => depth[t] + NewCall(t, m).metered <= MaxFrames
      BY <2>1, <2>5, NewCallFacts, BoundsAssumption DEF Invoke, Overflows
    <3>4. Budget(Append(stack[t], NewCall(t, m)), depth[t] + NewCall(t, m).metered)
      <4>1. PICK n \in Nat : n = Len(stack[t])
        BY <2>1, LenProperties
      <4>2. /\ Append(stack[t], NewCall(t, m)) \in Seq(Call)
            /\ Len(Append(stack[t], NewCall(t, m))) = n + 1
            /\ \A i \in 1..n : Append(stack[t], NewCall(t, m))[i] = stack[t][i]
            /\ Append(stack[t], NewCall(t, m))[n + 1] = NewCall(t, m)
        BY <2>1, <3>2, <4>1, AppendFacts
      <4> QED BY <2>1, <3>2, <3>3, <4>1, <4>2, InvokeMetering
    <3>5. stack'[t] = Append(stack[t], NewCall(t, m)) /\ depth'[t] = depth[t] + NewCall(t, m).metered
          /\ \A u \in Thread \ {t} : stack'[u] = stack[u] /\ depth'[u] = depth[u]
      BY <2>1, <3>1 DEF Types
    <3> HIDE DEF Budget
    <3> QED BY <2>3, <3>4, <3>5
  <2>6. ASSUME NEW o \in Object, MonitorEnter(t, o)
        PROVE  \A u \in Thread : Budget(stack'[u], depth'[u])
    <3>1. /\ stack[t] # <<>> /\ stack[t][Len(stack[t])].blocks \in Seq(Object)
          /\ stack' = [stack EXCEPT ![t] =
               WithBlocks(stack[t], Append(stack[t][Len(stack[t])].blocks, o))]
      BY <2>1, <2>6, EnterTypes
    <3>2. Append(stack[t][Len(stack[t])].blocks, o) \in Seq(Object)
      BY <3>1, AppendFacts
    <3>3. Budget(WithBlocks(stack[t], Append(stack[t][Len(stack[t])].blocks, o)), depth[t])
      <4>1. PICK r \in Seq(Call) :
              /\ r = WithBlocks(stack[t], Append(stack[t][Len(stack[t])].blocks, o))
              /\ Len(r) = Len(stack[t])
              /\ \A i \in 1..Len(stack[t]) :
                   r[i].m = stack[t][i].m /\ r[i].metered = stack[t][i].metered
        <5>1. PICK v \in Seq(Object) : v = Append(stack[t][Len(stack[t])].blocks, o)
          BY <3>2
        <5>2. PICK s \in Seq(Call) : s = stack[t] /\ s # <<>>
          BY <2>1, <3>1
        <5>3. /\ WithBlocks(s, v) \in Seq(Call) /\ Len(WithBlocks(s, v)) = Len(s)
              /\ \A i \in 1..Len(s) : /\ WithBlocks(s, v)[i].m = s[i].m
                                      /\ WithBlocks(s, v)[i].metered = s[i].metered
          BY <5>2, TopBlocks
        <5> QED BY <5>1, <5>2, <5>3
      <4>2. Metering(r) /\ MetersIn(r) = MetersIn(stack[t])
        BY <2>1, <4>1, SameMeters
      <4> QED BY <2>1, <4>1, <4>2
    <3>4. depth' = depth
      BY <2>6 DEF MonitorEnter
    <3> HIDE DEF Budget
    <3> QED BY <2>1, <2>3, <3>1, <3>3, <3>4 DEF Types
  <2>7. ASSUME stack[t] # <<>>, ExitBlock(t), exc' \in [Thread -> Exceptions]
        PROVE  \A u \in Thread : Budget(stack'[u], depth'[u])
    <3>1. /\ stack[t][Len(stack[t])].blocks \in Seq(Object)
          /\ stack[t][Len(stack[t])].blocks # <<>>
          /\ stack' = [stack EXCEPT ![t] =
               WithBlocks(stack[t], Front(stack[t][Len(stack[t])].blocks))]
      BY <2>1, <2>7, ExitTypes
    <3>2. Front(stack[t][Len(stack[t])].blocks) \in Seq(Object)
      BY <3>1, FrontFacts
    <3>3. Budget(WithBlocks(stack[t], Front(stack[t][Len(stack[t])].blocks)), depth[t])
      <4>1. PICK r \in Seq(Call) :
              /\ r = WithBlocks(stack[t], Front(stack[t][Len(stack[t])].blocks))
              /\ Len(r) = Len(stack[t])
              /\ \A i \in 1..Len(stack[t]) :
                   r[i].m = stack[t][i].m /\ r[i].metered = stack[t][i].metered
        BY <2>1, <2>7, <3>2, TopBlocks
      <4>2. Metering(r) /\ MetersIn(r) = MetersIn(stack[t])
        BY <2>1, <4>1, SameMeters
      <4> QED BY <2>1, <4>1, <4>2
    <3>4. depth' = depth
      BY <2>7 DEF ExitBlock
    <3> HIDE DEF Budget
    <3> QED BY <2>1, <2>3, <3>1, <3>3, <3>4 DEF Types
  <2>8. ASSUME stack[t] # <<>>, Leave(t)
        PROVE  \A u \in Thread : Budget(stack'[u], depth'[u])
    <3>1. /\ stack' = [stack EXCEPT ![t] = Front(@)]
          /\ depth' = [depth EXCEPT ![t] = @ - Last(stack[t]).metered]
      BY <2>8 DEF Leave, Top
    <3>2. Budget(Front(stack[t]), depth[t] - Last(stack[t]).metered)
      <4>1. PICK n \in Nat : n = Len(stack[t]) - 1
        BY <2>1, <2>8, FrontFacts
      <4>2. /\ Len(stack[t]) = n + 1
            /\ Front(stack[t]) \in Seq(Call) /\ Len(Front(stack[t])) = n
            /\ \A i \in 1..n : stack[t][i] = Front(stack[t])[i]
            /\ Last(stack[t]) \in Call /\ stack[t][n + 1] = Last(stack[t])
        <5>1. stack[t] \in Seq(Call)
          BY <2>1
        <5>2. /\ Len(stack[t]) \in Nat \ {0} /\ Len(Front(stack[t])) = Len(stack[t]) - 1
              /\ Front(stack[t]) \in Seq(Call) /\ Last(stack[t]) \in Call
              /\ \A i \in 1..(Len(stack[t]) - 1) : Front(stack[t])[i] = stack[t][i]
              /\ Last(stack[t]) = stack[t][Len(stack[t])]
          BY <2>8, <5>1, FrontFacts
        <5> QED BY <4>1, <5>2
      <4> QED BY <2>1, <4>2, LeaveMetering
    <3>3. /\ stack'[t] = Front(stack[t]) /\ depth'[t] = depth[t] - Last(stack[t]).metered
          /\ \A u \in Thread \ {t} : stack'[u] = stack[u] /\ depth'[u] = depth[u]
      BY <2>1, <3>1 DEF Types
    <3> HIDE DEF Budget
    <3> QED BY <2>3, <3>2, <3>3
  <2>9. ASSUME UNCHANGED <<lock, stack, jstack>>,
               UNCHANGED depth \/ depth' = [depth EXCEPT ![t] = @ + 1]
        PROVE  \A u \in Thread : Budget(stack'[u], depth'[u])
    <3>1. \A u \in Thread : Cardinality(MetersIn(stack[u])) \in Nat
      BY <2>1, FS_CardinalityType DEF Metering
    <3>2. ASSUME NEW u \in Thread PROVE depth'[u] \in Int /\ depth'[u] >= depth[u]
      <4>1. depth[u] \in Int /\ depth[u] + 1 >= depth[u]
        BY <2>1
      <4>2. depth'[u] = depth[u] \/ depth'[u] = depth[u] + 1
        BY <2>1, <2>9 DEF Types
      <4> QED BY <4>1, <4>2
    <3>3. \A u \in Thread : stack'[u] = stack[u]
      BY <2>9
    <3> QED BY <2>1, <3>1, <3>2, <3>3
  <2> HIDE DEF Budget
  <2> QED BY <2>4, <2>5, <2>6, <2>7, <2>8, <2>9
<1> QED BY <1>1, <1>2

LEMMA BInvAlways == Spec => []BInv
<1>1. Init => BInv
  <2>1. ASSUME Init PROVE BInv
    <3>1. TInv
      BY <2>1, TypesInit, EmptySeq DEF Init, TInv, Traced
    <3>2. MetersIn(<<>>) = {} /\ InterpIn(<<>>) = {} /\ Len(<<>>) = 0
      BY DEF MetersIn, InterpIn
    <3>3. IsFiniteSet({}) /\ Cardinality({}) = 0 /\ 0 <= MaxFrames
      BY FS_EmptySet, BoundsAssumption
    <3>4. Metering(<<>>) /\ 0 >= Cardinality(MetersIn(<<>>))
      BY <3>2, <3>3 DEF Metering
    <3> QED BY <2>1, <3>1, <3>4 DEF Init, BInv
  <2> QED BY <2>1
<1>2. BInv /\ [Next]_vars => BInv'
  BY BInvStep
<1> QED BY <1>1, <1>2, PTL DEF Spec

(* A thread's interpreted calls fit its budget: its meter never falls below *)
(* what its calls have in it, to which each overflow adds one that is never *)
(* taken back (EnterFrame and ExitFrame, interp.go).                        *)
THEOREM BudgetCorrect == Spec => []BudgetHolds
<1>1. BInv => BudgetHolds
  BY DEF BInv, Metering, InterpIn, BudgetHolds
<1> QED BY <1>1, BInvAlways, PTL

(***************************************************************************)
(* Monitors.  An interpreted method that throws while it is in a            *)
(* synchronized block leaves without the unlock (Athrow): the theorem is    *)
(* for programs in which none does.                                         *)
(***************************************************************************)
(* How much of each monitor each stack holds.                               *)
Holdings(st) == [t \in Thread |-> [o \in Object |-> Cardinality(HeldIn(st[t], o))]]

Owned(l, H) == \A t \in Thread, o \in Object :
                 H[t][o] = IF l[o].owner = t THEN l[o].depth ELSE 0
LockSound(l) == \A o \in Object : /\ l[o].depth \in Nat
                                  /\ l[o].owner = NoThread <=> l[o].depth = 0

BlocksFit(s) == \A i \in 1..Len(s) : Len(s[i].blocks) <= Blocks[s[i].m]
AllFinite(st) == \A t \in Thread, o \in Object : IsFiniteSet(HeldIn(st[t], o))
Accounted(l, st) == AllFinite(st) /\ Owned(l, Holdings(st)) /\ LockSound(l)
Locks == Accounted(lock, stack) /\ \A t \in Thread : BlocksFit(stack[t])

(* Only a call that is in no synchronized block returns an athrow.          *)
AthrowBare == \A t \in Thread : exc[t] = "athrow" =>
                stack[t] # <<>> /\ stack[t][Len(stack[t])].blocks = <<>>

LInv == TInv /\ Locks /\ AthrowBare

(* In G, t holds x once more than in H.                                     *)
HeldMore(H, G, t, x) == \A u \in Thread, o \in Object :
  G[u][o] = IF u = t /\ o = x THEN H[u][o] + 1 ELSE H[u][o]

(* Entering o where t holds one more of it, leaving o where t holds one less. *)
LEMMA EnteredOwned ==
  ASSUME NEW l \in [Object -> [owner : Thread \cup {NoThread}, depth : Int]],
         NEW H \in [Thread -> [Object -> Nat]], NEW G \in [Thread -> [Object -> Nat]],
         Owned(l, H), LockSound(l),
         NEW t \in Thread, NEW o \in Object \cup {NoObject},
         o # NoObject => l[o].owner \in {NoThread, t},
         HeldMore(H, G, t, o)
  PROVE  Owned(Entered(l, t, o), G) /\ LockSound(Entered(l, t, o))
<1>0. \A u \in Thread, x \in Object :
        G[u][x] = IF u = t /\ x = o THEN H[u][x] + 1 ELSE H[u][x]
  BY DEF HeldMore
<1>1. CASE o = NoObject
  <2>1. Entered(l, t, o) = l
    BY <1>1 DEF Entered
  <2>2. \A u \in Thread, x \in Object : G[u][x] = H[u][x]
    BY <1>0, <1>1, NamesAssumption
  <2> QED BY <2>1, <2>2 DEF Owned
<1>2. CASE o # NoObject
  <2>1. o \in Object /\ l[o].owner \in {NoThread, t}
    BY <1>2
  <2>2. PICK k : k = Entered(l, t, o)
    OBVIOUS
  <2>3. /\ k[o].owner = t /\ k[o].depth = l[o].depth + 1
        /\ \A x \in Object \ {o} : k[x] = l[x]
    BY <1>2, <2>1, <2>2 DEF Entered
  <2>4. LockSound(k)
    <3>1. l[o].depth \in Nat /\ l[o].depth + 1 \in Nat /\ l[o].depth + 1 # 0 /\ t # NoThread
      BY <2>1, NamesAssumption DEF LockSound
    <3> QED BY <2>3, <3>1 DEF LockSound
  <2>5. ASSUME NEW u \in Thread, NEW x \in Object
        PROVE  G[u][x] = IF k[x].owner = u THEN k[x].depth ELSE 0
    <3>1. H[u][x] = IF l[x].owner = u THEN l[x].depth ELSE 0
      BY DEF Owned
    <3>2. CASE x # o
      BY <1>0, <2>3, <3>1, <3>2
    <3>3. CASE x = o /\ u # t
      <4>1. u # NoThread /\ l[o].owner # u
        BY <2>1, <3>3, NamesAssumption
      <4> QED BY <1>0, <2>3, <3>1, <3>3, <4>1
    <3>4. CASE x = o /\ u = t
      <4>1. H[t][o] = l[o].depth
        BY <2>1, <3>1, <3>4, NamesAssumption DEF LockSound
      <4> QED BY <1>0, <2>3, <3>4, <4>1
    <3> QED BY <3>2, <3>3, <3>4
  <2> QED BY <2>2, <2>4, <2>5 DEF Owned
<1> QED BY <1>1, <1>2

LEMMA ExitedOwned ==
  ASSUME NEW l \in [Object -> [owner : Thread \cup {NoThread}, depth : Int]],
         NEW H \in [Thread -> [Object -> Nat]], NEW G \in [Thread -> [Object -> Nat]],
         Owned(l, H), LockSound(l),
         NEW t \in Thread, NEW o \in Object \cup {NoObject},
         HeldMore(G, H, t, o)
  PROVE  Owned(Exited(l, o), G) /\ LockSound(Exited(l, o))
<1>0. \A u \in Thread, x \in Object :
        H[u][x] = IF u = t /\ x = o THEN G[u][x] + 1 ELSE G[u][x]
  BY DEF HeldMore
<1>1. CASE o = NoObject
  <2>1. Exited(l, o) = l
    BY <1>1 DEF Exited
  <2>2. \A u \in Thread, x \in Object : G[u][x] = H[u][x]
    BY <1>0, <1>1, NamesAssumption
  <2> QED BY <2>1, <2>2 DEF Owned
<1>2. CASE o # NoObject
  <2>1. o \in Object /\ H[t][o] = G[t][o] + 1 /\ G[t][o] \in Nat
    BY <1>0, <1>2
  <2>2. l[o].owner = t /\ l[o].depth = G[t][o] + 1
    BY <2>1 DEF Owned
  <2>3. PICK k : k = Exited(l, o)
    OBVIOUS
  <2>4. /\ k[o].owner = IF l[o].depth = 1 THEN NoThread ELSE t
        /\ k[o].depth = l[o].depth - 1
        /\ \A x \in Object \ {o} : k[x] = l[x]
    BY <1>2, <2>1, <2>2, <2>3 DEF Exited
  <2>5. LockSound(k)
    <3>1. k[o].depth = G[t][o] /\ (l[o].depth = 1 <=> G[t][o] = 0) /\ t # NoThread
      BY <2>1, <2>2, <2>4, NamesAssumption
    <3> QED BY <2>1, <2>4, <3>1 DEF LockSound
  <2>6. ASSUME NEW u \in Thread, NEW x \in Object
        PROVE  G[u][x] = IF k[x].owner = u THEN k[x].depth ELSE 0
    <3>1. H[u][x] = IF l[x].owner = u THEN l[x].depth ELSE 0
      BY DEF Owned
    <3>2. CASE x # o
      BY <1>0, <2>4, <3>1, <3>2
    <3>3. CASE x = o /\ u # t
      <4>1. u # NoThread /\ l[o].owner # u /\ k[o].owner # u
        BY <2>2, <2>4, <3>3, NamesAssumption
      <4> QED BY <1>0, <3>1, <3>3, <4>1
    <3>4. CASE x = o /\ u = t
      BY <2>1, <2>2, <2>4, <3>4, NamesAssumption
    <3> QED BY <3>2, <3>3, <3>4
  <2> QED BY <2>3, <2>5, <2>6 DEF Owned
<1> QED BY <1>1, <1>2

(* A calls' stack r that holds what s does and x once more, at the place p. *)
OneMore(s, r, x, p) ==
  \A o \in Object : /\ p \notin HeldIn(s, o)
                    /\ HeldIn(r, o) = IF x = o THEN HeldIn(s, o) \cup {p} ELSE HeldIn(s, o)

(* The innermost call of t holds x once more in b than in a.                *)
TopDiffers(a, b, t, x, p) == /\ \A u \in Thread \ {t} : b[u] = a[u]
                             /\ OneMore(a[t], b[t], x, p)

LEMMA HoldingsDiffer ==
  ASSUME NEW a \in [Thread -> Seq(Call)], NEW b \in [Thread -> Seq(Call)],
         NEW t \in Thread, NEW x, NEW p, TopDiffers(a, b, t, x, p),
         AllFinite(a) \/ AllFinite(b)
  PROVE  /\ Holdings(a) \in [Thread -> [Object -> Nat]]
         /\ Holdings(b) \in [Thread -> [Object -> Nat]]
         /\ AllFinite(a) /\ AllFinite(b) /\ HeldMore(Holdings(a), Holdings(b), t, x)
<1> USE DEF TopDiffers, AllFinite, HeldMore
<1>0. \A o \in Object : /\ p \notin HeldIn(a[t], o)
                        /\ HeldIn(b[t], o) = IF x = o THEN HeldIn(a[t], o) \cup {p}
                                                      ELSE HeldIn(a[t], o)
  BY DEF OneMore
<1>1. ASSUME NEW u \in Thread, NEW o \in Object
      PROVE  /\ IsFiniteSet(HeldIn(a[u], o)) /\ IsFiniteSet(HeldIn(b[u], o))
             /\ Cardinality(HeldIn(a[u], o)) \in Nat /\ Cardinality(HeldIn(b[u], o)) \in Nat
             /\ Cardinality(HeldIn(b[u], o)) = IF u = t /\ o = x THEN Cardinality(HeldIn(a[u], o)) + 1
                                                             ELSE Cardinality(HeldIn(a[u], o))
  <2>1. IsFiniteSet(HeldIn(a[u], o)) /\ IsFiniteSet(HeldIn(b[u], o))
    <3>1. CASE u # t
      BY <3>1
    <3>2. CASE u = t
      <4>1. HeldIn(a[t], o) \in SUBSET HeldIn(b[t], o)
        BY <1>0
      <4>2. IsFiniteSet(HeldIn(b[t], o)) => IsFiniteSet(HeldIn(a[t], o))
        BY <4>1, FS_Subset
      <4>3. IsFiniteSet(HeldIn(a[t], o))
        BY <4>2
      <4>4. IsFiniteSet(HeldIn(a[t], o) \cup {p})
        BY <4>3, FS_AddElement
      <4> QED BY <1>0, <3>2, <4>3, <4>4
    <3> QED BY <3>1, <3>2
  <2>2. Cardinality(HeldIn(a[u], o)) \in Nat /\ Cardinality(HeldIn(b[u], o)) \in Nat
    BY <2>1, FS_CardinalityType
  <2>3. CASE u = t /\ o = x
    <3>1. p \notin HeldIn(a[u], o) /\ HeldIn(b[u], o) = HeldIn(a[u], o) \cup {p}
      BY <1>0, <2>3
    <3> QED BY <2>1, <2>2, <2>3, <3>1, FS_AddElement
  <2>4. CASE ~ (u = t /\ o = x)
    <3>1. HeldIn(b[u], o) = HeldIn(a[u], o)
      BY <1>0, <2>4
    <3> QED BY <2>1, <2>2, <2>4, <3>1
  <2> QED BY <2>1, <2>2, <2>3, <2>4
<1>2. /\ Holdings(a) = [u \in Thread |-> [o \in Object |-> Cardinality(HeldIn(a[u], o))]]
      /\ Holdings(b) = [u \in Thread |-> [o \in Object |-> Cardinality(HeldIn(b[u], o))]]
  BY DEF Holdings
<1> QED BY <1>1, <1>2

(* What one more holding, or one less, does to the account.                 *)
LEMMA EnteredAccount ==
  ASSUME NEW l \in [Object -> [owner : Thread \cup {NoThread}, depth : Int]],
         NEW a \in [Thread -> Seq(Call)], NEW b \in [Thread -> Seq(Call)],
         NEW t \in Thread, NEW o \in Object \cup {NoObject}, NEW p, TopDiffers(a, b, t, o, p),
         o # NoObject => l[o].owner \in {NoThread, t}, Accounted(l, a)
  PROVE  Accounted(Entered(l, t, o), b)
<1>1. AllFinite(a) /\ Owned(l, Holdings(a)) /\ LockSound(l)
  BY DEF Accounted
<1>2. /\ Holdings(a) \in [Thread -> [Object -> Nat]]
      /\ Holdings(b) \in [Thread -> [Object -> Nat]]
      /\ AllFinite(b) /\ HeldMore(Holdings(a), Holdings(b), t, o)
  BY <1>1, HoldingsDiffer
<1>3. Owned(Entered(l, t, o), Holdings(b)) /\ LockSound(Entered(l, t, o))
  BY <1>1, <1>2, EnteredOwned
<1> QED BY <1>2, <1>3 DEF Accounted

LEMMA ExitedAccount ==
  ASSUME NEW l \in [Object -> [owner : Thread \cup {NoThread}, depth : Int]],
         NEW a \in [Thread -> Seq(Call)], NEW b \in [Thread -> Seq(Call)],
         NEW t \in Thread, NEW o \in Object \cup {NoObject}, NEW p, TopDiffers(b, a, t, o, p),
         Accounted(l, a)
  PROVE  Accounted(Exited(l, o), b)
<1>1. AllFinite(a) /\ Owned(l, Holdings(a)) /\ LockSound(l)
  BY DEF Accounted
<1>2. /\ Holdings(b) \in [Thread -> [Object -> Nat]]
      /\ Holdings(a) \in [Thread -> [Object -> Nat]]
      /\ AllFinite(b) /\ HeldMore(Holdings(b), Holdings(a), t, o)
  BY <1>1, HoldingsDiffer
<1>3. Owned(Exited(l, o), Holdings(b)) /\ LockSound(Exited(l, o))
  BY <1>1, <1>2, ExitedOwned
<1> QED BY <1>2, <1>3 DEF Accounted

(* The holdings of t after each kind of step.                               *)
LEMMA InvokeHoldings ==
  ASSUME NEW s \in Seq(Call), NEW c \in Call, c.blocks = <<>>
  PROVE  OneMore(s, Append(s, c), c.sync, <<Len(s) + 1, 0>>)
<1> SUFFICES ASSUME NEW r \in {Append(s, c)} PROVE OneMore(s, r, c.sync, <<Len(s) + 1, 0>>)
  OBVIOUS
<1>1. PICK n \in Nat : n = Len(s)
  BY LenProperties
<1>2. /\ r \in Seq(Call) /\ Len(r) = n + 1
      /\ \A i \in 1..n : r[i] = s[i]
      /\ r[n + 1] = c
  BY <1>1, AppendFacts
<1>3. OneCallMore(s, r, n)
  BY <1>1, <1>2 DEF OneCallMore
<1>4. ASSUME NEW o
      PROVE  /\ <<n + 1, 0>> \notin HeldIn(s, o)
             /\ HeldIn(r, o) = IF r[n + 1].sync = o THEN HeldIn(s, o) \cup {<<n + 1, 0>>}
                                                    ELSE HeldIn(s, o)
  <2>1. r \in Seq(Call)
    BY <1>2
  <2> QED BY <1>3, <2>1, HeldByCall
<1> QED BY <1>1, <1>2, <1>4 DEF OneMore

LEMMA LeaveHoldings ==
  ASSUME NEW s \in Seq(Call), s # <<>>, Last(s).blocks = <<>>
  PROVE  OneMore(Front(s), s, Last(s).sync, <<Len(s), 0>>)
<1> SUFFICES ASSUME NEW r \in {Front(s)} PROVE OneMore(r, s, Last(s).sync, <<Len(s), 0>>)
  OBVIOUS
<1>1. /\ Len(s) \in Nat \ {0} /\ r \in Seq(Call) /\ Len(r) = Len(s) - 1
      /\ \A i \in 1..(Len(s) - 1) : r[i] = s[i]
      /\ Last(s) = s[Len(s)]
  BY FrontFacts
<1>2. PICK n \in Nat : n = Len(r)
  BY <1>1
<1>3. OneCallMore(r, s, n) /\ Len(s) = n + 1 /\ Last(s) = s[n + 1]
  BY <1>1, <1>2 DEF OneCallMore
<1>4. ASSUME NEW o
      PROVE  /\ <<n + 1, 0>> \notin HeldIn(r, o)
             /\ HeldIn(s, o) = IF s[n + 1].sync = o THEN HeldIn(r, o) \cup {<<n + 1, 0>>}
                                                    ELSE HeldIn(r, o)
  BY <1>1, <1>3, HeldByCall
<1> QED BY <1>3, <1>4 DEF OneMore

LEMMA EnterHoldings ==
  ASSUME NEW s \in Seq(Call), s # <<>>, NEW x \in Object,
         NEW b \in Seq(Object), s[Len(s)].blocks = b
  PROVE  OneMore(s, WithBlocks(s, Append(b, x)), x, <<Len(s), Len(b) + 1>>)
<1> SUFFICES ASSUME NEW r \in {WithBlocks(s, Append(b, x))}
             PROVE  OneMore(s, r, x, <<Len(s), Len(b) + 1>>)
  OBVIOUS
<1>1. Len(s) \in Nat \ {0} /\ Len(b) \in Nat
  BY FrontFacts, LenProperties
<1>2. /\ Append(b, x) \in Seq(Object) /\ Len(Append(b, x)) = Len(b) + 1
      /\ \A j \in 1..Len(b) : Append(b, x)[j] = b[j]
      /\ Append(b, x)[Len(b) + 1] = x
  BY AppendFacts
<1>3. PICK v \in Seq(Object) : v = Append(b, x)
  BY <1>2
<1>4. /\ WithBlocks(s, v) \in Seq(Call) /\ Len(WithBlocks(s, v)) = Len(s)
      /\ \A i \in 1..(Len(s) - 1) : WithBlocks(s, v)[i] = s[i]
      /\ WithBlocks(s, v)[Len(s)].blocks = v
  BY TopBlocks
<1>5. WithBlocks(s, v)[Len(s)].sync = s[Len(s)].sync
  BY <1>1, TopBlocks
<1>6. PICK n \in Nat \ {0}, k \in Nat : n = Len(s) /\ k = Len(b)
  BY <1>1
<1>7. /\ r \in Seq(Call) /\ Len(r) = n /\ \A i \in 1..(n - 1) : r[i] = s[i]
      /\ r[n].sync = s[n].sync
      /\ Len(s[n].blocks) = k /\ Len(r[n].blocks) = k + 1
      /\ \A j \in 1..k : r[n].blocks[j] = s[n].blocks[j]
      /\ r[n].blocks[k + 1] = x
  <2>1. r = WithBlocks(s, v)
    BY <1>3
  <2>2. /\ r \in Seq(Call) /\ Len(r) = n /\ \A i \in 1..(n - 1) : r[i] = s[i]
        /\ r[n].sync = s[n].sync /\ r[n].blocks = v
    BY <1>4, <1>5, <1>6, <2>1
  <2>3. s[n].blocks = b
    BY <1>6
  <2> QED BY <1>2, <1>3, <1>6, <2>2, <2>3
<1>8. ASSUME NEW o
      PROVE  /\ <<n, k + 1>> \notin HeldIn(s, o)
             /\ HeldIn(r, o) = IF x = o THEN HeldIn(s, o) \cup {<<n, k + 1>>} ELSE HeldIn(s, o)
  <2>1. OneBlockMore(s, r, n, k, x)
    BY <1>6, <1>7 DEF OneBlockMore
  <2> QED BY <1>7, <2>1, HeldByBlock
<1> QED BY <1>6, <1>8 DEF OneMore

LEMMA ExitHoldings ==
  ASSUME NEW s \in Seq(Call), s # <<>>,
         NEW b \in Seq(Object), s[Len(s)].blocks = b, b # <<>>
  PROVE  OneMore(WithBlocks(s, Front(b)), s, Last(b), <<Len(s), Len(b)>>)
<1> SUFFICES ASSUME NEW r \in {WithBlocks(s, Front(b))}
             PROVE  OneMore(r, s, Last(b), <<Len(s), Len(b)>>)
  OBVIOUS
<1>1. Len(s) \in Nat \ {0}
  BY FrontFacts
<1>2. /\ Len(b) \in Nat \ {0} /\ Front(b) \in Seq(Object) /\ Len(Front(b)) = Len(b) - 1
      /\ \A j \in 1..(Len(b) - 1) : Front(b)[j] = b[j]
      /\ Last(b) = b[Len(b)]
  BY FrontFacts
<1>3. PICK v \in Seq(Object) : v = Front(b)
  BY <1>2
<1>4. /\ WithBlocks(s, v) \in Seq(Call) /\ Len(WithBlocks(s, v)) = Len(s)
      /\ \A i \in 1..(Len(s) - 1) : WithBlocks(s, v)[i] = s[i]
      /\ WithBlocks(s, v)[Len(s)].blocks = v
  BY TopBlocks
<1>5. WithBlocks(s, v)[Len(s)].sync = s[Len(s)].sync
  BY <1>1, TopBlocks
<1>6. PICK n \in Nat \ {0}, k \in Nat : n = Len(s) /\ k = Len(b) - 1
  BY <1>1, <1>2
<1>7. /\ r \in Seq(Call) /\ Len(r) = n /\ \A i \in 1..(n - 1) : s[i] = r[i]
      /\ s[n].sync = r[n].sync
      /\ Len(r[n].blocks) = k /\ Len(s[n].blocks) = k + 1
      /\ \A j \in 1..k : s[n].blocks[j] = r[n].blocks[j]
      /\ s[n].blocks[k + 1] = Last(b)
  BY <1>2, <1>3, <1>4, <1>5, <1>6
<1>8. ASSUME NEW o
      PROVE  /\ <<n, k + 1>> \notin HeldIn(r, o)
             /\ HeldIn(s, o) = IF Last(b) = o THEN HeldIn(r, o) \cup {<<n, k + 1>>}
                                              ELSE HeldIn(r, o)
  <2>1. OneBlockMore(r, s, n, k, Last(b))
    BY <1>6, <1>7 DEF OneBlockMore
  <2> QED BY <1>7, <2>1, HeldByBlock
<1>9. k + 1 = Len(b)
  BY <1>2, <1>6
<1> QED BY <1>6, <1>8, <1>9 DEF OneMore

(* Every kind of step keeps the account of the monitors.                    *)
LEMMA InvokeLocks ==
  ASSUME Types, Locks, NEW t \in Thread, NEW m \in Method, Invoke(t, m)
  PROVE  Locks'
<1>1. /\ Types' /\ stack' = [stack EXCEPT ![t] = Append(@, NewCall(t, m))]
      /\ lock' = Entered(lock, t, NewCall(t, m).sync)
  BY InvokeTypes
<1>2. /\ NewCall(t, m) \in Call /\ NewCall(t, m).blocks = <<>> /\ NewCall(t, m).m = m
      /\ NewCall(t, m).sync \in Object \cup {NoObject}
      /\ NewCall(t, m).sync # NoObject => lock[NewCall(t, m).sync].owner \in {NoThread, t}
  BY NewCallFacts DEF Call, Invoke, CanCall, Free
<1>3. /\ stack \in [Thread -> Seq(Call)] /\ stack' \in [Thread -> Seq(Call)]
      /\ lock \in [Object -> [owner : Thread \cup {NoThread}, depth : Int]]
      /\ stack'[t] = Append(stack[t], NewCall(t, m))
      /\ \A u \in Thread \ {t} : stack'[u] = stack[u]
  BY <1>1 DEF Types
<1>4. OneMore(stack[t], stack'[t], NewCall(t, m).sync, <<Len(stack[t]) + 1, 0>>)
  <2>1. stack[t] \in Seq(Call)
    BY <1>3
  <2>2. OneMore(stack[t], Append(stack[t], NewCall(t, m)), NewCall(t, m).sync,
                <<Len(stack[t]) + 1, 0>>)
    BY <1>2, <2>1, InvokeHoldings
  <2> QED BY <1>3, <2>2
<1>5. Accounted(lock', stack')
  <2>1. Accounted(lock, stack)
    BY DEF Locks
  <2>2. PICK o \in Object \cup {NoObject} : o = NewCall(t, m).sync
    BY <1>2
  <2>3. TopDiffers(stack, stack', t, o, <<Len(stack[t]) + 1, 0>>)
    BY <1>3, <1>4, <2>2 DEF TopDiffers
  <2>4. o # NoObject => lock[o].owner \in {NoThread, t}
    BY <1>2, <2>2
  <2>5. Accounted(Entered(lock, t, o), stack')
    BY <1>3, <2>1, <2>3, <2>4, EnteredAccount
  <2> QED BY <1>1, <2>2, <2>5
<1>6. BlocksFit(stack'[t])
  <2>1. BlocksFit(stack[t]) /\ stack[t] \in Seq(Call)
    BY <1>3 DEF Locks
  <2>2. /\ Len(Append(stack[t], NewCall(t, m))) = Len(stack[t]) + 1
        /\ \A i \in 1..Len(stack[t]) : Append(stack[t], NewCall(t, m))[i] = stack[t][i]
        /\ Append(stack[t], NewCall(t, m))[Len(stack[t]) + 1] = NewCall(t, m)
        /\ Len(stack[t]) \in Nat
    BY <1>2, <2>1, AppendFacts, LenProperties
  <2>3. Len(NewCall(t, m).blocks) <= Blocks[NewCall(t, m).m]
    BY <1>2, MethodAssumption
  <2> QED BY <1>3, <2>1, <2>2, <2>3 DEF BlocksFit
<1>7. \A u \in Thread : BlocksFit(stack'[u])
  BY <1>3, <1>6 DEF Locks
<1> QED BY <1>5, <1>7 DEF Locks, Accounted, AllFinite, Owned, LockSound, Holdings, BlocksFit,
            HeldIn, Place

LEMMA LeaveLocks ==
  ASSUME Types, Locks, NEW t \in Thread, stack[t] # <<>>, Top(t).blocks = <<>>, Leave(t)
  PROVE  Locks'
<1>1. /\ stack \in [Thread -> Seq(Call)]
      /\ lock \in [Object -> [owner : Thread \cup {NoThread}, depth : Int]]
      /\ stack' = [stack EXCEPT ![t] = Front(@)]
      /\ lock' = Exited(lock, Last(stack[t]).sync) /\ Last(stack[t]).blocks = <<>>
  BY DEF Types, Leave, Top
<1>2. stack[t] \in Seq(Call)
  BY <1>1
<1>3. /\ Len(stack[t]) \in Nat \ {0} /\ Front(stack[t]) \in Seq(Call)
      /\ Len(Front(stack[t])) = Len(stack[t]) - 1
      /\ \A i \in 1..(Len(stack[t]) - 1) : Front(stack[t])[i] = stack[t][i]
      /\ Last(stack[t]) \in Call
  BY <1>2, FrontFacts
<1>4. /\ stack' \in [Thread -> Seq(Call)] /\ stack'[t] = Front(stack[t])
      /\ \A u \in Thread \ {t} : stack'[u] = stack[u]
  BY <1>1, <1>3
<1>5. Last(stack[t]).sync \in Object \cup {NoObject}
  BY <1>3 DEF Call
<1>6. OneMore(stack'[t], stack[t], Last(stack[t]).sync, <<Len(stack[t]), 0>>)
  <2>1. OneMore(Front(stack[t]), stack[t], Last(stack[t]).sync, <<Len(stack[t]), 0>>)
    BY <1>1, <1>2, LeaveHoldings
  <2> QED BY <1>4, <2>1
<1>7. Accounted(lock', stack')
  <2>1. Accounted(lock, stack)
    BY DEF Locks
  <2>2. TopDiffers(stack', stack, t, Last(stack[t]).sync, <<Len(stack[t]), 0>>)
    BY <1>4, <1>6 DEF TopDiffers
  <2>3. Accounted(Exited(lock, Last(stack[t]).sync), stack')
    BY <1>1, <1>4, <1>5, <2>1, <2>2, ExitedAccount
  <2> QED BY <1>1, <2>3
<1>8. BlocksFit(Front(stack[t]))
  <2>1. BlocksFit(stack[t])
    BY DEF Locks
  <2> QED BY <1>3, <2>1 DEF BlocksFit
<1>9. \A u \in Thread : BlocksFit(stack'[u])
  BY <1>4, <1>8 DEF Locks
<1> QED BY <1>7, <1>9 DEF Locks, Accounted, AllFinite, Owned, LockSound, Holdings, BlocksFit,
            HeldIn, Place

(* What MonitorEnter and ExitBlock do to the innermost call's blocks.       *)
LEMMA BlocksChanged ==
  ASSUME Types, Locks, NEW t \in Thread, stack[t] # <<>>, NEW v \in Seq(Object),
         stack' = [stack EXCEPT ![t] = WithBlocks(stack[t], v)],
         Len(v) <= Blocks[stack[t][Len(stack[t])].m]
  PROVE  /\ stack' \in [Thread -> Seq(Call)] /\ stack'[t] = WithBlocks(stack[t], v)
         /\ \A u \in Thread \ {t} : stack'[u] = stack[u]
         /\ \A u \in Thread : BlocksFit(stack'[u])
<1>1. PICK w : w = WithBlocks(stack[t], v)
  OBVIOUS
<1>2. /\ stack \in [Thread -> Seq(Call)] /\ stack[t] \in Seq(Call)
      /\ Len(stack[t]) \in Nat \ {0}
  <2>1. stack \in [Thread -> Seq(Call)] /\ stack[t] \in Seq(Call)
    BY DEF Types
  <2> QED BY <2>1, FrontFacts
<1>3. /\ w \in Seq(Call) /\ Len(w) = Len(stack[t])
      /\ \A i \in 1..Len(stack[t]) : w[i].m = stack[t][i].m
      /\ \A i \in 1..(Len(stack[t]) - 1) : w[i] = stack[t][i]
      /\ w[Len(stack[t])].blocks = v
  BY <1>1, <1>2, TopBlocks
<1>4. /\ stack' \in [Thread -> Seq(Call)] /\ stack'[t] = w
      /\ \A u \in Thread \ {t} : stack'[u] = stack[u]
  BY <1>1, <1>2, <1>3
<1>5. \A u \in Thread : BlocksFit(stack[u])
  BY DEF Locks
<1>6. BlocksFit(w)
  <2>1. BlocksFit(stack[t])
    BY <1>5
  <2>2. ASSUME NEW i \in 1..Len(w) PROVE Len(w[i].blocks) <= Blocks[w[i].m]
    <3>1. CASE i = Len(stack[t])
      BY <1>2, <1>3, <3>1
    <3>2. CASE i # Len(stack[t])
      <4>1. i \in 1..(Len(stack[t]) - 1) /\ i \in 1..Len(stack[t])
        BY <1>2, <1>3, <3>2
      <4> QED BY <1>3, <2>1, <4>1 DEF BlocksFit
    <3> QED BY <3>1, <3>2
  <2> QED BY <2>2 DEF BlocksFit
<1> QED BY <1>1, <1>4, <1>5, <1>6

LEMMA EnterLocks ==
  ASSUME Types, Locks, NEW t \in Thread, NEW o \in Object, MonitorEnter(t, o)
  PROVE  Locks'
<1>1. PICK b : b = stack[t][Len(stack[t])].blocks
  OBVIOUS
<1>2. /\ stack[t] # <<>> /\ b \in Seq(Object)
      /\ stack' = [stack EXCEPT ![t] = WithBlocks(stack[t], Append(b, o))]
      /\ lock \in [Object -> [owner : Thread \cup {NoThread}, depth : Int]]
  BY <1>1, EnterTypes DEF Types
<1>3. stack \in [Thread -> Seq(Call)] /\ stack[t] \in Seq(Call)
  BY DEF Types
<1>4. /\ Append(b, o) \in Seq(Object) /\ Len(Append(b, o)) = Len(b) + 1 /\ Len(b) \in Nat
  BY <1>2, AppendFacts, LenProperties
<1>5. Len(Append(b, o)) <= Blocks[stack[t][Len(stack[t])].m]
  <2>1. Top(t) = stack[t][Len(stack[t])] /\ stack[t][Len(stack[t])] \in Call
    BY <1>2, <1>3, FrontFacts DEF Top
  <2>2. Len(b) < Blocks[stack[t][Len(stack[t])].m]
    BY <1>1, <2>1 DEF MonitorEnter
  <2>3. Blocks[stack[t][Len(stack[t])].m] \in Nat
    BY <2>1, MethodAssumption DEF Call
  <2> QED BY <1>4, <2>2, <2>3
<1>6. /\ stack' \in [Thread -> Seq(Call)] /\ stack'[t] = WithBlocks(stack[t], Append(b, o))
      /\ \A u \in Thread \ {t} : stack'[u] = stack[u]
      /\ \A u \in Thread : BlocksFit(stack'[u])
  BY <1>2, <1>4, <1>5, BlocksChanged
<1>7. OneMore(stack[t], stack'[t], o, <<Len(stack[t]), Len(b) + 1>>)
  <2>1. OneMore(stack[t], WithBlocks(stack[t], Append(b, o)), o, <<Len(stack[t]), Len(b) + 1>>)
    BY <1>1, <1>2, <1>3, EnterHoldings
  <2> QED BY <1>6, <2>1
<1>8. Accounted(lock', stack')
  <2>1. Accounted(lock, stack)
    BY DEF Locks
  <2>2. lock' = Entered(lock, t, o) /\ (o # NoObject => lock[o].owner \in {NoThread, t})
    BY DEF MonitorEnter, Free
  <2>3. TopDiffers(stack, stack', t, o, <<Len(stack[t]), Len(b) + 1>>)
    BY <1>6, <1>7 DEF TopDiffers
  <2>4. lock \in [Object -> [owner : Thread \cup {NoThread}, depth : Int]]
    BY <1>2
  <2>5. stack' \in [Thread -> Seq(Call)] /\ o \in Object \cup {NoObject}
    BY <1>6
  <2>6. Accounted(Entered(lock, t, o), stack')
    BY <1>3, <2>1, <2>2, <2>3, <2>4, <2>5, EnteredAccount
  <2> QED BY <2>2, <2>6
<1> QED BY <1>6, <1>8 DEF Locks, Accounted, AllFinite, Owned, LockSound, Holdings, BlocksFit,
            HeldIn, Place

LEMMA ExitLocks ==
  ASSUME Types, Locks, NEW t \in Thread, stack[t] # <<>>, ExitBlock(t),
         exc' \in [Thread -> Exceptions]
  PROVE  Locks'
<1>1. PICK b : b = stack[t][Len(stack[t])].blocks
  OBVIOUS
<1>2. /\ b \in Seq(Object) /\ b # <<>> /\ Last(b) \in Object
      /\ lock' = Exited(lock, Last(b))
      /\ stack' = [stack EXCEPT ![t] = WithBlocks(stack[t], Front(b))]
      /\ lock \in [Object -> [owner : Thread \cup {NoThread}, depth : Int]]
  BY <1>1, ExitTypes DEF Types
<1>3. stack \in [Thread -> Seq(Call)] /\ stack[t] \in Seq(Call)
  BY DEF Types
<1>4. Front(b) \in Seq(Object) /\ Len(Front(b)) = Len(b) - 1 /\ Len(b) \in Nat
  BY <1>2, FrontFacts
<1>5. Len(Front(b)) <= Blocks[stack[t][Len(stack[t])].m]
  <2>1. stack[t][Len(stack[t])] \in Call /\ Len(stack[t]) \in 1..Len(stack[t])
    BY <1>3, FrontFacts
  <2>2. Len(b) <= Blocks[stack[t][Len(stack[t])].m]
    BY <1>1, <2>1 DEF Locks, BlocksFit
  <2>3. Blocks[stack[t][Len(stack[t])].m] \in Nat
    BY <2>1, MethodAssumption DEF Call
  <2> QED BY <1>4, <2>2, <2>3
<1>6. /\ stack' \in [Thread -> Seq(Call)] /\ stack'[t] = WithBlocks(stack[t], Front(b))
      /\ \A u \in Thread \ {t} : stack'[u] = stack[u]
      /\ \A u \in Thread : BlocksFit(stack'[u])
  BY <1>2, <1>4, <1>5, BlocksChanged
<1>7. OneMore(stack'[t], stack[t], Last(b), <<Len(stack[t]), Len(b)>>)
  <2>1. OneMore(WithBlocks(stack[t], Front(b)), stack[t], Last(b), <<Len(stack[t]), Len(b)>>)
    BY <1>1, <1>2, <1>3, ExitHoldings
  <2> QED BY <1>6, <2>1
<1>8. Accounted(lock', stack')
  <2>1. Accounted(lock, stack)
    BY DEF Locks
  <2>2. TopDiffers(stack', stack, t, Last(b), <<Len(stack[t]), Len(b)>>)
    BY <1>6, <1>7 DEF TopDiffers
  <2>3. /\ lock \in [Object -> [owner : Thread \cup {NoThread}, depth : Int]]
        /\ stack \in [Thread -> Seq(Call)] /\ Last(b) \in Object \cup {NoObject}
    BY <1>2 DEF Types
  <2>4. Accounted(Exited(lock, Last(b)), stack')
    BY <1>6, <2>1, <2>2, <2>3, ExitedAccount
  <2> QED BY <1>2, <2>4
<1> QED BY <1>6, <1>8 DEF Locks, Accounted, AllFinite, Owned, LockSound, Holdings, BlocksFit,
            HeldIn, Place

(* A call that returns an athrow is interpreted; by the hypothesis it is in  *)
(* no block when it throws, and in no other when it rethrows.               *)
LEMMA AthrowStep ==
  ASSUME ThrowsUnlocked, Types, Locks, AthrowBare, Next
  PROVE  AthrowBare'
<1>1. PICK t \in Thread :
        \/ \E m \in Method : Invoke(t, m) \/ Overflow(t, m)
        \/ \E o \in Object : MonitorEnter(t, o)
        \/ Return(t) \/ MonitorExit(t)
        \/ Fault(t) \/ Throw(t) \/ UnlockAndRethrow(t) \/ Catch(t) \/ Unwind(t)
  BY DEF Next
<1> DEFINE Bare(u) == exc'[u] = "athrow" =>
                        stack'[u] # <<>> /\ stack'[u][Len(stack'[u])].blocks = <<>>
<1>2. ASSUME NEW u \in Thread \ {t} PROVE Bare(u)
  <2>1. stack'[u] = stack[u] /\ exc'[u] = exc[u]
    BY <1>1 DEF Types, Invoke, Overflow, MonitorEnter, Return, MonitorExit, Fault, Throw,
                UnlockAndRethrow, Catch, Unwind, Leave, ExitBlock
  <2> QED BY <2>1 DEF AthrowBare
<1>3. Bare(t)
  <2>1. CASE exc'[t] # "athrow"
    BY <2>1
  <2>2. CASE exc'[t] = "athrow"
    <3>1. exc[t] = "athrow" => stack[t] # <<>>
      BY DEF AthrowBare
    <3>2. CASE Throw(t) \/ UnlockAndRethrow(t)
      <4>1. Athrow(t) = "athrow" /\ stack[t] # <<>>
        BY <2>2, <3>2 DEF Throw, UnlockAndRethrow, Types, Runs
      <4>2. stack[t] \in Seq(Call)
        BY DEF Types
      <4>3. /\ Top(t) = stack[t][Len(stack[t])] /\ Top(t) \in Call
            /\ Len(stack[t]) \in 1..Len(stack[t])
        <5>1. stack[t] # <<>>
          BY <4>1
        <5>2. /\ Len(stack[t]) \in Nat \ {0} /\ Last(stack[t]) = stack[t][Len(stack[t])]
              /\ Last(stack[t]) \in Call
          BY <4>2, <5>1, FrontFacts
        <5> QED BY <5>2 DEF Top
      <4>4. /\ Top(t).m \in Method /\ Engine[Top(t).m] = "interp" /\ Top(t).blocks \in Seq(Object)
            /\ Len(Top(t).blocks) \in Nat /\ Len(Top(t).blocks) <= Blocks[Top(t).m]
        <5>1. Len(Top(t).blocks) <= Blocks[Top(t).m]
          BY <4>3 DEF Locks, BlocksFit
        <5>2. Top(t).m \in Method /\ Top(t).blocks \in Seq(Object)
          BY <4>3 DEF Call
        <5>3. Engine[Top(t).m] = "interp"
          BY <4>1 DEF Athrow
        <5> QED BY <5>1, <5>2, <5>3, LenProperties
      <4>5. CASE Throw(t)
        <5>1. Len(Top(t).blocks) = 0
          BY <4>4, <4>5 DEF Throw, ThrowsUnlocked
        <5>2. Top(t).blocks = <<>> /\ stack' = stack
          BY <4>4, <4>5, <5>1, EmptySeq DEF Throw
        <5> QED BY <4>1, <4>3, <5>2
      <4>6. CASE UnlockAndRethrow(t)
        <5>1. PICK b \in Seq(Object) : b = stack[t][Len(stack[t])].blocks
          BY <4>3, <4>4
        <5>2. /\ b # <<>> /\ stack' = [stack EXCEPT ![t] = WithBlocks(stack[t], Front(b))]
          <6>1. ExitBlock(t) /\ exc' \in [Thread -> Exceptions]
            BY <4>6 DEF UnlockAndRethrow, Types, Athrow, Exceptions
          <6> QED BY <4>1, <5>1, <6>1, ExitTypes
        <5>3. Len(b) <= 1 /\ Len(b) \in Nat
          <6>1. Blocks[Top(t).m] \in Nat /\ Blocks[Top(t).m] <= 1
            BY <4>4, MethodAssumption DEF ThrowsUnlocked
          <6> QED BY <4>3, <4>4, <5>1, <6>1
        <5>4. Front(b) \in Seq(Object) /\ Front(b) = <<>>
          <6>1. Front(b) \in Seq(Object) /\ Len(b) # 0 /\ Len(Front(b)) = Len(b) - 1
            BY <5>2, FrontFacts
          <6>2. Len(Front(b)) = 0
            BY <5>3, <6>1
          <6> QED BY <6>1, <6>2, EmptySeq
        <5>5. PICK w : w = WithBlocks(stack[t], Front(b))
          OBVIOUS
        <5>6. w # <<>> /\ Len(w) = Len(stack[t]) /\ w[Len(stack[t])].blocks = <<>>
          BY <4>1, <4>2, <5>4, <5>5, TopBlocks
        <5>7. stack'[t] = w
          BY <5>2, <5>5 DEF Types
        <5> QED BY <5>6, <5>7
      <4> QED BY <3>2, <4>5, <4>6
    <3>3. CASE ~ (Throw(t) \/ UnlockAndRethrow(t))
      BY <1>1, <2>2, <3>1, <3>3
      DEF Types, Invoke, CanCall, Overflow, MonitorEnter, Return, MonitorExit, Fault, Catch, Unwind,
          Runs
    <3> QED BY <3>2, <3>3
  <2> QED BY <2>1, <2>2
<1> QED BY <1>2, <1>3 DEF AthrowBare

LEMMA LInvStep ==
  ASSUME ThrowsUnlocked, LInv, [Next]_vars
  PROVE  LInv'
<1>1. TInv'
  BY TInvStep DEF LInv
<1>2. CASE UNCHANGED vars
  <2>1. lock' = lock /\ stack' = stack /\ exc' = exc
    BY <1>2 DEF vars
  <2>2. Accounted(lock', stack') /\ \A u \in Thread : BlocksFit(stack'[u])
    BY <2>1 DEF LInv, Locks
  <2>3. AthrowBare'
    BY <2>1 DEF LInv, AthrowBare
  <2> QED BY <1>1, <2>2, <2>3 DEF LInv, Locks, Accounted, AllFinite, Owned, LockSound, Holdings,
                                  BlocksFit, HeldIn, Place
<1>3. CASE Next
  <2>1. Types /\ Locks /\ AthrowBare
    BY DEF LInv, TInv
  <2>2. AthrowBare'
    BY <1>3, <2>1, AthrowStep
  <2>3. PICK t \in Thread :
           \/ \E m \in Method : Invoke(t, m)
           \/ \E o \in Object : MonitorEnter(t, o)
           \/ stack[t] # <<>> /\ ExitBlock(t) /\ exc' \in [Thread -> Exceptions]
           \/ /\ stack[t] # <<>> /\ Leave(t)
              /\ exc[t] = "athrow" \/ Top(t).blocks = <<>>
           \/ UNCHANGED <<lock, stack, jstack>>
    BY <1>3, <2>1, StepKinds
  <2>4. ASSUME NEW m \in Method, Invoke(t, m) PROVE Locks'
    BY <2>1, <2>4, InvokeLocks
  <2>5. ASSUME NEW o \in Object, MonitorEnter(t, o) PROVE Locks'
    BY <2>1, <2>5, EnterLocks
  <2>6. ASSUME stack[t] # <<>>, ExitBlock(t), exc' \in [Thread -> Exceptions] PROVE Locks'
    BY <2>1, <2>6, ExitLocks
  <2>7. ASSUME stack[t] # <<>>, Leave(t), exc[t] = "athrow" \/ Top(t).blocks = <<>>
        PROVE  Locks'
    <3>1. stack[t] \in Seq(Call)
      BY <2>1 DEF Types
    <3>2. Top(t) = stack[t][Len(stack[t])]
      BY <2>7, <3>1, FrontFacts DEF Top
    <3>3. Top(t).blocks = <<>>
      BY <2>1, <2>7, <3>2 DEF AthrowBare
    <3> QED BY <2>1, <2>7, <3>3, LeaveLocks
  <2>8. ASSUME UNCHANGED <<lock, stack, jstack>> PROVE Locks'
    <3>1. Accounted(lock', stack') /\ \A u \in Thread : BlocksFit(stack'[u])
      BY <2>1, <2>8 DEF Locks
    <3> QED BY <3>1 DEF Locks, Accounted, AllFinite, Owned, LockSound, Holdings, BlocksFit,
                        HeldIn, Place
  <2>9. Locks'
    BY <2>3, <2>4, <2>5, <2>6, <2>7, <2>8
  <2> QED BY <1>1, <2>2, <2>9 DEF LInv
<1> QED BY <1>2, <1>3

LEMMA LInvInit ==
  ASSUME Init
  PROVE  LInv
<1>1. TInv
  BY TypesInit, EmptySeq DEF Init, TInv, Traced
<1>2. \A t \in Thread : stack[t] = <<>> /\ Len(stack[t]) = 0 /\ exc[t] = "none"
  BY DEF Init
<1>3. \A o : HeldIn(<<>>, o) = {} /\ IsFiniteSet({}) /\ Cardinality({}) = 0
  BY FS_EmptySet DEF HeldIn
<1>4. \A t \in Thread, o \in Object :
        IsFiniteSet(HeldIn(stack[t], o)) /\ Holdings(stack)[t][o] = 0
  BY <1>2, <1>3 DEF Holdings
<1>5. Owned(lock, Holdings(stack)) /\ LockSound(lock)
  BY <1>4, NamesAssumption DEF Init, Owned, LockSound
<1>6. \A t \in Thread : BlocksFit(stack[t])
  BY <1>2 DEF BlocksFit
<1>7. AthrowBare
  BY <1>2 DEF AthrowBare
<1> QED BY <1>1, <1>4, <1>5, <1>6, <1>7 DEF LInv, Locks, Accounted, AllFinite

(* In a program in which no interpreted method throws out of a synchronized *)
(* block of its own but the one it is about to leave, every monitor is owned *)
(* exactly as deep as the live calls of its owner entered it: whatever      *)
(* engines alternate, and whether calls return, throw or overflow           *)
(* (interp.go, genrt.go).                                                   *)
THEOREM LocksCorrect ==
  ASSUME ThrowsUnlocked
  PROVE  Spec => []MonitorsHeldExactly
<1>1. Init => LInv
  BY LInvInit
<1>2. LInv /\ [Next]_vars => LInv'
  BY LInvStep
<1>3. LInv => MonitorsHeldExactly
  BY DEF LInv, Locks, Accounted, Owned, Holdings, MonitorsHeldExactly
<1> QED BY <1>1, <1>2, <1>3, PTL DEF Spec

----
(***************************************************************************)
(* MemberLookup.                                                           *)
(***************************************************************************)

Declarations == {"nothing", "abstract", "public", "private"}
\* Types come after the interfaces they name; an interface has nothing private.
Hierarchy ==
  /\ loaded \in 0..IfaceCount + ClassCount
  /\ ifaces = [t \in Type |-> ifaces[t]]
  /\ \A t \in Type : \E n \in Nat : ifaces[t] \in [1..n -> {i \in Iface : i < t}]
  /\ declares \in [Type -> Declarations]
  /\ \A i \in Iface : declares[i] # "private"

LEMMA LeastNat ==
  ASSUME NEW T, T \subseteq Nat, T # {}
  PROVE  \E x \in T : \A y \in T : x <= y
<1>1. IsWellFoundedOn(OpToRel(<, Nat), Nat)
  BY NatLessThanWellFounded
<1>2. PICK x \in T : \A y \in T : ~(<<y, x>> \in OpToRel(<, Nat))
  BY <1>1, WFMin
<1>3. ASSUME NEW y \in T PROVE x <= y
  <2>1. <<y, x>> \notin OpToRel(<, Nat)
    BY <1>2
  <2>2. x \in Nat /\ y \in Nat
    OBVIOUS
  <2>3. ~(y < x)
    BY <2>1, <2>2 DEF OpToRel
  <2> QED BY <2>2, <2>3
<1> QED BY <1>3

LEMMA GreatestNat ==
  ASSUME NEW N \in Nat, NEW T, T \subseteq 1..N, T # {}
  PROVE  \E x \in T : \A y \in T : y <= x
<1> DEFINE R == {N - x : x \in T}
<1>1. R \subseteq Nat /\ R # {}
  <2>1. \A x \in T : N - x \in Nat
    OBVIOUS
  <2>2. PICK x \in T : TRUE
    OBVIOUS
  <2> QED BY <2>1, <2>2
<1>2. PICK r \in R : \A y \in R : r <= y
  BY <1>1, LeastNat
<1>3. PICK x \in T : r = N - x
  OBVIOUS
<1>4. ASSUME NEW y \in T PROVE y <= x
  <2>1. N - y \in R
    OBVIOUS
  <2>2. N - x <= N - y
    BY <1>2, <1>3, <2>1
  <2> QED BY <2>2
<1> QED BY <1>4

\* A set of types that has whatever it has all lower types of has every type.
LEMMA TypeInduction ==
  ASSUME NEW T, \A t \in Type : (\A s \in Type : s < t => s \in T) => t \in T
  PROVE  \A t \in Type : t \in T
<1>1. Type \subseteq Nat
  BY LookupAssumption DEF Type, Iface, Class
<1> SUFFICES ASSUME Type \ T # {} PROVE FALSE
  OBVIOUS
<1>2. PICK x \in Type \ T : \A y \in Type \ T : x <= y
  BY <1>1, LeastNat
<1>3. ASSUME NEW s \in Type, s < x PROVE s \in T
  BY <1>1, <1>2, <1>3
<1> QED BY <1>2, <1>3

LEMMA DeclaredTypes ==
  /\ Type = 1..IfaceCount + ClassCount /\ None \notin Type
  /\ \A t \in Type : t \in Nat \ {0} /\ (t \in Iface <=> t \notin Class)
  /\ \A t \in Type : Super(t) # None => t \in Class /\ Super(t) \in Class /\ Super(t) = t - 1
  /\ \A t \in Class : Super(t) = None => \A c \in Class : t <= c
  /\ \A i \in Iface, c \in Class : i < c
BY LookupAssumption DEF Type, Iface, Class, None, Super

LEMMA Lists ==
  ASSUME Hierarchy, NEW t \in Type
  PROVE  /\ \E n \in Nat : DOMAIN ifaces[t] = 1..n
         /\ \A n \in DOMAIN ifaces[t] : ifaces[t][n] \in Iface /\ ifaces[t][n] < t
                                        /\ ifaces[t][n] \in Type
BY DEF Hierarchy, Type

(***************************************************************************)
(* What the recursive functions of the searches are.  B gives the value at *)
(* a type from a function; only the values at lower types matter.          *)
(***************************************************************************)
FromLower(D, X, B) ==
  /\ D \subseteq Type /\ X # {} /\ B \in [D -> [[D -> X] -> X]]
  /\ \A t \in D : \A f, g \in [D -> X] :
       (\A s \in D : s < t => f[s] = g[s]) => B[t][f] = B[t][g]
Solution(D, X, B, f) == f \in [D -> X] /\ \A t \in D : f[t] = B[t][f]

LEMMA Recursion ==
  ASSUME NEW D, NEW X, NEW B, FromLower(D, X, B)
  PROVE  \E f : Solution(D, X, B, f)
<1> USE DEF FromLower
<1> DEFINE To(t, f) == \A s \in D : s <= t => f[s] = B[s][f]
           T == {t \in Type : \E f \in [D -> X] : To(t, f)}
<1>1. /\ \A t \in Type : t \in Nat \ {0} /\ (t # 1 => t - 1 \in Type)
      /\ \A s \in D : s \in Nat
  BY DeclaredTypes, LookupAssumption
<1>2. ASSUME NEW t \in Type, \A s \in Type : s < t => s \in T PROVE t \in T
  <2>1. PICK f \in [D -> X] : \A s \in D : s < t => f[s] = B[s][f]
    <3>1. CASE t = 1
      <4>1. PICK x \in X : TRUE
        OBVIOUS
      <4>2. [s \in D |-> x] \in [D -> X] /\ \A s \in D : ~(s < t)
        BY <1>1, <3>1
      <4> QED BY <4>2
    <3>2. CASE t # 1
      <4>1. t - 1 \in Type /\ t - 1 < t
        BY <1>1, <3>2
      <4>2. PICK f \in [D -> X] : To(t - 1, f)
        BY <1>2, <4>1
      <4>3. \A s \in D : s < t => s <= t - 1
        BY <1>1
      <4> QED BY <4>2, <4>3
    <3> QED BY <3>1, <3>2
  <2> DEFINE g == [s \in D |-> IF s = t THEN B[s][f] ELSE f[s]]
  <2>2. g \in [D -> X]
    OBVIOUS
  <2>3. ASSUME NEW s \in D, s <= t PROVE g[s] = B[s][g]
    <3>1. g[s] = B[s][f]
      <4>1. s \in Nat /\ t \in Nat
        BY <1>1
      <4>2. s # t => s < t
        BY <2>3, <4>1
      <4> QED BY <2>1, <4>2
    <3>2. \A r \in D : r < s => f[r] = g[r]
      BY <1>1, <2>3
    <3>3. B[s][f] = B[s][g]
      BY <2>2, <3>2
    <3> QED BY <3>1, <3>3
  <2> HIDE DEF g
  <2> QED BY <2>2, <2>3
<1> HIDE DEF T
<1>3. \A t \in Type : t \in T
  BY <1>2, TypeInduction
<1>4. PICK t \in Type : \A s \in Type : s <= t
  <2>1. IfaceCount + ClassCount \in Type /\ \A s \in Type : s <= IfaceCount + ClassCount
    BY LookupAssumption, DeclaredTypes
  <2> QED BY <2>1
<1>5. PICK f \in [D -> X] : To(t, f)
  BY <1>3 DEF T
<1> QED BY <1>4, <1>5 DEF Solution

LEMMA FirstFoundFacts ==
  ASSUME NEW m \in Nat, NEW list, DOMAIN list = 1..m, NEW f
  PROVE  \/ /\ \A n \in DOMAIN list : f[list[n]] = None
            /\ FirstFound(list, f) = None
         \/ \E n \in DOMAIN list : /\ FirstFound(list, f) = f[list[n]] /\ f[list[n]] # None
                                   /\ \A k \in DOMAIN list : k < n => f[list[k]] = None
<1> DEFINE hits == {n \in DOMAIN list : f[list[n]] # None}
<1>1. CASE hits = {}
  BY <1>1 DEF FirstFound
<1>2. CASE hits # {}
  <2> DEFINE n == CHOOSE n \in hits : \A k \in hits : n <= k
  <2>1. hits \subseteq Nat
    OBVIOUS
  <2>2. \E x \in hits : \A y \in hits : x <= y
    BY <1>2, <2>1, LeastNat
  <2>3. n \in hits /\ \A k \in hits : n <= k
    BY <2>2
  <2>4. FirstFound(list, f) = f[list[n]]
    BY <1>2 DEF FirstFound
  <2> HIDE DEF n
  <2>5. \A k \in DOMAIN list : k < n => f[list[k]] = None
    BY <2>1, <2>3
  <2> QED BY <2>3, <2>4, <2>5
<1> QED BY <1>1, <1>2

Find(i, f) == IF Has(i) THEN i ELSE FirstFound(ifaces[i], f)

LEMMA FindFacts ==
  ASSUME Hierarchy, NEW i \in Iface, NEW f \in [Iface -> Iface \cup {None}],
         NEW g \in [Iface -> Iface \cup {None}]
  PROVE  /\ Find(i, f) \in Iface \cup {None}
         /\ (\A j \in Iface : j < i => f[j] = g[j]) => Find(i, f) = Find(i, g)
<1>1. i \in Type
  BY DEF Type
<1>2. PICK m \in Nat : DOMAIN ifaces[i] = 1..m
  BY <1>1, Lists
<1>3. Find(i, f) \in Iface \cup {None}
  BY <1>1, <1>2, Lists, FirstFoundFacts DEF Find
<1>4. ASSUME \A j \in Iface : j < i => f[j] = g[j]
      PROVE  Find(i, f) = Find(i, g)
  <2>1. \A n \in DOMAIN ifaces[i] : f[ifaces[i][n]] = g[ifaces[i][n]]
    BY <1>1, <1>4, Lists
  <2>2. \/ FirstFound(ifaces[i], f) = FirstFound(ifaces[i], g)
        \/ \E n, k \in DOMAIN ifaces[i] :
             /\ FirstFound(ifaces[i], f) = f[ifaces[i][n]] /\ f[ifaces[i][n]] # None
             /\ FirstFound(ifaces[i], g) = g[ifaces[i][k]] /\ g[ifaces[i][k]] # None
             /\ ~(n < k) /\ ~(k < n)
    BY <1>2, <2>1, FirstFoundFacts
  <2> QED BY <1>2, <2>1, <2>2 DEF Find
<1> QED BY <1>3, <1>4

\* The search of an interface is the depth-first one, and WalkIfaces uses it.
LEMMA WalkFacts ==
  ASSUME Hierarchy
  PROVE  \E f \in [Iface -> Iface \cup {None}] :
           /\ \A i \in Iface : f[i] = Find(i, f)
           /\ \A list : WalkIfaces(list) = FirstFound(list, f)
<1>1. PICK X : X = Iface \cup {None}
  OBVIOUS
<1>b. PICK B : B = [i \in Iface |-> [f \in [Iface -> X] |-> Find(i, f)]]
  OBVIOUS
<1> DEFINE IsWalk(f) == f = [i \in Iface |-> Find(i, f)]
           w == CHOOSE f : IsWalk(f)
<1>2. B \in [Iface -> [[Iface -> X] -> X]]
  BY <1>1, <1>b, FindFacts
<1>3. \A i \in Iface : \A f, g \in [Iface -> X] :
        (\A j \in Iface : j < i => f[j] = g[j]) => B[i][f] = B[i][g]
  BY <1>1, <1>b, FindFacts
<1>4. FromLower(Iface, X, B)
  BY <1>1, <1>2, <1>3 DEF FromLower, Type
<1>5. PICK f \in [Iface -> X] : \A i \in Iface : f[i] = Find(i, f)
  BY <1>1, <1>b, <1>4, Recursion DEF Solution
<1>6. IsWalk(f)
  BY <1>5
<1>7. IsWalk(w)
  BY <1>6
<1>8. \A list : WalkIfaces(list) = FirstFound(list, w)
  BY DEF WalkIfaces, Find
<1> HIDE DEF w
<1>9. ASSUME NEW i \in Iface PROVE w[i] = Find(i, w)
  BY <1>7
<1>10. w \in [Iface -> X]
  <2> DEFINE T == {t \in Type : t \in Iface => w[t] \in X}
  <2>1. ASSUME NEW t \in Type, \A s \in Type : s < t => s \in T PROVE t \in T
    <3> SUFFICES ASSUME t \in Iface PROVE w[t] \in X
      OBVIOUS
    <3>1. PICK m \in Nat : DOMAIN ifaces[t] = 1..m
      BY Lists
    <3>2. \A n \in DOMAIN ifaces[t] : w[ifaces[t][n]] \in X
      BY <2>1, Lists
    <3>3. FirstFound(ifaces[t], w) \in X
      BY <1>1, <3>1, <3>2, FirstFoundFacts
    <3> QED BY <1>1, <1>9, <3>3 DEF Find
  <2> HIDE DEF T
  <2>2. \A t \in Type : t \in T
    BY <2>1, TypeInduction
  <2>3. \A i \in Iface : w[i] \in X
    BY <2>2 DEF T, Type
  <2> QED BY <1>7, <2>3
<1> QED BY <1>1, <1>8, <1>9, <1>10

Leads(j, target, f) == j = target \/ \E n \in DOMAIN ifaces[j] : f[ifaces[j][n]]

LEMMA IsaFacts ==
  ASSUME Hierarchy, NEW target, NEW i \in Iface
  PROVE  IfaceIsa(i, target) <=> \/ i = target
                                 \/ \E n \in DOMAIN ifaces[i] : IfaceIsa(ifaces[i][n], target)
<1> DEFINE IsIsa(f) == f = [j \in Iface |-> Leads(j, target, f)]
           w == CHOOSE f : IsIsa(f)
<1>1. PICK B : B = [j \in Iface |-> [f \in [Iface -> BOOLEAN] |-> Leads(j, target, f)]]
  OBVIOUS
<1>2. \A j \in Iface : j \in Type
  BY DEF Type
<1>3. B \in [Iface -> [[Iface -> BOOLEAN] -> BOOLEAN]]
  BY <1>1 DEF Leads
<1>4. ASSUME NEW j \in Iface, NEW f \in [Iface -> BOOLEAN], NEW g \in [Iface -> BOOLEAN],
             \A k \in Iface : k < j => f[k] = g[k]
      PROVE  B[j][f] = B[j][g]
  <2>1. \A n \in DOMAIN ifaces[j] : f[ifaces[j][n]] = g[ifaces[j][n]]
    BY <1>2, <1>4, Lists
  <2>2. Leads(j, target, f) = Leads(j, target, g)
    BY <2>1 DEF Leads
  <2> QED BY <1>1, <2>2
<1>5. FromLower(Iface, BOOLEAN, B)
  <2>1. BOOLEAN # {} /\ Iface \subseteq Type
    BY DEF Type
  <2> QED BY <1>3, <1>4, <2>1 DEF FromLower
<1>6. PICK f : Solution(Iface, BOOLEAN, B, f)
  BY <1>5, Recursion
<1>7. IsIsa(f)
  BY <1>1, <1>6 DEF Solution
<1>8. IsIsa(w)
  BY <1>7
<1>9. \A j : IfaceIsa(j, target) = w[j]
  BY DEF IfaceIsa, Leads
<1> HIDE DEF w
<1>10. w[i] = Leads(i, target, w)
  BY <1>8
<1>11. Leads(i, target, w)
       <=> \/ i = target \/ \E n \in DOMAIN ifaces[i] : IfaceIsa(ifaces[i][n], target)
  BY <1>9 DEF Leads
<1> QED BY <1>9, <1>10, <1>11

Above(s, f) == {s} \cup (IF Super(s) = None THEN {} ELSE f[Super(s)])
                   \cup UNION {f[ifaces[s][n]] : n \in DOMAIN ifaces[s]}

LEMMA SupertypeFacts ==
  ASSUME Hierarchy, NEW t \in Type
  PROVE  /\ Supertypes(t) = {t} \cup (IF Super(t) = None THEN {} ELSE Supertypes(Super(t)))
                                \cup UNION {Supertypes(ifaces[t][n]) : n \in DOMAIN ifaces[t]}
         /\ Supertypes(t) \subseteq Type
<1> DEFINE IsUp(f) == f = [s \in Type |-> Above(s, f)]
           w == CHOOSE f : IsUp(f)
<1>1. PICK X : X = SUBSET Type
  OBVIOUS
<1>b. PICK B : B = [s \in Type |-> [f \in [Type -> X] |-> Above(s, f)]]
  OBVIOUS
<1>2. B \in [Type -> [[Type -> X] -> X]]
  <2>1. ASSUME NEW s \in Type, NEW f \in [Type -> X] PROVE Above(s, f) \in X
    <3>1. \A n \in DOMAIN ifaces[s] : f[ifaces[s][n]] \subseteq Type
      BY <1>1, Lists
    <3>2. Super(s) # None => f[Super(s)] \subseteq Type
      BY <1>1, DeclaredTypes DEF Type
    <3> QED BY <1>1, <3>1, <3>2 DEF Above
  <2> QED BY <1>b, <2>1
<1>3. ASSUME NEW s \in Type, NEW f \in [Type -> X], NEW g \in [Type -> X],
             \A k \in Type : k < s => f[k] = g[k]
      PROVE  B[s][f] = B[s][g]
  <2>1. \A n \in DOMAIN ifaces[s] : f[ifaces[s][n]] = g[ifaces[s][n]]
    BY <1>3, Lists
  <2>2. Super(s) # None => f[Super(s)] = g[Super(s)]
    <3>1. Super(s) # None => Super(s) \in Type /\ Super(s) < s
      BY DeclaredTypes DEF Type
    <3> QED BY <1>3, <3>1
  <2>3. {f[ifaces[s][n]] : n \in DOMAIN ifaces[s]} = {g[ifaces[s][n]] : n \in DOMAIN ifaces[s]}
    BY <2>1
  <2>4. Above(s, f) = Above(s, g)
    BY <2>2, <2>3 DEF Above
  <2> QED BY <1>b, <2>4
<1>4. FromLower(Type, X, B)
  <2>1. X # {}
    BY <1>1
  <2> QED BY <1>2, <1>3, <2>1 DEF FromLower
<1>5. PICK f : Solution(Type, X, B, f)
  BY <1>4, Recursion
<1>6. IsUp(f)
  BY <1>b, <1>5 DEF Solution
<1>7. IsUp(w)
  BY <1>6
<1>8. \A s : Supertypes(s) = w[s]
  BY DEF Supertypes, Above
<1> HIDE DEF w
<1>9. \A s \in Type : w[s] = Above(s, w)
  BY <1>7
<1>10. w[t] \subseteq Type
  <2> DEFINE T == {s \in Type : w[s] \subseteq Type}
  <2>1. ASSUME NEW s \in Type, \A r \in Type : r < s => r \in T PROVE s \in T
    <3>1. \A n \in DOMAIN ifaces[s] : w[ifaces[s][n]] \subseteq Type
      BY <2>1, Lists
    <3>2. Super(s) # None => w[Super(s)] \subseteq Type
      <4>1. Super(s) # None => Super(s) \in Type /\ Super(s) < s
        BY DeclaredTypes DEF Type
      <4> QED BY <2>1, <4>1
    <3> QED BY <1>9, <3>1, <3>2 DEF Above
  <2> HIDE DEF T
  <2>2. t \in T
    BY <2>1, TypeInduction
  <2> QED BY <2>2 DEF T
<1> QED BY <1>8, <1>9, <1>10 DEF Above

(***************************************************************************)
(* Supertypes, as an order.                                                *)
(***************************************************************************)
LEMMA ChainFacts ==
  ASSUME NEW t \in Type
  PROVE  /\ t \in Chain(t) /\ Chain(t) \subseteq Type
         /\ \A x \in Chain(t) : x <= t /\ (t \in Class <=> x \in Class)
         /\ Chain(t) = {t} \cup (IF Super(t) = None THEN {} ELSE Chain(Super(t)))
<1>1. t \in Nat /\ Class \subseteq Type /\ Class \subseteq Nat
  BY LookupAssumption, DeclaredTypes DEF Type, Class
<1>2. CASE t \notin Class
  <2>1. Chain(t) = {t} /\ Super(t) = None
    BY <1>2 DEF Chain, Super, None
  <2> QED BY <1>1, <1>2, <2>1
<1>3. CASE t \in Class
  <2>1. CASE Super(t) = None
    <3>1. \A c \in Class : c <= t <=> c = t
      BY <1>1, <1>3, <2>1, DeclaredTypes
    <3>2. Chain(t) = {t}
      BY <1>3, <3>1 DEF Chain
    <3>3. t \in Nat /\ t <= t
      BY <1>1
    <3> QED BY <1>3, <2>1, <3>2, <3>3
  <2>2. CASE Super(t) # None
    <3>1. Super(t) \in Class /\ Super(t) = t - 1
      BY <1>1, <2>2, DeclaredTypes
    <3>2. \A c \in Class : c <= t <=> (c = t \/ c <= t - 1)
      BY <1>1
    <3>3. Chain(t) = {t} \cup Chain(Super(t))
      BY <1>1, <1>3, <3>1, <3>2 DEF Chain
    <3>4. Chain(t) = {c \in Class : c <= t}
      BY <1>3 DEF Chain
    <3> QED BY <1>1, <1>3, <2>2, <3>3, <3>4
  <2> QED BY <2>1, <2>2
<1> QED BY <1>2, <1>3

LEMMA NearestFacts ==
  ASSUME NEW t \in Type, NEW S
  PROVE  \/ NearestIn(S, t) = None /\ Chain(t) \cap S = {}
         \/ /\ NearestIn(S, t) \in Chain(t) \cap S
            /\ \A x \in Chain(t) \cap S : x <= NearestIn(S, t)
<1> DEFINE near == Chain(t) \cap S
<1>1. CASE near = {}
  BY <1>1 DEF NearestIn
<1>2. CASE near # {}
  <2>1. near \subseteq 1..IfaceCount + ClassCount
    BY ChainFacts, DeclaredTypes
  <2>2. \E c \in near : \A x \in near : x <= c
    <3>1. PICK N \in Nat : N = IfaceCount + ClassCount
      BY LookupAssumption
    <3> QED BY <1>2, <2>1, <3>1, GreatestNat
  <2> QED BY <1>2, <2>2 DEF NearestIn
<1> QED BY <1>1, <1>2

LEMMA SupertypesBelow ==
  ASSUME Hierarchy, NEW t \in Type
  PROVE  /\ t \in Supertypes(t)
         /\ \A s \in Supertypes(t) : s \in Type /\ s <= t /\ (t \in Iface => s \in Iface)
<1> DEFINE Ok(r) == \A s \in Supertypes(r) : s <= r /\ (r \in Iface => s \in Iface)
           T == {r \in Type : Ok(r)}
<1>1. ASSUME NEW r \in Type, \A q \in Type : q < r => q \in T PROVE r \in T
  <2> SUFFICES ASSUME NEW s \in Supertypes(r) PROVE s <= r /\ (r \in Iface => s \in Iface)
    OBVIOUS
  <2>1. r \in Nat /\ s \in Type /\ s \in Nat
    BY SupertypeFacts, DeclaredTypes
  <2>2. CASE s = r
    BY <2>1, <2>2
  <2>3. CASE Super(r) # None /\ s \in Supertypes(Super(r))
    <3>1. Super(r) \in Type /\ Super(r) < r /\ r \notin Iface /\ Super(r) \in Nat
      BY <2>1, <2>3, DeclaredTypes DEF Type
    <3>2. Super(r) \in T
      BY <1>1, <3>1
    <3>3. s <= Super(r)
      BY <2>3, <3>2
    <3> QED BY <2>1, <3>1, <3>3
  <2>4. CASE \E n \in DOMAIN ifaces[r] : s \in Supertypes(ifaces[r][n])
    <3>1. PICK n \in DOMAIN ifaces[r] : s \in Supertypes(ifaces[r][n])
      BY <2>4
    <3>2. PICK i \in Iface : i = ifaces[r][n] /\ i < r /\ i \in Type
      BY Lists
    <3>3. i \in T /\ i \in Nat
      BY <1>1, <3>2, DeclaredTypes
    <3>4. s <= i /\ s \in Iface
      BY <3>1, <3>2, <3>3
    <3> QED BY <2>1, <3>2, <3>3, <3>4
  <2>5. \/ s = r
        \/ Super(r) # None /\ s \in Supertypes(Super(r))
        \/ \E n \in DOMAIN ifaces[r] : s \in Supertypes(ifaces[r][n])
    BY SupertypeFacts
  <2> QED BY <2>2, <2>3, <2>4, <2>5
<1> HIDE DEF T
<1>2. t \in T
  BY <1>1, TypeInduction
<1> QED BY <1>2, SupertypeFacts DEF T

LEMMA SupertypesTransitive ==
  ASSUME Hierarchy, NEW t \in Type, NEW s \in Supertypes(t), NEW r \in Supertypes(s)
  PROVE  r \in Supertypes(t)
<1> DEFINE T == {q \in Type : \A x \in Supertypes(q) : Supertypes(x) \subseteq Supertypes(q)}
<1>1. ASSUME NEW q \in Type, \A p \in Type : p < q => p \in T PROVE q \in T
  <2> SUFFICES ASSUME NEW x \in Supertypes(q) PROVE Supertypes(x) \subseteq Supertypes(q)
    OBVIOUS
  <2>1. CASE x = q
    BY <2>1
  <2>2. CASE Super(q) # None /\ x \in Supertypes(Super(q))
    <3>1. Super(q) \in Type /\ Super(q) < q
      BY <2>2, DeclaredTypes DEF Type
    <3>2. Super(q) \in T
      BY <1>1, <3>1
    <3>3. Supertypes(Super(q)) \subseteq Supertypes(q)
      BY <2>2, SupertypeFacts
    <3> QED BY <2>2, <3>2, <3>3
  <2>3. CASE \E n \in DOMAIN ifaces[q] : x \in Supertypes(ifaces[q][n])
    <3>1. PICK n \in DOMAIN ifaces[q] : x \in Supertypes(ifaces[q][n])
      BY <2>3
    <3>2. ifaces[q][n] \in Type /\ ifaces[q][n] < q
      BY Lists
    <3>3. ifaces[q][n] \in T
      BY <1>1, <3>2
    <3>4. Supertypes(ifaces[q][n]) \subseteq Supertypes(q)
      BY SupertypeFacts
    <3> QED BY <3>1, <3>3, <3>4
  <2> QED BY <2>1, <2>2, <2>3, SupertypeFacts
<1> HIDE DEF T
<1>2. t \in T
  BY <1>1, TypeInduction
<1> QED BY <1>2 DEF T

\* Superclasses first, then what the interfaces of each lead to.
LEMMA SupertypesOfChain ==
  ASSUME Hierarchy, NEW t \in Type, NEW s
  PROVE  s \in Supertypes(t) <=>
           \/ s \in Chain(t)
           \/ \E x \in Chain(t) : \E n \in DOMAIN ifaces[x] : s \in Supertypes(ifaces[x][n])
<1> DEFINE Sees(q) == \/ s \in Chain(q)
                      \/ \E x \in Chain(q) : \E n \in DOMAIN ifaces[x] :
                           s \in Supertypes(ifaces[x][n])
           T == {q \in Type : s \in Supertypes(q) <=> Sees(q)}
<1>1. ASSUME NEW q \in Type, \A p \in Type : p < q => p \in T PROVE q \in T
  <2>1. s \in Supertypes(q) <=>
          \/ s = q
          \/ Super(q) # None /\ s \in Supertypes(Super(q))
          \/ \E n \in DOMAIN ifaces[q] : s \in Supertypes(ifaces[q][n])
    BY SupertypeFacts
  <2>2. Super(q) # None => (s \in Supertypes(Super(q)) <=> Sees(Super(q)))
    <3>1. Super(q) # None => Super(q) \in Type /\ Super(q) < q
      BY DeclaredTypes DEF Type
    <3> QED BY <1>1, <3>1
  <2>3. Sees(q) <=> \/ s = q
                    \/ Super(q) # None /\ Sees(Super(q))
                    \/ \E n \in DOMAIN ifaces[q] : s \in Supertypes(ifaces[q][n])
    BY ChainFacts
  <2> QED BY <2>1, <2>2, <2>3
<1> HIDE DEF T
<1>2. t \in T
  BY <1>1, TypeInduction
<1> QED BY <1>2 DEF T

LEMMA IsaIsSupertype ==
  ASSUME Hierarchy, NEW i \in Iface, NEW s
  PROVE  IfaceIsa(i, s) <=> s \in Supertypes(i)
<1> DEFINE T == {q \in Type : q \in Iface => (IfaceIsa(q, s) <=> s \in Supertypes(q))}
<1>1. ASSUME NEW q \in Type, \A p \in Type : p < q => p \in T PROVE q \in T
  <2> SUFFICES ASSUME q \in Iface PROVE IfaceIsa(q, s) <=> s \in Supertypes(q)
    OBVIOUS
  <2>1. \A n \in DOMAIN ifaces[q] :
          IfaceIsa(ifaces[q][n], s) <=> s \in Supertypes(ifaces[q][n])
    BY <1>1, Lists
  <2>2. Super(q) = None
    BY DeclaredTypes
  <2>3. s \in Supertypes(q) <=> s = q \/ \E n \in DOMAIN ifaces[q] : s \in Supertypes(ifaces[q][n])
    BY <2>2, SupertypeFacts
  <2> QED BY <2>1, <2>3, IsaFacts
<1> HIDE DEF T
<1>2. i \in T
  BY <1>1, TypeInduction DEF Type
<1> QED BY <1>2 DEF T

LEMMA SubtypeTest ==
  ASSUME Hierarchy, NEW t \in Type, NEW s
  PROVE  ClassIsa(t, s) <=> s \in Supertypes(t)
<1>1. \A x \in Chain(t) : \A n \in DOMAIN ifaces[x] : ifaces[x][n] \in Iface
  BY ChainFacts, Lists
<1>2. ImplementsIface(t, s) <=> \E x \in Chain(t) : \E n \in DOMAIN ifaces[x] :
                                  s \in Supertypes(ifaces[x][n])
  BY <1>1, IsaIsSupertype DEF ImplementsIface
<1> QED BY <1>2, SupertypesOfChain DEF ClassIsa

(***************************************************************************)
(* The search through interfaces.  Where no entry of a list hides a later  *)
(* one, it ends in the declaration that overrides all others.              *)
(***************************************************************************)
Best(r, S) == (r = None /\ S = {}) \/ (r \in S /\ S \subseteq Supertypes(r))
Below(t) == UNION {IfacesWith(ifaces[t][n]) : n \in DOMAIN ifaces[t]}
Unhidden(t) == \A x \in Supertypes(t) : \A m \in DOMAIN ifaces[x] : \A n \in 1..m - 1 :
                 ~Hidden(x, n, m)
IsWalk(f) == f \in [Iface -> Iface \cup {None}] /\ \A i \in Iface : f[i] = Find(i, f)

LEMMA NoneIsNoType == None \notin Iface /\ None \notin Class /\ None \notin Type
BY LookupAssumption DEF None, Iface, Class, Type

LEMMA FirstIsBest ==
  ASSUME Hierarchy, NEW f, IsWalk(f), NEW t \in Type, Unhidden(t),
         \A n \in DOMAIN ifaces[t] : Best(f[ifaces[t][n]], IfacesWith(ifaces[t][n]))
  PROVE  Best(FirstFound(ifaces[t], f), Below(t))
<1>1. PICK m \in Nat : DOMAIN ifaces[t] = 1..m
  BY Lists
<1>2. \A n \in DOMAIN ifaces[t] : None \notin IfacesWith(ifaces[t][n])
  BY NoneIsNoType DEF IfacesWith
<1>3. CASE /\ \A n \in DOMAIN ifaces[t] : f[ifaces[t][n]] = None
           /\ FirstFound(ifaces[t], f) = None
  <2>1. \A n \in DOMAIN ifaces[t] : IfacesWith(ifaces[t][n]) = {}
    BY <1>2, <1>3 DEF Best
  <2>2. Below(t) = {}
    BY <2>1 DEF Below
  <2> QED BY <1>3, <2>2 DEF Best
<1>4. ASSUME NEW n \in DOMAIN ifaces[t],
             FirstFound(ifaces[t], f) = f[ifaces[t][n]], f[ifaces[t][n]] # None,
             \A k \in DOMAIN ifaces[t] : k < n => f[ifaces[t][k]] = None
      PROVE  Best(FirstFound(ifaces[t], f), Below(t))
  <2>1. PICK r : r = f[ifaces[t][n]]
    OBVIOUS
  <2>2. r \in IfacesWith(ifaces[t][n]) /\ IfacesWith(ifaces[t][n]) \subseteq Supertypes(r)
    BY <1>4, <2>1 DEF Best
  <2>3. ASSUME NEW k \in DOMAIN ifaces[t], NEW j \in IfacesWith(ifaces[t][k])
        PROVE  j \in Supertypes(r)
    <3>1. k \in Nat /\ n \in Nat
      BY <1>1
    <3>2. CASE k = n
      BY <2>2, <2>3, <3>2
    <3>3. CASE k < n
      <4>1. IfacesWith(ifaces[t][k]) = {}
        BY <1>2, <1>4, <3>3 DEF Best
      <4> QED BY <2>3, <4>1
    <3>4. CASE n < k
      <4>1. n \in 1..k - 1
        BY <1>1, <3>1, <3>4
      <4>2. ~Hidden(t, n, k)
        BY <4>1, SupertypesBelow DEF Unhidden
      <4>3. r = j \/ j \in Supertypes(r)
        BY <2>2, <2>3, <4>2 DEF Hidden
      <4>4. r \in Type
        BY <2>2 DEF IfacesWith, Type
      <4> QED BY <4>3, <4>4, SupertypesBelow
    <3> QED BY <3>1, <3>2, <3>3, <3>4
  <2>4. r \in Below(t) /\ Below(t) \subseteq Supertypes(r)
    BY <2>2, <2>3 DEF Below
  <2> QED BY <1>4, <2>1, <2>4 DEF Best
<1> QED BY <1>1, <1>3, <1>4, FirstFoundFacts

LEMMA IfacesOfIface ==
  ASSUME Hierarchy, NEW t \in Type
  PROVE  IfacesWith(t) = (IF t \in Iface /\ Has(t) THEN {t} ELSE {}) \cup Below(t)
                         \cup (IF Super(t) = None THEN {} ELSE IfacesWith(Super(t)))
BY SupertypeFacts DEF IfacesWith, Below

LEMMA UnhiddenBelow ==
  ASSUME Hierarchy, NEW t \in Type, Unhidden(t), NEW n \in DOMAIN ifaces[t]
  PROVE  Unhidden(ifaces[t][n])
<1>1. Supertypes(ifaces[t][n]) \subseteq Supertypes(t)
  BY SupertypeFacts
<1> QED BY <1>1 DEF Unhidden

LEMMA WalkIsBest ==
  ASSUME Hierarchy, NEW f, IsWalk(f), NEW i \in Iface, Unhidden(i)
  PROVE  Best(f[i], IfacesWith(i))
<1> DEFINE T == {q \in Type : q \in Iface /\ Unhidden(q) => Best(f[q], IfacesWith(q))}
<1>1. ASSUME NEW q \in Type, \A p \in Type : p < q => p \in T PROVE q \in T
  <2> SUFFICES ASSUME q \in Iface, Unhidden(q) PROVE Best(f[q], IfacesWith(q))
    OBVIOUS
  <2>1. f[q] = Find(q, f) /\ Super(q) = None
    BY DeclaredTypes DEF IsWalk
  <2>2. CASE Has(q)
    <3>1. f[q] = q
      BY <2>1, <2>2 DEF Find
    <3>2. q \in IfacesWith(q) /\ IfacesWith(q) \subseteq Supertypes(q)
      BY <2>2, SupertypesBelow DEF IfacesWith
    <3> QED BY <3>1, <3>2 DEF Best
  <2>3. CASE ~Has(q)
    <3>1. f[q] = FirstFound(ifaces[q], f)
      BY <2>1, <2>3 DEF Find
    <3>2. IfacesWith(q) = Below(q)
      BY <2>1, <2>3, IfacesOfIface
    <3>3. \A n \in DOMAIN ifaces[q] : Best(f[ifaces[q][n]], IfacesWith(ifaces[q][n]))
      BY <1>1, Lists, UnhiddenBelow
    <3> QED BY <3>1, <3>2, <3>3, FirstIsBest
  <2> QED BY <2>2, <2>3
<1> HIDE DEF T
<1>2. i \in T
  BY <1>1, TypeInduction DEF Type
<1> QED BY <1>2 DEF T

LEMMA BestOfWalk ==
  ASSUME Hierarchy, NEW t \in Type, Unhidden(t)
  PROVE  Best(WalkIfaces(ifaces[t]), Below(t))
<1>1. PICK f \in [Iface -> Iface \cup {None}] :
        /\ \A i \in Iface : f[i] = Find(i, f)
        /\ \A list : WalkIfaces(list) = FirstFound(list, f)
  BY WalkFacts
<1>2. IsWalk(f)
  BY <1>1 DEF IsWalk
<1>3. \A n \in DOMAIN ifaces[t] : Best(f[ifaces[t][n]], IfacesWith(ifaces[t][n]))
  BY <1>2, Lists, UnhiddenBelow, WalkIsBest
<1> QED BY <1>1, <1>2, <1>3, FirstIsBest

LEMMA BestIsMostSpecific ==
  ASSUME Hierarchy, NEW S, S \subseteq Type, NEW r \in S, S \subseteq Supertypes(r)
  PROVE  MostSpecific(S) = {r}
<1>1. ASSUME NEW q \in S, r \in Supertypes(q) PROVE q = r
  <2>1. q \in Type /\ r \in Type /\ q \in Nat /\ r \in Nat
    BY DeclaredTypes
  <2>2. q <= r /\ r <= q
    BY <1>1, <2>1, SupertypesBelow
  <2> QED BY <2>1, <2>2
<1>2. r \in MostSpecific(S)
  BY <1>1 DEF MostSpecific
<1>3. ASSUME NEW s \in MostSpecific(S) PROVE s = r
  BY <1>3 DEF MostSpecific
<1> QED BY <1>2, <1>3

(***************************************************************************)
(* Each part of FollowsJVMS, on a type that is clear of the disagreements. *)
(***************************************************************************)
Holders == {x \in Type : Has(x)}
Visible == {x \in Class : declares[x] \in {"public", "abstract"}}

LEMMA ClearFacts ==
  ASSUME Hierarchy, Avoided = Disagreements, NEW d \in Type, Clear(d)
  PROVE  /\ NearestIn({x \in Class : Has(x)}, d) = None =>
              \A c \in Chain(d) \ {d} : IfacesWith(c) = {}
         /\ Unhidden(d)
         /\ \A c \in Chain(d) : declares[c] # "private"
         /\ \A t \in Chain(d) : GetMethod(t) # None => GetMethod(d) = GetMethod(t)
<1>1. \A reason \in Disagreements : ~Disagree(reason, d)
  BY DEF Clear
<1>2. ~Disagree("interface of a superclass", d)
  BY <1>1 DEF Disagreements
<1>3. ~Disagree("several interfaces", d)
  BY <1>1 DEF Disagreements
<1>4. ~Disagree("private", d)
  BY <1>1 DEF Disagreements
<1>5. ~Disagree("reflection", d)
  BY <1>1 DEF Disagreements
<1> QED BY <1>2, <1>3, <1>4, <1>5 DEF Disagree, Unhidden

LEMMA SameNearest ==
  ASSUME NEW t \in Type, NEW S, NEW R, Chain(t) \cap S = Chain(t) \cap R
  PROVE  NearestIn(S, t) = NearestIn(R, t)
<1> DEFINE Greatest(near) == IF near = {} THEN None
                             ELSE CHOOSE c \in near : \A x \in near : x <= c
<1>1. NearestIn(S, t) = Greatest(Chain(t) \cap S) /\ NearestIn(R, t) = Greatest(Chain(t) \cap R)
  BY DEF NearestIn
<1> HIDE DEF Greatest
<1> QED BY <1>1

\* A class has its nearest declaration visible; an interface has none in classes.
LEMMA NearestDeclarations ==
  ASSUME Hierarchy, NEW d \in Type, \A c \in Chain(d) : declares[c] # "private"
  PROVE  /\ NearestIn(Visible, d) = NearestIn({x \in Class : Has(x)}, d)
         /\ d \in Class => NearestIn(Holders, d) = NearestIn(Visible, d)
         /\ d \in Iface => NearestIn(Visible, d) = None
         /\ d \in Iface => NearestIn(Holders, d) = IF Has(d) THEN d ELSE None
<1>1. \A x \in Chain(d) : x \in Type /\ declares[x] \in Declarations
                          /\ (d \in Class <=> x \in Class)
  BY ChainFacts DEF Hierarchy
<1>2. Chain(d) \cap Visible = Chain(d) \cap {x \in Class : Has(x)}
  BY <1>1 DEF Visible, Has, Declarations
<1>3. NearestIn(Visible, d) = NearestIn({x \in Class : Has(x)}, d)
  BY <1>2, SameNearest
<1>4. ASSUME d \in Class PROVE NearestIn(Holders, d) = NearestIn(Visible, d)
  <2>1. Chain(d) \cap Visible = Chain(d) \cap Holders
    BY <1>1, <1>4 DEF Visible, Holders, Has, Declarations
  <2> QED BY <2>1, SameNearest
<1>5. ASSUME d \in Iface
      PROVE  /\ NearestIn(Visible, d) = None
             /\ NearestIn(Holders, d) = IF Has(d) THEN d ELSE None
  <2>1. d \notin Class /\ Chain(d) = {d}
    BY <1>5, DeclaredTypes DEF Chain
  <2>2. Chain(d) \cap Visible = {} /\ Chain(d) \cap Holders = IF Has(d) THEN {d} ELSE {}
    BY <2>1 DEF Visible, Holders
  <2> QED BY <2>2, NearestFacts
<1> QED BY <1>3, <1>4, <1>5

\* Resolution that finds nothing in classes finds the best of the interfaces.
LEMMA ResolveIsBest ==
  ASSUME Hierarchy, Avoided = Disagreements, NEW d \in Type, Clear(d),
         NearestIn(Visible, d) = None
  PROVE  Best(Resolve(d), IfacesWith(d))
<1>1. /\ NearestIn({x \in Class : Has(x)}, d) = None
      /\ d \in Class => NearestIn(Holders, d) = None
      /\ d \in Iface => NearestIn(Holders, d) = IF Has(d) THEN d ELSE None
  BY ClearFacts, NearestDeclarations
<1>2. Unhidden(d) /\ \A c \in Chain(d) \ {d} : IfacesWith(c) = {}
  BY <1>1, ClearFacts
<1>3. Super(d) # None => IfacesWith(Super(d)) = {}
  <2>1. Super(d) # None => Super(d) \in Chain(d) /\ Super(d) # d
    <3>1. Super(d) # None => Super(d) \in Type /\ Super(d) = d - 1 /\ d \in Nat
      BY DeclaredTypes DEF Type
    <3>2. Super(d) # None => Super(d) \in Chain(Super(d))
      BY <3>1, ChainFacts
    <3> QED BY <3>1, <3>2, ChainFacts
  <2> QED BY <1>2, <2>1
<1>4. CASE d \in Iface /\ Has(d)
  <2>1. NearestIn(Holders, d) = d
    BY <1>1, <1>4
  <2>2. Resolve(d) = d
    BY <2>1, NoneIsNoType DEF Resolve, Holders
  <2>3. d \in IfacesWith(d) /\ IfacesWith(d) \subseteq Supertypes(d)
    BY <1>4, SupertypesBelow DEF IfacesWith
  <2> QED BY <2>2, <2>3 DEF Best
<1>5. CASE ~(d \in Iface /\ Has(d))
  <2>1. NearestIn(Holders, d) = None
    BY <1>1, <1>5 DEF Type
  <2>2. Resolve(d) = WalkIfaces(ifaces[d])
    BY <2>1 DEF Resolve, Holders
  <2>3. IfacesWith(d) = Below(d)
    BY <1>3, <1>5, IfacesOfIface
  <2> QED BY <1>2, <2>2, <2>3, BestOfWalk
<1> QED BY <1>4, <1>5

\* What a call on a supertype of d resolves to is not private.
LEMMA ResolvedIsVisible ==
  ASSUME Hierarchy, Avoided = Disagreements, NEW d \in Type, Clear(d),
         NEW t \in Supertypes(d), Resolved(t) # None
  PROVE  declares[Resolved(t)] # "private"
<1> DEFINE c == NearestIn({x \in Class : Has(x)}, t)
           all == MostSpecific(IfacesWith(t))
           defaults == {i \in all : declares[i] = "public"}
           IsPick(i) == i \in all /\ (Cardinality(defaults) = 1 => i \in defaults)
<1>1. t \in Type
  BY SupertypesBelow
<1>2. CASE c # None
  <2>1. c \in Chain(t) /\ c \in Class
    BY <1>1, <1>2, NearestFacts
  <2>2. c \in Supertypes(d)
    BY <1>1, <2>1, SupertypesOfChain, SupertypesTransitive
  <2>3. c \in Chain(d)
    <3>1. ASSUME NEW x \in Chain(d), NEW n \in DOMAIN ifaces[x], c \in Supertypes(ifaces[x][n])
          PROVE  FALSE
      <4>1. x \in Type
        BY ChainFacts
      <4>2. ifaces[x][n] \in Iface /\ ifaces[x][n] \in Type
        BY <4>1, Lists
      <4>3. c \in Iface
        BY <3>1, <4>2, SupertypesBelow
      <4> QED BY <2>1, <4>3, DeclaredTypes DEF Type
    <3> QED BY <2>2, <3>1, SupertypesOfChain
  <2>4. Resolved(t) = c
    BY <1>2 DEF Resolved
  <2> QED BY <2>3, <2>4, ClearFacts
<1>3. CASE c = None
  <2>1. all # {} /\ Resolved(t) = CHOOSE i : IsPick(i)
    BY <1>3 DEF Resolved
  <2>2. \E i : IsPick(i)
    <3>1. Cardinality(defaults) = 1 => defaults # {}
      BY FS_EmptySet
    <3> QED BY <2>1, <3>1
  <2>3. IsPick(Resolved(t))
    <3> HIDE DEF IsPick
    <3> QED BY <2>1, <2>2
  <2>4. Resolved(t) \in Iface
    BY <2>3 DEF MostSpecific, IfacesWith
  <2> QED BY <2>4 DEF Hierarchy
<1> QED BY <1>2, <1>3

\* The default method selected is the one resolution finds.
LEMMA DefaultSelected ==
  ASSUME Hierarchy, NEW d \in Type, NEW m, declares[m] # "private",
         NearestIn(Visible, d) = None, NEW r, Best(r, IfacesWith(d))
  PROVE  Executed(r) = Executed(Selected(m, d))
<1> DEFINE defaults == {i \in MostSpecific(IfacesWith(d)) : declares[i] = "public"}
<1>1. Selected(m, d) = IF Cardinality(defaults) = 1 THEN CHOOSE i \in defaults : TRUE ELSE None
  BY DEF Selected, Visible
<1>2. CASE r = None /\ IfacesWith(d) = {}
  <2>1. defaults = {}
    BY <1>2 DEF MostSpecific
  <2>2. Cardinality(defaults) = 0
    BY <2>1, FS_EmptySet
  <2> HIDE DEF defaults
  <2> QED BY <1>1, <1>2, <2>2
<1>3. CASE r \in IfacesWith(d) /\ IfacesWith(d) \subseteq Supertypes(r)
  <2>1. MostSpecific(IfacesWith(d)) = {r}
    BY <1>3, BestIsMostSpecific DEF IfacesWith, Type
  <2>2. r \in Iface /\ r # None /\ declares[r] \in {"abstract", "public"}
    BY <1>3, NoneIsNoType DEF IfacesWith, Has, Hierarchy, Declarations, Type
  <2>3. CASE declares[r] = "public"
    <3>1. defaults = {r}
      BY <2>1, <2>3
    <3>2. Cardinality(defaults) = 1
      BY <3>1, FS_Singleton
    <3>3. (CHOOSE i \in defaults : TRUE) = r
      BY <3>1
    <3> HIDE DEF defaults
    <3> QED BY <1>1, <3>2, <3>3
  <2>4. CASE declares[r] = "abstract"
    <3>1. defaults = {}
      BY <2>1, <2>4
    <3>2. Cardinality(defaults) = 0
      BY <3>1, FS_EmptySet
    <3>3. Selected(m, d) = None
      <4> HIDE DEF defaults
      <4> QED BY <1>1, <3>2
    <3> QED BY <2>4, <3>3 DEF Executed
  <2> QED BY <2>2, <2>3, <2>4
<1> QED BY <1>2, <1>3 DEF Best

LEMMA CallsAgree ==
  ASSUME Hierarchy, Avoided = Disagreements, NEW d \in Type, Clear(d)
  PROVE  CallsMatch(d)
<1> SUFFICES ASSUME NEW t \in Supertypes(d), Resolved(t) # None
             PROVE  Executed(VirtualTarget(d)) = Executed(Selected(Resolved(t), d))
  BY DEF CallsMatch
<1>1. declares[Resolved(t)] # "private"
  BY ResolvedIsVisible
<1>2. \A c \in Chain(d) : declares[c] # "private"
  BY ClearFacts
<1>3. CASE NearestIn(Visible, d) # None
  <2>1. d \in Class /\ NearestIn(Holders, d) = NearestIn(Visible, d)
    BY <1>2, <1>3, NearestDeclarations DEF Type
  <2>2. Resolve(d) = NearestIn(Visible, d)
    BY <1>3, <2>1 DEF Resolve, Holders
  <2>3. Selected(Resolved(t), d) = NearestIn(Visible, d)
    BY <1>1, <1>3 DEF Selected, Visible
  <2> QED BY <2>2, <2>3 DEF VirtualTarget
<1>4. CASE NearestIn(Visible, d) = None
  <2>1. Best(Resolve(d), IfacesWith(d))
    BY <1>4, ResolveIsBest
  <2> QED BY <1>1, <1>4, <2>1, DefaultSelected DEF VirtualTarget
<1> QED BY <1>3, <1>4

LEMMA ReflectionAgrees ==
  ASSUME Hierarchy, Avoided = Disagreements, NEW d \in Type, Clear(d)
  PROVE  ReflectedCallsMatch(d)
<1> DEFINE Public == {x \in Type : declares[x] \in {"public", "abstract"}}
<1> SUFFICES ASSUME NEW t \in Chain(d), GetMethod(t) # None
             PROVE  Executed(GetMethod(t)) = Executed(Selected(GetMethod(t), d))
  BY DEF ReflectedCallsMatch, InvokeTarget
<1>1. PICK m : m = GetMethod(t)
  OBVIOUS
<1>2. m = GetMethod(d) /\ m # None /\ GetMethod(d) = NearestIn(Public, d)
  BY <1>1, ClearFacts DEF GetMethod
<1>3. m \in Chain(d) \cap Public
  BY <1>2, NearestFacts
<1>4. declares[m] # "private"
  BY <1>3
<1>5. CASE d \in Class
  <2>1. Chain(d) \cap Public = Chain(d) \cap Visible
    BY <1>5, ChainFacts DEF Visible
  <2>2. NearestIn(Visible, d) = m
    BY <1>2, <2>1, SameNearest
  <2>3. Selected(m, d) = m
    BY <1>2, <1>4, <2>2 DEF Selected, Visible
  <2> QED BY <1>1, <2>3
<1>6. CASE d \in Iface
  <2>1. m = d /\ Has(m)
    BY <1>3, <1>6, DeclaredTypes DEF Chain, Has
  <2>2. NearestIn(Visible, d) = None
    BY <1>6, ClearFacts, NearestDeclarations
  <2>3. Best(m, IfacesWith(d))
    BY <1>6, <2>1, SupertypesBelow DEF Best, IfacesWith
  <2> QED BY <1>1, <1>4, <2>2, <2>3, DefaultSelected
<1> QED BY <1>5, <1>6 DEF Type

LEMMA FieldsAgree ==
  ASSUME Hierarchy, Avoided = Disagreements, NEW d \in Type, Clear(d)
  PROVE  FieldsMatch(d)
<1> DEFINE sight == {s \in Supertypes(d) : Has(s)}
<1> SUFFICES ASSUME Cardinality(MostSpecific(sight)) = 1
             PROVE  Resolve(d) \in MostSpecific(sight)
  BY DEF FieldsMatch
<1>1. \A c \in Chain(d) : declares[c] # "private"
  BY ClearFacts
<1>2. CASE NearestIn(Visible, d) # None
  <2>1. PICK c : c = NearestIn(Visible, d)
    OBVIOUS
  <2>2. d \in Class /\ NearestIn(Holders, d) = c /\ c # None
    BY <1>1, <1>2, <2>1, NearestDeclarations DEF Type
  <2>3. Resolve(d) = c
    BY <2>2 DEF Resolve, Holders
  <2>4. c \in Chain(d) /\ c \in Holders /\ \A x \in Chain(d) \cap Holders : x <= c
    BY <2>2, NearestFacts
  <2>5. c \in sight /\ c \in Class
    BY <2>2, <2>4, SupertypesOfChain, ChainFacts DEF Holders
  <2>6. ASSUME NEW r \in sight, c \in Supertypes(r) PROVE r = c
    <3>1. r \in Type /\ r \in Supertypes(d) /\ Has(r)
      BY SupertypesBelow
    <3>2. r \notin Iface
      <4>1. r \in Iface => c \in Iface
        BY <2>6, <3>1, SupertypesBelow
      <4> QED BY <2>5, <4>1, DeclaredTypes DEF Type
    <3>3. r \in Chain(d)
      <4>1. ASSUME NEW x \in Chain(d), NEW n \in DOMAIN ifaces[x], r \in Supertypes(ifaces[x][n])
            PROVE  FALSE
        <5>1. x \in Type
          BY ChainFacts
        <5>2. ifaces[x][n] \in Iface /\ ifaces[x][n] \in Type
          BY <5>1, Lists
        <5>3. r \in Iface
          BY <4>1, <5>2, SupertypesBelow
        <5> QED BY <3>2, <5>3
      <4> QED BY <3>1, <4>1, SupertypesOfChain
    <3>4. r <= c
      BY <2>4, <3>1, <3>3 DEF Holders
    <3>5. c <= r
      BY <2>6, <3>1, SupertypesBelow
    <3>6. c \in Nat /\ r \in Nat
      BY <2>5, <3>1, DeclaredTypes DEF Type
    <3> QED BY <3>4, <3>5, <3>6
  <2> QED BY <2>3, <2>5, <2>6 DEF MostSpecific
<1>3. CASE NearestIn(Visible, d) = None
  <2>1. Best(Resolve(d), IfacesWith(d))
    BY <1>3, ResolveIsBest
  <2>2. sight = IfacesWith(d)
    <3>1. ASSUME NEW s \in sight PROVE s \in Iface
      <4>1. s \in Type /\ s \in Supertypes(d) /\ Has(s)
        BY SupertypesBelow
      <4>2. CASE s \in Chain(d)
        <5>1. CASE d \in Class
          <6>1. NearestIn(Holders, d) = None
            BY <1>1, <1>3, <5>1, NearestDeclarations
          <6>2. s \in Chain(d) \cap Holders
            BY <4>1, <4>2 DEF Holders
          <6> QED BY <6>1, <6>2, NearestFacts, ChainFacts, NoneIsNoType
        <5>2. CASE d \in Iface
          BY <4>1, <5>2, SupertypesBelow
        <5> QED BY <5>1, <5>2 DEF Type
      <4>3. CASE s \notin Chain(d)
        <5>1. PICK x \in Chain(d) : \E n \in DOMAIN ifaces[x] : s \in Supertypes(ifaces[x][n])
          BY <4>1, <4>3, SupertypesOfChain
        <5>2. x \in Type
          BY ChainFacts
        <5>3. \A n \in DOMAIN ifaces[x] : ifaces[x][n] \in Iface /\ ifaces[x][n] \in Type
          BY <5>2, Lists
        <5> QED BY <5>1, <5>3, SupertypesBelow
      <4> QED BY <4>2, <4>3
    <3> QED BY <3>1 DEF IfacesWith
  <2>3. CASE IfacesWith(d) = {}
    <3>1. MostSpecific(sight) = {}
      BY <2>2, <2>3 DEF MostSpecific
    <3>2. Cardinality(MostSpecific(sight)) = 0
      BY <3>1, FS_EmptySet
    <3> QED BY <3>2
  <2>4. CASE Resolve(d) \in IfacesWith(d) /\ IfacesWith(d) \subseteq Supertypes(Resolve(d))
    <3>1. MostSpecific(IfacesWith(d)) = {Resolve(d)}
      BY <2>4, BestIsMostSpecific DEF IfacesWith, Type
    <3> QED BY <2>2, <3>1
  <2> QED BY <2>1, <2>3, <2>4 DEF Best
<1> QED BY <1>2, <1>3

(***************************************************************************)
(* The hierarchy grows by types that name lower ones.                      *)
(***************************************************************************)
LEMMA Loads ==
  ASSUME Hierarchy, [LookupNext]_lookupVars
  PROVE  Hierarchy'
<1>1. CASE UNCHANGED lookupVars
  BY <1>1 DEF Hierarchy, lookupVars
<1>2. CASE Load
  <2>1. PICK t \in Type : t = loaded' /\ loaded' = loaded + 1
    <3>1. loaded + 1 \in 1..IfaceCount + ClassCount
      BY <1>2, LookupAssumption DEF Hierarchy, Load
    <3> QED BY <1>2, <3>1, DeclaredTypes DEF Load
  <2>2. PICK l \in IfaceLists(t) : ifaces' = [ifaces EXCEPT ![t] = l]
    BY <1>2, <2>1 DEF Load
  <2>3. PICK d \in Declarations : /\ d = "private" => t \in Class
                                  /\ declares' = [declares EXCEPT ![t] = d]
    BY <1>2, <2>1 DEF Load, Declarations
  <2>4. PICK n \in 0..MaxIfaces : l \in [1..n -> Iface \cap 1..t - 1]
    BY DEF IfaceLists
  <2>5. n \in Nat
    BY <2>4
  <2>6. l \in [1..n -> {i \in Iface : i < t}]
    <3>1. Iface \cap 1..t - 1 \subseteq {i \in Iface : i < t}
      BY DeclaredTypes
    <3> QED BY <2>4, <3>1
  <2>7. ifaces' = [s \in Type |-> ifaces'[s]]
    BY <2>2 DEF Hierarchy
  <2>8. ASSUME NEW s \in Type
        PROVE  \E k \in Nat : ifaces'[s] \in [1..k -> {i \in Iface : i < s}]
    <3>1. CASE s = t
      BY <2>2, <2>5, <2>6, <3>1 DEF Hierarchy
    <3>2. CASE s # t
      BY <2>2, <3>2 DEF Hierarchy
    <3> QED BY <3>1, <3>2
  <2>9. declares' \in [Type -> Declarations] /\ \A i \in Iface : declares'[i] # "private"
    BY <2>3, DeclaredTypes DEF Hierarchy, Type
  <2>10. loaded' \in 0..IfaceCount + ClassCount
    BY <2>1, DeclaredTypes, LookupAssumption
  <2> QED BY <2>7, <2>8, <2>9, <2>10 DEF Hierarchy
<1> QED BY <1>1, <1>2 DEF LookupNext

LEMMA Starts == LookupInit => Hierarchy
BY LookupAssumption DEF LookupInit, Hierarchy, Declarations, Iface, Class, Type

(* Members are found where JVMS 5.4.3 and 5.4.6 say, by calls, by fields,   *)
(* by reflection and in subtype tests, in every hierarchy of any size that  *)
(* is clear of the four named disagreements (kernel.go, interp.go,          *)
(* reflect.go).                                                             *)
THEOREM LookupCorrect ==
  ASSUME Avoided = Disagreements
  PROVE  LookupSpec => []FollowsJVMS
<1>1. LookupSpec => []Hierarchy
  BY Starts, Loads, PTL DEF LookupSpec
<1>2. Hierarchy => FollowsJVMS
  <2> SUFFICES ASSUME Hierarchy, loaded # None PROVE
        /\ Clear(loaded) => /\ CallsMatch(loaded) /\ ReflectedCallsMatch(loaded)
                            /\ FieldsMatch(loaded)
        /\ \A s \in Type : ClassIsa(loaded, s) <=> s \in Supertypes(loaded)
    BY DEF FollowsJVMS
  <2>1. loaded \in Type
    BY DeclaredTypes, LookupAssumption DEF Hierarchy, None
  <2> QED BY <2>1, CallsAgree, ReflectionAgrees, FieldsAgree, SubtypeTest
<1> QED BY <1>1, <1>2, PTL
====
