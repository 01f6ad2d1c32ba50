---- MODULE ClassInitProofs ----
(***************************************************************************)
(* The safety of class initialization, for any classes and threads: the    *)
(* mutexes, the trackers and the stacks tell one story, no thread waits    *)
(* for itself, superclasses come first and <clinit> runs once.             *)
(***************************************************************************)
EXTENDS ClassInit, SequenceTheorems, TLAPS

(* What the operations on a stack of frames do.                             *)
LEMMA CallFacts ==
  ASSUME NEW s \in Seq(Frame), NEW c \in Class
  PROVE  /\ Call(s, c) \in Seq(Frame)
         /\ Len(Call(s, c)) = Len(s) + 1
         /\ \A i \in 1..Len(s) : Call(s, c)[i] = s[i]
         /\ Call(s, c)[Len(s) + 1] = [cls |-> c, at |-> "lock"]
BY DEF Call, Frame, Positions

LEMMA MoveToFacts ==
  ASSUME NEW s \in Seq(Frame), s # <<>>, NEW p \in Positions
  PROVE  /\ MoveTo(s, p) \in Seq(Frame)
         /\ Len(MoveTo(s, p)) = Len(s)
         /\ \A i \in 1..Len(s) - 1 : MoveTo(s, p)[i] = s[i]
         /\ MoveTo(s, p)[Len(s)] = [cls |-> s[Len(s)].cls, at |-> p]
<1>1. Len(s) \in DOMAIN s /\ Len(s) \in Nat /\ s[Len(s)] \in Frame
  OBVIOUS
<1>2. [s[Len(s)] EXCEPT !.at = p] = [cls |-> s[Len(s)].cls, at |-> p]
  BY <1>1 DEF Frame
<1>3. [cls |-> s[Len(s)].cls, at |-> p] \in Frame
  BY <1>1 DEF Frame
<1>4. MoveTo(s, p) = [s EXCEPT ![Len(s)] = [cls |-> s[Len(s)].cls, at |-> p]]
  BY <1>2 DEF MoveTo
<1> QED BY <1>1, <1>3, <1>4

LEMMA FrontFacts ==
  ASSUME NEW s \in Seq(Frame), s # <<>>
  PROVE  /\ Front(s) \in Seq(Frame)
         /\ Len(Front(s)) = Len(s) - 1
         /\ \A i \in 1..Len(s) - 1 : Front(s)[i] = s[i]
<1>1. Len(s) \in Nat /\ Len(s) >= 1 /\ \A i \in 1..Len(s) - 1 : s[i] \in Frame
  OBVIOUS
<1> DEFINE n == Len(s) - 1
<1>2. n \in Int /\ 1 \in Int /\ \A i \in 1..n : s[i] \in Frame
  BY <1>1
<1> HIDE DEF n
<1>3. /\ SubSeq(s, 1, n) \in Seq(Frame)
      /\ Len(SubSeq(s, 1, n)) = IF 1 <= n THEN n - 1 + 1 ELSE 0
      /\ \A i \in 1..n - 1 + 1 : SubSeq(s, 1, n)[i] = s[1 + i - 1]
  BY <1>2, SubSeqProperties
<1>4. n \in Nat /\ n = Len(s) - 1
  BY <1>1 DEF n
<1>5. Len(SubSeq(s, 1, n)) = n /\ \A i \in 1..n : SubSeq(s, 1, n)[i] = s[i]
  BY <1>3, <1>4
<1>6. Front(s) = SubSeq(s, 1, n)
  BY DEF Front, n
<1> QED BY <1>3, <1>4, <1>5, <1>6

LEMMA ReturnFacts ==
  ASSUME NEW s \in Seq(Frame), s # <<>>, NEW ok
  PROVE  /\ Return(s, ok) \in Seq(Frame)
         /\ Len(Return(s, ok)) = Len(s) - 1
         /\ \A i \in 1..Len(s) - 1 :
              /\ Return(s, ok)[i].cls = s[i].cls
              /\ \/ Return(s, ok)[i].at = s[i].at
                 \/ s[i].at = "waitSuper" /\ Return(s, ok)[i].at \in {"super", "failed"}
              /\ i < Len(s) - 1 => Return(s, ok)[i].at = s[i].at
              /\ i = Len(s) - 1 => Return(s, ok)[i].at # "waitSuper"
<1> DEFINE r == Front(s)
<1>1. /\ r \in Seq(Frame) /\ Len(r) = Len(s) - 1
      /\ \A i \in 1..Len(s) - 1 : r[i] = s[i]
  BY FrontFacts
<1>2. CASE r # <<>> /\ Last(r).at = "waitSuper"
  <2> DEFINE p == IF ok THEN "super" ELSE "failed"
  <2>1. p \in Positions /\ p \in {"super", "failed"}
    BY DEF Positions
  <2> HIDE DEF r, p
  <2>2. /\ MoveTo(r, p) \in Seq(Frame) /\ Len(MoveTo(r, p)) = Len(r)
        /\ \A i \in 1..Len(r) - 1 : MoveTo(r, p)[i] = r[i]
        /\ MoveTo(r, p)[Len(r)] = [cls |-> r[Len(r)].cls, at |-> p]
    BY <1>1, <1>2, <2>1, MoveToFacts
  <2>3. Return(s, ok) = MoveTo(r, p)
    BY <1>2 DEF Return, r, p
  <2>4. r[Len(r)].at = "waitSuper"
    BY <1>2 DEF Last
  <2> QED BY <1>1, <2>1, <2>2, <2>3, <2>4
<1>3. CASE ~(r # <<>> /\ Last(r).at = "waitSuper")
  <2>1. Return(s, ok) = r
    BY <1>3 DEF Return
  <2> HIDE DEF r
  <2>2. Len(s) - 1 \in 1..Len(s) - 1 => r[Len(s) - 1].at # "waitSuper"
    BY <1>1, <1>3 DEF Last
  <2> QED BY <1>1, <2>1, <2>2
<1> QED BY <1>2, <1>3

----
(* The inductive invariant.  Only the innermost frame of a thread is at the  *)
(* mutex; every other frame, and the innermost past the mutex, holds it for  *)
(* a class no other frame of the thread is for.                              *)
Shape == \A t \in Thread : \A i \in DOMAIN stack[t] :
  IF i < Len(stack[t]) THEN stack[t][i].at \in {"waitSuper", "clinit"}
                       ELSE stack[t][i].at # "waitSuper"

Holding(t, i, c) == i \in DOMAIN stack[t] /\ stack[t][i].at # "lock" /\ stack[t][i].cls = c

Held == \A t \in Thread : \A c \in Class :
  /\ \A i \in Nat : Holding(t, i, c) => initMu[c] = t
  /\ initMu[c] = t => state[c] = "initializing" /\ \E i \in Nat : Holding(t, i, c)
  /\ c \in initing[t] <=> initMu[c] = t

Distinct == \A t \in Thread : \A i, j \in Nat : \A c \in Class :
  Holding(t, i, c) /\ Holding(t, j, c) => i = j

InClinitAt(t, i, c) == i \in DOMAIN stack[t] /\ stack[t][i].at = "clinit" /\ stack[t][i].cls = c

(* The superclass of a running <clinit> is initialized, or in progress in a  *)
(* frame no further in.                                                      *)
Outer == \A t \in Thread : \A i \in Nat : \A c \in Class :
  (InClinitAt(t, i, c) /\ Super[c] # NoClass) =>
    \/ state[Super[c]] = "initialized"
    \/ \E j \in Nat : j <= i /\ Holding(t, j, Super[c])

InClinit(c) == \E t \in Thread : \E i \in Nat : InClinitAt(t, i, c)

(* A class that is not initialized and not in its <clinit> has had each run  *)
(* of it cut short by a panic.                                               *)
Once == \A c \in Class :
  /\ starts[c] <= 1 + panics[c]
  /\ (state[c] \in {"defined", "initializing"} /\ ~InClinit(c)) => starts[c] <= panics[c]

IInv == TypeOK /\ Shape /\ Held /\ Distinct /\ NoSelfWait /\ Outer /\ Once

USE NamesAssumption, GraphAssumption

LEMMA InitIInv == Init => IInv
<1> SUFFICES ASSUME Init PROVE IInv
  OBVIOUS
<1>1. TypeOK
  BY DEF Init, TypeOK, States
<1>2. Shape /\ Held /\ Distinct /\ Outer
  BY DEF Init, Shape, Held, Distinct, Outer, Holding, InClinitAt
<1>3. NoSelfWait /\ Once
  BY DEF Init, NoSelfWait, At, Once
<1> QED BY <1>1, <1>2, <1>3 DEF IInv

(* A thread's innermost frame.                                              *)
LEMMA Innermost ==
  ASSUME TypeOK, NEW t \in Thread, NEW p, At(t, p)
  PROVE  /\ stack[t] \in Seq(Frame) /\ stack[t] # <<>>
         /\ Len(stack[t]) \in Nat /\ Len(stack[t]) >= 1
         /\ DOMAIN stack[t] = 1..Len(stack[t])
         /\ stack[t][Len(stack[t])].at = p
         /\ Current(t) = stack[t][Len(stack[t])].cls
         /\ Current(t) \in Class
<1>1. stack[t] \in Seq(Frame) /\ stack[t] # <<>>
  BY DEF TypeOK, At
<1>2. Len(stack[t]) \in Nat /\ Len(stack[t]) >= 1 /\ DOMAIN stack[t] = 1..Len(stack[t])
  BY <1>1
<1>3. stack[t][Len(stack[t])] \in Frame
  BY <1>1, <1>2
<1> QED BY <1>1, <1>2, <1>3 DEF At, Current, Last, Frame

(* What the steps leave alone: the frames that hold a mutex, and those that  *)
(* run a <clinit>.                                                           *)
SameHoldings == \A u \in Thread : \A i \in Nat : \A d \in Class :
  Holding(u, i, d)' <=> Holding(u, i, d)
SameClinits == \A u \in Thread : \A i \in Nat : \A d \in Class :
  InClinitAt(u, i, d)' <=> InClinitAt(u, i, d)

LEMMA KeptHeld ==
  ASSUME Held, Distinct, SameHoldings, UNCHANGED <<state, initMu, initing>>
  PROVE  Held' /\ Distinct'
<1>1. Held'
  BY DEF Held, SameHoldings
<1>2. Distinct'
  BY DEF Distinct, SameHoldings
<1> QED BY <1>1, <1>2

LEMMA KeptOuter ==
  ASSUME Outer, SameHoldings, SameClinits, UNCHANGED state
  PROVE  Outer'
<1> SUFFICES ASSUME NEW u \in Thread, NEW i \in Nat, NEW d \in Class,
                    InClinitAt(u, i, d)', Super[d] # NoClass
             PROVE  \/ state'[Super[d]] = "initialized"
                    \/ \E j \in Nat : j <= i /\ Holding(u, j, Super[d])'
  BY DEF Outer
<1>1. Super[d] \in Class /\ InClinitAt(u, i, d)
  BY DEF SameClinits
<1> QED BY <1>1 DEF Outer, SameHoldings

LEMMA KeptOnce ==
  ASSUME Once, SameClinits, UNCHANGED <<state, starts, panics>>
  PROVE  Once'
<1>1. \A d \in Class : InClinit(d)' <=> InClinit(d)
  BY DEF InClinit, SameClinits
<1> QED BY <1>1 DEF Once

LEMMA UseStep ==
  ASSUME IInv, NEW t \in Thread, NEW c \in Class, Use(t, c)
  PROVE  IInv'
<1> DEFINE n == Len(stack[t])
<1>1. TypeOK /\ Shape /\ Held /\ Distinct /\ NoSelfWait /\ Outer /\ Once
  BY DEF IInv
<1>2. /\ stack[t] \in Seq(Frame) /\ n \in Nat /\ DOMAIN stack[t] = 1..n
      /\ n > 0 => stack[t][n].at = "clinit"
  <2>1. stack[t] \in Seq(Frame)
    BY <1>1 DEF TypeOK
  <2> QED BY <2>1 DEF Use, At, Last
<1>3. /\ stack' = [stack EXCEPT ![t] = Call(stack[t], c)]
      /\ UNCHANGED <<state, initMu, initing, starts, panics>>
      /\ c \notin initing[t]
  BY DEF Use, Passes
<1>4. /\ stack'[t] \in Seq(Frame) /\ Len(stack'[t]) = n + 1 /\ DOMAIN stack'[t] = 1..n + 1
      /\ \A i \in 1..n : stack'[t][i] = stack[t][i]
      /\ stack'[t][n + 1] = [cls |-> c, at |-> "lock"]
      /\ \A u \in Thread \ {t} : stack'[u] = stack[u]
  BY <1>1, <1>2, <1>3, CallFacts DEF TypeOK
<1>5. stack'[t][n + 1].cls = c /\ stack'[t][n + 1].at = "lock"
  BY <1>4
<1> HIDE DEF n
<1>7. TypeOK'
  BY <1>1, <1>3, <1>4 DEF TypeOK
<1>8. Shape'
  BY <1>1, <1>2, <1>4, <1>5 DEF Shape
<1>9. SameHoldings
  BY <1>2, <1>4, <1>5 DEF SameHoldings, Holding
<1>10. SameClinits
  BY <1>2, <1>4, <1>5 DEF SameClinits, InClinitAt
<1>11. NoSelfWait'
  BY <1>1, <1>2, <1>3, <1>4, <1>5 DEF NoSelfWait, At, Current, Last, Held
<1> QED BY <1>1, <1>3, <1>7, <1>8, <1>9, <1>10, <1>11, KeptHeld, KeptOuter, KeptOnce DEF IInv

(* The innermost frame returns.                                             *)
LEMMA PopFacts ==
  ASSUME TypeOK, Shape, NEW t \in Thread, stack[t] # <<>>, NEW ok,
         stack' = [stack EXCEPT ![t] = Return(@, ok)]
  PROVE  LET n == Len(stack[t]) IN
         /\ stack'[t] \in Seq(Frame) /\ Len(stack'[t]) = n - 1 /\ DOMAIN stack'[t] = 1..n - 1
         /\ n \in Nat /\ n >= 1 /\ DOMAIN stack[t] = 1..n
         /\ \A i \in 1..n - 1 : /\ stack'[t][i].cls = stack[t][i].cls
                                /\ stack'[t][i].at # "lock" /\ stack[t][i].at # "lock"
                                /\ stack'[t][i].at = "clinit" <=> stack[t][i].at = "clinit"
                                /\ i < n - 1 => stack'[t][i].at = stack[t][i].at
                                /\ i = n - 1 => stack'[t][i].at # "waitSuper"
         /\ \A u \in Thread \ {t} : stack'[u] = stack[u]
         /\ stack' \in [Thread -> Seq(Frame)]
<1> DEFINE s == stack[t]  r == Return(s, ok)
<1>1. s \in Seq(Frame) /\ s # <<>>
  BY DEF TypeOK
<1>2. /\ stack'[t] = r /\ stack' = [stack EXCEPT ![t] = r]
      /\ \A u \in Thread \ {t} : stack'[u] = stack[u]
  BY DEF TypeOK
<1>3. \A i \in DOMAIN s : i < Len(s) => s[i].at \in {"waitSuper", "clinit"}
  BY DEF Shape
<1> HIDE DEF s, r
<1>4. /\ r \in Seq(Frame)
      /\ Len(r) = Len(s) - 1
      /\ \A i \in 1..Len(s) - 1 :
           /\ r[i].cls = s[i].cls
           /\ \/ r[i].at = s[i].at
              \/ s[i].at = "waitSuper" /\ r[i].at \in {"super", "failed"}
           /\ i < Len(s) - 1 => r[i].at = s[i].at
           /\ i = Len(s) - 1 => r[i].at # "waitSuper"
  BY <1>1, ReturnFacts DEF r
<1>5. Len(s) \in Nat /\ Len(s) >= 1 /\ DOMAIN s = 1..Len(s) /\ DOMAIN r = 1..Len(s) - 1
  BY <1>1, <1>4
<1>6. stack' \in [Thread -> Seq(Frame)]
  BY <1>2, <1>4 DEF TypeOK
<1> QED BY <1>2, <1>3, <1>4, <1>5, <1>6, SMTT(30) DEF s

LEMMA AcquireFoundStep ==
  ASSUME IInv, NEW t \in Thread, Acquire(t),
         state[Current(t)] \in {"initialized", "erroneous"}
  PROVE  IInv'
<1> DEFINE n == Len(stack[t])
<1>1. TypeOK /\ Shape /\ Held /\ Distinct /\ NoSelfWait /\ Outer /\ Once
  BY DEF IInv
<1>2. /\ stack[t] # <<>> /\ n \in Nat /\ n >= 1 /\ DOMAIN stack[t] = 1..n
      /\ stack[t][n].at = "lock" /\ n = Len(stack[t])
  BY <1>1, Innermost DEF Acquire
<1>3. UNCHANGED <<state, initMu, initing, starts, panics>>
  BY DEF Acquire
<1>4. /\ stack'[t] \in Seq(Frame) /\ Len(stack'[t]) = n - 1 /\ DOMAIN stack'[t] = 1..n - 1
      /\ \A i \in 1..n - 1 : /\ stack'[t][i].cls = stack[t][i].cls
                             /\ stack'[t][i].at # "lock" /\ stack[t][i].at # "lock"
                             /\ stack'[t][i].at = "clinit" <=> stack[t][i].at = "clinit"
                             /\ i < n - 1 => stack'[t][i].at = stack[t][i].at
                             /\ i = n - 1 => stack'[t][i].at # "waitSuper"
      /\ \A u \in Thread \ {t} : stack'[u] = stack[u]
      /\ stack' \in [Thread -> Seq(Frame)]
  BY <1>1, <1>2, PopFacts, SMTT(30) DEF Acquire
<1> HIDE DEF n
<1>5. TypeOK'
  BY <1>1, <1>3, <1>4 DEF TypeOK
<1>6. Shape'
  <2> SUFFICES ASSUME NEW u \in Thread, NEW i \in DOMAIN stack'[u]
               PROVE  IF i < Len(stack'[u]) THEN stack'[u][i].at \in {"waitSuper", "clinit"}
                                            ELSE stack'[u][i].at # "waitSuper"
    BY DEF Shape
  <2>1. CASE u = t
    <3>1. CASE i \in 1..n - 1
      <4>1. i \in DOMAIN stack[t] /\ i < Len(stack[t])
        BY <1>2, <3>1
      <4>2. stack[t][i].at \in {"waitSuper", "clinit"}
        BY <1>1, <4>1 DEF Shape
      <4> QED BY <1>2, <1>4, <2>1, <3>1, <4>2
    <3>2. CASE i \notin 1..n - 1
      BY <1>1, <1>2, <1>4, <2>1, <3>2 DEF Shape
    <3> QED BY <3>1, <3>2
  <2>2. CASE u # t
    BY <1>1, <1>4, <2>2 DEF Shape
  <2> QED BY <2>1, <2>2
<1>7. SameHoldings
  <2> SUFFICES ASSUME NEW u \in Thread, NEW i \in Nat, NEW d \in Class
               PROVE  Holding(u, i, d)' <=> Holding(u, i, d)
    BY DEF SameHoldings
  <2>1. CASE u = t
    <3>1. CASE i \in 1..n - 1
      BY <1>2, <1>4, <2>1, <3>1 DEF Holding
    <3>2. CASE i = n
      BY <1>2, <1>4, <2>1, <3>2 DEF Holding
    <3>3. CASE i \notin 1..n
      BY <1>2, <1>4, <2>1, <3>3 DEF Holding
    <3> QED BY <1>2, <3>1, <3>2, <3>3
  <2>2. CASE u # t
    BY <1>4, <2>2 DEF Holding
  <2> QED BY <2>1, <2>2
<1>8. SameClinits
  <2> SUFFICES ASSUME NEW u \in Thread, NEW i \in Nat, NEW d \in Class
               PROVE  InClinitAt(u, i, d)' <=> InClinitAt(u, i, d)
    BY DEF SameClinits
  <2>1. CASE u = t
    <3>1. CASE i \in 1..n - 1
      BY <1>2, <1>4, <2>1, <3>1 DEF InClinitAt
    <3>2. CASE i = n
      BY <1>2, <1>4, <2>1, <3>2 DEF InClinitAt
    <3>3. CASE i \notin 1..n
      BY <1>2, <1>4, <2>1, <3>3 DEF InClinitAt
    <3> QED BY <1>2, <3>1, <3>2, <3>3
  <2>2. CASE u # t
    BY <1>4, <2>2 DEF InClinitAt
  <2> QED BY <2>1, <2>2
<1>9. NoSelfWait'
  <2> SUFFICES ASSUME NEW u \in Thread, At(u, "lock")' PROVE initMu'[Current(u)'] # u
    BY DEF NoSelfWait
  <2>1. CASE u = t
    BY <1>2, <1>4, <2>1 DEF At, Last
  <2>2. CASE u # t
    BY <1>1, <1>3, <1>4, <2>2 DEF NoSelfWait, At, Current, Last
  <2> QED BY <2>1, <2>2
<1> QED BY <1>1, <1>3, <1>5, <1>6, <1>7, <1>8, <1>9, KeptHeld, KeptOuter, KeptOnce DEF IInv

LEMMA AcquireStep ==
  ASSUME IInv, NEW t \in Thread, Acquire(t),
         state[Current(t)] \notin {"initialized", "erroneous"}
  PROVE  IInv'
<1> DEFINE n == Len(stack[t])  c == Current(t)
<1>1. TypeOK /\ Shape /\ Held /\ Distinct /\ NoSelfWait /\ Outer /\ Once
  BY DEF IInv
<1>2. /\ stack[t] \in Seq(Frame) /\ stack[t] # <<>> /\ n \in Nat /\ n >= 1 /\ n = Len(stack[t])
      /\ DOMAIN stack[t] = 1..n /\ stack[t][n].at = "lock" /\ c = stack[t][n].cls /\ c \in Class
  BY <1>1, Innermost DEF Acquire
<1>3. /\ initMu[c] = NoThread /\ initMu'[c] = t /\ initing'[t] = initing[t] \cup {c}
      /\ state[c] \in {"defined", "initializing"} /\ state'[c] = "initializing"
      /\ \A d \in Class \ {c} : initMu'[d] = initMu[d] /\ state'[d] = state[d]
      /\ \A u \in Thread \ {t} : initing'[u] = initing[u]
      /\ UNCHANGED <<starts, panics>>
  BY <1>1, <1>2 DEF Acquire, TypeOK, States
<1>4. /\ stack'[t] \in Seq(Frame) /\ Len(stack'[t]) = n /\ DOMAIN stack'[t] = 1..n
      /\ \A i \in 1..n - 1 : stack'[t][i] = stack[t][i]
      /\ stack'[t][n].cls = c /\ stack'[t][n].at = "super"
      /\ \A u \in Thread \ {t} : stack'[u] = stack[u]
      /\ stack' \in [Thread -> Seq(Frame)]
  <2> DEFINE s == MoveTo(stack[t], "super")
  <2>1. /\ s \in Seq(Frame) /\ Len(s) = n
        /\ \A i \in 1..n - 1 : s[i] = stack[t][i]
        /\ s[n] = [cls |-> stack[t][n].cls, at |-> "super"]
    BY <1>2, MoveToFacts DEF Positions
  <2>2. stack' = [stack EXCEPT ![t] = s]
    BY <1>2 DEF Acquire
  <2> HIDE DEF s, n, c
  <2> QED BY <1>1, <1>2, <2>1, <2>2 DEF TypeOK
<1>5. TypeOK'
  <2>1. /\ state' \in [Class -> States] /\ initMu' \in [Class -> Thread \cup {NoThread}]
        /\ initing' \in [Thread -> SUBSET Class]
    <3>1. /\ state' = [state EXCEPT ![c] = "initializing"]
          /\ initMu' = [initMu EXCEPT ![c] = t]
          /\ initing' = [initing EXCEPT ![t] = @ \cup {c}]
      BY DEF Acquire
    <3> HIDE DEF n, c
    <3> QED BY <1>1, <1>2, <3>1 DEF TypeOK, States
  <2> QED BY <1>1, <1>3, <1>4, <2>1 DEF TypeOK
<1> HIDE DEF n, c
<1>6. Shape'
  <2> SUFFICES ASSUME NEW u \in Thread, NEW i \in DOMAIN stack'[u]
               PROVE  IF i < Len(stack'[u]) THEN stack'[u][i].at \in {"waitSuper", "clinit"}
                                            ELSE stack'[u][i].at # "waitSuper"
    BY DEF Shape
  <2>1. CASE u = t
    <3>1. CASE i \in 1..n - 1
      <4>1. i \in DOMAIN stack[t] /\ i < Len(stack[t])
        BY <1>2, <3>1
      <4>2. stack[t][i].at \in {"waitSuper", "clinit"}
        BY <1>1, <4>1 DEF Shape
      <4> QED BY <1>2, <1>4, <2>1, <3>1, <4>2
    <3>2. CASE i \notin 1..n - 1
      BY <1>1, <1>2, <1>4, <2>1, <3>2 DEF Shape
    <3> QED BY <3>1, <3>2
  <2>2. CASE u # t
    BY <1>1, <1>4, <2>2 DEF Shape
  <2> QED BY <2>1, <2>2
<1>7. \A u \in Thread : \A i \in Nat : \A d \in Class :
        Holding(u, i, d)' <=> Holding(u, i, d) \/ (u = t /\ i = n /\ d = c)
  <2> SUFFICES ASSUME NEW u \in Thread, NEW i \in Nat, NEW d \in Class
               PROVE  Holding(u, i, d)' <=> Holding(u, i, d) \/ (u = t /\ i = n /\ d = c)
    OBVIOUS
  <2>1. CASE u = t
    <3>1. CASE i \in 1..n - 1
      BY <1>2, <1>4, <2>1, <3>1 DEF Holding
    <3>2. CASE i = n
      BY <1>2, <1>4, <2>1, <3>2 DEF Holding
    <3>3. CASE i \notin 1..n
      BY <1>2, <1>4, <2>1, <3>3 DEF Holding
    <3> QED BY <1>2, <3>1, <3>2, <3>3
  <2>2. CASE u # t
    BY <1>4, <2>2 DEF Holding
  <2> QED BY <2>1, <2>2
<1>8. NoThread # t /\ \A u \in Thread : \A i \in Nat : ~Holding(u, i, c)
  BY <1>1, <1>2, <1>3 DEF Held
<1>9. Held'
  <2> SUFFICES ASSUME NEW u \in Thread, NEW d \in Class
               PROVE  /\ \A i \in Nat : Holding(u, i, d)' => initMu'[d] = u
                      /\ initMu'[d] = u => state'[d] = "initializing" /\ \E i \in Nat : Holding(u, i, d)'
                      /\ d \in initing'[u] <=> initMu'[d] = u
    BY DEF Held
  <2>1. CASE d = c
    BY <1>1, <1>2, <1>3, <1>7, <1>8, <2>1 DEF Held
  <2>2. CASE d # c
    BY <1>1, <1>3, <1>7, <2>2 DEF Held
  <2> QED BY <2>1, <2>2
<1>10. Distinct'
  BY <1>1, <1>7, <1>8 DEF Distinct
<1>11. SameClinits
  <2> SUFFICES ASSUME NEW u \in Thread, NEW i \in Nat, NEW d \in Class
               PROVE  InClinitAt(u, i, d)' <=> InClinitAt(u, i, d)
    BY DEF SameClinits
  <2>1. CASE u = t
    <3>1. CASE i \in 1..n - 1
      BY <1>2, <1>4, <2>1, <3>1 DEF InClinitAt
    <3>2. CASE i = n
      BY <1>2, <1>4, <2>1, <3>2 DEF InClinitAt
    <3>3. CASE i \notin 1..n
      BY <1>2, <1>4, <2>1, <3>3 DEF InClinitAt
    <3> QED BY <1>2, <3>1, <3>2, <3>3
  <2>2. CASE u # t
    BY <1>4, <2>2 DEF InClinitAt
  <2> QED BY <2>1, <2>2
<1>12. NoSelfWait'
  <2> SUFFICES ASSUME NEW u \in Thread, At(u, "lock")' PROVE initMu'[Current(u)'] # u
    BY DEF NoSelfWait
  <2>1. CASE u = t
    BY <1>2, <1>4, <2>1 DEF At, Last
  <2>2. CASE u # t
    <3>1. At(u, "lock") /\ Current(u)' = Current(u)
      BY <1>4, <2>2 DEF At, Current
    <3> QED BY <1>1, <1>3, <2>2, <3>1, Innermost DEF NoSelfWait
  <2> QED BY <2>1, <2>2
<1>13. Outer'
  <2> SUFFICES ASSUME NEW u \in Thread, NEW i \in Nat, NEW d \in Class,
                      InClinitAt(u, i, d)', Super[d] # NoClass
               PROVE  \/ state'[Super[d]] = "initialized"
                      \/ \E j \in Nat : j <= i /\ Holding(u, j, Super[d])'
    BY DEF Outer
  <2>1. InClinitAt(u, i, d) /\ Super[d] \in Class
    BY <1>11 DEF SameClinits
  <2>2. state[Super[d]] = "initialized" => state'[Super[d]] = "initialized"
    BY <1>3, <2>1
  <2> QED BY <1>1, <1>7, <2>1, <2>2 DEF Outer
<1>14. Once'
  <2>1. \A d \in Class : InClinit(d)' <=> InClinit(d)
    BY <1>11 DEF InClinit, SameClinits
  <2> QED BY <1>1, <1>3, <2>1 DEF Once
<1> QED BY <1>5, <1>6, <1>9, <1>10, <1>12, <1>13, <1>14 DEF IInv

LEMMA ClinitStep ==
  ASSUME IInv, NEW t \in Thread, SuperLeg(t),
         Super[Current(t)] = NoClass \/ Passes(t, Super[Current(t)])
  PROVE  IInv'
<1> DEFINE n == Len(stack[t])  c == Current(t)
<1>1. TypeOK /\ Shape /\ Held /\ Distinct /\ NoSelfWait /\ Outer /\ Once
  BY DEF IInv
<1>2. /\ stack[t] \in Seq(Frame) /\ stack[t] # <<>> /\ n \in Nat /\ n >= 1 /\ n = Len(stack[t])
      /\ DOMAIN stack[t] = 1..n /\ stack[t][n].at = "super" /\ c = stack[t][n].cls /\ c \in Class
  BY <1>1, Innermost DEF SuperLeg
<1>3. /\ starts' = [starts EXCEPT ![c] = @ + 1]
      /\ UNCHANGED <<state, initMu, initing, panics>>
      /\ Super[c] = NoClass \/ state[Super[c]] = "initialized" \/ Super[c] \in initing[t]
  BY DEF SuperLeg, Passes
<1>4. /\ stack'[t] \in Seq(Frame) /\ Len(stack'[t]) = n /\ DOMAIN stack'[t] = 1..n
      /\ \A i \in 1..n - 1 : stack'[t][i] = stack[t][i]
      /\ stack'[t][n].cls = c /\ stack'[t][n].at = "clinit"
      /\ \A u \in Thread \ {t} : stack'[u] = stack[u]
      /\ stack' \in [Thread -> Seq(Frame)]
  <2> DEFINE s == MoveTo(stack[t], "clinit")
  <2>1. /\ s \in Seq(Frame) /\ Len(s) = n
        /\ \A i \in 1..n - 1 : s[i] = stack[t][i]
        /\ s[n] = [cls |-> stack[t][n].cls, at |-> "clinit"]
    BY <1>2, MoveToFacts DEF Positions
  <2>2. stack' = [stack EXCEPT ![t] = s]
    BY DEF SuperLeg
  <2> HIDE DEF s, n, c
  <2> QED BY <1>1, <1>2, <2>1, <2>2 DEF TypeOK
<1> HIDE DEF n, c
<1>5. TypeOK'
  BY <1>1, <1>2, <1>3, <1>4 DEF TypeOK
<1>6. Shape'
  <2> SUFFICES ASSUME NEW u \in Thread, NEW i \in DOMAIN stack'[u]
               PROVE  IF i < Len(stack'[u]) THEN stack'[u][i].at \in {"waitSuper", "clinit"}
                                            ELSE stack'[u][i].at # "waitSuper"
    BY DEF Shape
  <2>1. CASE u = t
    <3>1. CASE i \in 1..n - 1
      <4>1. i \in DOMAIN stack[t] /\ i < Len(stack[t])
        BY <1>2, <3>1
      <4>2. stack[t][i].at \in {"waitSuper", "clinit"}
        BY <1>1, <4>1 DEF Shape
      <4> QED BY <1>2, <1>4, <2>1, <3>1, <4>2
    <3>2. CASE i \notin 1..n - 1
      BY <1>1, <1>2, <1>4, <2>1, <3>2 DEF Shape
    <3> QED BY <3>1, <3>2
  <2>2. CASE u # t
    BY <1>1, <1>4, <2>2 DEF Shape
  <2> QED BY <2>1, <2>2
<1>7. SameHoldings
  <2> SUFFICES ASSUME NEW u \in Thread, NEW i \in Nat, NEW d \in Class
               PROVE  Holding(u, i, d)' <=> Holding(u, i, d)
    BY DEF SameHoldings
  <2>1. CASE u = t
    <3>1. CASE i \in 1..n - 1
      BY <1>2, <1>4, <2>1, <3>1 DEF Holding
    <3>2. CASE i = n
      BY <1>2, <1>4, <2>1, <3>2 DEF Holding
    <3>3. CASE i \notin 1..n
      BY <1>2, <1>4, <2>1, <3>3 DEF Holding
    <3> QED BY <1>2, <3>1, <3>2, <3>3
  <2>2. CASE u # t
    BY <1>4, <2>2 DEF Holding
  <2> QED BY <2>1, <2>2
<1>8. \A u \in Thread : \A i \in Nat : \A d \in Class :
        InClinitAt(u, i, d)' <=> InClinitAt(u, i, d) \/ (u = t /\ i = n /\ d = c)
  <2> SUFFICES ASSUME NEW u \in Thread, NEW i \in Nat, NEW d \in Class
               PROVE  InClinitAt(u, i, d)' <=> InClinitAt(u, i, d) \/ (u = t /\ i = n /\ d = c)
    OBVIOUS
  <2>1. CASE u = t
    <3>1. CASE i \in 1..n - 1
      BY <1>2, <1>4, <2>1, <3>1 DEF InClinitAt
    <3>2. CASE i = n
      BY <1>2, <1>4, <2>1, <3>2 DEF InClinitAt
    <3>3. CASE i \notin 1..n
      BY <1>2, <1>4, <2>1, <3>3 DEF InClinitAt
    <3> QED BY <1>2, <3>1, <3>2, <3>3
  <2>2. CASE u # t
    BY <1>4, <2>2 DEF InClinitAt
  <2> QED BY <2>1, <2>2
<1>9. Holding(t, n, c) /\ initMu[c] = t /\ state[c] = "initializing"
  <2>1. Holding(t, n, c)
    BY <1>2 DEF Holding
  <2> QED BY <1>1, <1>2, <2>1 DEF Held
<1>10. \A j \in Nat : \A d \in Class : Holding(t, j, d) => j <= n
  BY <1>2 DEF Holding
<1>11. NoSelfWait'
  <2> SUFFICES ASSUME NEW u \in Thread, At(u, "lock")' PROVE initMu'[Current(u)'] # u
    BY DEF NoSelfWait
  <2>1. CASE u = t
    BY <1>2, <1>4, <2>1 DEF At, Last
  <2>2. CASE u # t
    <3>1. At(u, "lock") /\ Current(u)' = Current(u)
      BY <1>4, <2>2 DEF At, Current
    <3> QED BY <1>1, <1>3, <2>2, <3>1, Innermost DEF NoSelfWait
  <2> QED BY <2>1, <2>2
<1>12. Outer'
  <2> SUFFICES ASSUME NEW u \in Thread, NEW i \in Nat, NEW d \in Class,
                      InClinitAt(u, i, d)', Super[d] # NoClass
               PROVE  \/ state[Super[d]] = "initialized"
                      \/ \E j \in Nat : j <= i /\ Holding(u, j, Super[d])
    BY <1>3, <1>7 DEF Outer, SameHoldings
  <2>1. CASE InClinitAt(u, i, d)
    BY <1>1, <2>1 DEF Outer
  <2>2. CASE u = t /\ i = n /\ d = c
    <3>1. CASE state[Super[c]] = "initialized"
      BY <2>2, <3>1
    <3>2. CASE Super[c] \in initing[t]
      <4>1. Super[c] \in Class
        BY <2>2, <1>2
      <4>2. PICK j \in Nat : Holding(t, j, Super[c])
        BY <1>1, <3>2, <4>1 DEF Held
      <4> QED BY <1>10, <2>2, <4>1, <4>2
    <3> QED BY <1>3, <2>2, <3>1, <3>2
  <2> QED BY <1>8, <2>1, <2>2
<1>13. Once'
  <2> SUFFICES ASSUME NEW d \in Class
               PROVE  /\ starts'[d] <= 1 + panics[d]
                      /\ (state[d] \in {"defined", "initializing"} /\ ~InClinit(d)') => starts'[d] <= panics[d]
    BY <1>3 DEF Once
  <2>1. CASE d = c
    <3>1. InClinit(d)'
      <4>1. n \in DOMAIN stack'[t] /\ stack'[t][n].at = "clinit" /\ stack'[t][n].cls = d
        BY <1>2, <1>4, <2>1
      <4> QED BY <1>2, <4>1 DEF InClinit, InClinitAt
    <3>2. ~InClinit(c)
      <4> SUFFICES ASSUME NEW u \in Thread, NEW i \in Nat, InClinitAt(u, i, c) PROVE FALSE
        BY DEF InClinit
      <4>1. Holding(u, i, c)
        BY DEF Holding, InClinitAt
      <4>2. u = t
        BY <1>1, <1>2, <1>9, <4>1 DEF Held
      <4>3. i = n
        BY <1>1, <1>2, <1>9, <4>1, <4>2 DEF Distinct
      <4> QED BY <1>2, <4>2, <4>3 DEF InClinitAt
    <3>3. starts[d] <= panics[d]
      BY <1>1, <1>9, <2>1, <3>2 DEF Once
    <3>4. starts[d] \in Nat /\ panics[d] \in Nat /\ starts'[d] = starts[d] + 1
      BY <1>1, <1>3, <2>1 DEF TypeOK
    <3> QED BY <3>1, <3>3, <3>4
  <2>2. CASE d # c
    <3>2. starts'[d] = starts[d]
      BY <1>1, <1>3, <2>2 DEF TypeOK
    <3>3. InClinit(d)' <=> InClinit(d)
      BY <1>8, <2>2 DEF InClinit
    <3> QED BY <1>1, <3>2, <3>3 DEF Once
  <2> QED BY <2>1, <2>2
<1>14. Held' /\ Distinct'
  BY <1>1, <1>3, <1>7, KeptHeld
<1> QED BY <1>5, <1>6, <1>11, <1>12, <1>13, <1>14 DEF IInv

LEMMA WaitSuperStep ==
  ASSUME IInv, NEW t \in Thread, SuperLeg(t),
         Super[Current(t)] # NoClass, ~Passes(t, Super[Current(t)])
  PROVE  IInv'
<1> DEFINE n == Len(stack[t])  c == Current(t)
<1>1. TypeOK /\ Shape /\ Held /\ Distinct /\ NoSelfWait /\ Outer /\ Once
  BY DEF IInv
<1>2. /\ stack[t] \in Seq(Frame) /\ stack[t] # <<>> /\ n \in Nat /\ n >= 1 /\ n = Len(stack[t])
      /\ DOMAIN stack[t] = 1..n /\ stack[t][n].at = "super" /\ c = stack[t][n].cls /\ c \in Class
  BY <1>1, Innermost DEF SuperLeg
<1>3. /\ UNCHANGED <<state, initMu, initing, starts, panics>>
      /\ Super[c] \in Class /\ Super[c] \notin initing[t]
  BY <1>2 DEF SuperLeg, Passes
<1>4. /\ stack'[t] \in Seq(Frame) /\ Len(stack'[t]) = n + 1 /\ DOMAIN stack'[t] = 1..n + 1
      /\ \A i \in 1..n - 1 : stack'[t][i] = stack[t][i]
      /\ stack'[t][n].cls = c /\ stack'[t][n].at = "waitSuper"
      /\ stack'[t][n + 1].cls = Super[c] /\ stack'[t][n + 1].at = "lock"
      /\ \A u \in Thread \ {t} : stack'[u] = stack[u]
      /\ stack' \in [Thread -> Seq(Frame)]
  <2> DEFINE s == MoveTo(stack[t], "waitSuper")  r == Call(s, Super[c])
  <2>1. /\ s \in Seq(Frame) /\ Len(s) = n
        /\ \A i \in 1..n - 1 : s[i] = stack[t][i]
        /\ s[n] = [cls |-> stack[t][n].cls, at |-> "waitSuper"]
    BY <1>2, MoveToFacts DEF Positions
  <2>2. stack' = [stack EXCEPT ![t] = r]
    BY <1>3 DEF SuperLeg, Passes
  <2>3. /\ r \in Seq(Frame) /\ Len(r) = n + 1
        /\ \A i \in 1..n : r[i] = s[i]
        /\ r[n + 1] = [cls |-> Super[c], at |-> "lock"]
    <3> HIDE DEF s
    <3>1. /\ r \in Seq(Frame) /\ Len(r) = Len(s) + 1
          /\ \A i \in 1..Len(s) : r[i] = s[i]
          /\ r[Len(s) + 1] = [cls |-> Super[c], at |-> "lock"]
      BY <1>3, <2>1, CallFacts
    <3> QED BY <2>1, <3>1
  <2> HIDE DEF s, r, n, c
  <2>4. /\ stack'[t] = r /\ stack' \in [Thread -> Seq(Frame)]
        /\ \A u \in Thread \ {t} : stack'[u] = stack[u]
    BY <1>1, <2>2, <2>3 DEF TypeOK
  <2>5. \A i \in 1..n - 1 : r[i] = stack[t][i]
    BY <1>2, <2>1, <2>3
  <2>6. r[n].cls = c /\ r[n].at = "waitSuper" /\ r[n + 1].cls = Super[c] /\ r[n + 1].at = "lock"
    BY <1>2, <2>1, <2>3
  <2> QED BY <1>2, <2>3, <2>4, <2>5, <2>6
<1> HIDE DEF n, c
<1>5. TypeOK'
  BY <1>1, <1>3, <1>4 DEF TypeOK
<1>6. Shape'
  <2> SUFFICES ASSUME NEW u \in Thread, NEW i \in DOMAIN stack'[u]
               PROVE  IF i < Len(stack'[u]) THEN stack'[u][i].at \in {"waitSuper", "clinit"}
                                            ELSE stack'[u][i].at # "waitSuper"
    BY DEF Shape
  <2>1. CASE u = t
    <3>1. CASE i \in 1..n - 1
      <4>1. i \in DOMAIN stack[t] /\ i < Len(stack[t])
        BY <1>2, <3>1
      <4>2. stack[t][i].at \in {"waitSuper", "clinit"}
        BY <1>1, <4>1 DEF Shape
      <4> QED BY <1>2, <1>4, <2>1, <3>1, <4>2
    <3>2. CASE i = n \/ i = n + 1
      BY <1>2, <1>4, <2>1, <3>2
    <3> QED BY <1>2, <1>4, <2>1, <3>1, <3>2
  <2>2. CASE u # t
    BY <1>1, <1>4, <2>2 DEF Shape
  <2> QED BY <2>1, <2>2
<1>7. SameHoldings
  <2> SUFFICES ASSUME NEW u \in Thread, NEW i \in Nat, NEW d \in Class
               PROVE  Holding(u, i, d)' <=> Holding(u, i, d)
    BY DEF SameHoldings
  <2>1. CASE u = t
    <3>1. CASE i \in 1..n - 1
      BY <1>2, <1>4, <2>1, <3>1 DEF Holding
    <3>2. CASE i = n
      BY <1>2, <1>4, <2>1, <3>2 DEF Holding
    <3>3. CASE i \notin 1..n
      BY <1>2, <1>4, <2>1, <3>3 DEF Holding
    <3> QED BY <1>2, <3>1, <3>2, <3>3
  <2>2. CASE u # t
    BY <1>4, <2>2 DEF Holding
  <2> QED BY <2>1, <2>2
<1>8. SameClinits
  <2> SUFFICES ASSUME NEW u \in Thread, NEW i \in Nat, NEW d \in Class
               PROVE  InClinitAt(u, i, d)' <=> InClinitAt(u, i, d)
    BY DEF SameClinits
  <2>1. CASE u = t
    <3>1. CASE i \in 1..n - 1
      BY <1>2, <1>4, <2>1, <3>1 DEF InClinitAt
    <3>2. CASE i = n
      BY <1>2, <1>4, <2>1, <3>2 DEF InClinitAt
    <3>3. CASE i \notin 1..n
      BY <1>2, <1>4, <2>1, <3>3 DEF InClinitAt
    <3> QED BY <1>2, <3>1, <3>2, <3>3
  <2>2. CASE u # t
    BY <1>4, <2>2 DEF InClinitAt
  <2> QED BY <2>1, <2>2
<1>9. NoSelfWait'
  <2> SUFFICES ASSUME NEW u \in Thread, At(u, "lock")' PROVE initMu'[Current(u)'] # u
    BY DEF NoSelfWait
  <2>1. CASE u = t
    <3>1. Current(u)' = Super[c]
      BY <1>2, <1>4, <2>1 DEF Current, Last
    <3> QED BY <1>1, <1>3, <2>1, <3>1 DEF Held
  <2>2. CASE u # t
    <3>1. At(u, "lock") /\ Current(u)' = Current(u)
      BY <1>4, <2>2 DEF At, Current
    <3>2. Current(u) \in Class
      BY <1>1, <3>1, Innermost
    <3> QED BY <1>1, <1>3, <3>1, <3>2 DEF NoSelfWait
  <2> QED BY <2>1, <2>2
<1> QED BY <1>1, <1>3, <1>5, <1>6, <1>7, <1>8, <1>9, KeptHeld, KeptOuter, KeptOnce DEF IInv

LEMMA LeaveStep ==
  ASSUME IInv, NEW t \in Thread, NEW r \in {"initialized", "erroneous"},
         At(t, "failed") \/ At(t, "clinit"), Leave(t, r)
  PROVE  IInv'
<1> DEFINE n == Len(stack[t])  c == Current(t)
<1>1. TypeOK /\ Shape /\ Held /\ Distinct /\ NoSelfWait /\ Outer /\ Once
  BY DEF IInv
<1>2. /\ stack[t] \in Seq(Frame) /\ stack[t] # <<>> /\ n \in Nat /\ n >= 1 /\ n = Len(stack[t])
      /\ DOMAIN stack[t] = 1..n /\ stack[t][n].at \in {"failed", "clinit"}
      /\ c = stack[t][n].cls /\ c \in Class
  <2>1. PICK p \in {"failed", "clinit"} : At(t, p)
    OBVIOUS
  <2> QED BY <1>1, <2>1, Innermost
<1>3. /\ initMu'[c] = NoThread /\ initing'[t] = initing[t] \ {c} /\ state'[c] = r
      /\ \A d \in Class \ {c} : initMu'[d] = initMu[d] /\ state'[d] = state[d]
      /\ \A u \in Thread \ {t} : initing'[u] = initing[u]
      /\ UNCHANGED <<starts, panics>>
  BY <1>1, <1>2 DEF Leave, TypeOK
<1>4. /\ stack'[t] \in Seq(Frame) /\ Len(stack'[t]) = n - 1 /\ DOMAIN stack'[t] = 1..n - 1
      /\ \A i \in 1..n - 1 : /\ stack'[t][i].cls = stack[t][i].cls
                             /\ stack'[t][i].at # "lock" /\ stack[t][i].at # "lock"
                             /\ stack'[t][i].at = "clinit" <=> stack[t][i].at = "clinit"
                             /\ i < n - 1 => stack'[t][i].at = stack[t][i].at
                             /\ i = n - 1 => stack'[t][i].at # "waitSuper"
      /\ \A u \in Thread \ {t} : stack'[u] = stack[u]
      /\ stack' \in [Thread -> Seq(Frame)]
  BY <1>1, <1>2, PopFacts DEF Leave
<1>5. TypeOK'
  <2>1. /\ state' \in [Class -> States] /\ initMu' \in [Class -> Thread \cup {NoThread}]
        /\ initing' \in [Thread -> SUBSET Class]
    <3>1. /\ state' = [state EXCEPT ![c] = r]
          /\ initMu' = [initMu EXCEPT ![c] = NoThread]
          /\ initing' = [initing EXCEPT ![t] = @ \ {c}]
      BY DEF Leave
    <3> HIDE DEF n, c
    <3> QED BY <1>1, <1>2, <3>1 DEF TypeOK, States
  <2> QED BY <1>1, <1>3, <1>4, <2>1 DEF TypeOK
<1> HIDE DEF n, c
<1>6. Shape'
  <2> SUFFICES ASSUME NEW u \in Thread, NEW i \in DOMAIN stack'[u]
               PROVE  IF i < Len(stack'[u]) THEN stack'[u][i].at \in {"waitSuper", "clinit"}
                                            ELSE stack'[u][i].at # "waitSuper"
    BY DEF Shape
  <2>1. CASE u = t
    <3>1. CASE i \in 1..n - 1
      <4>1. i \in DOMAIN stack[t] /\ i < Len(stack[t])
        BY <1>2, <3>1
      <4>2. stack[t][i].at \in {"waitSuper", "clinit"}
        BY <1>1, <4>1 DEF Shape
      <4> QED BY <1>2, <1>4, <2>1, <3>1, <4>2
    <3> QED BY <1>4, <2>1, <3>1
  <2>2. CASE u # t
    BY <1>1, <1>4, <2>2 DEF Shape
  <2> QED BY <2>1, <2>2
<1>7. Holding(t, n, c) /\ initMu[c] = t /\ state[c] = "initializing"
  <2>1. Holding(t, n, c)
    BY <1>2 DEF Holding
  <2> QED BY <1>1, <1>2, <2>1 DEF Held
<1>8. \A u \in Thread : \A i \in Nat : Holding(u, i, c) => u = t /\ i = n
  <2> SUFFICES ASSUME NEW u \in Thread, NEW i \in Nat, Holding(u, i, c) PROVE u = t /\ i = n
    OBVIOUS
  <2>1. initMu[c] = u
    BY <1>1, <1>2 DEF Held
  <2>2. u = t
    BY <1>7, <2>1
  <2> QED BY <1>1, <1>2, <1>7, <2>2 DEF Distinct
<1>9. \A u \in Thread : \A i \in Nat : \A d \in Class :
        Holding(u, i, d)' <=> Holding(u, i, d) /\ d # c
  <2> SUFFICES ASSUME NEW u \in Thread, NEW i \in Nat, NEW d \in Class
               PROVE  Holding(u, i, d)' <=> Holding(u, i, d) /\ ~(u = t /\ i = n)
    BY <1>2, <1>7, <1>8 DEF Holding
  <2>1. CASE u = t
    BY <1>2, <1>4, <2>1 DEF Holding
  <2>2. CASE u # t
    BY <1>4, <2>2 DEF Holding
  <2> QED BY <2>1, <2>2
<1>10. \A u \in Thread : \A i \in Nat : \A d \in Class :
        InClinitAt(u, i, d)' <=> InClinitAt(u, i, d) /\ d # c
  <2> SUFFICES ASSUME NEW u \in Thread, NEW i \in Nat, NEW d \in Class
               PROVE  InClinitAt(u, i, d)' <=> InClinitAt(u, i, d) /\ ~(u = t /\ i = n)
    BY <1>2, <1>7, <1>8 DEF Holding, InClinitAt
  <2>1. CASE u = t
    BY <1>2, <1>4, <2>1 DEF InClinitAt
  <2>2. CASE u # t
    BY <1>4, <2>2 DEF InClinitAt
  <2> QED BY <2>1, <2>2
<1>11. Held'
  <2> SUFFICES ASSUME NEW u \in Thread, NEW d \in Class
               PROVE  /\ \A i \in Nat : Holding(u, i, d)' => initMu'[d] = u
                      /\ initMu'[d] = u => state'[d] = "initializing" /\ \E i \in Nat : Holding(u, i, d)'
                      /\ d \in initing'[u] <=> initMu'[d] = u
    BY DEF Held
  <2>1. CASE d = c
    BY <1>1, <1>2, <1>3, <1>7, <1>9, <2>1 DEF Held
  <2>2. CASE d # c
    BY <1>1, <1>3, <1>9, <2>2 DEF Held
  <2> QED BY <2>1, <2>2
<1>12. Distinct'
  BY <1>1, <1>9 DEF Distinct
<1>13. NoSelfWait'
  <2> SUFFICES ASSUME NEW u \in Thread, At(u, "lock")' PROVE initMu'[Current(u)'] # u
    BY DEF NoSelfWait
  <2>1. CASE u = t
    BY <1>2, <1>4, <2>1 DEF At, Last
  <2>2. CASE u # t
    <3>1. At(u, "lock") /\ Current(u)' = Current(u)
      BY <1>4, <2>2 DEF At, Current
    <3>2. Current(u) \in Class
      BY <1>1, <3>1, Innermost
    <3> QED BY <1>1, <1>3, <3>1, <3>2 DEF NoSelfWait
  <2> QED BY <2>1, <2>2
<1>14. Outer'
  <2> SUFFICES ASSUME NEW u \in Thread, NEW i \in Nat, NEW d \in Class,
                      InClinitAt(u, i, d)', Super[d] # NoClass
               PROVE  \/ state'[Super[d]] = "initialized"
                      \/ \E j \in Nat : j <= i /\ Holding(u, j, Super[d])'
    BY DEF Outer
  <2>1. InClinitAt(u, i, d) /\ Super[d] \in Class
    BY <1>10
  <2>2. CASE state[Super[d]] = "initialized"
    BY <1>3, <1>7, <2>1, <2>2
  <2>3. CASE state[Super[d]] # "initialized"
    <3>1. PICK j \in Nat : j <= i /\ Holding(u, j, Super[d])
      BY <1>1, <2>1, <2>3 DEF Outer
    <3>2. CASE Super[d] # c
      BY <1>9, <2>1, <3>1, <3>2
    <3>3. CASE Super[d] = c
      <4>1. u = t /\ j = n
        BY <1>8, <3>1, <3>3
      <4>2. i <= n
        BY <1>2, <2>1, <4>1 DEF InClinitAt
      <4>3. i = n
        BY <1>2, <3>1, <4>1, <4>2
      <4>4. d = c
        BY <1>2, <2>1, <4>1, <4>3 DEF InClinitAt
      <4> QED BY <1>10, <4>4
    <3> QED BY <3>2, <3>3
  <2> QED BY <2>2, <2>3
<1>15. Once'
  <2> SUFFICES ASSUME NEW d \in Class
               PROVE  /\ starts[d] <= 1 + panics[d]
                      /\ (state'[d] \in {"defined", "initializing"} /\ ~InClinit(d)') => starts[d] <= panics[d]
    BY <1>3 DEF Once
  <2>1. CASE d = c
    BY <1>1, <1>3, <2>1 DEF Once
  <2>2. CASE d # c
    <3>1. InClinit(d)' <=> InClinit(d)
      BY <1>10, <2>2 DEF InClinit
    <3> QED BY <1>1, <1>3, <2>2, <3>1 DEF Once
  <2> QED BY <2>1, <2>2
<1> QED BY <1>5, <1>6, <1>11, <1>12, <1>13, <1>14, <1>15 DEF IInv

LEMMA PanicStep ==
  ASSUME IInv, NEW t \in Thread, ClinitPanics(t)
  PROVE  IInv'
<1>1. TypeOK /\ Shape /\ Held /\ Distinct /\ NoSelfWait /\ Outer /\ Once
  BY DEF IInv
<1>2. /\ \A d \in Class : initMu[d] = t => initMu'[d] = NoThread /\ panics'[d] = panics[d] + 1
      /\ \A d \in Class : initMu[d] # t => initMu'[d] = initMu[d] /\ panics'[d] = panics[d]
      /\ initing'[t] = {} /\ \A u \in Thread \ {t} : initing'[u] = initing[u]
      /\ UNCHANGED <<state, starts>>
  BY <1>1 DEF ClinitPanics, TypeOK
<1>3. stack'[t] = <<>> /\ \A u \in Thread \ {t} : stack'[u] = stack[u]
  BY <1>1 DEF ClinitPanics, TypeOK
<1>4. TypeOK'
  <2>1. /\ initMu' = [d \in Class |-> IF initMu[d] = t THEN NoThread ELSE initMu[d]]
        /\ panics' = [d \in Class |-> IF initMu[d] = t THEN panics[d] + 1 ELSE panics[d]]
        /\ initing' = [initing EXCEPT ![t] = {}] /\ stack' = [stack EXCEPT ![t] = <<>>]
    BY DEF ClinitPanics
  <2>2. initMu' \in [Class -> Thread \cup {NoThread}]
    BY <1>1, <2>1 DEF TypeOK
  <2>3. panics' \in [Class -> Nat]
    BY <1>1, <2>1 DEF TypeOK
  <2>4. initing' \in [Thread -> SUBSET Class]
    BY <1>1, <2>1 DEF TypeOK
  <2>5. stack' \in [Thread -> Seq(Frame)]
    <3>1. <<>> \in Seq(Frame)
      OBVIOUS
    <3> QED BY <1>1, <2>1, <3>1 DEF TypeOK
  <2> QED BY <1>1, <1>2, <2>2, <2>3, <2>4, <2>5 DEF TypeOK
<1>5. Shape'
  <2> SUFFICES ASSUME NEW u \in Thread, NEW i \in DOMAIN stack'[u]
               PROVE  IF i < Len(stack'[u]) THEN stack'[u][i].at \in {"waitSuper", "clinit"}
                                            ELSE stack'[u][i].at # "waitSuper"
    BY DEF Shape
  <2>1. u # t
    BY <1>3
  <2> QED BY <1>1, <1>3, <2>1 DEF Shape
<1>6. \A u \in Thread : \A i \in Nat : \A d \in Class :
        Holding(u, i, d)' <=> Holding(u, i, d) /\ u # t
  BY <1>3 DEF Holding
<1>7. \A u \in Thread : \A i \in Nat : \A d \in Class :
        InClinitAt(u, i, d)' <=> InClinitAt(u, i, d) /\ u # t
  BY <1>3 DEF InClinitAt
<1>8. Held'
  <2> SUFFICES ASSUME NEW u \in Thread, NEW d \in Class
               PROVE  /\ \A i \in Nat : Holding(u, i, d)' => initMu'[d] = u
                      /\ initMu'[d] = u => state'[d] = "initializing" /\ \E i \in Nat : Holding(u, i, d)'
                      /\ d \in initing'[u] <=> initMu'[d] = u
    BY DEF Held
  <2>1. CASE u = t
    BY <1>1, <1>2, <1>6, <2>1 DEF Held
  <2>2. CASE u # t
    BY <1>1, <1>2, <1>6, <2>2 DEF Held
  <2> QED BY <2>1, <2>2
<1>9. Distinct'
  BY <1>1, <1>6 DEF Distinct
<1>10. NoSelfWait'
  <2> SUFFICES ASSUME NEW u \in Thread, At(u, "lock")' PROVE initMu'[Current(u)'] # u
    BY DEF NoSelfWait
  <2>1. u # t
    BY <1>3 DEF At
  <2>2. At(u, "lock") /\ Current(u)' = Current(u)
    BY <1>3, <2>1 DEF At, Current
  <2>3. Current(u) \in Class
    BY <1>1, <2>2, Innermost
  <2> QED BY <1>1, <1>2, <2>2, <2>3 DEF NoSelfWait
<1>11. Outer'
  <2> SUFFICES ASSUME NEW u \in Thread, NEW i \in Nat, NEW d \in Class,
                      InClinitAt(u, i, d)', Super[d] # NoClass
               PROVE  \/ state'[Super[d]] = "initialized"
                      \/ \E j \in Nat : j <= i /\ Holding(u, j, Super[d])'
    BY DEF Outer
  <2>1. InClinitAt(u, i, d) /\ u # t /\ Super[d] \in Class
    BY <1>7
  <2> QED BY <1>1, <1>2, <1>6, <2>1 DEF Outer
<1>12. Once'
  <2> SUFFICES ASSUME NEW d \in Class
               PROVE  /\ starts[d] <= 1 + panics'[d]
                      /\ (state[d] \in {"defined", "initializing"} /\ ~InClinit(d)') => starts[d] <= panics'[d]
    BY <1>2 DEF Once
  <2>1. starts[d] \in Nat /\ panics[d] \in Nat /\ starts[d] <= 1 + panics[d]
    BY <1>1 DEF TypeOK, Once
  <2>2. CASE initMu[d] = t
    BY <1>2, <2>1, <2>2
  <2>3. CASE initMu[d] # t
    <3>1. \A i \in Nat : ~InClinitAt(t, i, d)
      BY <1>1, <2>3 DEF Held, Holding, InClinitAt
    <3>2. InClinit(d)' <=> InClinit(d)
      BY <1>7, <3>1 DEF InClinit
    <3> QED BY <1>1, <1>2, <2>3, <3>2 DEF Once
  <2> QED BY <2>2, <2>3
<1> QED BY <1>4, <1>5, <1>8, <1>9, <1>10, <1>11, <1>12 DEF IInv

LEMMA NextIInv == IInv /\ [Next]_vars => IInv'
<1> SUFFICES ASSUME IInv, [Next]_vars PROVE IInv'
  OBVIOUS
<1>1. ASSUME NEW t \in Thread, Acquire(t) PROVE IInv'
  BY <1>1, AcquireFoundStep, AcquireStep
<1>2. ASSUME NEW t \in Thread, SuperLeg(t) PROVE IInv'
  BY <1>2, ClinitStep, WaitSuperStep
<1>3. ASSUME NEW t \in Thread, SuperFailed(t) PROVE IInv'
  BY <1>3, LeaveStep DEF SuperFailed
<1>4. ASSUME NEW t \in Thread, ClinitReturns(t) PROVE IInv'
  BY <1>4, LeaveStep DEF ClinitReturns
<1>5. ASSUME NEW t \in Thread, ClinitThrows(t) PROVE IInv'
  BY <1>5, LeaveStep DEF ClinitThrows
<1>6. CASE UNCHANGED vars
  BY <1>6 DEF vars, IInv, TypeOK, Shape, Held, Distinct, NoSelfWait, At, Current, Outer,
              Once, InClinit, InClinitAt, Holding
<1> QED BY <1>1, <1>2, <1>3, <1>4, <1>5, <1>6, UseStep, PanicStep DEF Next

(* class.go: the invariant all the theorems below are read off.             *)
THEOREM InductiveInvariant == Spec => []IInv
BY InitIInv, NextIInv, PTL DEF Spec

(* The variables keep their types.                                          *)
THEOREM TypeCorrect == Spec => []TypeOK
BY InductiveInvariant, PTL DEF IInv

(* The classes a thread's frames have in progress, the initMu it holds and   *)
(* its InitTracker are the same classes (class.go, BeginInit and EndInit).   *)
THEOREM LockCorrect == Spec => []LockMatchesStack
<1>1. IInv => LockMatchesStack
  <2> SUFFICES ASSUME IInv, NEW t \in Thread
               PROVE  Holds(t) = {c \in Class : initMu[c] = t} /\ Holds(t) = initing[t]
    BY DEF LockMatchesStack
  <2>1. TypeOK /\ Held
    BY DEF IInv
  <2>2. stack[t] \in Seq(Frame) /\ initing[t] \in SUBSET Class
    BY <2>1 DEF TypeOK
  <2>3. Holds(t) \subseteq Class /\ \A c \in Class : c \in Holds(t) <=> \E i \in Nat : Holding(t, i, c)
    <3>1. DOMAIN stack[t] \subseteq Nat /\ \A i \in DOMAIN stack[t] : stack[t][i] \in Frame
      BY <2>2
    <3> QED BY <3>1 DEF Holds, Frames, Range, Holding, Frame
  <2>4. \A c \in Class : c \in Holds(t) <=> initMu[c] = t
    BY <2>1, <2>3 DEF Held
  <2>5. \A c \in Class : c \in Holds(t) <=> c \in initing[t]
    BY <2>1, <2>4 DEF Held
  <2> QED BY <2>2, <2>3, <2>4, <2>5
<1> QED BY <1>1, InductiveInvariant, PTL

(* No thread blocks on a class mutex it holds: the tracker stops it first.  *)
THEOREM NoSelfDeadlock == Spec => []NoSelfWait
BY InductiveInvariant, PTL DEF IInv

(* <clinit> runs only with the superclass initialized, or in progress        *)
(* further out on the same thread.                                          *)
THEOREM SuperclassFirst == Spec => []SuperFirst
<1>1. IInv => SuperFirst
  <2> SUFFICES ASSUME IInv, NEW t \in Thread, NEW f \in Frames(t),
                      f.at = "clinit", Super[f.cls] # NoClass
               PROVE  state[Super[f.cls]] = "initialized" \/ initMu[Super[f.cls]] = t
    BY DEF SuperFirst
  <2>1. TypeOK /\ Outer /\ Held
    BY DEF IInv
  <2>2. PICK i \in DOMAIN stack[t] : f = stack[t][i]
    BY DEF Frames, Range
  <2>3. i \in Nat /\ f \in Frame
    <3>1. stack[t] \in Seq(Frame)
      BY <2>1 DEF TypeOK
    <3> QED BY <2>2, <3>1
  <2>4. f.cls \in Class /\ Super[f.cls] \in Class
    BY <2>3 DEF Frame
  <2>5. InClinitAt(t, i, f.cls)
    BY <2>2 DEF InClinitAt
  <2> QED BY <2>1, <2>3, <2>4, <2>5 DEF Outer, Held
<1> QED BY <1>1, InductiveInvariant, PTL

(* However many threads race to a class, its <clinit> starts once, and once  *)
(* more for each start a panic cut short.                                    *)
THEOREM ClinitAtMostOnce == Spec => []ClinitOnce
<1>1. IInv => ClinitOnce
  BY DEF IInv, Once, ClinitOnce
<1> QED BY <1>1, InductiveInvariant, PTL

(* Only the initializer of a class writes its state, and only while the      *)
(* class is in progress.                                                     *)
THEOREM FinalStates == Spec => Final
<1>1. ASSUME IInv, [Next]_vars, NEW c \in Class, state[c] \in {"initialized", "erroneous"}
      PROVE  state'[c] = state[c]
  <2>1. TypeOK /\ Held
    BY <1>1 DEF IInv
  <2>2. ASSUME NEW t \in Thread, NEW r, At(t, "failed") \/ At(t, "clinit"), Leave(t, r)
        PROVE  state'[c] = state[c]
    <3>1. PICK p \in {"failed", "clinit"} : At(t, p)
      BY <2>2
    <3>2. /\ Len(stack[t]) \in Nat /\ Current(t) \in Class
          /\ Holding(t, Len(stack[t]), Current(t))
      BY <2>1, <3>1, Innermost DEF Holding
    <3>3. state[Current(t)] = "initializing"
      BY <2>1, <3>2 DEF Held
    <3> QED BY <1>1, <2>1, <2>2, <3>3 DEF Leave, TypeOK
  <2>3. ASSUME NEW t \in Thread, Acquire(t) PROVE state'[c] = state[c]
    BY <1>1, <2>1, <2>3 DEF Acquire, TypeOK
  <2>4. ASSUME NEW t \in Thread, SuperFailed(t) \/ ClinitReturns(t) \/ ClinitThrows(t)
        PROVE  state'[c] = state[c]
    BY <2>2, <2>4 DEF SuperFailed, ClinitReturns, ClinitThrows
  <2>5. ASSUME NEW t \in Thread,
               (\E d \in Class : Use(t, d)) \/ SuperLeg(t) \/ ClinitPanics(t)
        PROVE  state'[c] = state[c]
    BY <2>5 DEF Use, SuperLeg, ClinitPanics
  <2>6. CASE UNCHANGED vars
    BY <2>6 DEF vars
  <2> QED BY <1>1, <2>3, <2>4, <2>5, <2>6 DEF Next
<1>2. IInv /\ [Next]_vars => [\A c \in Class :
              state[c] \in {"initialized", "erroneous"} => state'[c] = state[c]]_vars
  BY <1>1
<1> QED BY <1>2, InductiveInvariant, PTL DEF Spec, Final

====
