---- MODULE ClassLoadingProofs ----
(***************************************************************************)
(* Theorems about ClassLoading, for every set of threads and every set of  *)
(* class files.                                                            *)
(***************************************************************************)
EXTENDS ClassLoading, SequenceTheorems, FiniteSetTheorems, WellFoundedInduction, TLAPS

(***************************************************************************)
(* Stacks of nested loads.                                                 *)
(***************************************************************************)

(* What Append, Front and Last do, position by position.                   *)
LEMMA AppendFacts ==
  ASSUME NEW S, NEW s \in Seq(S), NEW x \in S
  PROVE  /\ Append(s, x) \in Seq(S) /\ Append(s, x) # <<>>
         /\ Len(Append(s, x)) = Len(s) + 1
         /\ DOMAIN Append(s, x) = 1..(Len(s) + 1)
         /\ \A i \in 1..Len(s) : Append(s, x)[i] = s[i]
         /\ Append(s, x)[Len(s) + 1] = x
OBVIOUS

LEMMA FrontFacts ==
  ASSUME NEW S, NEW s \in Seq(S), s # <<>>
  PROVE  /\ Len(s) \in Nat \ {0} /\ DOMAIN s = 1..Len(s)
         /\ Front(s) \in Seq(S) /\ Len(Front(s)) = Len(s) - 1
         /\ DOMAIN Front(s) = 1..(Len(s) - 1)
         /\ \A i \in 1..(Len(s) - 1) : Front(s)[i] = s[i]
         /\ Last(s) = s[Len(s)] /\ Last(s) \in S
<1>1. Len(s) \in Nat \ {0} /\ DOMAIN s = 1..Len(s) /\ s[Len(s)] \in S
  BY EmptySeq, LenProperties, ElementOfSeq
<1>2. \A i \in 1..(Len(s) - 1) : s[i] \in S
  BY <1>1, ElementOfSeq
<1>3. 1 \in Int /\ Len(s) - 1 \in Int
  BY <1>1
<1>4. /\ SubSeq(s, 1, Len(s) - 1) \in Seq(S)
      /\ Len(SubSeq(s, 1, Len(s) - 1)) = IF 1 <= Len(s) - 1 THEN Len(s) - 1 - 1 + 1 ELSE 0
      /\ \A i \in 1..(Len(s) - 1 - 1 + 1) : SubSeq(s, 1, Len(s) - 1)[i] = s[1 + i - 1]
  BY <1>2, <1>3, SubSeqProperties
<1>5. Front(s) = SubSeq(s, 1, Len(s) - 1) /\ Last(s) = s[Len(s)]
  BY DEF Front, Last
<1>6. Front(s) \in Seq(S) /\ Len(Front(s)) = Len(s) - 1
  BY <1>1, <1>4, <1>5
<1>7. DOMAIN Front(s) = 1..(Len(s) - 1)
  BY <1>6, LenProperties
<1>8. \A i \in 1..(Len(s) - 1) : Front(s)[i] = s[i]
  BY <1>1, <1>4, <1>5
<1> QED BY <1>1, <1>5, <1>6, <1>7, <1>8

(* What a change of the innermost frame leaves as it was.                   *)
TopChanged(s, r) == /\ r \in Seq(Frame) /\ Len(r) = Len(s)
                    /\ \A i \in 1..(Len(s) - 1) : r[i] = s[i]
                    /\ r[Len(s)].cls = s[Len(s)].cls

LEMMA FrameChanged ==
  ASSUME NEW s \in Seq(Frame), s # <<>>, NEW f \in Frame, f.cls = s[Len(s)].cls
  PROVE  /\ TopChanged(s, [s EXCEPT ![Len(s)] = f])
         /\ [s EXCEPT ![Len(s)] = f][Len(s)] = f
<1>1. Len(s) \in Nat \ {0}
  BY FrontFacts
<1>2. PICK n \in 1..Len(s) : n = Len(s)
  BY <1>1
<1>3. /\ [s EXCEPT ![n] = f] \in Seq(Frame) /\ Len([s EXCEPT ![n] = f]) = Len(s)
      /\ \A i \in 1..Len(s) : [s EXCEPT ![n] = f][i] = IF i = n THEN f ELSE s[i]
  BY ExceptSeq
<1> QED BY <1>1, <1>2, <1>3 DEF TopChanged

LEMMA MoveFacts ==
  ASSUME NEW s \in Seq(Frame), s # <<>>, NEW p \in Positions
  PROVE  /\ TopChanged(s, MoveTo(s, p))
         /\ MoveTo(s, p)[Len(s)].at = p /\ MoveTo(s, p)[Len(s)].done = s[Len(s)].done
<1>1. s[Len(s)] \in Frame
  BY FrontFacts
<1>2. PICK f : f = [s[Len(s)] EXCEPT !.at = p]
  OBVIOUS
<1>3. /\ f \in Frame /\ f.cls = s[Len(s)].cls /\ f.at = p /\ f.done = s[Len(s)].done
  BY <1>1, <1>2 DEF Frame
<1>4. MoveTo(s, p) = [s EXCEPT ![Len(s)] = f]
  BY <1>2 DEF MoveTo
<1> QED BY <1>3, <1>4, FrameChanged

WithDone(s, k) == [s EXCEPT ![Len(s)].done = k]
LEMMA DoneFacts ==
  ASSUME NEW s \in Seq(Frame), s # <<>>, NEW k \in Nat
  PROVE  /\ TopChanged(s, WithDone(s, k))
         /\ WithDone(s, k)[Len(s)].at = s[Len(s)].at /\ WithDone(s, k)[Len(s)].done = k
<1>1. s[Len(s)] \in Frame
  BY FrontFacts
<1>2. PICK f : f = [s[Len(s)] EXCEPT !.done = k]
  OBVIOUS
<1>3. /\ f \in Frame /\ f.cls = s[Len(s)].cls /\ f.at = s[Len(s)].at /\ f.done = k
  BY <1>1, <1>2 DEF Frame
<1>4. WithDone(s, k) = [s EXCEPT ![Len(s)] = f]
  BY <1>2 DEF WithDone
<1> QED BY <1>3, <1>4, FrameChanged

(* What Return leaves of the caller's stack.                                *)
After(s, ok) == IF Front(s) = <<>> \/ ok THEN Front(s) ELSE MoveTo(Front(s), "failed")
Popped(s, r) == /\ r \in Seq(Frame) /\ Len(r) = Len(s) - 1
                /\ \A i \in 1..(Len(s) - 1) : r[i].cls = s[i].cls /\ r[i].done = s[i].done
                /\ \A i \in 1..(Len(s) - 2) : r[i].at = s[i].at

LEMMA AfterFacts ==
  ASSUME NEW s \in Seq(Frame), s # <<>>, NEW ok \in BOOLEAN
  PROVE  /\ Popped(s, After(s, ok))
         /\ After(s, ok) = <<>> <=> Len(s) = 1
         /\ Front(s) = <<>> <=> Len(s) = 1
         /\ Len(s) > 1 => After(s, ok)[Len(s) - 1].at = IF ok THEN s[Len(s) - 1].at ELSE "failed"
<1>1. /\ Len(s) \in Nat \ {0} /\ Front(s) \in Seq(Frame) /\ Len(Front(s)) = Len(s) - 1
      /\ \A i \in 1..(Len(s) - 1) : Front(s)[i] = s[i]
  BY FrontFacts
<1>2. Front(s) = <<>> <=> Len(s) = 1
  BY <1>1, EmptySeq
<1>3. CASE Front(s) = <<>> \/ ok
  <2>1. PICK r \in Seq(Frame) : r = Front(s) /\ r = After(s, ok)
    BY <1>1, <1>3 DEF After
  <2>2. PICK n \in Nat \ {0} : n = Len(s)
    BY <1>1
  <2>3. Len(r) = n - 1 /\ \A i \in 1..(n - 1) : r[i] = s[i]
    BY <1>1, <2>1, <2>2
  <2>4. Popped(s, r)
    BY <2>2, <2>3 DEF Popped
  <2>5. n > 1 => r[n - 1].at = IF ok THEN s[n - 1].at ELSE "failed"
    <3>1. n > 1 => ok /\ n - 1 \in 1..(n - 1)
      BY <1>2, <1>3, <2>2
    <3> QED BY <2>3, <3>1
  <2> QED BY <1>2, <2>1, <2>2, <2>4, <2>5
<1>4. CASE ~ (Front(s) = <<>> \/ ok)
  <2>1. PICK f \in Seq(Frame) : f = Front(s) /\ f # <<>>
    BY <1>1, <1>4
  <2>1a. PICK r : r = MoveTo(f, "failed")
    OBVIOUS
  <2>2. TopChanged(f, r) /\ r[Len(f)].at = "failed" /\ r[Len(f)].done = f[Len(f)].done
    BY <2>1, <2>1a, MoveFacts DEF Positions
  <2>3. After(s, ok) = r
    BY <1>4, <2>1, <2>1a DEF After
  <2>4. Len(f) = Len(s) - 1 /\ \A i \in 1..(Len(s) - 1) : f[i] = s[i]
    BY <1>1, <2>1
  <2>5. PICK n \in Nat : n = Len(f) /\ n + 1 = Len(s) /\ n > 0
    BY <1>1, <1>2, <1>4, <2>4
  <2>6. /\ r \in Seq(Frame) /\ Len(r) = n
        /\ \A i \in 1..(n - 1) : r[i] = s[i]
        /\ r[n].cls = s[n].cls /\ r[n].done = s[n].done /\ r[n].at = "failed"
    <3>1. /\ r \in Seq(Frame) /\ Len(r) = n /\ \A i \in 1..(n - 1) : r[i] = f[i]
          /\ r[n].cls = f[n].cls /\ r[n].done = f[n].done /\ r[n].at = "failed"
      BY <2>2, <2>5 DEF TopChanged
    <3>2. \A i \in 1..n : f[i] = s[i]
      BY <2>4, <2>5
    <3>3. n \in 1..n /\ \A i \in 1..(n - 1) : i \in 1..n
      BY <2>5
    <3> QED BY <3>1, <3>2, <3>3
  <2>7. /\ \A i \in 1..n : r[i].cls = s[i].cls /\ r[i].done = s[i].done
        /\ \A i \in 1..(n - 1) : r[i].at = s[i].at
    BY <2>6
  <2>8. r # <<>>
    BY <2>5, <2>6, EmptySeq
  <2> QED BY <1>2, <1>4, <2>3, <2>5, <2>6, <2>7, <2>8 DEF Popped
<1> QED BY <1>3, <1>4

(***************************************************************************)
(* Who loads, and what is half loaded: the holder of the mutex loads the    *)
(* classes of its stack, each once; they are the marks of l.cycle, and the  *)
(* placeholders are those whose file was read.                              *)
(***************************************************************************)
Types ==
  /\ lmu \in Thread \cup {NoThread} /\ cycle \subseteq Class
  /\ status \in [Class -> {"absent", "placed", "linked"}]
  /\ super \in [Class -> Class \cup {NoClass}] /\ ifaces \in [Class -> SUBSET Class]
  /\ stack \in [Thread -> Seq(Frame)]
  /\ got \in [Thread -> [cls : Class \cup {NoClass}, ok : BOOLEAN]]

Queues(h, st) == \A t \in Thread : h # t =>
  st[t] = <<>> \/ (Len(st[t]) = 1 /\ st[t][1].at = "lock")

HeldBy(s, marks, reg) ==
  /\ s \in Seq(Frame) /\ s # <<>>
  /\ \A i \in 1..(Len(s) - 1) : s[i].at = "deps"
  /\ s[Len(s)].at \in {"read", "deps", "failed"}
  /\ \A i, j \in 1..Len(s) : i # j => s[i].cls # s[j].cls
  /\ \A c \in Class : c \in marks <=> \E i \in 1..Len(s) : s[i].cls = c
  /\ \A c \in Class : reg[c] = "placed" <=>
                        \E i \in 1..Len(s) : s[i].cls = c /\ s[i].at # "read"
  /\ s[Len(s)].at = "read" => reg[s[Len(s)].cls] = "absent"

AtRest(marks, reg) == marks = {} /\ \A c \in Class : reg[c] # "placed"

GInv == /\ Types /\ Queues(lmu, stack)
        /\ lmu = NoThread => AtRest(cycle, status)
        /\ lmu # NoThread => HeldBy(stack[lmu], cycle, status)

(* Registering, linking a dependency, failing: the innermost class is a     *)
(* placeholder, nothing else changes.                                       *)
LEMMA HeldWhenMoved ==
  ASSUME NEW s, NEW r, NEW marks, NEW reg, NEW reg2,
         HeldBy(s, marks, reg), TopChanged(s, r), r[Len(s)].at \in {"deps", "failed"},
         reg2[s[Len(s)].cls] = "placed",
         \A c \in Class \ {s[Len(s)].cls} : reg2[c] = reg[c]
  PROVE  HeldBy(r, marks, reg2)
<1>1. s \in Seq(Frame) /\ s # <<>>
  BY DEF HeldBy
<1>2. PICK n \in Nat \ {0} : n = Len(s)
  BY <1>1, FrontFacts
<1>3. /\ r \in Seq(Frame) /\ Len(r) = n /\ \A i \in 1..(n - 1) : r[i] = s[i]
      /\ r[n].cls = s[n].cls /\ r[n].at \in {"deps", "failed"}
  BY <1>2 DEF TopChanged
<1>4. \A i \in 1..n : i \in 1..(n - 1) \/ i = n
  OBVIOUS
<1>5. \A i \in 1..n : r[i].cls = s[i].cls /\ r[i].at \in {"deps", "failed"}
  BY <1>2, <1>3, <1>4 DEF HeldBy
<1>6. /\ \A c \in Class : c \in marks <=> \E i \in 1..n : s[i].cls = c
      /\ \A c \in Class : reg[c] = "placed" <=> \E i \in 1..n : s[i].cls = c /\ s[i].at # "read"
      /\ \A i, j \in 1..n : i # j => s[i].cls # s[j].cls
      /\ \A i \in 1..(n - 1) : s[i].at = "deps"
  BY <1>2 DEF HeldBy
<1>7. ASSUME NEW c \in Class
      PROVE  reg2[c] = "placed" <=> \E i \in 1..n : r[i].cls = c /\ r[i].at # "read"
  <2>1. CASE c = s[n].cls
    BY <1>2, <1>5, <2>1
  <2>2. CASE c # s[n].cls
    <3>1. reg2[c] = reg[c]
      BY <1>2, <2>2
    <3>2. \A i \in 1..n : r[i].cls = c => i \in 1..(n - 1)
      BY <1>4, <1>5, <2>2
    <3> QED BY <1>3, <1>4, <1>5, <1>6, <2>2, <3>1, <3>2
  <2> QED BY <2>1, <2>2
<1>8. r # <<>>
  BY <1>3, EmptySeq
<1>9. /\ \A i \in 1..(n - 1) : r[i].at = "deps"
      /\ \A i, j \in 1..n : i # j => r[i].cls # r[j].cls
      /\ \A c \in Class : c \in marks <=> \E i \in 1..n : r[i].cls = c
  BY <1>3, <1>5, <1>6
<1> QED BY <1>3, <1>7, <1>8, <1>9 DEF HeldBy

(* A dependency is loaded: one more class, not yet in the registry.         *)
LEMMA HeldWhenCalled ==
  ASSUME NEW s, NEW marks, NEW reg, HeldBy(s, marks, reg), s[Len(s)].at = "deps",
         NEW d \in Class, reg[d] = "absent"
  PROVE  HeldBy(Call(s, d), marks \cup {d}, reg)
<1>1. s \in Seq(Frame) /\ s # <<>>
  BY DEF HeldBy
<1>2. PICK n \in Nat \ {0} : n = Len(s)
  BY <1>1, FrontFacts
<1>3. PICK r, f : f = [cls |-> d, at |-> "read", done |-> 0] /\ r = Append(s, f)
  OBVIOUS
<1>4. f \in Frame /\ f.cls = d /\ f.at = "read"
  BY <1>3 DEF Frame, Positions
<1>5. /\ r \in Seq(Frame) /\ r # <<>> /\ Len(r) = n + 1 /\ \A i \in 1..n : r[i] = s[i]
      /\ r[n + 1] = f
  BY <1>1, <1>2, <1>3, <1>4, AppendFacts
<1>6. /\ \A c \in Class : c \in marks <=> \E i \in 1..n : s[i].cls = c
      /\ \A c \in Class : reg[c] = "placed" <=> \E i \in 1..n : s[i].cls = c /\ s[i].at # "read"
      /\ \A i, j \in 1..n : i # j => s[i].cls # s[j].cls
      /\ \A i \in 1..(n - 1) : s[i].at = "deps"
      /\ s[n].at = "deps"
  BY <1>2 DEF HeldBy
<1>7. \A i \in 1..n : s[i].at = "deps" /\ s[i].cls # d
  BY <1>6
<1>8. /\ \A i \in 1..(n + 1) : i \in 1..n \/ i = n + 1
      /\ \A i \in 1..n : i \in 1..(n + 1) /\ i # n + 1
      /\ n + 1 \in 1..(n + 1) /\ n + 1 - 1 = n
  OBVIOUS
<1>9. /\ \A i \in 1..n : r[i].at = "deps"
      /\ \A i, j \in 1..(n + 1) : i # j => r[i].cls # r[j].cls
      /\ \A c \in Class : c \in marks \cup {d} <=> \E i \in 1..(n + 1) : r[i].cls = c
      /\ \A c \in Class : reg[c] = "placed" <=>
                            \E i \in 1..(n + 1) : r[i].cls = c /\ r[i].at # "read"
  <2>1. /\ \A i \in 1..n : r[i].at = "deps" /\ r[i].cls = s[i].cls
        /\ r[n + 1].cls = d /\ r[n + 1].at = "read"
    BY <1>4, <1>5, <1>7
  <2>2. \A i, j \in 1..(n + 1) : i # j => r[i].cls # r[j].cls
    BY <1>6, <1>7, <1>8, <2>1
  <2>3. \A c \in Class : c \in marks \cup {d} <=> \E i \in 1..(n + 1) : r[i].cls = c
    <3>1. ASSUME NEW c \in Class
          PROVE  (\E i \in 1..(n + 1) : r[i].cls = c) <=>
                   (\E i \in 1..n : s[i].cls = c) \/ c = d
      BY <1>8, <2>1
    <3>2. \A c \in Class : c \in marks <=> \E i \in 1..n : s[i].cls = c
      BY <1>6
    <3> QED BY <3>1, <3>2
  <2>4. \A c \in Class : reg[c] = "placed" <=>
                          \E i \in 1..(n + 1) : r[i].cls = c /\ r[i].at # "read"
    <3>1. \A c \in Class : reg[c] = "placed" <=> \E i \in 1..n : r[i].cls = c
      BY <1>6, <1>7, <2>1
    <3>2. ASSUME NEW c \in Class
          PROVE  (\E i \in 1..n : r[i].cls = c) <=>
                   \E i \in 1..(n + 1) : r[i].cls = c /\ r[i].at # "read"
      BY <1>8, <2>1
    <3> QED BY <3>1, <3>2
  <2> QED BY <2>1, <2>2, <2>3, <2>4
<1>10. HeldBy(r, marks \cup {d}, reg)
  BY <1>4, <1>5, <1>8, <1>9 DEF HeldBy
<1> QED BY <1>3, <1>10 DEF Call

(* A load returns: its class is no placeholder any more.                    *)
LEMMA HeldWhenPopped ==
  ASSUME NEW s, NEW marks, NEW reg, NEW reg2, NEW ok \in BOOLEAN,
         HeldBy(s, marks, reg), marks \subseteq Class,
         reg2[s[Len(s)].cls] # "placed",
         \A c \in Class \ {s[Len(s)].cls} : reg2[c] = reg[c]
  PROVE  /\ After(s, ok) # <<>> => HeldBy(After(s, ok), marks \ {s[Len(s)].cls}, reg2)
         /\ After(s, ok) = <<>> => AtRest(marks \ {s[Len(s)].cls}, reg2)
<1>1. s \in Seq(Frame) /\ s # <<>>
  BY DEF HeldBy
<1>2. PICK n \in Nat \ {0} : n = Len(s)
  BY <1>1, FrontFacts
<1>3. PICK r : r = After(s, ok)
  OBVIOUS
<1>4. /\ Popped(s, r) /\ (r = <<>> <=> n = 1)
      /\ n > 1 => r[n - 1].at = IF ok THEN s[n - 1].at ELSE "failed"
  BY <1>1, <1>2, <1>3, AfterFacts
<1>5. PICK d \in Class : d = s[n].cls
  <2>1. s[Len(s)] \in Frame
    BY <1>1, FrontFacts
  <2> QED BY <1>2, <2>1 DEF Frame
<1>6. /\ \A c \in Class : c \in marks <=> \E i \in 1..n : s[i].cls = c
      /\ \A c \in Class : reg[c] = "placed" <=> \E i \in 1..n : s[i].cls = c /\ s[i].at # "read"
      /\ \A i, j \in 1..n : i # j => s[i].cls # s[j].cls
      /\ \A i \in 1..(n - 1) : s[i].at = "deps"
      /\ reg2[d] # "placed" /\ \A c \in Class \ {d} : reg2[c] = reg[c]
  BY <1>2, <1>5 DEF HeldBy
<1>7. /\ \A i \in 1..n : i \in 1..(n - 1) \/ i = n
      /\ \A i \in 1..(n - 1) : i \in 1..n /\ i # n
  OBVIOUS
<1>8. \A i \in 1..(n - 1) : s[i].cls # d
  BY <1>5, <1>6, <1>7
<1>9. /\ \A c \in Class : c \in marks \ {d} <=> \E i \in 1..(n - 1) : s[i].cls = c
      /\ \A c \in Class : reg2[c] = "placed" <=> \E i \in 1..(n - 1) : s[i].cls = c
  BY <1>5, <1>6, <1>7, <1>8
<1>10. CASE n = 1
  <2>1. AtRest(marks \ {d}, reg2)
    BY <1>9, <1>10 DEF AtRest
  <2> QED BY <1>2, <1>3, <1>4, <1>5, <1>10, <2>1
<1>11. CASE n > 1
  <2>1. PICK k \in Nat \ {0} : k = n - 1
    BY <1>11
  <2>2. /\ r \in Seq(Frame) /\ Len(r) = k /\ r # <<>>
        /\ \A i \in 1..k : r[i].cls = s[i].cls
        /\ \A i \in 1..(k - 1) : r[i].at = s[i].at
        /\ r[k].at \in {"deps", "failed"}
    BY <1>2, <1>4, <1>6, <1>11, <2>1 DEF Popped
  <2>3. \A i \in 1..k : r[i].at \in {"deps", "failed"}
    BY <1>6, <2>1, <2>2
  <2>4. /\ \A i \in 1..(k - 1) : r[i].at = "deps"
        /\ \A i, j \in 1..k : i # j => r[i].cls # r[j].cls
        /\ \A c \in Class : c \in marks \ {d} <=> \E i \in 1..k : r[i].cls = c
        /\ \A c \in Class : reg2[c] = "placed" <=> \E i \in 1..k : r[i].cls = c /\ r[i].at # "read"
    <3>1. \A i \in 1..(k - 1) : r[i].at = "deps"
      BY <1>6, <2>1, <2>2
    <3>2. \A i, j \in 1..k : i # j => r[i].cls # r[j].cls
      BY <1>6, <1>7, <2>1, <2>2
    <3>3. \A c \in Class : c \in marks \ {d} <=> \E i \in 1..k : r[i].cls = c
      BY <1>9, <2>1, <2>2
    <3>4. \A c \in Class : reg2[c] = "placed" <=> \E i \in 1..k : r[i].cls = c
      BY <1>9, <2>1, <2>2
    <3>5. ASSUME NEW c \in Class
          PROVE  (\E i \in 1..k : r[i].cls = c) <=> \E i \in 1..k : r[i].cls = c /\ r[i].at # "read"
      BY <2>3
    <3> QED BY <3>1, <3>2, <3>3, <3>4, <3>5
  <2>5. HeldBy(r, marks \ {d}, reg2)
    BY <2>2, <2>4 DEF HeldBy
  <2> QED BY <1>2, <1>3, <1>5, <2>2, <2>5
<1> QED BY <1>10, <1>11

(* The thread that takes a step of loadLocked holds the mutex.              *)
LEMMA Loader ==
  ASSUME GInv, NEW t \in Thread, NEW p \in {"read", "deps", "failed"}, At(t, p)
  PROVE  /\ lmu = t /\ HeldBy(stack[t], cycle, status) /\ stack[t] \in Seq(Frame)
         /\ stack[t] # <<>> /\ stack[t][Len(stack[t])].at = p
         /\ stack[t][Len(stack[t])] \in Frame /\ Last(stack[t]) = stack[t][Len(stack[t])]
         /\ Current(t) = stack[t][Len(stack[t])].cls /\ Current(t) \in Class
         /\ p # "read" => status[Current(t)] = "placed"
         /\ p = "read" => status[Current(t)] = "absent"
<1>1. stack[t] \in Seq(Frame) /\ stack[t] # <<>> /\ Last(stack[t]).at = p
  BY DEF GInv, Types, At
<1>2. /\ Last(stack[t]) = stack[t][Len(stack[t])] /\ stack[t][Len(stack[t])] \in Frame
      /\ Len(stack[t]) \in Nat \ {0}
  BY <1>1, FrontFacts
<1>3. lmu = t
  BY <1>1, <1>2 DEF GInv, Queues
<1>4. HeldBy(stack[t], cycle, status)
  BY <1>3, ThreadAssumption DEF GInv
<1>5. Current(t) = stack[t][Len(stack[t])].cls /\ Current(t) \in Class
  BY <1>2 DEF Current, Frame
<1>6. p # "read" => status[Current(t)] = "placed"
  <2>1. Len(stack[t]) \in 1..Len(stack[t])
    BY <1>2
  <2> QED BY <1>1, <1>2, <1>4, <1>5, <2>1 DEF HeldBy
<1>7. p = "read" => status[Current(t)] = "absent"
  BY <1>1, <1>2, <1>4, <1>5 DEF HeldBy
<1> QED BY <1>1, <1>2, <1>3, <1>4, <1>5, <1>6, <1>7

LEMMA ReturnGInv ==
  ASSUME GInv, NEW t \in Thread, NEW p \in {"read", "deps", "failed"}, At(t, p),
         NEW ok \in BOOLEAN, Return(t, ok),
         status' \in [Class -> {"absent", "placed", "linked"}],
         status'[Current(t)] # "placed",
         \A c \in Class \ {Current(t)} : status'[c] = status[c],
         UNCHANGED <<super, ifaces>>
  PROVE  GInv'
<1>1. /\ lmu = t /\ HeldBy(stack[t], cycle, status) /\ stack[t] \in Seq(Frame)
      /\ stack[t] # <<>> /\ Current(t) = stack[t][Len(stack[t])].cls /\ Current(t) \in Class
  BY Loader
<1>2. /\ stack \in [Thread -> Seq(Frame)] /\ cycle \subseteq Class
      /\ got \in [Thread -> [cls : Class \cup {NoClass}, ok : BOOLEAN]]
      /\ super \in [Class -> Class \cup {NoClass}] /\ ifaces \in [Class -> SUBSET Class]
  BY DEF GInv, Types
<1>3. PICK r : r = After(stack[t], ok)
  OBVIOUS
<1>4. r \in Seq(Frame) /\ (r = <<>> <=> Front(stack[t]) = <<>>)
  BY <1>1, <1>3, AfterFacts DEF Popped
<1>5. /\ r # <<>> => HeldBy(r, cycle \ {Current(t)}, status')
      /\ r = <<>> => AtRest(cycle \ {Current(t)}, status')
  <2>1. cycle \subseteq Class /\ status'[stack[t][Len(stack[t])].cls] # "placed"
        /\ \A c \in Class \ {stack[t][Len(stack[t])].cls} : status'[c] = status[c]
    BY <1>1, <1>2
  <2> QED BY <1>1, <1>3, <2>1, HeldWhenPopped
<1>6. /\ cycle' = cycle \ {Current(t)} /\ stack' = [stack EXCEPT ![t] = r]
      /\ r = <<>> => lmu' = NoThread
                    /\ got' = [got EXCEPT ![t] = [cls |-> Current(t), ok |-> ok]]
      /\ r # <<>> => lmu' = lmu /\ got' = got
  BY <1>3, <1>4 DEF Return, After
<1>7. /\ stack' \in [Thread -> Seq(Frame)] /\ stack'[t] = r
      /\ \A u \in Thread \ {t} : stack'[u] = stack[u]
  BY <1>2, <1>4, <1>6
<1>8. got' \in [Thread -> [cls : Class \cup {NoClass}, ok : BOOLEAN]]
  <2>1. [cls |-> Current(t), ok |-> ok] \in [cls : Class \cup {NoClass}, ok : BOOLEAN]
    BY <1>1
  <2> QED BY <1>2, <1>6, <2>1
<1>9. Types'
  <2>1. lmu' \in Thread \cup {NoThread} /\ cycle' \subseteq Class
    BY <1>1, <1>2, <1>6
  <2>2. super' \in [Class -> Class \cup {NoClass}] /\ ifaces' \in [Class -> SUBSET Class]
    BY <1>2
  <2> QED BY <1>7, <1>8, <2>1, <2>2 DEF Types
<1>10. Queues(lmu', stack')
  <2>1. \A u \in Thread \ {t} : stack[u] = <<>> \/ (Len(stack[u]) = 1 /\ stack[u][1].at = "lock")
    BY <1>1 DEF GInv, Queues
  <2> QED BY <1>1, <1>6, <1>7, <2>1 DEF Queues
<1>11. /\ lmu' = NoThread => AtRest(cycle', status')
       /\ lmu' # NoThread => HeldBy(stack'[lmu'], cycle', status')
  BY <1>1, <1>5, <1>6, <1>7, ThreadAssumption
<1> QED BY <1>9, <1>10, <1>11 DEF GInv, Queues, AtRest, HeldBy

(* The steps inside loadLocked: the stack of the holder changes.            *)
LEMMA InsideGInv ==
  ASSUME GInv, NEW t \in Thread, lmu = t, NEW r \in Seq(Frame),
         HeldBy(r, cycle', status'),
         stack' = [stack EXCEPT ![t] = r], cycle' \subseteq Class,
         status' \in [Class -> {"absent", "placed", "linked"}],
         super' \in [Class -> Class \cup {NoClass}], ifaces' \in [Class -> SUBSET Class],
         UNCHANGED <<lmu, got>>
  PROVE  GInv'
<1>1. /\ stack \in [Thread -> Seq(Frame)]
      /\ got \in [Thread -> [cls : Class \cup {NoClass}, ok : BOOLEAN]]
  BY DEF GInv, Types
<1>2. /\ stack' \in [Thread -> Seq(Frame)] /\ stack'[t] = r
      /\ \A u \in Thread \ {t} : stack'[u] = stack[u]
  BY <1>1
<1>3. lmu' = t
  OBVIOUS
<1>4. Types'
  BY <1>1, <1>2, <1>3 DEF Types
<1>5. Queues(lmu', stack')
  BY <1>2, <1>3 DEF GInv, Queues
<1>6. /\ lmu' = NoThread => AtRest(cycle', status')
      /\ lmu' # NoThread => HeldBy(stack'[lmu'], cycle', status')
  BY <1>2, <1>3, ThreadAssumption
<1> QED BY <1>4, <1>5, <1>6 DEF GInv, Queues, AtRest, HeldBy

(* The superclass first, then the interfaces.                               *)
LEMMA DepsFacts ==
  ASSUME NEW c \in Class
  PROVE  /\ Ifaces[c] \in Seq(Class) /\ Deps(c) \in Seq(Class) /\ Len(Deps(c)) \in Nat
         /\ Super[c] = NoClass => Deps(c) = Ifaces[c]
         /\ Super[c] # NoClass =>
              /\ Len(Deps(c)) = Len(Ifaces[c]) + 1 /\ Deps(c)[1] = Super[c]
              /\ \A i \in 1..Len(Ifaces[c]) : Deps(c)[i + 1] = Ifaces[c][i]
         /\ \A i \in 1..Len(Deps(c)) : Deps(c)[i] \in Class /\ Deps(c)[i] \in Range(Deps(c))
<1>1. Ifaces[c] \in Seq(Class) /\ Super[c] \in Class \cup {NoClass}
  BY GraphAssumption
<1>2. CASE Super[c] = NoClass
  <2>1. Deps(c) = Ifaces[c]
    BY <1>1, <1>2 DEF Deps
  <2> QED BY <1>1, <1>2, <2>1, LenProperties, ElementOfSeq DEF Range
<1>3. CASE Super[c] # NoClass
  <2>1. PICK d \in Class, s \in Seq(Class) : d = Super[c] /\ s = Ifaces[c]
    BY <1>1, <1>3
  <2>2. <<d>> \in Seq(Class) /\ Len(<<d>>) = 1 /\ <<d>>[1] = d
    OBVIOUS
  <2>3. Deps(c) = <<d>> \o s
    BY <1>3, <2>1 DEF Deps
  <2>4. /\ <<d>> \o s \in Seq(Class) /\ Len(<<d>> \o s) = 1 + Len(s)
        /\ (<<d>> \o s)[1] = d
        /\ \A i \in 1..Len(s) : (<<d>> \o s)[i + 1] = s[i]
    BY <2>2, ConcatProperties, LenProperties
  <2>5. PICK q \in Seq(Class) : q = Deps(c)
    BY <2>3, <2>4
  <2>6. /\ Len(q) \in Nat /\ \A i \in 1..Len(q) : q[i] \in Class /\ q[i] \in Range(q)
    BY LenProperties, ElementOfSeq DEF Range
  <2> QED BY <1>1, <1>3, <2>1, <2>3, <2>4, <2>5, <2>6, LenProperties
<1> QED BY <1>2, <1>3

(* Every action keeps the account.                                          *)
LEMMA ResolveGInv == ASSUME GInv, NEW t \in Thread, NEW c \in Class, Resolve(t, c) PROVE GInv'
<1>1. lmu # t /\ stack[t] = <<>>
  <2>1. stack[t] = <<>>
    BY DEF Resolve
  <2>2. lmu = t => HeldBy(stack[t], cycle, status)
    BY ThreadAssumption DEF GInv
  <2> QED BY <2>1, <2>2 DEF HeldBy
<1>2. PICK f : f = <<[cls |-> c, at |-> "lock", done |-> 0]>>
  OBVIOUS
<1>3. f \in Seq(Frame) /\ Len(f) = 1 /\ f[1].at = "lock"
  <2>1. [cls |-> c, at |-> "lock", done |-> 0] \in Frame
    BY DEF Frame, Positions
  <2> QED BY <1>2, <2>1
<1>4. stack' = stack \/ stack' = [stack EXCEPT ![t] = f]
  BY <1>2 DEF Resolve
<1>5. /\ stack' \in [Thread -> Seq(Frame)]
      /\ \A u \in Thread \ {t} : stack'[u] = stack[u]
      /\ (stack'[t] = <<>> \/ (Len(stack'[t]) = 1 /\ stack'[t][1].at = "lock"))
  BY <1>1, <1>3, <1>4 DEF GInv, Types
<1>6. got' \in [Thread -> [cls : Class \cup {NoClass}, ok : BOOLEAN]]
  <2>1. Nothing \in [cls : Class \cup {NoClass}, ok : BOOLEAN]
        /\ [cls |-> c, ok |-> TRUE] \in [cls : Class \cup {NoClass}, ok : BOOLEAN]
    BY DEF Nothing
  <2> QED BY <2>1 DEF Resolve, GInv, Types
<1>7. UNCHANGED <<lmu, cycle, status, super, ifaces>>
  BY DEF Resolve, record
<1>8. Types'
  BY <1>5, <1>6, <1>7 DEF GInv, Types
<1>9. Queues(lmu', stack')
  <2>1. Queues(lmu, stack) /\ lmu' = lmu
    BY <1>7 DEF GInv
  <2> QED BY <1>5, <2>1 DEF Queues
<1>10. /\ lmu' = NoThread => AtRest(cycle', status')
       /\ lmu' # NoThread => HeldBy(stack'[lmu'], cycle', status')
  BY <1>1, <1>5, <1>7 DEF GInv, Types
<1> QED BY <1>8, <1>9, <1>10 DEF GInv, Queues, AtRest, HeldBy

LEMMA LockGInv == ASSUME GInv, NEW t \in Thread, Lock(t) PROVE GInv'
<1>1. lmu = NoThread /\ AtRest(cycle, status) /\ stack[t] \in Seq(Frame) /\ stack[t] # <<>>
  BY DEF Lock, At, GInv, Types
<1>2. /\ Len(stack[t]) = 1 /\ stack[t][1] \in Frame /\ Last(stack[t]) = stack[t][1]
  <2>1. stack[t] = <<>> \/ Len(stack[t]) = 1
    BY <1>1, ThreadAssumption DEF GInv, Queues
  <2> QED BY <1>1, <2>1, FrontFacts
<1>3. PICK c \in Class : c = Current(t) /\ stack[t][1].cls = c
  BY <1>2 DEF Current, Frame
<1>4. /\ stack \in [Thread -> Seq(Frame)]
      /\ got \in [Thread -> [cls : Class \cup {NoClass}, ok : BOOLEAN]]
  BY DEF GInv, Types
<1>5. CASE status[c] # "absent"
  <2>1. /\ stack' = [stack EXCEPT ![t] = <<>>] /\ UNCHANGED <<lmu, cycle, status, super, ifaces>>
        /\ got' = [got EXCEPT ![t] = [cls |-> c, ok |-> TRUE]]
    BY <1>3, <1>5 DEF Lock, record
  <2>2. /\ <<>> \in Seq(Frame)
        /\ [cls |-> c, ok |-> TRUE] \in [cls : Class \cup {NoClass}, ok : BOOLEAN]
    BY EmptySeq
  <2>3. Types'
    BY <1>4, <2>1, <2>2 DEF GInv, Types
  <2>4. Queues(lmu', stack')
    BY <1>4, <2>1 DEF GInv, Queues
  <2> QED BY <1>1, <2>1, <2>3, <2>4 DEF GInv, Queues, AtRest
<1>6. CASE status[c] = "absent"
  <2>1. PICK r : r = MoveTo(stack[t], "read")
    OBVIOUS
  <2>2. /\ lmu' = t /\ cycle' = cycle \cup {c} /\ stack' = [stack EXCEPT ![t] = r]
        /\ UNCHANGED <<got, status, super, ifaces>>
    BY <1>3, <1>6, <2>1 DEF Lock, record
  <2>3. /\ r \in Seq(Frame) /\ Len(r) = 1 /\ r[1].cls = c /\ r[1].at = "read" /\ r # <<>>
    <3>1. "read" \in Positions
      BY DEF Positions
    <3>2. TopChanged(stack[t], r) /\ r[Len(stack[t])].at = "read"
      BY <1>1, <2>1, <3>1, MoveFacts
    <3> QED BY <1>2, <1>3, <3>2, EmptySeq DEF TopChanged
  <2>4. /\ stack' \in [Thread -> Seq(Frame)] /\ stack'[t] = r
        /\ \A u \in Thread \ {t} : stack'[u] = stack[u]
    BY <1>4, <2>2, <2>3
  <2>5. Types'
    BY <2>2, <2>4 DEF GInv, Types
  <2>6. Queues(lmu', stack')
    BY <1>1, <2>2, <2>4, ThreadAssumption DEF GInv, Queues
  <2>7. HeldBy(r, cycle', status')
    <3>1. \A i \in 1..1 : i = 1
      OBVIOUS
    <3> QED BY <1>1, <1>6, <2>2, <2>3, <3>1 DEF HeldBy, AtRest
  <2>8. lmu' # NoThread /\ HeldBy(stack'[lmu'], cycle', status')
    BY <2>2, <2>4, <2>7, ThreadAssumption
  <2> QED BY <2>5, <2>6, <2>8 DEF GInv, Queues, AtRest, HeldBy
<1> QED BY <1>5, <1>6

LEMMA RegisterGInv == ASSUME GInv, NEW t \in Thread, Register(t) PROVE GInv'
<1>1. At(t, "read")
  BY DEF Register
<1>2. /\ lmu = t /\ HeldBy(stack[t], cycle, status) /\ stack[t] \in Seq(Frame)
      /\ stack[t] # <<>> /\ Current(t) = stack[t][Len(stack[t])].cls /\ Current(t) \in Class
      /\ status[Current(t)] = "absent"
  BY <1>1, Loader
<1>3. /\ status \in [Class -> {"absent", "placed", "linked"}] /\ cycle \subseteq Class
      /\ super \in [Class -> Class \cup {NoClass}] /\ ifaces \in [Class -> SUBSET Class]
  BY DEF GInv, Types
<1>4. CASE Current(t) \in Bad
  <2>1. Return(t, FALSE) /\ UNCHANGED <<status, super, ifaces>>
    BY <1>4 DEF Register, record
  <2>2. status' \in [Class -> {"absent", "placed", "linked"}] /\ status'[Current(t)] # "placed"
        /\ \A c \in Class \ {Current(t)} : status'[c] = status[c]
    BY <1>2, <1>3, <2>1
  <2> QED BY <1>1, <2>1, <2>2, ReturnGInv
<1>5. CASE Current(t) \notin Bad
  <2>1. PICK r : r = MoveTo(stack[t], "deps")
    OBVIOUS
  <2>2. /\ status' = [status EXCEPT ![Current(t)] = "placed"]
        /\ super' = [super EXCEPT ![Current(t)] = NoClass]
        /\ ifaces' = [ifaces EXCEPT ![Current(t)] = {}]
        /\ stack' = [stack EXCEPT ![t] = r] /\ UNCHANGED <<lmu, cycle, got>>
    BY <1>2, <1>5, <2>1 DEF Register
  <2>3. TopChanged(stack[t], r) /\ r[Len(stack[t])].at = "deps" /\ r \in Seq(Frame)
    <3>1. "deps" \in Positions
      BY DEF Positions
    <3> QED BY <1>2, <2>1, <3>1, MoveFacts DEF TopChanged
  <2>4. /\ status' \in [Class -> {"absent", "placed", "linked"}] /\ status'[Current(t)] = "placed"
        /\ \A c \in Class \ {Current(t)} : status'[c] = status[c]
        /\ super' \in [Class -> Class \cup {NoClass}] /\ ifaces' \in [Class -> SUBSET Class]
    BY <1>2, <1>3, <2>2
  <2>5. HeldBy(r, cycle', status')
    <3>1. HeldBy(r, cycle, status')
      BY <1>2, <2>3, <2>4, HeldWhenMoved
    <3> QED BY <2>2, <3>1
  <2> QED BY <1>2, <1>3, <2>2, <2>3, <2>4, <2>5, InsideGInv
<1> QED BY <1>4, <1>5

LEMMA DependGInv == ASSUME GInv, NEW t \in Thread, Depend(t) PROVE GInv'
<1>1. At(t, "deps")
  BY DEF Depend
<1>2. /\ lmu = t /\ HeldBy(stack[t], cycle, status) /\ stack[t] \in Seq(Frame)
      /\ stack[t] # <<>> /\ Current(t) = stack[t][Len(stack[t])].cls /\ Current(t) \in Class
      /\ stack[t][Len(stack[t])].at = "deps" /\ Last(stack[t]) = stack[t][Len(stack[t])]
      /\ stack[t][Len(stack[t])] \in Frame /\ status[Current(t)] = "placed"
  BY <1>1, Loader
<1>3. /\ status \in [Class -> {"absent", "placed", "linked"}] /\ cycle \subseteq Class
      /\ super \in [Class -> Class \cup {NoClass}] /\ ifaces \in [Class -> SUBSET Class]
      /\ stack \in [Thread -> Seq(Frame)]
  BY DEF GInv, Types
<1>4. PICK i \in Nat : i = Last(stack[t]).done + 1
  BY <1>2 DEF Frame
<1>4a. PICK d : d = Deps(Current(t))[i]
  OBVIOUS
<1>5. d \in Class
  <2>1. i \in 1..Len(Deps(Current(t)))
    <3>1. i <= Len(Deps(Current(t))) /\ i > 0
      <4>1. Last(stack[t]).done + 1 <= Len(Deps(Current(t)))
        BY DEF Depend
      <4>2. Last(stack[t]).done \in Nat
        BY <1>2 DEF Frame
      <4> QED BY <1>4, <4>1, <4>2
    <3> QED BY <1>2, <3>1, DepsFacts
  <2> QED BY <1>2, <1>4, <1>4a, <2>1, DepsFacts
<1>6. CASE status[d] # "absent"
  <2>1. PICK r : r = WithDone(stack[t], i)
    OBVIOUS
  <2>2. /\ stack' = [stack EXCEPT ![t] = r] /\ UNCHANGED <<lmu, cycle, status, got>>
        /\ \/ super' = [super EXCEPT ![Current(t)] = d] /\ UNCHANGED ifaces
           \/ ifaces' = [ifaces EXCEPT ![Current(t)] = @ \cup {d}] /\ UNCHANGED super
    BY <1>3, <1>4, <1>4a, <1>6, <2>1 DEF Depend, WithDone
  <2>3. TopChanged(stack[t], r) /\ r[Len(stack[t])].at = "deps" /\ r \in Seq(Frame)
    BY <1>2, <2>1, DoneFacts DEF TopChanged
  <2>4. super' \in [Class -> Class \cup {NoClass}] /\ ifaces' \in [Class -> SUBSET Class]
    <3>1. CASE super' = [super EXCEPT ![Current(t)] = d] /\ UNCHANGED ifaces
      BY <1>2, <1>3, <1>5, <3>1
    <3>2. CASE ifaces' = [ifaces EXCEPT ![Current(t)] = @ \cup {d}] /\ UNCHANGED super
      <4>1. ifaces[Current(t)] \cup {d} \in SUBSET Class
        BY <1>2, <1>3, <1>5
      <4> QED BY <1>3, <3>2, <4>1
    <3> QED BY <2>2, <3>1, <3>2
  <2>5. HeldBy(r, cycle', status')
    <3>1. /\ status[stack[t][Len(stack[t])].cls] = "placed"
          /\ \A c \in Class \ {stack[t][Len(stack[t])].cls} : status[c] = status[c]
      BY <1>2
    <3>2. HeldBy(r, cycle, status)
      BY <1>2, <2>3, <3>1, HeldWhenMoved
    <3> QED BY <2>2, <3>2
  <2> QED BY <1>2, <1>3, <2>2, <2>3, <2>4, <2>5, InsideGInv
<1>7. CASE status[d] = "absent"
  <2>1. PICK r : r = Call(stack[t], d)
    OBVIOUS
  <2>2. /\ stack' = [stack EXCEPT ![t] = r] /\ cycle' = cycle \cup {d}
        /\ UNCHANGED <<lmu, status, got, super, ifaces>>
    BY <1>4, <1>4a, <1>7, <2>1 DEF Depend
  <2>3. HeldBy(r, cycle', status')
    <3>1. HeldBy(r, cycle \cup {d}, status)
      BY <1>2, <1>5, <1>7, <2>1, HeldWhenCalled
    <3> QED BY <2>2, <3>1
  <2>4. r \in Seq(Frame) /\ cycle' \subseteq Class
    BY <1>3, <1>5, <2>2, <2>3 DEF HeldBy
  <2> QED BY <1>2, <1>3, <2>2, <2>3, <2>4, InsideGInv
<1> QED BY <1>6, <1>7

LEMMA LinkGInv == ASSUME GInv, NEW t \in Thread, Link(t) PROVE GInv'
<1>1. At(t, "deps")
  BY DEF Link
<1>2. /\ lmu = t /\ HeldBy(stack[t], cycle, status) /\ stack[t] \in Seq(Frame)
      /\ stack[t] # <<>> /\ Current(t) = stack[t][Len(stack[t])].cls /\ Current(t) \in Class
      /\ status[Current(t)] = "placed"
  BY <1>1, Loader
<1>3. /\ status \in [Class -> {"absent", "placed", "linked"}] /\ cycle \subseteq Class
      /\ super \in [Class -> Class \cup {NoClass}] /\ ifaces \in [Class -> SUBSET Class]
  BY DEF GInv, Types
<1>4. UNCHANGED <<super, ifaces>>
  BY DEF Link
<1>5. CASE Passes(Current(t))
  <2>1. Return(t, TRUE) /\ status' = [status EXCEPT ![Current(t)] = "linked"]
    BY <1>5 DEF Link
  <2>2. status' \in [Class -> {"absent", "placed", "linked"}] /\ status'[Current(t)] # "placed"
        /\ \A c \in Class \ {Current(t)} : status'[c] = status[c]
    BY <1>2, <1>3, <2>1
  <2> QED BY <1>1, <1>4, <2>1, <2>2, ReturnGInv
<1>6. CASE ~Passes(Current(t))
  <2>1. PICK r : r = MoveTo(stack[t], "failed")
    OBVIOUS
  <2>2. stack' = [stack EXCEPT ![t] = r] /\ UNCHANGED <<lmu, cycle, status, got>>
    BY <1>6, <2>1 DEF Link
  <2>3. TopChanged(stack[t], r) /\ r[Len(stack[t])].at = "failed" /\ r \in Seq(Frame)
    <3>1. "failed" \in Positions
      BY DEF Positions
    <3> QED BY <1>2, <2>1, <3>1, MoveFacts DEF TopChanged
  <2>4. HeldBy(r, cycle', status')
    <3>1. /\ status[stack[t][Len(stack[t])].cls] = "placed"
          /\ \A c \in Class \ {stack[t][Len(stack[t])].cls} : status[c] = status[c]
      BY <1>2
    <3>2. HeldBy(r, cycle, status)
      BY <1>2, <2>3, <3>1, HeldWhenMoved
    <3> QED BY <2>2, <3>2
  <2> QED BY <1>2, <1>3, <1>4, <2>2, <2>3, <2>4, InsideGInv
<1> QED BY <1>5, <1>6

LEMMA FailGInv == ASSUME GInv, NEW t \in Thread, Fail(t) PROVE GInv'
<1>1. /\ At(t, "failed") /\ Return(t, FALSE) /\ UNCHANGED <<super, ifaces>>
      /\ status' = [status EXCEPT ![Current(t)] = "absent"]
  BY DEF Fail, record
<1>2. Current(t) \in Class
  BY <1>1, Loader
<1>3. status' \in [Class -> {"absent", "placed", "linked"}] /\ status'[Current(t)] # "placed"
      /\ \A c \in Class \ {Current(t)} : status'[c] = status[c]
  BY <1>1, <1>2 DEF GInv, Types
<1> QED BY <1>1, <1>3, ReturnGInv

LEMMA GInvNext == GInv /\ [Next]_vars => GInv'
<1> SUFFICES ASSUME GInv, [Next]_vars PROVE GInv'
  OBVIOUS
<1>1. ASSUME UNCHANGED <<lmu, cycle, status, record, stack, got>> PROVE GInv'
  <2>1. /\ Types' /\ lmu' = lmu /\ stack' = stack /\ cycle' = cycle /\ status' = status
    BY <1>1 DEF GInv, Types, record
  <2>2. Queues(lmu', stack')
    BY <2>1 DEF GInv
  <2>3. /\ lmu' = NoThread => AtRest(cycle', status')
        /\ lmu' # NoThread => HeldBy(stack'[lmu'], cycle', status')
    BY <2>1 DEF GInv
  <2> QED BY <2>1, <2>2, <2>3 DEF GInv, Queues, AtRest, HeldBy
<1>2. CASE UNCHANGED vars
  BY <1>1, <1>2 DEF vars
<1>3. CASE Next
  <2>1. PICK t \in Thread :
          \/ \E c \in Class : Resolve(t, c) \/ Initialize(t, c)
          \/ Lock(t) \/ Register(t) \/ Depend(t) \/ Link(t) \/ Fail(t)
    BY <1>3 DEF Next, Load
  <2>2. ASSUME NEW c \in Class, Initialize(t, c) PROVE GInv'
    BY <1>1, <2>2 DEF Initialize
  <2> QED BY <2>1, <2>2, ResolveGInv, LockGInv, RegisterGInv, DependGInv, LinkGInv, FailGInv
<1> QED BY <1>2, <1>3

LEMMA GInvInit == Init => GInv
<1> SUFFICES ASSUME Init PROVE GInv
  OBVIOUS
<1>1. \A c \in Synth : Super[c] \in Class \cup {NoClass}
  BY SynthAssumption
<1>2. Types
  <2>1. <<>> \in Seq(Frame) /\ Nothing \in [cls : Class \cup {NoClass}, ok : BOOLEAN]
    BY EmptySeq DEF Nothing
  <2>2. super \in [Class -> Class \cup {NoClass}]
    BY <1>1 DEF Init
  <2> QED BY <2>1, <2>2 DEF Init, Types
<1>3. Queues(lmu, stack) /\ AtRest(cycle, status) /\ lmu = NoThread
  BY DEF Init, Queues, AtRest
<1> QED BY <1>2, <1>3 DEF GInv

LEMMA GInvAlways == Spec => []GInv
BY GInvInit, GInvNext, PTL DEF Spec

(* When no thread is in Load, every placeholder was linked or deleted and   *)
(* every mark of l.cycle removed: whatever failed, raced or went round in a *)
(* circle (loadLocked's defers and its error returns, loader.go).           *)
THEOREM NothingLeftBehind == Spec => []NothingHalfLoadedAtRest
<1>1. GInv => NothingHalfLoadedAtRest
  BY DEF GInv, AtRest, NothingHalfLoadedAtRest
<1> QED BY <1>1, GInvAlways, PTL

(***************************************************************************)
(* The files a class needs.                                                *)
(***************************************************************************)
LEMMA UpwardFacts ==
  ASSUME NEW up \in [Class -> Class \cup {NoClass}], NEW across \in [Class -> SUBSET Class],
         NEW c \in Class
  PROVE  /\ c \in Upward(c, up, across) /\ Upward(c, up, across) \in SUBSET Class
         /\ ClosedUp(Upward(c, up, across), up, across)
         /\ \A S \in SUBSET Class : c \in S /\ ClosedUp(S, up, across) =>
                                    Upward(c, up, across) \subseteq S
<1>1. PICK U : U = Upward(c, up, across)
  OBVIOUS
<1>2. \A x : x \in U <=> x \in Class /\ \A S \in SUBSET Class :
                                          c \in S /\ ClosedUp(S, up, across) => x \in S
  BY <1>1 DEF Upward
<1>3. ASSUME NEW x \in U PROVE across[x] \subseteq U /\ up[x] \in U \cup {NoClass}
  <2>1. ASSUME NEW y \in across[x] PROVE y \in U
    <3>1. y \in Class /\ x \in Class
      BY <1>2
    <3>2. ASSUME NEW S \in SUBSET Class, c \in S, ClosedUp(S, up, across) PROVE y \in S
      BY <1>2, <3>2 DEF ClosedUp
    <3> QED BY <1>2, <3>1, <3>2
  <2>2. ASSUME up[x] # NoClass PROVE up[x] \in U
    <3>1. up[x] \in Class /\ x \in Class
      BY <1>2, <2>2
    <3>2. ASSUME NEW S \in SUBSET Class, c \in S, ClosedUp(S, up, across) PROVE up[x] \in S
      BY <1>2, <2>2, <3>2 DEF ClosedUp
    <3> QED BY <1>2, <3>1, <3>2
  <2> QED BY <2>1, <2>2
<1>4. ClosedUp(U, up, across)
  BY <1>3 DEF ClosedUp
<1> QED BY <1>1, <1>2, <1>4

(* Pointers that agree on everything c needs have c need the same.          *)
LEMMA UpwardAgree ==
  ASSUME NEW up \in [Class -> Class \cup {NoClass}], NEW across \in [Class -> SUBSET Class],
         NEW up2 \in [Class -> Class \cup {NoClass}], NEW across2 \in [Class -> SUBSET Class],
         NEW c \in Class,
         \A x \in Upward(c, up, across) : up2[x] = up[x] /\ across2[x] = across[x]
  PROVE  Upward(c, up2, across2) = Upward(c, up, across)
<1>1. PICK U, V : U = Upward(c, up, across) /\ V = Upward(c, up2, across2)
  OBVIOUS
<1>2. /\ c \in U /\ U \in SUBSET Class /\ ClosedUp(U, up, across)
      /\ \A S \in SUBSET Class : c \in S /\ ClosedUp(S, up, across) => U \subseteq S
  BY <1>1, UpwardFacts
<1>3. /\ c \in V /\ V \in SUBSET Class /\ ClosedUp(V, up2, across2)
      /\ \A S \in SUBSET Class : c \in S /\ ClosedUp(S, up2, across2) => V \subseteq S
  BY <1>1, UpwardFacts
<1>4. \A x \in U : up2[x] = up[x] /\ across2[x] = across[x]
  BY <1>1
<1>5. V \subseteq U
  BY <1>2, <1>3, <1>4 DEF ClosedUp
<1>6. U \subseteq V
  BY <1>2, <1>3, <1>4, <1>5 DEF ClosedUp
<1> QED BY <1>1, <1>5, <1>6

(* q is f with one element before it.                                       *)
OneAhead(q, f) == Len(q) = Len(f) + 1 /\ \A i \in 1..Len(f) : q[i + 1] = f[i]

LEMMA RangeAhead ==
  ASSUME NEW S, NEW q \in Seq(S), NEW f \in Seq(S), OneAhead(q, f)
  PROVE  Range(q) = {q[1]} \cup Range(f)
<1>1. PICK n \in Nat : n = Len(f)
  BY LenProperties
<1>2. /\ Len(q) = n + 1 /\ \A i \in 1..n : q[i + 1] = f[i]
      /\ DOMAIN q = 1..(n + 1) /\ DOMAIN f = 1..n
  BY <1>1, LenProperties DEF OneAhead
<1>3. \A i \in 1..(n + 1) : i = 1 \/ i - 1 \in 1..n
  OBVIOUS
<1>4. \A i \in 1..n : i + 1 \in 1..(n + 1)
  OBVIOUS
<1>5. ASSUME NEW i \in 1..(n + 1) PROVE q[i] = q[1] \/ q[i] \in Range(f)
  <2>1. CASE i = 1
    BY <2>1
  <2>2. CASE i # 1
    <3>1. PICK k \in 1..n : i = k + 1
      BY <1>3, <2>2
    <3> QED BY <1>2, <3>1 DEF Range
  <2> QED BY <2>1, <2>2
<1>6. ASSUME NEW i \in 1..n PROVE f[i] \in Range(q)
  <2>1. f[i] = q[i + 1] /\ i + 1 \in DOMAIN q
    BY <1>2, <1>4
  <2> QED BY <2>1 DEF Range
<1>7. q[1] \in Range(q)
  <2>1. 1 \in DOMAIN q
    BY <1>2
  <2> QED BY <2>1 DEF Range
<1>8. \A x \in Range(q) : x = q[1] \/ x \in Range(f)
  <2>1. \A x \in Range(q) : \E i \in 1..(n + 1) : x = q[i]
    BY <1>2 DEF Range
  <2> QED BY <1>5, <2>1
<1>9. \A x \in Range(f) : x \in Range(q)
  <2>1. \A x \in Range(f) : \E i \in 1..n : x = f[i]
    BY <1>2 DEF Range
  <2> QED BY <1>6, <2>1
<1> QED BY <1>7, <1>8, <1>9

Named == [x \in Class |-> Range(Ifaces[x])]

LEMMA NamedFacts ==
  /\ Named \in [Class -> SUBSET Class] /\ Super \in [Class -> Class \cup {NoClass}]
  /\ \A c \in Class : /\ Named[c] = Range(Ifaces[c])
                      /\ Range(Deps(c)) = Named[c] \cup ({Super[c]} \ {NoClass})
                      /\ Range(Deps(c)) \subseteq Class
<1>1. Super \in [Class -> Class \cup {NoClass}] /\ \A c \in Class : Ifaces[c] \in Seq(Class)
  BY GraphAssumption
<1>2. \A c \in Class : Range(Ifaces[c]) \subseteq Class
  BY <1>1, ElementOfSeq, LenProperties DEF Range
<1>3. ASSUME NEW c \in Class PROVE Range(Deps(c)) = Range(Ifaces[c]) \cup ({Super[c]} \ {NoClass})
  <2>1. CASE Super[c] = NoClass
    BY <2>1, DepsFacts
  <2>2. CASE Super[c] # NoClass
    <3>1. /\ Deps(c) \in Seq(Class) /\ Ifaces[c] \in Seq(Class) /\ Deps(c)[1] = Super[c]
          /\ Len(Deps(c)) = Len(Ifaces[c]) + 1
          /\ \A i \in 1..Len(Ifaces[c]) : Deps(c)[i + 1] = Ifaces[c][i]
      BY <2>2, DepsFacts
    <3>2. OneAhead(Deps(c), Ifaces[c])
      BY <3>1 DEF OneAhead
    <3>3. Range(Deps(c)) = {Super[c]} \cup Range(Ifaces[c])
      BY <3>1, <3>2, RangeAhead
    <3> QED BY <2>2, <3>3
  <2> QED BY <2>1, <2>2
<1>4. \A c \in Class : Named[c] = Range(Ifaces[c])
  BY DEF Named
<1> QED BY <1>1, <1>2, <1>3, <1>4 DEF Named

LEMMA FilesFacts ==
  ASSUME NEW c \in Class
  PROVE  /\ c \in Files[c] /\ Files[c] \subseteq Class
         /\ Files[c] = Upward(c, Super, Named)
         /\ \A d \in Files[c] : Files[d] \subseteq Files[c]
         /\ \A d \in Range(Deps(c)) : d \in Files[c]
         /\ \A x \in Files[c] : x = c \/ \E d \in Range(Deps(c)) : x \in Files[d]
<1>1. ASSUME NEW x \in Class
      PROVE  /\ Files[x] = Upward(x, Super, Named)
             /\ x \in Files[x] /\ Files[x] \in SUBSET Class /\ ClosedUp(Files[x], Super, Named)
             /\ \A S \in SUBSET Class : x \in S /\ ClosedUp(S, Super, Named) => Files[x] \subseteq S
  <2>1. Files[x] = Upward(x, Super, Named)
    BY DEF Files, Named
  <2> QED BY <2>1, NamedFacts, UpwardFacts
<1>2. \A d \in Files[c] : Files[d] \subseteq Files[c]
  BY <1>1
<1>3. \A d \in Range(Deps(c)) : d \in Files[c]
  BY <1>1, NamedFacts DEF ClosedUp
<1>4. PICK S : S = {c} \cup UNION {Files[d] : d \in Range(Deps(c))}
  OBVIOUS
<1>5. \A x : x \in S <=> x = c \/ \E d \in Range(Deps(c)) : x \in Files[d]
  BY <1>4
<1>6. S \in SUBSET Class
  BY <1>1, <1>5, NamedFacts
<1>7. ASSUME NEW x \in S PROVE Named[x] \subseteq S /\ Super[x] \in S \cup {NoClass}
  <2>1. CASE x = c
    BY <1>1, <1>5, <2>1, NamedFacts
  <2>2. ASSUME NEW d \in Range(Deps(c)), x \in Files[d]
        PROVE  Named[x] \subseteq S /\ Super[x] \in S \cup {NoClass}
    BY <1>1, <1>5, <2>2, NamedFacts DEF ClosedUp
  <2> QED BY <1>5, <2>1, <2>2
<1>8. ClosedUp(S, Super, Named)
  BY <1>7 DEF ClosedUp
<1>9. Files[c] \subseteq S
  BY <1>1, <1>5, <1>6, <1>8
<1> QED BY <1>1, <1>2, <1>3, <1>5, <1>9

(***************************************************************************)
(* Closure: what is linked has its superclass and its interfaces, linked.   *)
(* The classes of a stack each need the next; those waiting for one have    *)
(* the pointers to what they already took.                                  *)
(***************************************************************************)
Closure(reg, up, across) == \A c \in Class : reg[c] = "linked" =>
  /\ up[c] = Super[c] /\ across[c] = Named[c]
  /\ \A d \in Files[c] : reg[d] = "linked"

Chained(s) == \A i, j \in 1..Len(s) : i < j => s[j].cls \in Files[s[i].cls]

Taken(c, k) == {Deps(c)[j] : j \in (IF Super[c] = NoClass THEN 1 ELSE 2)..k}
Fits(c, k, reg, up, across) ==
  /\ k \in 0..Len(Deps(c)) /\ \A j \in 1..k : reg[Deps(c)[j]] = "linked"
  /\ up[c] = (IF k = 0 THEN NoClass ELSE Super[c]) /\ across[c] = Taken(c, k)
FitsAll(s, reg, up, across) ==
  \A i \in 1..Len(s) : s[i].at = "deps" => Fits(s[i].cls, s[i].done, reg, up, across)

DInv == /\ GInv /\ Closure(status, super, ifaces)
        /\ lmu # NoThread => Chained(stack[lmu]) /\ FitsAll(stack[lmu], status, super, ifaces)

(* A step that changes the class c only, and unlinks nothing.               *)
OnlyAt(c, reg, up, across, reg2, up2, across2) ==
  /\ \A x \in Class \ {c} : up2[x] = up[x] /\ across2[x] = across[x]
  /\ \A x \in Class \ {c} : reg2[x] = reg[x]
  /\ reg[c] # "linked"

LEMMA FitsKept ==
  ASSUME NEW c \in Class, NEW reg, NEW up, NEW across, NEW reg2, NEW up2, NEW across2,
         OnlyAt(c, reg, up, across, reg2, up2, across2),
         NEW x \in Class, x # c, NEW k, Fits(x, k, reg, up, across)
  PROVE  Fits(x, k, reg2, up2, across2)
<1>1. k \in 0..Len(Deps(x)) /\ Len(Deps(x)) \in Nat /\ \A j \in 1..k : reg[Deps(x)[j]] = "linked"
  BY DepsFacts DEF Fits
<1>2. \A j \in 1..k : j \in 1..Len(Deps(x))
  BY <1>1
<1>3. \A j \in 1..k : Deps(x)[j] \in Class /\ Deps(x)[j] # c
  BY <1>1, <1>2, DepsFacts DEF OnlyAt
<1>4. \A j \in 1..k : reg2[Deps(x)[j]] = "linked"
  BY <1>1, <1>3 DEF OnlyAt
<1> QED BY <1>1, <1>4 DEF Fits, OnlyAt

LEMMA ClosureKept ==
  ASSUME NEW c \in Class, NEW reg, NEW up, NEW across, NEW reg2, NEW up2, NEW across2,
         OnlyAt(c, reg, up, across, reg2, up2, across2), reg2[c] # "linked",
         Closure(reg, up, across)
  PROVE  Closure(reg2, up2, across2)
<1>1. ASSUME NEW x \in Class, reg2[x] = "linked"
      PROVE  /\ up2[x] = Super[x] /\ across2[x] = Named[x]
             /\ \A d \in Files[x] : reg2[d] = "linked"
  <2>1. x # c
    BY <1>1
  <2>2. reg[x] = "linked" /\ up2[x] = up[x] /\ across2[x] = across[x]
    BY <1>1, <2>1 DEF OnlyAt
  <2>3. ASSUME NEW d \in Files[x] PROVE reg2[d] = "linked"
    <3>1. d \in Class /\ reg[d] = "linked"
      BY <2>2, FilesFacts DEF Closure
    <3>2. d # c
      BY <3>1 DEF OnlyAt
    <3> QED BY <3>1, <3>2 DEF OnlyAt
  <2> QED BY <2>2, <2>3 DEF Closure
<1> QED BY <1>1 DEF Closure

(* The stack after a step of the innermost load.                            *)
LEMMA TopChained ==
  ASSUME NEW marks, NEW reg, NEW up, NEW across, NEW reg2, NEW up2, NEW across2,
         NEW s, NEW r, HeldBy(s, marks, reg), TopChanged(s, r),
         Chained(s), FitsAll(s, reg, up, across),
         OnlyAt(s[Len(s)].cls, reg, up, across, reg2, up2, across2),
         r[Len(s)].at = "deps" => Fits(s[Len(s)].cls, r[Len(s)].done, reg2, up2, across2)
  PROVE  Chained(r) /\ FitsAll(r, reg2, up2, across2)
<1>1. s \in Seq(Frame) /\ s # <<>>
  BY DEF HeldBy
<1>2. PICK n \in Nat \ {0} : n = Len(s)
  BY <1>1, FrontFacts
<1>3. /\ \A i \in 1..n : s[i] \in Frame /\ s[i].cls \in Class
      /\ \A i \in 1..n : i \in 1..(n - 1) \/ i = n
      /\ \A i \in 1..(n - 1) : i \in 1..n /\ i # n
  <2>1. \A i \in 1..n : s[i] \in Frame
    BY <1>1, <1>2, ElementOfSeq
  <2> QED BY <2>1 DEF Frame
<1>4. Len(r) = n /\ r[n].cls = s[n].cls /\ \A i \in 1..(n - 1) : r[i] = s[i]
  BY <1>2 DEF TopChanged
<1>5. \A i \in 1..n : r[i].cls = s[i].cls
  BY <1>3, <1>4
<1>6. Chained(r)
  BY <1>2, <1>4, <1>5 DEF Chained
<1>7. ASSUME NEW i \in 1..n, r[i].at = "deps" PROVE Fits(r[i].cls, r[i].done, reg2, up2, across2)
  <2>1. CASE i = n
    BY <1>2, <1>4, <1>7, <2>1
  <2>2. CASE i # n
    <3>1. i \in 1..(n - 1) /\ r[i] = s[i]
      BY <1>3, <1>4, <2>2
    <3>2. Fits(s[i].cls, s[i].done, reg, up, across)
      BY <1>2, <1>7, <3>1 DEF FitsAll
    <3>3. n \in 1..n /\ s[i].cls # s[n].cls
      BY <1>2, <2>2 DEF HeldBy
    <3>4. PICK c \in Class : c = s[n].cls
      BY <1>3, <3>3
    <3>5. OnlyAt(c, reg, up, across, reg2, up2, across2) /\ s[i].cls \in Class /\ s[i].cls # c
      BY <1>2, <1>3, <3>3, <3>4
    <3>6. Fits(s[i].cls, s[i].done, reg2, up2, across2)
      BY <3>2, <3>5, FitsKept
    <3> QED BY <3>1, <3>6
  <2> QED BY <2>1, <2>2
<1> QED BY <1>4, <1>6, <1>7 DEF FitsAll

LEMMA PopChained ==
  ASSUME NEW marks, NEW reg, NEW up, NEW across, NEW reg2, NEW up2, NEW across2,
         NEW s, NEW r, HeldBy(s, marks, reg), Popped(s, r),
         Chained(s), FitsAll(s, reg, up, across),
         OnlyAt(s[Len(s)].cls, reg, up, across, reg2, up2, across2)
  PROVE  Chained(r) /\ FitsAll(r, reg2, up2, across2)
<1>1. s \in Seq(Frame) /\ s # <<>>
  BY DEF HeldBy
<1>2. PICK n \in Nat \ {0} : n = Len(s)
  BY <1>1, FrontFacts
<1>3. /\ \A i \in 1..n : s[i] \in Frame /\ s[i].cls \in Class
      /\ \A i \in 1..(n - 1) : i \in 1..n /\ i # n
      /\ n \in 1..n
  <2>1. \A i \in 1..n : s[i] \in Frame
    BY <1>1, <1>2, ElementOfSeq
  <2> QED BY <2>1 DEF Frame
<1>4. Len(r) = n - 1 /\ \A i \in 1..(n - 1) : r[i].cls = s[i].cls /\ r[i].done = s[i].done
  BY <1>2 DEF Popped
<1>5. Chained(r)
  BY <1>2, <1>3, <1>4 DEF Chained
<1>6. ASSUME NEW i \in 1..(n - 1) PROVE Fits(r[i].cls, r[i].done, reg2, up2, across2)
  <2>1. i \in 1..n /\ s[i].at = "deps" /\ s[i].cls # s[n].cls
    BY <1>2, <1>3 DEF HeldBy
  <2>2. Fits(s[i].cls, s[i].done, reg, up, across)
    BY <1>2, <2>1 DEF FitsAll
  <2>3. PICK c \in Class : c = s[n].cls
    BY <1>3
  <2>4. OnlyAt(c, reg, up, across, reg2, up2, across2) /\ s[i].cls \in Class /\ s[i].cls # c
    BY <1>2, <1>3, <2>1, <2>3
  <2>5. Fits(s[i].cls, s[i].done, reg2, up2, across2)
    BY <2>2, <2>4, FitsKept
  <2> QED BY <1>4, <2>5
<1> QED BY <1>4, <1>5, <1>6 DEF FitsAll

LEMMA CallChained ==
  ASSUME NEW reg, NEW up, NEW across, NEW s \in Seq(Frame), s # <<>>,
         Chained(s), FitsAll(s, reg, up, across),
         NEW d \in Range(Deps(s[Len(s)].cls))
  PROVE  Chained(Call(s, d)) /\ FitsAll(Call(s, d), reg, up, across)
<1>1. PICK n \in Nat \ {0} : n = Len(s)
  BY FrontFacts
<1>2. /\ \A i \in 1..n : s[i] \in Frame /\ s[i].cls \in Class
      /\ n \in 1..n
  <2>1. \A i \in 1..n : s[i] \in Frame
    BY <1>1, ElementOfSeq
  <2> QED BY <2>1 DEF Frame
<1>3. d \in Files[s[n].cls] /\ d \in Class
  BY <1>1, <1>2, FilesFacts
<1>4. \A i \in 1..n : d \in Files[s[i].cls]
  <2>1. ASSUME NEW i \in 1..n PROVE s[n].cls \in Files[s[i].cls]
    <3>1. CASE i = n
      BY <1>2, <3>1, FilesFacts
    <3>2. CASE i # n
      BY <1>1, <1>2, <3>2 DEF Chained
    <3> QED BY <3>1, <3>2
  <2> QED BY <1>2, <1>3, <2>1, FilesFacts
<1>5. PICK r, f : f = [cls |-> d, at |-> "read", done |-> 0] /\ r = Append(s, f)
  OBVIOUS
<1>6. f \in Frame /\ f.cls = d /\ f.at = "read"
  BY <1>3, <1>5 DEF Frame, Positions
<1>7. Len(r) = n + 1 /\ r[n + 1] = f /\ \A i \in 1..n : r[i] = s[i]
  BY <1>1, <1>5, <1>6, AppendFacts
<1>8. \A i \in 1..(n + 1) : i \in 1..n \/ i = n + 1
  OBVIOUS
<1>9. Chained(r)
  <2>1. ASSUME NEW i \in 1..(n + 1), NEW j \in 1..(n + 1), i < j PROVE r[j].cls \in Files[r[i].cls]
    <3>1. i \in 1..n /\ r[i] = s[i]
      BY <1>7, <2>1
    <3>2. CASE j = n + 1
      BY <1>4, <1>6, <1>7, <3>1, <3>2
    <3>3. CASE j # n + 1
      <4>1. j \in 1..n /\ r[j] = s[j]
        BY <1>7, <1>8, <3>3
      <4> QED BY <1>1, <2>1, <3>1, <4>1 DEF Chained
    <3> QED BY <3>2, <3>3
  <2> QED BY <1>7, <2>1 DEF Chained
<1>10. FitsAll(r, reg, up, across)
  <2>1. ASSUME NEW i \in 1..(n + 1), r[i].at = "deps" PROVE Fits(r[i].cls, r[i].done, reg, up, across)
    <3>1. i # n + 1
      BY <1>6, <1>7, <2>1
    <3>2. i \in 1..n /\ r[i] = s[i]
      BY <1>7, <1>8, <3>1
    <3> QED BY <1>1, <2>1, <3>2 DEF FitsAll
  <2> QED BY <1>7, <2>1 DEF FitsAll
<1> QED BY <1>5, <1>9, <1>10 DEF Call

(* What was taken after one more dependency, and after the last.            *)
LEMMA TakenFacts ==
  ASSUME NEW c \in Class
  PROVE  /\ Super[c] # NoClass => Taken(c, 0) = {} /\ Taken(c, 1) = {}
         /\ Super[c] = NoClass => Taken(c, 0) = {}
         /\ \A k \in Nat : (Super[c] = NoClass \/ k > 0) =>
                           Taken(c, k + 1) = Taken(c, k) \cup {Deps(c)[k + 1]}
         /\ Taken(c, Len(Deps(c))) = Named[c]
<1>1. Super[c] # NoClass => Taken(c, 0) = {} /\ Taken(c, 1) = {}
  BY DEF Taken
<1>2. Super[c] = NoClass => Taken(c, 0) = {}
  BY DEF Taken
<1>3. ASSUME NEW k \in Nat, Super[c] = NoClass \/ k > 0
      PROVE  Taken(c, k + 1) = Taken(c, k) \cup {Deps(c)[k + 1]}
  <2>1. PICK lo \in {1, 2} : lo = (IF Super[c] = NoClass THEN 1 ELSE 2) /\ lo <= k + 1
    BY <1>3
  <2>2. \A j : j \in lo..(k + 1) <=> j \in lo..k \/ j = k + 1
    BY <2>1
  <2>3. /\ Taken(c, k + 1) = {Deps(c)[j] : j \in lo..(k + 1)}
        /\ Taken(c, k) = {Deps(c)[j] : j \in lo..k}
    BY <2>1 DEF Taken
  <2> QED BY <2>2, <2>3
<1>4. Taken(c, Len(Deps(c))) = Named[c]
  <2>1. /\ Ifaces[c] \in Seq(Class) /\ Named[c] = Range(Ifaces[c])
        /\ DOMAIN Ifaces[c] = 1..Len(Ifaces[c]) /\ Len(Ifaces[c]) \in Nat
    BY DepsFacts, NamedFacts, LenProperties
  <2>2. CASE Super[c] = NoClass
    <3>1. Deps(c) = Ifaces[c] /\ Taken(c, Len(Deps(c))) = {Deps(c)[j] : j \in 1..Len(Deps(c))}
      BY <2>2, DepsFacts DEF Taken
    <3> QED BY <2>1, <3>1 DEF Range
  <2>3. CASE Super[c] # NoClass
    <3>1. PICK n \in Nat : n = Len(Ifaces[c])
      BY <2>1
    <3>2. Len(Deps(c)) = n + 1 /\ \A i \in 1..n : Deps(c)[i + 1] = Ifaces[c][i]
      BY <2>3, <3>1, DepsFacts
    <3>3. Taken(c, n + 1) = {Deps(c)[j] : j \in 2..(n + 1)}
      BY <2>3 DEF Taken
    <3>4. /\ \A j \in 2..(n + 1) : j - 1 \in 1..n /\ j = (j - 1) + 1
          /\ \A i \in 1..n : i + 1 \in 2..(n + 1)
      OBVIOUS
    <3>5. ASSUME NEW j \in 2..(n + 1) PROVE \E i \in 1..n : Deps(c)[j] = Ifaces[c][i]
      <4>1. PICK i \in 1..n : j = i + 1
        BY <3>4
      <4> QED BY <3>2, <4>1
    <3>6. Named[c] = {Ifaces[c][i] : i \in 1..n}
      BY <2>1, <3>1 DEF Range
    <3>7. ASSUME NEW i \in 1..n PROVE Ifaces[c][i] \in Taken(c, n + 1)
      BY <3>2, <3>3, <3>4
    <3>8. Taken(c, n + 1) \subseteq Named[c]
      BY <3>3, <3>5, <3>6
    <3>9. Named[c] \subseteq Taken(c, n + 1)
      BY <3>6, <3>7
    <3> QED BY <3>2, <3>8, <3>9
  <2> QED BY <2>2, <2>3
<1> QED BY <1>1, <1>2, <1>3, <1>4

(* A dependency that is in the registry is linked: if it were still being   *)
(* loaded, by this thread, it would need the class that needs it.           *)
LEMMA TakenIsLinked ==
  ASSUME Acyclic, DInv, NEW t \in Thread, At(t, "deps"),
         NEW d \in Range(Deps(Current(t))), status[d] # "absent"
  PROVE  status[d] = "linked"
<1>1. /\ lmu = t /\ HeldBy(stack[t], cycle, status) /\ stack[t] \in Seq(Frame)
      /\ stack[t] # <<>> /\ Current(t) = stack[t][Len(stack[t])].cls /\ Current(t) \in Class
  BY Loader DEF DInv
<1>2. d \in Class /\ status[d] \in {"absent", "placed", "linked"}
  BY <1>1, NamedFacts DEF DInv, GInv, Types
<1>3. SUFFICES ASSUME status[d] = "placed" PROVE FALSE
  BY <1>2
<1>4. PICK n \in Nat \ {0} : n = Len(stack[t])
  BY <1>1, FrontFacts
<1>5. PICK i \in 1..n : stack[t][i].cls = d
  BY <1>1, <1>2, <1>3, <1>4 DEF HeldBy
<1>6. Chained(stack[t])
  BY <1>1, ThreadAssumption DEF DInv
<1>7. Current(t) \in Files[d]
  <2>1. CASE i = n
    BY <1>1, <1>2, <1>4, <1>5, <2>1, FilesFacts
  <2>2. CASE i # n
    <3>1. n \in 1..n /\ i < n
      BY <2>2
    <3> QED BY <1>1, <1>4, <1>5, <1>6, <3>1 DEF Chained
  <2> QED BY <2>1, <2>2
<1> QED BY <1>1, <1>7 DEF Acyclic

(* The invariant around a step inside loadLocked, and around a return.      *)
LEMMA InsideDInv ==
  ASSUME DInv, GInv', NEW t \in Thread, lmu = t, lmu' = t, NEW c \in Class,
         OnlyAt(c, status, super, ifaces, status', super', ifaces'), status'[c] # "linked",
         Chained(stack'[t]), FitsAll(stack'[t], status', super', ifaces')
  PROVE  DInv'
<1>1. Closure(status', super', ifaces')
  BY ClosureKept DEF DInv
<1>2. Chained(stack'[lmu']) /\ FitsAll(stack'[lmu'], status', super', ifaces')
  OBVIOUS
<1> QED BY <1>1, <1>2 DEF DInv, Closure, Chained, FitsAll, Fits

LEMMA ReturnDInv ==
  ASSUME DInv, GInv', NEW t \in Thread, NEW p \in {"read", "deps", "failed"}, At(t, p),
         NEW ok \in BOOLEAN, Return(t, ok),
         OnlyAt(Current(t), status, super, ifaces, status', super', ifaces'),
         Closure(status', super', ifaces')
  PROVE  DInv'
<1>1. /\ lmu = t /\ HeldBy(stack[t], cycle, status) /\ stack[t] \in Seq(Frame)
      /\ stack[t] # <<>> /\ Current(t) = stack[t][Len(stack[t])].cls
  BY Loader DEF DInv
<1>2. Chained(stack[t]) /\ FitsAll(stack[t], status, super, ifaces)
  BY <1>1, ThreadAssumption DEF DInv
<1>3. PICK r : r = After(stack[t], ok)
  OBVIOUS
<1>4. Popped(stack[t], r) /\ (r = <<>> <=> Front(stack[t]) = <<>>)
  BY <1>1, <1>3, AfterFacts
<1>5. Chained(r) /\ FitsAll(r, status', super', ifaces')
  <2>1. OnlyAt(stack[t][Len(stack[t])].cls, status, super, ifaces, status', super', ifaces')
    BY <1>1
  <2> QED BY <1>1, <1>2, <1>4, <2>1, PopChained
<1>6. /\ stack' = [stack EXCEPT ![t] = r] /\ (lmu' = NoThread \/ lmu' = lmu)
  BY <1>3, <1>4 DEF Return, After
<1>7. stack'[t] = r
  BY <1>6 DEF DInv, GInv, Types
<1>8. lmu' # NoThread => Chained(stack'[lmu']) /\ FitsAll(stack'[lmu'], status', super', ifaces')
  BY <1>1, <1>5, <1>6, <1>7
<1> QED BY <1>8 DEF DInv, Closure, Chained, FitsAll, Fits

(* A class that is not registered yet has taken no dependency.              *)
Unread(s) == \A i \in 1..Len(s) : s[i].at \in {"lock", "read"} => s[i].done = 0
ZInv == \A t \in Thread : Unread(stack[t])

LEMMA UnreadMoved ==
  ASSUME NEW s \in Seq(Frame), s # <<>>, Unread(s), NEW r, TopChanged(s, r),
         r[Len(s)].at \in {"deps", "failed"} \/ r[Len(s)].done = 0
  PROVE  Unread(r)
<1>1. PICK n \in Nat \ {0} : n = Len(s)
  BY FrontFacts
<1>2. Len(r) = n /\ \A i \in 1..(n - 1) : r[i] = s[i]
  BY <1>1 DEF TopChanged
<1>3. \A i \in 1..n : i = n \/ i \in 1..(n - 1)
  OBVIOUS
<1> QED BY <1>1, <1>2, <1>3 DEF Unread

LEMMA UnreadPopped ==
  ASSUME NEW s \in Seq(Frame), s # <<>>, Unread(s), NEW ok \in BOOLEAN
  PROVE  Unread(After(s, ok))
<1>1. PICK n \in Nat \ {0} : n = Len(s)
  BY FrontFacts
<1>1a. PICK r : r = After(s, ok)
  OBVIOUS
<1>2. /\ Len(r) = n - 1 /\ \A i \in 1..(n - 1) : r[i].done = s[i].done
      /\ \A i \in 1..(n - 2) : r[i].at = s[i].at
      /\ n > 1 => r[n - 1].at = s[n - 1].at \/ r[n - 1].at = "failed"
  BY <1>1, <1>1a, AfterFacts DEF Popped
<1>3. \A i \in 1..(n - 1) : i \in 1..n /\ (i \in 1..(n - 2) \/ (i = n - 1 /\ n > 1))
  OBVIOUS
<1>4. \A i \in 1..(n - 1) : r[i].at = s[i].at \/ r[i].at = "failed"
  BY <1>2, <1>3
<1>5. \A i \in 1..(n - 1) : r[i].at \in {"lock", "read"} => r[i].done = 0
  BY <1>1, <1>1a, <1>2, <1>3, <1>4 DEF Unread
<1> QED BY <1>1, <1>1a, <1>2, <1>5 DEF Unread

LEMMA ZInvNext == GInv /\ ZInv /\ [Next]_vars => ZInv'
<1> SUFFICES ASSUME GInv, ZInv, [Next]_vars PROVE ZInv'
  OBVIOUS
<1>1. stack \in [Thread -> Seq(Frame)] /\ \A t \in Thread : stack[t] \in Seq(Frame)
  BY DEF GInv, Types
<1>2. ASSUME NEW t \in Thread, NEW r, Unread(r), stack' = [stack EXCEPT ![t] = r]
      PROVE  ZInv'
  <2>1. \A u \in Thread : stack'[u] = stack[u] \/ stack'[u] = r
    BY <1>1, <1>2
  <2> QED BY <1>2, <2>1 DEF ZInv, Unread
<1>3. ASSUME UNCHANGED stack PROVE ZInv'
  BY <1>3 DEF ZInv, Unread
<1>4. ASSUME NEW t \in Thread, stack[t] # <<>>, NEW p \in {"deps", "failed"},
             stack' = [stack EXCEPT ![t] = MoveTo(stack[t], p)]
      PROVE  ZInv'
  <2>1. p \in Positions
    BY DEF Positions
  <2>2. TopChanged(stack[t], MoveTo(stack[t], p)) /\ MoveTo(stack[t], p)[Len(stack[t])].at = p
    BY <1>1, <1>4, <2>1, MoveFacts
  <2>3. Unread(MoveTo(stack[t], p))
    BY <1>1, <1>4, <2>2, UnreadMoved DEF ZInv
  <2> QED BY <1>2, <1>4, <2>3
<1>5. ASSUME NEW t \in Thread, stack[t] # <<>>, NEW ok \in BOOLEAN, Return(t, ok) PROVE ZInv'
  <2>1. Unread(After(stack[t], ok))
    BY <1>1, <1>5, UnreadPopped DEF ZInv
  <2>2. stack' = [stack EXCEPT ![t] = After(stack[t], ok)]
    BY <1>5 DEF Return, After
  <2> QED BY <1>2, <2>1, <2>2
<1>6. CASE UNCHANGED vars
  BY <1>3, <1>6 DEF vars
<1>7. ASSUME NEW t \in Thread, NEW c \in Class, Resolve(t, c) PROVE ZInv'
  <2>1. PICK r : r = <<[cls |-> c, at |-> "lock", done |-> 0]>>
    OBVIOUS
  <2>2. Unread(r)
    BY <2>1 DEF Unread
  <2>3. stack' = [stack EXCEPT ![t] = r] \/ UNCHANGED stack
    BY <1>7, <2>1 DEF Resolve
  <2> QED BY <1>2, <1>3, <2>2, <2>3
<1>8. ASSUME NEW t \in Thread, Lock(t) PROVE ZInv'
  <2>1. stack[t] # <<>> /\ Last(stack[t]).at = "lock"
    BY <1>8 DEF Lock, At
  <2>2. /\ stack[t][Len(stack[t])].at = "lock" /\ Len(stack[t]) \in Nat \ {0}
    BY <1>1, <2>1, FrontFacts
  <2>3. Len(stack[t]) \in 1..Len(stack[t])
    BY <2>2
  <2>4. stack[t][Len(stack[t])].done = 0
    BY <2>2, <2>3 DEF ZInv, Unread
  <2>5. TopChanged(stack[t], MoveTo(stack[t], "read")) /\ MoveTo(stack[t], "read")[Len(stack[t])].done = 0
    <3>1. "read" \in Positions
      BY DEF Positions
    <3> QED BY <1>1, <2>1, <2>4, <3>1, MoveFacts
  <2>6. Unread(MoveTo(stack[t], "read"))
    BY <1>1, <2>1, <2>5, UnreadMoved DEF ZInv
  <2>7. Unread(<<>>)
    <3>1. Len(<<>>) = 0
      OBVIOUS
    <3> QED BY <3>1 DEF Unread
  <2>8. stack' = [stack EXCEPT ![t] = <<>>] \/ stack' = [stack EXCEPT ![t] = MoveTo(stack[t], "read")]
    BY <1>8 DEF Lock
  <2> QED BY <1>2, <2>6, <2>7, <2>8
<1>9. ASSUME NEW t \in Thread, Register(t) PROVE ZInv'
  <2>1. stack[t] # <<>>
    BY <1>9 DEF Register, At
  <2>2. Return(t, FALSE) \/ stack' = [stack EXCEPT ![t] = MoveTo(stack[t], "deps")]
    BY <1>9 DEF Register
  <2> QED BY <1>4, <1>5, <2>1, <2>2
<1>10. ASSUME NEW t \in Thread, Depend(t) PROVE ZInv'
  <2>1. At(t, "deps") /\ stack[t] # <<>>
    BY <1>10 DEF Depend, At
  <2>2. stack[t][Len(stack[t])].at = "deps" /\ Last(stack[t]) \in Frame
    BY <2>1, Loader
  <2>3. PICK i \in Nat : i = Last(stack[t]).done + 1
    BY <2>2 DEF Frame
  <2>3a. PICK d : d = Deps(Current(t))[i]
    OBVIOUS
  <2>4. CASE status[d] # "absent"
    <3>1. stack' = [stack EXCEPT ![t] = WithDone(stack[t], i)]
      BY <1>1, <1>10, <2>3, <2>3a, <2>4 DEF Depend, WithDone
    <3>2. /\ TopChanged(stack[t], WithDone(stack[t], i))
          /\ WithDone(stack[t], i)[Len(stack[t])].at = "deps"
      BY <1>1, <2>1, <2>2, DoneFacts
    <3>3. Unread(WithDone(stack[t], i))
      BY <1>1, <2>1, <3>2, UnreadMoved DEF ZInv
    <3> QED BY <1>2, <3>1, <3>3
  <2>5. CASE status[d] = "absent"
    <3>1. PICK f, r : f = [cls |-> d, at |-> "read", done |-> 0] /\ r = Append(stack[t], f)
      OBVIOUS
    <3>2. stack' = [stack EXCEPT ![t] = r]
      BY <1>10, <2>3, <2>3a, <2>5, <3>1 DEF Depend, Call
    <3>3. d \in Class
      <4>1. i \in 1..Len(Deps(Current(t))) /\ Current(t) \in Class
        <5>1. Current(t) \in Class /\ i <= Len(Deps(Current(t)))
          BY <1>10, <2>1, <2>3, <2>3a, Loader DEF Depend
        <5>2. i > 0
          BY <2>2, <2>3, <2>3a DEF Frame
        <5> QED BY <5>1, <5>2, DepsFacts
      <4> QED BY <2>3, <2>3a, <4>1, DepsFacts
    <3>4. f \in Frame /\ f.done = 0
      BY <3>1, <3>3 DEF Frame, Positions
    <3>5. PICK n \in Nat : n = Len(stack[t])
      BY <1>1, LenProperties
    <3>6. Len(r) = n + 1 /\ r[n + 1] = f /\ \A k \in 1..n : r[k] = stack[t][k]
      BY <1>1, <3>1, <3>4, <3>5, AppendFacts
    <3>7. \A j \in 1..(n + 1) : j \in 1..n \/ j = n + 1
      OBVIOUS
    <3>8. Unread(r)
      BY <3>4, <3>5, <3>6, <3>7 DEF ZInv, Unread
    <3> QED BY <1>2, <3>2, <3>8
  <2> QED BY <2>4, <2>5
<1>11. ASSUME NEW t \in Thread, Link(t) PROVE ZInv'
  <2>1. stack[t] # <<>>
    BY <1>11 DEF Link, At
  <2>2. Return(t, TRUE) \/ stack' = [stack EXCEPT ![t] = MoveTo(stack[t], "failed")]
    BY <1>11 DEF Link
  <2> QED BY <1>4, <1>5, <2>1, <2>2
<1>12. ASSUME NEW t \in Thread, Fail(t) PROVE ZInv'
  BY <1>5, <1>12 DEF Fail, At
<1>13. CASE Next
  <2>1. PICK t \in Thread :
          \/ \E c \in Class : Resolve(t, c) \/ Initialize(t, c)
          \/ Lock(t) \/ Register(t) \/ Depend(t) \/ Link(t) \/ Fail(t)
    BY <1>13 DEF Next, Load
  <2>2. ASSUME NEW c \in Class, Initialize(t, c) PROVE ZInv'
    BY <1>3, <2>2 DEF Initialize
  <2> QED BY <1>7, <1>8, <1>9, <1>10, <1>11, <1>12, <2>1, <2>2
<1> QED BY <1>6, <1>13

LEMMA ZInvAlways == Spec => []ZInv
<1>1. Init => ZInv
  <2>1. Len(<<>>) = 0
    OBVIOUS
  <2> QED BY <2>1 DEF Init, ZInv, Unread
<1> QED BY <1>1, GInvAlways, ZInvNext, PTL DEF Spec

(* What DInv says of the thread that takes a step of loadLocked.            *)
LEMMA LoaderD ==
  ASSUME DInv, NEW t \in Thread, NEW p \in {"read", "deps", "failed"}, At(t, p)
  PROVE  /\ Chained(stack[t]) /\ FitsAll(stack[t], status, super, ifaces)
         /\ p = "deps" => Fits(Current(t), Last(stack[t]).done, status, super, ifaces)
<1>1. /\ lmu = t /\ stack[t] # <<>> /\ stack[t] \in Seq(Frame)
      /\ stack[t][Len(stack[t])].at = p
      /\ Current(t) = stack[t][Len(stack[t])].cls /\ Last(stack[t]) = stack[t][Len(stack[t])]
  BY Loader DEF DInv
<1>2. Chained(stack[t]) /\ FitsAll(stack[t], status, super, ifaces)
  BY <1>1, ThreadAssumption DEF DInv
<1>3. Len(stack[t]) \in 1..Len(stack[t])
  BY <1>1, FrontFacts
<1>4. p = "deps" => Fits(Current(t), Last(stack[t]).done, status, super, ifaces)
  BY <1>1, <1>2, <1>3 DEF FitsAll
<1> QED BY <1>2, <1>4

LEMMA RegisterDInv == ASSUME DInv, ZInv, GInv', NEW t \in Thread, Register(t) PROVE DInv'
<1>1. At(t, "read")
  BY DEF Register
<1>2. /\ lmu = t /\ HeldBy(stack[t], cycle, status) /\ stack[t] \in Seq(Frame)
      /\ stack[t] # <<>> /\ Current(t) = stack[t][Len(stack[t])].cls /\ Current(t) \in Class
      /\ status[Current(t)] = "absent" /\ stack[t][Len(stack[t])].at = "read"
  BY <1>1, Loader DEF DInv
<1>3. /\ status \in [Class -> {"absent", "placed", "linked"}]
      /\ super \in [Class -> Class \cup {NoClass}] /\ ifaces \in [Class -> SUBSET Class]
      /\ stack \in [Thread -> Seq(Frame)]
  BY DEF DInv, GInv, Types
<1>4. CASE Current(t) \in Bad
  <2>1. Return(t, FALSE) /\ UNCHANGED <<status, super, ifaces>>
    BY <1>4 DEF Register, record
  <2>2. OnlyAt(Current(t), status, super, ifaces, status', super', ifaces')
    BY <1>2, <2>1 DEF OnlyAt
  <2>3. Closure(status', super', ifaces')
    BY <2>1 DEF DInv
  <2> QED BY <1>1, <2>1, <2>2, <2>3, ReturnDInv
<1>5. CASE Current(t) \notin Bad
  <2>1. PICK c \in Class : c = Current(t)
    BY <1>2
  <2>1a. PICK r : r = MoveTo(stack[t], "deps")
    OBVIOUS
  <2>2. /\ status' = [status EXCEPT ![c] = "placed"]
        /\ super' = [super EXCEPT ![c] = NoClass]
        /\ ifaces' = [ifaces EXCEPT ![c] = {}]
        /\ stack' = [stack EXCEPT ![t] = r] /\ UNCHANGED lmu
    BY <1>2, <1>5, <2>1, <2>1a DEF Register
  <2>3. /\ OnlyAt(c, status, super, ifaces, status', super', ifaces')
        /\ status'[c] = "placed" /\ super'[c] = NoClass /\ ifaces'[c] = {}
    BY <1>2, <1>3, <2>1, <2>1a, <2>2 DEF OnlyAt
  <2>4. TopChanged(stack[t], r) /\ r[Len(stack[t])].done = 0
    <3>1. "deps" \in Positions
      BY DEF Positions
    <3>2. TopChanged(stack[t], r) /\ r[Len(stack[t])].done = stack[t][Len(stack[t])].done
      BY <1>2, <2>1, <2>1a, <3>1, MoveFacts
    <3>3. Len(stack[t]) \in 1..Len(stack[t])
      BY <1>2, FrontFacts
    <3>4. stack[t][Len(stack[t])].done = 0
      BY <1>2, <3>3 DEF ZInv, Unread
    <3> QED BY <3>2, <3>4
  <2>5. Fits(c, 0, status', super', ifaces')
    <3>1. Taken(c, 0) = {} /\ Len(Deps(c)) \in Nat
      BY TakenFacts, DepsFacts
    <3>2. 0 \in 0..Len(Deps(c)) /\ 1..0 = {}
      BY <3>1
    <3> QED BY <2>3, <3>1, <3>2 DEF Fits
  <2>6. Chained(r) /\ FitsAll(r, status', super', ifaces')
    <3>1. Chained(stack[t]) /\ FitsAll(stack[t], status, super, ifaces)
      BY <1>1, LoaderD
    <3>2. c = stack[t][Len(stack[t])].cls
      BY <1>2, <2>1, <2>1a
    <3> QED BY <1>2, <2>3, <2>4, <2>5, <3>1, <3>2, TopChained
  <2>7. stack'[t] = r /\ lmu' = t
    BY <1>2, <1>3, <2>2
  <2> QED BY <1>2, <2>3, <2>6, <2>7, InsideDInv
<1> QED BY <1>4, <1>5

LEMMA FailDInv == ASSUME DInv, GInv', NEW t \in Thread, Fail(t) PROVE DInv'
<1>1. /\ At(t, "failed") /\ Return(t, FALSE) /\ UNCHANGED <<super, ifaces>>
      /\ status' = [status EXCEPT ![Current(t)] = "absent"]
  BY DEF Fail, record
<1>2. Current(t) \in Class /\ status[Current(t)] = "placed"
  BY <1>1, Loader DEF DInv
<1>3. /\ OnlyAt(Current(t), status, super, ifaces, status', super', ifaces')
      /\ status'[Current(t)] # "linked"
  BY <1>1, <1>2 DEF OnlyAt, DInv, GInv, Types
<1>4. Closure(status', super', ifaces')
  BY <1>2, <1>3, ClosureKept DEF DInv
<1> QED BY <1>1, <1>3, <1>4, ReturnDInv

LEMMA DependDInv ==
  ASSUME Acyclic, DInv, GInv', NEW t \in Thread, Depend(t) PROVE DInv'
<1>1. At(t, "deps")
  BY DEF Depend
<1>2. /\ lmu = t /\ HeldBy(stack[t], cycle, status) /\ stack[t] \in Seq(Frame)
      /\ stack[t] # <<>> /\ Current(t) = stack[t][Len(stack[t])].cls /\ Current(t) \in Class
      /\ stack[t][Len(stack[t])].at = "deps" /\ Last(stack[t]) = stack[t][Len(stack[t])]
      /\ status[Current(t)] = "placed"
  BY <1>1, Loader DEF DInv
<1>3. /\ super \in [Class -> Class \cup {NoClass}] /\ ifaces \in [Class -> SUBSET Class]
      /\ stack \in [Thread -> Seq(Frame)]
  BY DEF DInv, GInv, Types
<1>4. /\ Chained(stack[t]) /\ FitsAll(stack[t], status, super, ifaces)
      /\ Fits(Current(t), Last(stack[t]).done, status, super, ifaces)
  BY <1>1, LoaderD
<1>5. PICK c \in Class : c = Current(t)
  BY <1>2
<1>6. PICK k \in Nat : k = Last(stack[t]).done
  BY <1>4, DepsFacts DEF Fits
<1>7. /\ k + 1 <= Len(Deps(c)) /\ Len(Deps(c)) \in Nat /\ k + 1 \in 1..Len(Deps(c))
  <2>1. Last(stack[t]).done + 1 <= Len(Deps(Current(t)))
    BY DEF Depend
  <2>2. Len(Deps(c)) \in Nat
    BY DepsFacts
  <2> QED BY <1>5, <1>6, <2>1, <2>2
<1>8. PICK d \in Class : d = Deps(c)[k + 1] /\ d \in Range(Deps(c))
  BY <1>7, DepsFacts
<1>9. CASE status[d] # "absent"
  <2>1. status[d] = "linked"
    BY <1>1, <1>5, <1>8, <1>9, TakenIsLinked
  <2>2. PICK r : r = WithDone(stack[t], k + 1)
    OBVIOUS
  <2>3. /\ stack' = [stack EXCEPT ![t] = r] /\ UNCHANGED <<lmu, status>>
        /\ k = 0 /\ Super[c] # NoClass =>
             super' = [super EXCEPT ![c] = d] /\ UNCHANGED ifaces
        /\ ~(k = 0 /\ Super[c] # NoClass) =>
             ifaces' = [ifaces EXCEPT ![c] = @ \cup {d}] /\ UNCHANGED super
    <3>1. k + 1 = 1 <=> k = 0
      OBVIOUS
    <3> QED BY <1>3, <1>5, <1>6, <1>8, <1>9, <2>2, <3>1 DEF Depend, WithDone
  <2>4. OnlyAt(c, status, super, ifaces, status', super', ifaces') /\ status'[c] # "linked"
    BY <1>2, <1>3, <1>5, <2>3 DEF OnlyAt
  <2>5. Fits(c, k + 1, status', super', ifaces')
    <3>1. Fits(c, k, status, super, ifaces)
      BY <1>4, <1>5, <1>6
    <3>2. \A j \in 1..(k + 1) : status'[Deps(c)[j]] = "linked"
      <4>1. \A j \in 1..(k + 1) : j \in 1..k \/ j = k + 1
        OBVIOUS
      <4> QED BY <1>8, <2>1, <2>3, <3>1, <4>1 DEF Fits
    <3>3. super'[c] = Super[c] /\ ifaces'[c] = Taken(c, k + 1)
      <4>1. CASE k = 0 /\ Super[c] # NoClass
        <5>1. d = Super[c] /\ Taken(c, k + 1) = {} /\ Taken(c, k) = {}
          BY <1>8, <4>1, DepsFacts, TakenFacts
        <5> QED BY <1>3, <2>3, <3>1, <4>1, <5>1 DEF Fits
      <4>2. CASE ~(k = 0 /\ Super[c] # NoClass)
        <5>1. Taken(c, k + 1) = Taken(c, k) \cup {d}
          <6>1. Super[c] = NoClass \/ k > 0
            BY <4>2
          <6> QED BY <1>8, <6>1, TakenFacts
        <5> QED BY <1>3, <2>3, <3>1, <4>2, <5>1 DEF Fits
      <4> QED BY <4>1, <4>2
    <3>4. k + 1 \in 0..Len(Deps(c)) /\ k + 1 # 0
      BY <1>7
    <3> QED BY <3>2, <3>3, <3>4 DEF Fits
  <2>6. TopChanged(stack[t], r) /\ r[Len(stack[t])].done = k + 1
    BY <1>2, <2>2, DoneFacts
  <2>7. Chained(r) /\ FitsAll(r, status', super', ifaces')
    <3>1. c = stack[t][Len(stack[t])].cls
      BY <1>2, <1>5
    <3>2. /\ OnlyAt(stack[t][Len(stack[t])].cls, status, super, ifaces, status', super', ifaces')
          /\ Fits(stack[t][Len(stack[t])].cls, r[Len(stack[t])].done, status', super', ifaces')
      BY <2>4, <2>5, <2>6, <3>1
    <3> QED BY <1>2, <1>4, <2>6, <3>2, TopChained
  <2>8. stack'[t] = r /\ lmu' = t
    BY <1>2, <1>3, <2>3
  <2> QED BY <1>2, <2>4, <2>7, <2>8, InsideDInv
<1>10. CASE status[d] = "absent"
  <2>1. stack' = [stack EXCEPT ![t] = Call(stack[t], d)] /\ UNCHANGED <<lmu, status, super, ifaces>>
    BY <1>5, <1>6, <1>8, <1>10 DEF Depend
  <2>2. Chained(Call(stack[t], d)) /\ FitsAll(Call(stack[t], d), status', super', ifaces')
    <3>1. d \in Range(Deps(stack[t][Len(stack[t])].cls))
      BY <1>2, <1>5, <1>8
    <3>2. Chained(Call(stack[t], d)) /\ FitsAll(Call(stack[t], d), status, super, ifaces)
      BY <1>2, <1>4, <3>1, CallChained
    <3> QED BY <2>1, <3>2
  <2>3. OnlyAt(c, status, super, ifaces, status', super', ifaces') /\ status'[c] # "linked"
    BY <1>2, <1>5, <2>1 DEF OnlyAt
  <2>4. stack'[t] = Call(stack[t], d) /\ lmu' = t
    BY <1>2, <1>3, <2>1
  <2> QED BY <1>2, <2>2, <2>3, <2>4, InsideDInv
<1> QED BY <1>9, <1>10

(* At the end of its dependencies a class has its pointers, and all it      *)
(* needs is linked.                                                         *)
LEMMA ReadyFacts ==
  ASSUME NEW reg, NEW up, NEW across, Closure(reg, up, across), NEW c \in Class,
         Fits(c, Len(Deps(c)), reg, up, across)
  PROVE  /\ up[c] = Super[c] /\ across[c] = Named[c]
         /\ \A x \in Files[c] \ {c} : reg[x] = "linked"
<1>1. up[c] = Super[c]
  <2>1. Len(Deps(c)) = 0 => Super[c] = NoClass
    <3>1. Super[c] # NoClass => Len(Deps(c)) = Len(Ifaces[c]) + 1 /\ Ifaces[c] \in Seq(Class)
      BY DepsFacts
    <3> QED BY <3>1, LenProperties
  <2> QED BY <2>1 DEF Fits
<1>2. across[c] = Named[c]
  BY TakenFacts DEF Fits
<1>3. ASSUME NEW x \in Files[c], x # c PROVE reg[x] = "linked"
  <2>1. PICK d \in Range(Deps(c)) : x \in Files[d]
    BY <1>3, FilesFacts
  <2>2. PICK j \in 1..Len(Deps(c)) : d = Deps(c)[j]
    <3>1. Deps(c) \in Seq(Class)
      BY DepsFacts
    <3>2. DOMAIN Deps(c) = 1..Len(Deps(c))
      BY <3>1, LenProperties
    <3> QED BY <2>1, <3>2 DEF Range
  <2>3. d \in Class /\ reg[d] = "linked"
    BY <2>1, <2>2, NamedFacts DEF Fits
  <2> QED BY <2>1, <2>3 DEF Closure
<1> QED BY <1>1, <1>2, <1>3

LEMMA LinkDInv == ASSUME DInv, GInv', NEW t \in Thread, Link(t) PROVE DInv'
<1>1. At(t, "deps")
  BY DEF Link
<1>2. /\ lmu = t /\ HeldBy(stack[t], cycle, status) /\ stack[t] \in Seq(Frame)
      /\ stack[t] # <<>> /\ Current(t) = stack[t][Len(stack[t])].cls /\ Current(t) \in Class
      /\ stack[t][Len(stack[t])].at = "deps" /\ Last(stack[t]) = stack[t][Len(stack[t])]
      /\ status[Current(t)] = "placed"
  BY <1>1, Loader DEF DInv
<1>3. /\ status \in [Class -> {"absent", "placed", "linked"}] /\ stack \in [Thread -> Seq(Frame)]
  BY DEF DInv, GInv, Types
<1>4. /\ Chained(stack[t]) /\ FitsAll(stack[t], status, super, ifaces)
      /\ Fits(Current(t), Last(stack[t]).done, status, super, ifaces)
  BY <1>1, LoaderD
<1>5. PICK c \in Class : c = Current(t)
  BY <1>2
<1>6. UNCHANGED <<super, ifaces>> /\ Last(stack[t]).done = Len(Deps(c))
  BY <1>5 DEF Link
<1>7. CASE Passes(Current(t))
  <2>1. Return(t, TRUE) /\ status' = [status EXCEPT ![c] = "linked"]
    BY <1>5, <1>7 DEF Link
  <2>2. OnlyAt(c, status, super, ifaces, status', super', ifaces') /\ status'[c] = "linked"
    BY <1>2, <1>3, <1>5, <1>6, <2>1 DEF OnlyAt
  <2>3. /\ super[c] = Super[c] /\ ifaces[c] = Named[c]
        /\ \A x \in Files[c] \ {c} : status[x] = "linked"
    BY <1>4, <1>5, <1>6, ReadyFacts DEF DInv
  <2>4. \A x \in Class : status[x] = "linked" => status'[x] = "linked"
    BY <2>2 DEF OnlyAt
  <2>5. ASSUME NEW x \in Class, status'[x] = "linked"
        PROVE  /\ super'[x] = Super[x] /\ ifaces'[x] = Named[x]
               /\ \A d \in Files[x] : status'[d] = "linked"
    <3>1. CASE x = c
      BY <1>6, <2>2, <2>3, <2>4, <3>1, FilesFacts
    <3>2. CASE x # c
      <4>1. status[x] = "linked"
        BY <2>2, <2>5, <3>2 DEF OnlyAt
      <4> QED BY <1>6, <2>4, <4>1, FilesFacts DEF DInv, Closure
    <3> QED BY <3>1, <3>2
  <2>6. Closure(status', super', ifaces')
    BY <2>5 DEF Closure
  <2> QED BY <1>1, <1>5, <2>1, <2>2, <2>6, ReturnDInv
<1>8. CASE ~Passes(Current(t))
  <2>1. PICK r : r = MoveTo(stack[t], "failed")
    OBVIOUS
  <2>2. stack' = [stack EXCEPT ![t] = r] /\ UNCHANGED <<lmu, status>>
    BY <1>8, <2>1 DEF Link
  <2>3. TopChanged(stack[t], r) /\ r[Len(stack[t])].at = "failed"
    <3>1. "failed" \in Positions
      BY DEF Positions
    <3> QED BY <1>2, <2>1, <3>1, MoveFacts
  <2>4. OnlyAt(c, status, super, ifaces, status', super', ifaces') /\ status'[c] # "linked"
    BY <1>2, <1>5, <1>6, <2>2 DEF OnlyAt
  <2>5. Chained(r) /\ FitsAll(r, status', super', ifaces')
    <3>1. c = stack[t][Len(stack[t])].cls
      BY <1>2, <1>5
    <3> QED BY <1>2, <1>4, <2>3, <2>4, <3>1, TopChained
  <2>6. stack'[t] = r /\ lmu' = t
    BY <1>2, <1>3, <2>2
  <2> QED BY <1>2, <2>4, <2>5, <2>6, InsideDInv
<1> QED BY <1>7, <1>8

LEMMA LockDInv == ASSUME DInv, GInv', NEW t \in Thread, Lock(t) PROVE DInv'
<1>1. UNCHANGED <<status, super, ifaces>> /\ lmu = NoThread
  BY DEF Lock, record
<1>2. lmu' # NoThread => Chained(stack'[lmu']) /\ FitsAll(stack'[lmu'], status', super', ifaces')
  <2>1. SUFFICES ASSUME lmu' # NoThread
                 PROVE  Chained(stack'[lmu']) /\ FitsAll(stack'[lmu'], status', super', ifaces')
    OBVIOUS
  <2>2. PICK r : r = MoveTo(stack[t], "read")
    OBVIOUS
  <2>3. lmu' = t /\ stack' = [stack EXCEPT ![t] = r]
    BY <1>1, <2>1, <2>2 DEF Lock
  <2>4. /\ stack[t] \in Seq(Frame) /\ stack[t] # <<>> /\ Len(stack[t]) = 1
        /\ stack \in [Thread -> Seq(Frame)]
    BY <1>1, ThreadAssumption DEF Lock, At, DInv, GInv, Types, Queues
  <2>5. Len(r) = 1 /\ r[1].at = "read"
    <3>1. "read" \in Positions
      BY DEF Positions
    <3>2. TopChanged(stack[t], r) /\ r[Len(stack[t])].at = "read"
      BY <2>2, <2>4, <3>1, MoveFacts
    <3> QED BY <2>4, <3>2 DEF TopChanged
  <2>6. \A i, j \in 1..1 : i = 1 /\ ~(i < j)
    OBVIOUS
  <2>7. Chained(r) /\ FitsAll(r, status', super', ifaces')
    BY <2>5, <2>6 DEF Chained, FitsAll
  <2>8. stack'[lmu'] = r
    BY <2>3, <2>4
  <2> QED BY <2>7, <2>8
<1> QED BY <1>1, <1>2 DEF DInv, Closure, Chained, FitsAll, Fits

LEMMA ResolveDInv == ASSUME DInv, GInv', NEW t \in Thread, NEW c \in Class, Resolve(t, c) PROVE DInv'
<1>1. UNCHANGED <<lmu, status, super, ifaces>> /\ stack[t] = <<>>
  BY DEF Resolve, record
<1>2. lmu # t
  <2>1. lmu = t => HeldBy(stack[t], cycle, status)
    BY ThreadAssumption DEF DInv, GInv
  <2> QED BY <1>1, <2>1 DEF HeldBy
<1>3. lmu # NoThread => stack'[lmu] = stack[lmu]
  BY <1>2 DEF Resolve, DInv, GInv, Types
<1>4. lmu' # NoThread => Chained(stack'[lmu']) /\ FitsAll(stack'[lmu'], status', super', ifaces')
  BY <1>1, <1>3 DEF DInv
<1> QED BY <1>1, <1>4 DEF DInv, Closure, Chained, FitsAll, Fits

LEMMA DInvNext ==
  ASSUME Acyclic PROVE DInv /\ ZInv /\ [Next]_vars => DInv'
<1> SUFFICES ASSUME DInv, ZInv, [Next]_vars PROVE DInv'
  OBVIOUS
<1>1. GInv'
  BY GInvNext DEF DInv
<1>2. ASSUME UNCHANGED <<lmu, status, super, ifaces, stack>> PROVE DInv'
  BY <1>1, <1>2 DEF DInv, Closure, Chained, FitsAll, Fits
<1>3. CASE UNCHANGED vars
  BY <1>2, <1>3 DEF vars, record
<1>4. CASE Next
  <2>1. PICK t \in Thread :
          \/ \E c \in Class : Resolve(t, c) \/ Initialize(t, c)
          \/ Lock(t) \/ Register(t) \/ Depend(t) \/ Link(t) \/ Fail(t)
    BY <1>4 DEF Next, Load
  <2>2. ASSUME NEW c \in Class, Initialize(t, c) PROVE DInv'
    BY <1>2, <2>2 DEF Initialize, record
  <2> QED BY <1>1, <2>1, <2>2, ResolveDInv, LockDInv, RegisterDInv, DependDInv, LinkDInv, FailDInv
<1> QED BY <1>3, <1>4

LEMMA DInvInit == Init => DInv
<1> SUFFICES ASSUME Init PROVE DInv
  OBVIOUS
<1>1. /\ status = [c \in Class |-> IF c \in Synth THEN "linked" ELSE "absent"]
      /\ super = [c \in Class |-> IF c \in Synth THEN Super[c] ELSE NoClass]
      /\ ifaces = [c \in Class |-> {}] /\ lmu = NoThread
  BY DEF Init
<1>2. \A c \in Synth : c \in Class /\ Super[c] \in Synth \cup {NoClass} /\ Named[c] = {}
  <2>1. Range(<<>>) = {}
    BY DEF Range
  <2> QED BY <2>1, SynthAssumption, NamedFacts
<1>3. ClosedUp(Synth, Super, Named)
  BY <1>2 DEF ClosedUp
<1>4. \A c \in Synth : Files[c] \subseteq Synth
  <2>1. Synth \in SUBSET Class
    BY SynthAssumption
  <2> QED BY <1>2, <1>3, <2>1, FilesFacts, UpwardFacts, NamedFacts
<1>5. ASSUME NEW c \in Class, status[c] = "linked"
      PROVE  /\ super[c] = Super[c] /\ ifaces[c] = Named[c]
             /\ \A d \in Files[c] : status[d] = "linked"
  <2>1. c \in Synth
    BY <1>1, <1>5
  <2> QED BY <1>1, <1>2, <1>4, <2>1
<1>6. Closure(status, super, ifaces)
  BY <1>5 DEF Closure
<1> QED BY <1>1, <1>6, GInvInit DEF DInv

LEMMA DInvAlways == ASSUME Acyclic PROVE Spec => []DInv
<1>1. DInv /\ ZInv /\ [Next]_vars => DInv'
  BY DInvNext
<1> QED BY <1>1, DInvInit, ZInvAlways, PTL DEF Spec

(* A linked class has the superclass and the interfaces its file names, and *)
(* all it needs is linked, through every failure and every race of loads    *)
(* (loadLocked links a class after the classes it names, loader.go), when   *)
(* no file needs itself.                                                    *)
THEOREM ClosureCorrect == ASSUME Acyclic PROVE Spec => []LinkedClosed
<1>1. DInv => LinkedClosed
  BY NamedFacts DEF DInv, Closure, LinkedClosed
<1> QED BY <1>1, DInvAlways, PTL

(***************************************************************************)
(* Errors: what fails needs a file that is missing or broken.              *)
(***************************************************************************)
Broken(c) == Files[c] \cap (Bad \cup Garbled) # {}
FailedFor(s) == \A i \in 1..Len(s) : s[i].at = "failed" => Broken(s[i].cls)
EInv == /\ lmu # NoThread => FailedFor(stack[lmu])
        /\ \A t \in Thread : got[t].ok \/ Broken(got[t].cls)

(* The pointers of a class and of all it needs being complete, the verifier *)
(* sees all it needs.                                                       *)
LEMMA Seen ==
  ASSUME Types, NEW c \in Class,
         \A x \in Files[c] : super[x] = Super[x] /\ ifaces[x] = Named[x]
  PROVE  Upward(c, super, ifaces) = Files[c]
<1>1. Files[c] = Upward(c, Super, Named)
  BY FilesFacts
<1>2. /\ super \in [Class -> Class \cup {NoClass}] /\ ifaces \in [Class -> SUBSET Class]
      /\ Super \in [Class -> Class \cup {NoClass}] /\ Named \in [Class -> SUBSET Class]
  BY NamedFacts DEF Types
<1>3. \A x \in Upward(c, Super, Named) : super[x] = Super[x] /\ ifaces[x] = Named[x]
  BY <1>1
<1> QED BY <1>1, <1>2, <1>3, UpwardAgree

LEMMA VerificationPasses ==
  ASSUME AsksSound, DInv, NEW t \in Thread, At(t, "deps"),
         Last(stack[t]).done = Len(Deps(Current(t)))
  PROVE  \A p \in Asks[Current(t)] : Accepts(p[1], p[2])
<1>1. /\ lmu = t /\ HeldBy(stack[t], cycle, status) /\ stack[t] \in Seq(Frame)
      /\ stack[t] # <<>> /\ Current(t) = stack[t][Len(stack[t])].cls /\ Current(t) \in Class
  BY Loader DEF DInv
<1>2. Chained(stack[t]) /\ Fits(Current(t), Last(stack[t]).done, status, super, ifaces)
  BY LoaderD
<1>3. PICK c \in Class : c = Current(t)
  BY <1>1
<1>4. /\ Types /\ status \in [Class -> {"absent", "placed", "linked"}]
      /\ Closure(status, super, ifaces)
  BY DEF DInv, GInv, Types
<1>5. /\ super[c] = Super[c] /\ ifaces[c] = Named[c]
      /\ \A x \in Files[c] \ {c} : status[x] = "linked"
  BY <1>2, <1>3, <1>4, ReadyFacts
<1>6. \A x \in Class : status[x] = "linked" => super[x] = Super[x] /\ ifaces[x] = Named[x]
  BY <1>4 DEF Closure
<1>7. SUFFICES ASSUME NEW p \in Asks[c] PROVE Accepts(p[1], p[2])
  BY <1>3
<1>8. /\ p[1] \in Class /\ p[2] \in Files[p[1]]
      /\ p[1] = c \/ c \notin Files[p[1]]
  BY <1>7 DEF AsksSound
<1>9. PICK x \in Class : x = p[1]
  BY <1>8
<1>10. CASE status[x] = "absent"
  BY <1>9, <1>10 DEF Accepts
<1>11. CASE status[x] = "linked"
  <2>1. \A z \in Files[x] : z \in Class /\ status[z] = "linked"
    BY <1>4, <1>11, FilesFacts DEF Closure
  <2>2. Upward(x, super, ifaces) = Files[x]
    BY <1>4, <1>6, <2>1, Seen
  <2> QED BY <1>8, <1>9, <2>2 DEF Accepts
<1>12. CASE status[x] = "placed"
  <2>1. PICK n \in Nat \ {0} : n = Len(stack[t])
    BY <1>1, FrontFacts
  <2>2. PICK i \in 1..n : stack[t][i].cls = x
    BY <1>1, <1>12, <2>1 DEF HeldBy
  <2>3. x = c
    <3>1. CASE i = n
      BY <1>1, <1>3, <2>1, <2>2, <3>1
    <3>2. CASE i # n
      <4>1. i < n /\ n \in 1..n
        BY <3>2
      <4>2. c \in Files[x]
        BY <1>1, <1>2, <1>3, <2>1, <2>2, <4>1 DEF Chained
      <4> QED BY <1>8, <1>9, <4>2
    <3> QED BY <3>1, <3>2
  <2>4. \A z \in Files[c] : super[z] = Super[z] /\ ifaces[z] = Named[z]
    <3>1. Files[c] \subseteq Class
      BY FilesFacts
    <3> QED BY <1>5, <1>6, <3>1
  <2>5. Upward(c, super, ifaces) = Files[c]
    BY <1>4, <2>4, Seen
  <2> QED BY <1>8, <1>9, <2>3, <2>5 DEF Accepts
<1> QED BY <1>4, <1>10, <1>11, <1>12

LEMMA ReturnEInv ==
  ASSUME DInv, EInv, NEW t \in Thread, NEW p \in {"read", "deps", "failed"}, At(t, p),
         NEW ok \in BOOLEAN, Return(t, ok), ok \/ Broken(Current(t))
  PROVE  EInv'
<1>1. /\ lmu = t /\ HeldBy(stack[t], cycle, status) /\ stack[t] \in Seq(Frame)
      /\ stack[t] # <<>> /\ Current(t) = stack[t][Len(stack[t])].cls /\ Current(t) \in Class
  BY Loader DEF DInv
<1>2. Chained(stack[t])
  BY LoaderD
<1>3. PICK n \in Nat \ {0} : n = Len(stack[t])
  BY <1>1, FrontFacts
<1>4. PICK r : r = After(stack[t], ok)
  OBVIOUS
<1>5. /\ Popped(stack[t], r) /\ (r = <<>> <=> Front(stack[t]) = <<>>)
      /\ n > 1 => r[n - 1].at = IF ok THEN stack[t][n - 1].at ELSE "failed"
  BY <1>1, <1>3, <1>4, AfterFacts
<1>6. FailedFor(r)
  <2>1. ASSUME NEW i \in 1..(n - 1), r[i].at = "failed" PROVE Broken(r[i].cls)
    <3>1. stack[t][i].at = "deps" /\ r[i].cls = stack[t][i].cls
      BY <1>1, <1>3, <1>5 DEF HeldBy, Popped
    <3>2. i = n - 1 /\ n > 1
      <4>1. i \in 1..(n - 2) => r[i].at = stack[t][i].at
        BY <1>3, <1>5 DEF Popped
      <4> QED BY <2>1, <3>1, <4>1
    <3>3. ~ok
      BY <1>5, <2>1, <3>1, <3>2
    <3>4. i \in 1..n /\ n \in 1..n /\ i < n
      BY <3>2
    <3>5. stack[t][n].cls \in Files[stack[t][i].cls]
      BY <1>2, <1>3, <3>4 DEF Chained
    <3>6. stack[t][i] \in Frame
      BY <1>1, <1>3, <3>4, ElementOfSeq
    <3>7. Files[stack[t][n].cls] \subseteq Files[stack[t][i].cls]
      BY <3>5, <3>6, FilesFacts DEF Frame
    <3>8. Broken(stack[t][n].cls)
      BY <1>1, <1>3, <3>3
    <3> QED BY <3>1, <3>7, <3>8 DEF Broken
  <2>2. Len(r) = n - 1
    BY <1>3, <1>5 DEF Popped
  <2> QED BY <2>1, <2>2 DEF FailedFor
<1>7. /\ stack' = [stack EXCEPT ![t] = r] /\ (lmu' = NoThread \/ lmu' = lmu)
      /\ got' = got \/ got' = [got EXCEPT ![t] = [cls |-> Current(t), ok |-> ok]]
  BY <1>4, <1>5 DEF Return, After
<1>8. stack'[t] = r
  BY <1>7 DEF DInv, GInv, Types
<1>9. lmu' # NoThread => FailedFor(stack'[lmu'])
  BY <1>1, <1>6, <1>7, <1>8
<1>10. \A u \in Thread : got'[u].ok \/ Broken(got'[u].cls)
  <2>1. got \in [Thread -> [cls : Class \cup {NoClass}, ok : BOOLEAN]]
    BY DEF DInv, GInv, Types
  <2>2. \A u \in Thread : got[u].ok \/ Broken(got[u].cls)
    BY DEF EInv
  <2> QED BY <1>7, <2>1, <2>2
<1> QED BY <1>9, <1>10 DEF EInv, FailedFor, Broken

(* A step that returns nothing, or returns a class.                         *)
LEMMA OtherEInv ==
  ASSUME EInv, GInv', NEW t \in Thread,
         \/ lmu' = lmu /\ lmu # t /\ \A u \in Thread \ {t} : stack'[u] = stack[u]
         \/ lmu' = t /\ stack'[t][Len(stack'[t])].at # "failed",
         \A u \in Thread : got'[u] = got[u] \/ got'[u].ok
  PROVE  EInv'
<1>1. lmu' # NoThread => FailedFor(stack'[lmu'])
  <2>1. CASE lmu' = lmu /\ lmu # t /\ \A u \in Thread \ {t} : stack'[u] = stack[u]
    <3>1. lmu' # NoThread => lmu \in Thread \ {t}
      BY <2>1 DEF GInv, Types
    <3> QED BY <2>1, <3>1 DEF EInv
  <2>2. CASE lmu' = t /\ stack'[t][Len(stack'[t])].at # "failed"
    <3>1. HeldBy(stack'[t], cycle', status')
      BY <2>2, ThreadAssumption DEF GInv, HeldBy
    <3>2. PICK n \in Nat \ {0} : n = Len(stack'[t])
      BY <3>1, FrontFacts DEF HeldBy
    <3>3. \A i \in 1..n : i \in 1..(n - 1) \/ i = n
      OBVIOUS
    <3>4. \A i \in 1..n : stack'[t][i].at # "failed"
      BY <2>2, <3>1, <3>2, <3>3 DEF HeldBy
    <3> QED BY <2>2, <3>2, <3>4 DEF FailedFor
  <2> QED BY <2>1, <2>2
<1>2. \A u \in Thread : got'[u].ok \/ Broken(got'[u].cls)
  BY DEF EInv
<1> QED BY <1>1, <1>2 DEF EInv, FailedFor, Broken

LEMMA EInvNext ==
  ASSUME AsksSound PROVE DInv /\ DInv' /\ EInv /\ [Next]_vars => EInv'
<1> SUFFICES ASSUME DInv, DInv', EInv, [Next]_vars PROVE EInv'
  OBVIOUS
<1>1. /\ GInv /\ GInv'
      /\ stack \in [Thread -> Seq(Frame)] /\ \A t \in Thread : stack[t] \in Seq(Frame)
      /\ got \in [Thread -> [cls : Class \cup {NoClass}, ok : BOOLEAN]]
  BY DEF DInv, GInv, Types
<1>2. CASE UNCHANGED vars
  BY <1>2 DEF vars, EInv, FailedFor, Broken
<1>3. ASSUME NEW t \in Thread, NEW c \in Class, Resolve(t, c) PROVE EInv'
  <2>1. stack[t] = <<>> /\ lmu' = lmu
    BY <1>3 DEF Resolve
  <2>2. lmu # t
    <3>1. lmu = t => HeldBy(stack[t], cycle, status)
      BY <1>1, ThreadAssumption DEF GInv
    <3> QED BY <2>1, <3>1 DEF HeldBy
  <2>3. \A u \in Thread \ {t} : stack'[u] = stack[u]
    BY <1>1, <1>3 DEF Resolve
  <2>4. \A u \in Thread : got'[u] = got[u] \/ got'[u].ok
    BY <1>1, <1>3 DEF Resolve, Nothing
  <2> QED BY <1>1, <2>1, <2>2, <2>3, <2>4, OtherEInv
<1>4. ASSUME NEW t \in Thread, Lock(t) PROVE EInv'
  <2>1. stack[t] # <<>> /\ lmu = NoThread
    BY <1>4 DEF Lock, At
  <2>2. \A u \in Thread : got'[u] = got[u] \/ got'[u].ok
    BY <1>1, <1>4 DEF Lock
  <2>3. CASE lmu' = lmu
    <3>1. \A u \in Thread \ {t} : stack'[u] = stack[u]
      BY <1>1, <1>4 DEF Lock
    <3> QED BY <1>1, <2>1, <2>2, <2>3, <3>1, OtherEInv, ThreadAssumption
  <2>4. CASE lmu' # lmu
    <3>1. lmu' = t /\ stack'[t] = MoveTo(stack[t], "read")
      BY <1>1, <1>4, <2>4 DEF Lock
    <3>2. /\ Len(MoveTo(stack[t], "read")) = Len(stack[t])
          /\ MoveTo(stack[t], "read")[Len(stack[t])].at = "read"
      <4>1. "read" \in Positions
        BY DEF Positions
      <4> QED BY <1>1, <2>1, <4>1, MoveFacts DEF TopChanged
    <3> QED BY <1>1, <2>2, <3>1, <3>2, OtherEInv
  <2> QED BY <2>3, <2>4
<1>5. ASSUME NEW t \in Thread, Register(t) PROVE EInv'
  <2>1. At(t, "read") /\ stack[t] # <<>>
    BY <1>5 DEF Register, At
  <2>2. lmu = t /\ Current(t) \in Class /\ status[Current(t)] = "absent"
    BY <1>1, <2>1, Loader
  <2>3. CASE Current(t) \in Bad
    <3>1. Return(t, FALSE) /\ Broken(Current(t))
      BY <1>5, <2>2, <2>3, FilesFacts DEF Register, Broken
    <3> QED BY <2>1, <3>1, ReturnEInv
  <2>4. CASE Current(t) \notin Bad
    <3>1. stack' = [stack EXCEPT ![t] = MoveTo(stack[t], "deps")] /\ UNCHANGED <<lmu, got>>
      BY <1>5, <2>2, <2>4 DEF Register
    <3>2. /\ Len(MoveTo(stack[t], "deps")) = Len(stack[t])
          /\ MoveTo(stack[t], "deps")[Len(stack[t])].at = "deps"
      <4>1. "deps" \in Positions
        BY DEF Positions
      <4> QED BY <1>1, <2>1, <4>1, MoveFacts DEF TopChanged
    <3>3. stack'[t] = MoveTo(stack[t], "deps")
      BY <1>1, <3>1
    <3> QED BY <1>1, <2>2, <3>1, <3>2, <3>3, OtherEInv
  <2> QED BY <2>3, <2>4
<1>6. ASSUME NEW t \in Thread, Depend(t) PROVE EInv'
  <2>1. At(t, "deps") /\ stack[t] # <<>> /\ UNCHANGED <<lmu, got>>
    BY <1>6 DEF Depend, At
  <2>2. lmu = t /\ stack[t][Len(stack[t])].at = "deps" /\ Last(stack[t]) \in Frame
    BY <1>1, <2>1, Loader
  <2>3. PICK i \in Nat : i = Last(stack[t]).done + 1
    BY <2>2 DEF Frame
  <2>4. PICK d : d = Deps(Current(t))[i]
    OBVIOUS
  <2>5. stack'[t][Len(stack'[t])].at # "failed"
    <3>1. CASE status[d] # "absent"
      <4>1. stack'[t] = WithDone(stack[t], i)
        BY <1>1, <1>6, <2>3, <2>4, <3>1 DEF Depend, WithDone
      <4>2. /\ Len(WithDone(stack[t], i)) = Len(stack[t])
            /\ WithDone(stack[t], i)[Len(stack[t])].at = "deps"
        BY <1>1, <2>1, <2>2, DoneFacts DEF TopChanged
      <4> QED BY <4>1, <4>2
    <3>2. CASE status[d] = "absent"
      <4>1. PICK s \in Seq(Frame) : s = stack[t]
        BY <1>1
      <4>2. stack'[t] = Append(s, [cls |-> d, at |-> "read", done |-> 0])
        BY <1>1, <1>6, <2>3, <2>4, <3>2, <4>1 DEF Depend, Call
      <4>3. PICK f : f = [cls |-> d, at |-> "read", done |-> 0]
        OBVIOUS
      <4>4. Len(Append(s, f)) = Len(s) + 1 /\ Append(s, f)[Len(s) + 1] = f
        <5>1. s \in Seq(Frame \cup {f}) /\ f \in Frame \cup {f}
          <6>1. Seq(Frame) \subseteq Seq(Frame \cup {f})
            OBVIOUS
          <6> QED BY <6>1
        <5> QED BY <5>1, AppendFacts
      <4> QED BY <4>2, <4>3, <4>4
    <3> QED BY <3>1, <3>2
  <2> QED BY <1>1, <2>1, <2>2, <2>5, OtherEInv
<1>7. ASSUME NEW t \in Thread, Link(t) PROVE EInv'
  <2>1. At(t, "deps") /\ Last(stack[t]).done = Len(Deps(Current(t)))
    BY <1>7 DEF Link
  <2>2. \A p \in Asks[Current(t)] : Accepts(p[1], p[2])
    BY <2>1, VerificationPasses
  <2>3. CASE Current(t) \notin Garbled
    <3>1. Return(t, TRUE)
      BY <1>7, <2>2, <2>3 DEF Link, Passes
    <3> QED BY <2>1, <3>1, ReturnEInv
  <2>4. CASE Current(t) \in Garbled
    <3>1. PICK r : r = MoveTo(stack[t], "failed")
      OBVIOUS
    <3>2. stack' = [stack EXCEPT ![t] = r] /\ UNCHANGED <<lmu, got>>
      BY <1>7, <2>4, <3>1 DEF Link, Passes
    <3>3. /\ lmu = t /\ stack[t] # <<>> /\ HeldBy(stack[t], cycle, status)
          /\ Current(t) = stack[t][Len(stack[t])].cls /\ Current(t) \in Class
      BY <1>1, <2>1, Loader
    <3>4. TopChanged(stack[t], r)
      <4>1. "failed" \in Positions
        BY DEF Positions
      <4> QED BY <1>1, <3>1, <3>3, <4>1, MoveFacts
    <3>5. PICK n \in Nat \ {0} : n = Len(stack[t])
      BY <1>1, <3>3, FrontFacts
    <3>6. Broken(Current(t))
      BY <2>4, <3>3, FilesFacts DEF Broken
    <3>7. FailedFor(stack[t])
      BY <3>3, ThreadAssumption DEF EInv
    <3>8. FailedFor(r)
      <4>1. \A i \in 1..n : r[i].cls = stack[t][i].cls /\ (i # n => r[i].at = stack[t][i].at)
        BY <3>4, <3>5 DEF TopChanged
      <4>2. Len(r) = n
        BY <3>4, <3>5 DEF TopChanged
      <4> QED BY <3>3, <3>5, <3>6, <3>7, <4>1, <4>2 DEF FailedFor
    <3>9. stack'[t] = r
      BY <1>1, <3>2
    <3> QED BY <3>2, <3>3, <3>8, <3>9 DEF EInv, FailedFor, Broken
  <2> QED BY <2>3, <2>4
<1>8. ASSUME NEW t \in Thread, Fail(t) PROVE EInv'
  <2>1. At(t, "failed") /\ Return(t, FALSE)
    BY <1>8 DEF Fail
  <2>2. /\ lmu = t /\ stack[t] # <<>> /\ stack[t][Len(stack[t])].at = "failed"
        /\ Current(t) = stack[t][Len(stack[t])].cls
    BY <1>1, <2>1, Loader
  <2>3. Len(stack[t]) \in 1..Len(stack[t])
    BY <1>1, <2>2, FrontFacts
  <2>4. Broken(Current(t))
    BY <2>2, <2>3, ThreadAssumption DEF EInv, FailedFor
  <2> QED BY <2>1, <2>4, ReturnEInv
<1>9. ASSUME NEW t \in Thread, NEW c \in Class, Initialize(t, c) PROVE EInv'
  BY <1>9 DEF Initialize, EInv, FailedFor, Broken
<1>10. CASE Next
  <2>1. PICK t \in Thread :
          \/ \E c \in Class : Resolve(t, c) \/ Initialize(t, c)
          \/ Lock(t) \/ Register(t) \/ Depend(t) \/ Link(t) \/ Fail(t)
    BY <1>10 DEF Next, Load
  <2> QED BY <1>3, <1>4, <1>5, <1>6, <1>7, <1>8, <1>9, <2>1
<1> QED BY <1>2, <1>10

(* A load fails only for a file that is missing, broken or has a constant   *)
(* that cannot be read: the class's own, or one of those it needs.  A       *)
(* thread that loses a race for a class, or meets a class half loaded, is   *)
(* not told of an error (Load and loadLocked, loader.go), when no file      *)
(* needs itself and verification asks nothing of a class that is waiting    *)
(* for the one it verifies.                                                 *)
THEOREM ErrorsCorrect == ASSUME Acyclic, AsksSound PROVE Spec => []ErrorsJustified
<1>1. Init => EInv
  <2>1. \A t \in Thread : Init => got[t].ok
    BY DEF Init, Nothing
  <2> QED BY <2>1 DEF Init, EInv
<1>2. DInv /\ DInv' /\ EInv /\ [Next]_vars => EInv'
  BY EInvNext
<1>3. EInv => ErrorsJustified
  BY DEF EInv, Broken, ErrorsJustified
<1>4. Spec => []DInv
  BY DInvAlways
<1> QED BY <1>1, <1>2, <1>3, <1>4, PTL DEF Spec

(***************************************************************************)
(* Layout.  Numbers first: a set of them has a least one, and a property of *)
(* zero that every successor keeps is one of all.                           *)
(***************************************************************************)
LEMMA LeastNat ==
  ASSUME NEW T, T \subseteq Nat, T # {}
  PROVE  \E x \in T : \A y \in T : x <= y
<1>1. IsWellFoundedOn(OpToRel(<, Nat), Nat)
  BY NatLessThanWellFounded
<1>2. PICK x \in T : \A y \in T : ~(<<y, x>> \in OpToRel(<, Nat))
  BY <1>1, WFMin
<1>3. ASSUME NEW y \in T PROVE x <= y
  <2>1. <<y, x>> \notin OpToRel(<, Nat)
    BY <1>2
  <2>2. x \in Nat /\ y \in Nat
    OBVIOUS
  <2>3. ~(y < x)
    BY <2>1, <2>2 DEF OpToRel
  <2> QED BY <2>2, <2>3
<1> QED BY <1>3

LEMMA SetInduction ==
  ASSUME NEW T, 0 \in T, \A n \in Nat : n \in T => n + 1 \in T
  PROVE  Nat \subseteq T
<1> SUFFICES ASSUME Nat \ T # {} PROVE FALSE
  OBVIOUS
<1>1. PICK x \in Nat \ T : \A y \in Nat \ T : x <= y
  BY LeastNat
<1>2. x - 1 \in Nat
  BY <1>1
<1>3. x - 1 \in T
  BY <1>1, <1>2
<1>4. x - 1 + 1 \in T
  BY <1>2, <1>3
<1> QED BY <1>1, <1>4

(* The superclasses of a class, one after the other.                        *)
Higher(x, up) == IF x = NoClass THEN NoClass ELSE up[x]

LEMMA ClassNumber == Cardinality(Class) \in Nat
BY GraphAssumption, FS_CardinalityType

LEMMA UpFacts ==
  ASSUME NEW c \in Class, NEW up \in [Class -> Class \cup {NoClass}],
         NEW N, N = Cardinality(Class)
  PROVE  /\ Up(c, up) \in [0..N -> Class \cup {NoClass}] /\ Up(c, up)[0] = c
         /\ \A n \in 0..N : n # 0 => Up(c, up)[n] = Higher(Up(c, up)[n - 1], up)
<1> DEFINE Table(f, n) == f = [i \in 0..n |->
             IF i = 0 THEN c ELSE IF f[i - 1] = NoClass THEN NoClass ELSE up[f[i - 1]]]
           at == CHOOSE f : Table(f, N)
<1>1. N \in Nat
  BY ClassNumber
<1>2. Up(c, up) = at
  BY DEF Up
<1>3. \A n \in Nat : \E f : Table(f, n)
  <2> DEFINE T == {n \in Nat : \E f : Table(f, n)}
  <2>1. 0 \in T
    <3>1. Table([i \in 0..0 |-> c], 0)
      OBVIOUS
    <3> QED BY <3>1
  <2>2. ASSUME NEW k \in Nat, k \in T PROVE k + 1 \in T
    <3> DEFINE m == k + 1
    <3>1. m - 1 = k /\ m \in Nat /\ m # 0
      OBVIOUS
    <3>2. PICK f : Table(f, k)
      BY <2>2
    <3> HIDE DEF m
    <3> DEFINE g == [i \in 0..m |-> IF i < m THEN f[i] ELSE Higher(f[k], up)]
    <3>3. ASSUME NEW i \in 0..m
          PROVE  g[i] = IF i = 0 THEN c ELSE Higher(g[i - 1], up)
      <4>1. CASE i = m
        <5>1. m - 1 \in 0..m /\ g[m - 1] = f[k]
          BY <3>1
        <5> QED BY <3>1, <4>1, <5>1
      <4>2. CASE i # m
        <5>1. i \in 0..(m - 1) /\ i < m /\ (i # 0 => i - 1 \in 0..(m - 1)) /\ m - 1 = k
          BY <3>1, <4>2
        <5>2. f[i] = IF i = 0 THEN c ELSE Higher(f[i - 1], up)
          BY <3>2, <5>1 DEF Higher
        <5>3. i # 0 => g[i - 1] = f[i - 1]
          <6>1. i # 0 => i - 1 \in 0..m /\ i - 1 < m
            BY <3>1, <5>1
          <6> QED BY <6>1
        <5> QED BY <5>1, <5>2, <5>3
      <4> QED BY <4>1, <4>2
    <3>4. Table(g, m)
      BY <3>3 DEF Higher
    <3> QED BY <3>1, <3>4 DEF m
  <2> HIDE DEF T
  <2>3. Nat \subseteq T
    BY <2>1, <2>2, SetInduction
  <2> QED BY <2>3 DEF T
<1>4. Table(at, N)
  BY <1>1, <1>3
<1> HIDE DEF at
<1>5. /\ DOMAIN at = 0..N /\ at = [n \in 0..N |-> at[n]] /\ at[0] = c
      /\ \A n \in 0..N : n # 0 => at[n] = Higher(at[n - 1], up)
  <2>1. 0 \in 0..N
    BY <1>1
  <2> QED BY <1>4, <2>1 DEF Higher
<1>6. \A n \in 0..N : at[n] \in Class \cup {NoClass}
  <2> DEFINE T == {n \in Nat : n <= N => at[n] \in Class \cup {NoClass}}
  <2>1. 0 \in T
    BY <1>5
  <2>2. ASSUME NEW n \in Nat, n \in T PROVE n + 1 \in T
    <3> SUFFICES ASSUME n + 1 <= N PROVE at[n + 1] \in Class \cup {NoClass}
      OBVIOUS
    <3>1. n + 1 \in 0..N /\ n + 1 # 0 /\ (n + 1) - 1 = n /\ at[n] \in Class \cup {NoClass}
      BY <1>1, <2>2
    <3>2. at[n + 1] = Higher(at[n], up)
      BY <1>5, <3>1
    <3> QED BY <3>1, <3>2 DEF Higher
  <2> HIDE DEF T
  <2>3. Nat \subseteq T
    BY <2>1, <2>2, SetInduction
  <2> QED BY <1>1, <2>3 DEF T
<1> QED BY <1>2, <1>5, <1>6

(* The superclasses of a superclass of c are those of c, further up.        *)
LEMMA UpAbove ==
  ASSUME NEW c \in Class, NEW up \in [Class -> Class \cup {NoClass}],
         NEW N, N = Cardinality(Class), NEW n \in 0..N, Up(c, up)[n] \in Class
  PROVE  \A k \in 0..(N - n) : Up(Up(c, up)[n], up)[k] = Up(c, up)[n + k]
<1>1. PICK x \in Class : x = Up(c, up)[n]
  OBVIOUS
<1>2. PICK a, b : a = Up(c, up) /\ b = Up(x, up)
  OBVIOUS
<1>3. N \in Nat
  BY ClassNumber
<1>4. \A k \in 0..N : k # 0 => a[k] = Higher(a[k - 1], up)
  BY <1>2, UpFacts
<1>5. b[0] = x /\ \A k \in 0..N : k # 0 => b[k] = Higher(b[k - 1], up)
  BY <1>2, UpFacts
<1> DEFINE T == {k \in Nat : k <= N - n => b[k] = a[n + k]}
<1>6. 0 \in T
  BY <1>1, <1>2, <1>3, <1>5
<1>7. ASSUME NEW k \in Nat, k \in T PROVE k + 1 \in T
  <2> SUFFICES ASSUME k + 1 <= N - n PROVE b[k + 1] = a[n + (k + 1)]
    OBVIOUS
  <2>1. /\ k + 1 \in 0..N /\ k + 1 # 0 /\ (k + 1) - 1 = k /\ b[k] = a[n + k]
        /\ n + (k + 1) \in 0..N /\ n + (k + 1) # 0 /\ (n + (k + 1)) - 1 = n + k
    BY <1>3, <1>7
  <2>2. b[k + 1] = Higher(b[k], up)
    BY <1>5, <2>1
  <2>3. a[n + (k + 1)] = Higher(a[n + k], up)
    BY <1>4, <2>1
  <2> QED BY <2>1, <2>2, <2>3
<1> HIDE DEF T
<1>8. Nat \subseteq T
  BY <1>6, <1>7, SetInduction
<1>9. \A k \in 0..(N - n) : b[k] = a[n + k]
  BY <1>3, <1>8 DEF T
<1> QED BY <1>1, <1>2, <1>9

(* Beyond java/lang/Object there is nothing.                                *)
LEMMA UpPast ==
  ASSUME NEW c \in Class, NEW up \in [Class -> Class \cup {NoClass}],
         NEW N, N = Cardinality(Class), NEW n \in 0..N, Up(c, up)[n] = NoClass
  PROVE  \A m \in n..N : Up(c, up)[m] = NoClass
<1>1. PICK a : a = Up(c, up)
  OBVIOUS
<1>2. N \in Nat
  BY ClassNumber
<1>3. \A k \in 0..N : k # 0 => a[k] = Higher(a[k - 1], up)
  BY <1>1, UpFacts
<1> DEFINE T == {k \in Nat : n + k <= N => a[n + k] = NoClass}
<1>4. 0 \in T
  BY <1>1, <1>2
<1>5. ASSUME NEW k \in Nat, k \in T PROVE k + 1 \in T
  <2> SUFFICES ASSUME n + (k + 1) <= N PROVE a[n + (k + 1)] = NoClass
    OBVIOUS
  <2>1. /\ n + (k + 1) \in 0..N /\ n + (k + 1) # 0 /\ (n + (k + 1)) - 1 = n + k
        /\ a[n + k] = NoClass
    BY <1>2, <1>5
  <2> QED BY <1>3, <2>1 DEF Higher
<1> HIDE DEF T
<1>6. Nat \subseteq T
  BY <1>4, <1>5, SetInduction
<1>7. ASSUME NEW m \in n..N PROVE a[m] = NoClass
  <2>1. m - n \in Nat /\ n + (m - n) = m /\ n + (m - n) <= N
    BY <1>2
  <2>2. m - n \in T
    BY <1>6, <2>1
  <2> QED BY <2>1, <2>2 DEF T
<1> QED BY <1>1, <1>7

(* Pointers that agree within a set they do not leave give one line of      *)
(* superclasses, within the set.                                            *)
LEMMA UpAgree ==
  ASSUME NEW c \in Class, NEW up \in [Class -> Class \cup {NoClass}],
         NEW up2 \in [Class -> Class \cup {NoClass}], NEW S \in SUBSET Class, c \in S,
         \A x \in S : up2[x] = up[x] /\ up[x] \in S \cup {NoClass}
  PROVE  /\ Up(c, up2) = Up(c, up)
         /\ \A n \in 0..Cardinality(Class) : Up(c, up)[n] \in S \cup {NoClass}
<1>1. PICK N \in Nat : N = Cardinality(Class)
  BY ClassNumber
<1>2. PICK a, b : a = Up(c, up) /\ b = Up(c, up2)
  OBVIOUS
<1>3. /\ a \in [0..N -> Class \cup {NoClass}] /\ a[0] = c
      /\ \A k \in 0..N : k # 0 => a[k] = Higher(a[k - 1], up)
  BY <1>1, <1>2, UpFacts
<1>4. /\ b \in [0..N -> Class \cup {NoClass}] /\ b[0] = c
      /\ \A k \in 0..N : k # 0 => b[k] = Higher(b[k - 1], up2)
  BY <1>1, <1>2, UpFacts
<1> DEFINE T == {k \in Nat : k <= N => a[k] = b[k] /\ a[k] \in S \cup {NoClass}}
<1>5. 0 \in T
  BY <1>3, <1>4
<1>6. ASSUME NEW k \in Nat, k \in T PROVE k + 1 \in T
  <2> SUFFICES ASSUME k + 1 <= N PROVE a[k + 1] = b[k + 1] /\ a[k + 1] \in S \cup {NoClass}
    OBVIOUS
  <2>1. /\ k + 1 \in 0..N /\ k + 1 # 0 /\ (k + 1) - 1 = k
        /\ a[k] = b[k] /\ a[k] \in S \cup {NoClass}
    BY <1>1, <1>6
  <2>2. a[k + 1] = Higher(a[k], up) /\ b[k + 1] = Higher(b[k], up2)
    BY <1>3, <1>4, <2>1
  <2> QED BY <2>1, <2>2 DEF Higher
<1> HIDE DEF T
<1>7. Nat \subseteq T
  BY <1>5, <1>6, SetInduction
<1>8. \A k \in 0..N : a[k] = b[k] /\ a[k] \in S \cup {NoClass}
  BY <1>1, <1>7 DEF T
<1>9. a = b
  BY <1>3, <1>4, <1>8
<1> QED BY <1>1, <1>2, <1>8, <1>9

(***************************************************************************)
(* Places of fields: finitely many, in a total order.                       *)
(***************************************************************************)
Line == [0..Cardinality(Class) -> Class \cup {NoClass}]
Found(at, skipped) == {n \in DOMAIN at : at[n] \notin skipped \cup {NoClass}}
Own(x, i) == {[far |-> i, cls |-> x, num |-> j] : j \in DOMAIN Fields[x]}

LEMMA PlacesAre ==
  ASSUME NEW at, NEW skipped
  PROVE  Places(at, skipped) = UNION {Own(at[i], i) : i \in Found(at, skipped)}
BY DEF Places, Found, Own

LEMMA PlaceFacts ==
  ASSUME NEW at \in Line, NEW skipped, NEW p \in Places(at, skipped)
  PROVE  /\ p.far \in Nat /\ p.far \in DOMAIN at /\ at[p.far] \notin skipped
         /\ p.cls = at[p.far] /\ p.cls \in Class
         /\ p.num \in Nat /\ p.num \in 1..Len(Fields[p.cls]) /\ Len(Fields[p.cls]) \in Nat
         /\ p = [far |-> p.far, cls |-> p.cls, num |-> p.num]
         /\ Fld(p) \in Range(Fields[p.cls]) /\ Fld(p).width \in 1..2 /\ Fld(p).static \in BOOLEAN
<1>1. PICK i \in Found(at, skipped) : p \in Own(at[i], i)
  BY PlacesAre
<1>2. i \in 0..Cardinality(Class) /\ at[i] \in Class /\ at[i] \notin skipped /\ DOMAIN at = 0..Cardinality(Class)
  BY <1>1 DEF Found, Line
<1>3. i \in Nat
  BY <1>2, ClassNumber
<1>4. PICK j \in DOMAIN Fields[at[i]] : p = [far |-> i, cls |-> at[i], num |-> j]
  BY <1>1 DEF Own
<1>5. /\ Fields[at[i]] \in Seq(Range(Fields[at[i]]))
      /\ \A f \in Range(Fields[at[i]]) : f.width \in 1..2 /\ f.static \in BOOLEAN
  BY <1>2, FieldAssumption
<1>6. DOMAIN Fields[at[i]] = 1..Len(Fields[at[i]]) /\ Len(Fields[at[i]]) \in Nat
  BY <1>5, LenProperties
<1>7. Fld(p) = Fields[at[i]][j] /\ Fields[at[i]][j] \in Range(Fields[at[i]])
  BY <1>4 DEF Fld, Range
<1> QED BY <1>2, <1>3, <1>4, <1>5, <1>6, <1>7

LEMMA ImageFinite ==
  ASSUME NEW f, IsFiniteSet(DOMAIN f)
  PROVE  IsFiniteSet({f[x] : x \in DOMAIN f})
<1> DEFINE D == DOMAIN f
           T == {f[x] : x \in D}
           g == [x \in D |-> f[x]]
<1>1. g \in Surjection(D, T)
  BY DEF Surjection
<1> HIDE DEF T, g, D
<1>2. IsFiniteSet(D)
  BY DEF D
<1>3. IsFiniteSet(T)
  BY <1>1, <1>2, FS_Surjection
<1> QED BY <1>3 DEF T, D

LEMMA PlacesFinite ==
  ASSUME NEW at \in Line, NEW skipped
  PROVE  IsFiniteSet(Places(at, skipped))
<1>1. PICK N \in Nat : N = Cardinality(Class)
  BY ClassNumber
<1>2. IsFiniteSet(0..N)
  BY FS_Interval
<1>3. IsFiniteSet(Found(at, skipped))
  <2>1. Found(at, skipped) \in SUBSET (0..N)
    BY <1>1 DEF Found, Line
  <2> QED BY <1>2, <2>1, FS_Subset
<1>4. ASSUME NEW i \in Found(at, skipped) PROVE IsFiniteSet(Own(at[i], i))
  <2>1. PICK x \in Class : x = at[i]
    BY <1>1, <1>4 DEF Found, Line
  <2>2. Fields[x] \in Seq(Range(Fields[x]))
    BY FieldAssumption
  <2>3. DOMAIN Fields[x] = 1..Len(Fields[x]) /\ Len(Fields[x]) \in Nat
    BY <2>2, LenProperties
  <2>4. IsFiniteSet(DOMAIN Fields[x])
    BY <2>3, FS_Interval
  <2> DEFINE f == [j \in DOMAIN Fields[x] |-> [far |-> i, cls |-> x, num |-> j]]
  <2>5. IsFiniteSet({f[j] : j \in DOMAIN f})
    <3>1. IsFiniteSet(DOMAIN f)
      BY <2>4
    <3> HIDE DEF f
    <3> QED BY <3>1, ImageFinite
  <2>6. {f[j] : j \in DOMAIN f} = Own(x, i)
    BY DEF Own
  <2> QED BY <2>1, <2>5, <2>6
<1> DEFINE D == Found(at, skipped)
           h == [i \in D |-> Own(at[i], i)]
           all == {h[i] : i \in DOMAIN h}
<1>5. IsFiniteSet(all)
  <2>1. IsFiniteSet(DOMAIN h)
    BY <1>3
  <2> HIDE DEF h
  <2> QED BY <2>1, ImageFinite
<1>6. \A T \in all : IsFiniteSet(T)
  BY <1>4
<1>7. UNION all = Places(at, skipped)
  <2>1. all = {Own(at[i], i) : i \in D}
    OBVIOUS
  <2> QED BY <2>1, PlacesAre
<1> HIDE DEF all
<1>8. IsFiniteSet(UNION all)
  BY <1>5, <1>6, FS_UNION
<1> QED BY <1>7, <1>8

LEMMA BeforeFacts ==
  ASSUME NEW at \in Line, NEW skipped,
         NEW p \in Places(at, skipped), NEW q \in Places(at, skipped)
  PROVE  /\ ~Before(p, p)
         /\ p # q => Before(p, q) \/ Before(q, p)
         /\ \A r \in Places(at, skipped) : Before(p, q) /\ Before(q, r) => Before(p, r)
<1>1. /\ p.far \in Nat /\ p.num \in Nat /\ p.cls = at[p.far]
      /\ p = [far |-> p.far, cls |-> p.cls, num |-> p.num]
  BY PlaceFacts
<1>2. /\ q.far \in Nat /\ q.num \in Nat /\ q.cls = at[q.far]
      /\ q = [far |-> q.far, cls |-> q.cls, num |-> q.num]
  BY PlaceFacts
<1>3. p.far = q.far /\ p.num = q.num => p = q
  BY <1>1, <1>2
<1>4. p # q => Before(p, q) \/ Before(q, p)
  BY <1>1, <1>2, <1>3 DEF Before
<1>5. ASSUME NEW r \in Places(at, skipped), Before(p, q), Before(q, r) PROVE Before(p, r)
  <2>1. r.far \in Nat /\ r.num \in Nat
    BY PlaceFacts
  <2> QED BY <1>1, <1>2, <1>5, <2>1 DEF Before
<1> QED BY <1>1, <1>4, <1>5 DEF Before

(* There is a last one: the lowest class, and its field of highest number.  *)
LEMMA LastFacts ==
  ASSUME NEW at \in Line, NEW skipped, NEW S, S \subseteq Places(at, skipped), S # {}
  PROVE  LastOf(S) \in S
<1>1. \A p \in S : /\ p.far \in Nat /\ p.num \in Nat /\ p.cls = at[p.far]
                   /\ p.num <= Len(Fields[p.cls]) /\ Len(Fields[p.cls]) \in Nat
  BY PlaceFacts
<1>2. PICK i \in {p.far : p \in S} : \A k \in {p.far : p \in S} : i <= k
  BY <1>1, LeastNat
<1> DEFINE M == Len(Fields[at[i]])
           low == {p \in S : p.far = i}
<1>3. \A p \in low : M - p.num \in Nat /\ p.num \in Nat
  BY <1>1
<1>4. low # {} /\ M \in Nat
  BY <1>1, <1>2
<1> HIDE DEF M
<1>5. PICK m \in {M - p.num : p \in low} : \A k \in {M - p.num : p \in low} : m <= k
  <2> DEFINE D == {M - p.num : p \in low}
  <2>1. D \subseteq Nat /\ D # {}
    BY <1>3, <1>4
  <2> HIDE DEF D
  <2>2. \E m \in D : \A k \in D : m <= k
    BY <2>1, LeastNat
  <2> QED BY <2>2 DEF D
<1>6. PICK p \in low : m = M - p.num
  BY <1>5
<1>7. ASSUME NEW q \in S \ {p} PROVE Before(q, p)
  <2>1. p.far <= q.far
    BY <1>2, <1>6
  <2>2. q.far = p.far => q.num <= p.num
    <3>1. SUFFICES ASSUME q.far = p.far PROVE q.num <= p.num
      OBVIOUS
    <3>2. q \in low
      BY <1>6, <3>1
    <3>3. M - p.num <= M - q.num
      BY <1>5, <1>6, <3>2
    <3>4. M \in Nat /\ p.num \in Nat /\ q.num \in Nat
      BY <1>3, <1>4, <1>6, <3>2
    <3> QED BY <3>3, <3>4
  <2>3. p \in S /\ p.far \in Nat /\ q.far \in Nat /\ p.num \in Nat /\ q.num \in Nat
    BY <1>1, <1>6, <1>7
  <2>4. ~Before(p, q)
    BY <2>1, <2>2, <2>3 DEF Before
  <2> QED BY <2>3, <2>4, BeforeFacts
<1>8. \E r \in S : \A q \in S \ {r} : Before(q, r)
  BY <1>6, <1>7
<1> QED BY <1>8 DEF LastOf

(* Widths add up.                                                           *)
Taking(S) == UNION {{p} \X (1..Fld(p).width) : p \in S}

LEMMA WidthFacts ==
  ASSUME NEW S, IsFiniteSet(S), \A p \in S : Fld(p).width \in 1..2,
         NEW T \in SUBSET S, NEW p \in S, p \notin T
  PROVE  /\ Width(S) \in Nat /\ Width(T) \in Nat
         /\ Width(T) + Fld(p).width <= Width(S)
<1>1. Width(S) = Cardinality(Taking(S)) /\ Width(T) = Cardinality(Taking(T))
  BY DEF Width, Taking
<1>2. IsFiniteSet(1..2)
  <2>1. 1 \in Int /\ 2 \in Int
    OBVIOUS
  <2> QED BY <2>1, FS_Interval
<1>3. IsFiniteSet(S \X (1..2))
  BY <1>2, FS_Product
<1>4. Taking(S) \in SUBSET (S \X (1..2))
  BY DEF Taking
<1>5. IsFiniteSet(Taking(S)) /\ Cardinality(Taking(S)) \in Nat
  BY <1>3, <1>4, FS_Subset, FS_CardinalityType
<1> DEFINE P == {p} \X (1..Fld(p).width)
<1>6. Taking(T) \in SUBSET Taking(S) /\ P \in SUBSET Taking(S) /\ Taking(T) \cup P \in SUBSET Taking(S)
  BY DEF Taking
<1>7. Taking(T) \cap P = {}
  BY DEF Taking
<1>8. IsFiniteSet(P) /\ Cardinality(P) = Fld(p).width
  <2>1. PICK w \in 1..2 : w = Fld(p).width
    OBVIOUS
  <2>2. IsFiniteSet(1..w) /\ Cardinality(1..w) = w
    BY FS_Interval
  <2>3. IsFiniteSet({p}) /\ Cardinality({p}) = 1
    BY FS_Singleton
  <2>4. PICK A, B : A = {p} /\ B = 1..w
    OBVIOUS
  <2>5. IsFiniteSet(A \X B) /\ Cardinality(A \X B) = Cardinality(A) * Cardinality(B)
    BY <2>2, <2>3, <2>4, FS_Product
  <2>6. 1 * w = w
    OBVIOUS
  <2>7. P = A \X B
    BY <2>1, <2>4
  <2> HIDE DEF P
  <2> QED BY <2>1, <2>2, <2>3, <2>4, <2>5, <2>6, <2>7
<1> HIDE DEF P
<1>9. IsFiniteSet(Taking(T)) /\ Cardinality(Taking(T)) \in Nat
  BY <1>5, <1>6, FS_Subset, FS_CardinalityType
<1>10. Cardinality(Taking(T) \cup P) = Cardinality(Taking(T)) + Fld(p).width
  <2>1. Cardinality(Taking(T) \cup P)
          = Cardinality(Taking(T)) + Cardinality(P) - Cardinality(Taking(T) \cap P)
    BY <1>8, <1>9, FS_Union
  <2>2. Cardinality({}) = 0
    BY FS_EmptySet
  <2>3. PICK a \in Nat, w \in Nat : a = Cardinality(Taking(T)) /\ w = Fld(p).width
    BY <1>9
  <2>4. a + w - 0 = a + w
    OBVIOUS
  <2> QED BY <1>7, <1>8, <2>1, <2>2, <2>3, <2>4
<1>11. Cardinality(Taking(T) \cup P) <= Cardinality(Taking(S))
  BY <1>5, <1>6, FS_Subset
<1> QED BY <1>1, <1>5, <1>9, <1>10, <1>11

(* A field of an object lies behind those before it, and within the object. *)
Start(all, p) == Width({q \in Instance(all) : Before(q, p)})

LEMMA SlotFacts ==
  ASSUME NEW at \in Line, NEW skipped, NEW all, all = Places(at, skipped),
         NEW p \in Instance(all)
  PROVE  /\ Start(all, p) \in Nat /\ Fld(p).width \in 1..2 /\ Width(Instance(all)) \in Nat
         /\ Start(all, p) + Fld(p).width <= Width(Instance(all))
         /\ \A q \in Instance(all) : Before(p, q) =>
              Start(all, q) \in Nat /\ Start(all, p) + Fld(p).width <= Start(all, q)
<1>1. IsFiniteSet(Instance(all)) /\ \A r \in Instance(all) : r \in all /\ Fld(r).width \in 1..2
  <2>1. Instance(all) \in SUBSET all
    BY DEF Instance
  <2>2. IsFiniteSet(all)
    BY PlacesFinite
  <2> QED BY <2>1, <2>2, FS_Subset, PlaceFacts
<1>2. /\ {r \in Instance(all) : Before(r, p)} \in SUBSET Instance(all)
      /\ p \notin {r \in Instance(all) : Before(r, p)}
  BY <1>1, BeforeFacts
<1>3. /\ Start(all, p) \in Nat /\ Width(Instance(all)) \in Nat
      /\ Start(all, p) + Fld(p).width <= Width(Instance(all))
  BY <1>1, <1>2, WidthFacts DEF Start
<1>4. ASSUME NEW q \in Instance(all), Before(p, q)
      PROVE  Start(all, q) \in Nat /\ Start(all, p) + Fld(p).width <= Start(all, q)
  <2> DEFINE S == {r \in Instance(all) : Before(r, q)}
             T == {r \in Instance(all) : Before(r, p)}
  <2>1. S \in SUBSET Instance(all)
    OBVIOUS
  <2>2. T \in SUBSET S /\ p \in S /\ p \notin T
    BY <1>1, <1>2, <1>4, BeforeFacts
  <2>3. IsFiniteSet(S)
    BY <1>1, <2>1, FS_Subset
  <2>4. \A r \in S : Fld(r).width \in 1..2
    BY <1>1
  <2>5. Start(all, q) = Width(S) /\ Start(all, p) = Width(T)
    BY DEF Start
  <2> HIDE DEF S, T
  <2> QED BY <2>2, <2>3, <2>4, <2>5, WidthFacts
<1> QED BY <1>1, <1>3, <1>4


(***************************************************************************)
(* The layout of every linked class, in terms of the files: where it ends,  *)
(* what its view and size are.  Synthesized classes have static fields.     *)
(***************************************************************************)
AllFields(c) == Places(Up(c, Super), Synth)

LaidOut(c, v, w) ==
  /\ Ends(c, Super) /\ w = Width(Instance(AllFields(c)))
  /\ \A n : n \in DOMAIN v <=> \E p \in AllFields(c) : Fld(p).name = n
  /\ \A n \in DOMAIN v : v[n].static \/ \E p \in Instance(AllFields(c)) :
       Fld(p).name = n /\ v[n].width = Fld(p).width /\ v[n].slot = Start(AllFields(c), p)

Laid(c, reg, v, w) ==
  /\ reg[c] = "linked" /\ c \notin Synth => LaidOut(c, v, w)
  /\ c \in Synth => reg[c] = "linked" /\ \A n \in DOMAIN v : v[n].static

VInv == /\ DOMAIN view = Class /\ DOMAIN size = Class
        /\ \A c \in Class : Laid(c, status, view[c], size[c])

LEMMA UpLine ==
  ASSUME NEW c \in Class, NEW up \in [Class -> Class \cup {NoClass}] PROVE Up(c, up) \in Line
BY UpFacts DEF Line

LEMMA ViewFacts ==
  ASSUME NEW at \in Line, NEW skipped, NEW all, all = Places(at, skipped),
         NEW lens, NEW v, v = ViewOf(all, lens)
  PROVE  /\ \A n : n \in DOMAIN v <=> \E p \in all : Fld(p).name = n
         /\ \A n \in DOMAIN v : \E p \in all :
              /\ Fld(p).name = n /\ v[n].static = Fld(p).static /\ v[n].width = Fld(p).width
              /\ ~Fld(p).static => v[n].slot = Start(all, p)
<1>1. \A n : n \in DOMAIN v <=> \E p \in all : Fld(p).name = n
  BY DEF ViewOf
<1>2. ASSUME NEW n \in DOMAIN v
      PROVE  \E p \in all :
              /\ Fld(p).name = n /\ v[n].static = Fld(p).static /\ v[n].width = Fld(p).width
              /\ ~Fld(p).static => v[n].slot = Start(all, p)
  <2>1. PICK S : S = {q \in all : Fld(q).name = n}
    OBVIOUS
  <2>2. PICK p : p = LastOf(S)
    OBVIOUS
  <2>3. S # {} /\ S \subseteq all
    BY <1>1, <1>2, <2>1
  <2>4. p \in S
    BY <2>2, <2>3, LastFacts
  <2>5. v[n] = [home |-> p.cls, static |-> Fld(p).static,
                width |-> Fld(p).width, slot |-> Slot(all, p, lens)]
    BY <1>1, <1>2, <2>1, <2>2 DEF ViewOf
  <2>6. ~Fld(p).static => Slot(all, p, lens) = Start(all, p)
    BY DEF Slot, Start
  <2> QED BY <2>1, <2>4, <2>5, <2>6
<1> QED BY <1>1, <1>2

(* Layout gives a class what LaidOut says.                                  *)
LEMMA LayoutFacts ==
  ASSUME NEW c \in Class, Ends(c, Super), NEW lens
  PROVE  LaidOut(c, ViewOf(AllFields(c), lens), Width(Instance(AllFields(c))))
<1>1. PICK all, v : all = AllFields(c) /\ v = ViewOf(all, lens)
  OBVIOUS
<1>2. Up(c, Super) \in Line
  BY UpLine, NamedFacts
<1>3. /\ \A n : n \in DOMAIN v <=> \E p \in all : Fld(p).name = n
      /\ \A n \in DOMAIN v : \E p \in all :
           /\ Fld(p).name = n /\ v[n].static = Fld(p).static /\ v[n].width = Fld(p).width
           /\ ~Fld(p).static => v[n].slot = Start(all, p)
  <2>1. all = Places(Up(c, Super), Synth)
    BY <1>1 DEF AllFields
  <2>2. PICK at \in Line : at = Up(c, Super)
    BY <1>2
  <2> QED BY <1>1, <2>1, <2>2, ViewFacts
<1>4. \A p \in all : Fld(p).static \in BOOLEAN
  BY <1>1, <1>2, PlaceFacts DEF AllFields
<1>5. \A n \in DOMAIN v : v[n].static \/ \E p \in Instance(all) :
        Fld(p).name = n /\ v[n].width = Fld(p).width /\ v[n].slot = Start(all, p)
  BY <1>3, <1>4 DEF Instance
<1> QED BY <1>1, <1>3, <1>5 DEF LaidOut

(* A linked class, or one about to be: its pointers are those of its file.  *)
LEMMA PointersOfFiles ==
  ASSUME DInv, NEW c \in Class, super[c] = Super[c],
         \A x \in Files[c] \ {c} : status[x] = "linked"
  PROVE  /\ Up(c, super) = Up(c, Super)
         /\ \A n \in 0..Cardinality(Class) : Up(c, Super)[n] \in Files[c] \cup {NoClass}
<1>1. super \in [Class -> Class \cup {NoClass}] /\ Super \in [Class -> Class \cup {NoClass}]
  BY NamedFacts DEF DInv, GInv, Types
<1>2. c \in Files[c] /\ Files[c] \in SUBSET Class
  BY FilesFacts
<1>3. ASSUME NEW x \in Files[c] PROVE super[x] = Super[x] /\ Super[x] \in Files[c] \cup {NoClass}
  <2>1. super[x] = Super[x]
    BY <1>2, <1>3 DEF DInv, Closure
  <2>2. ClosedUp(Files[c], Super, Named)
    BY NamedFacts, FilesFacts, UpwardFacts
  <2> QED BY <1>3, <2>1, <2>2 DEF ClosedUp
<1> QED BY <1>1, <1>2, <1>3, UpAgree

LEMMA SynthUp ==
  ASSUME NEW c \in Synth
  PROVE  \A n \in 0..Cardinality(Class) : Up(c, Super)[n] \in Synth \cup {NoClass}
<1>1. Synth \in SUBSET Class /\ \A x \in Synth : Super[x] \in Synth \cup {NoClass}
  BY SynthAssumption
<1>2. Super \in [Class -> Class \cup {NoClass}] /\ c \in Class
  BY <1>1, NamedFacts
<1> QED BY <1>1, <1>2, UpAgree

LEMMA VInvInit == ASSUME SynthPlain, Init PROVE VInv
<1>1. /\ status = [c \in Class |-> IF c \in Synth THEN "linked" ELSE "absent"]
      /\ view = [c \in Class |-> IF c \in Synth
                   THEN ViewOf(SynthFields(c), [x \in Class |-> 0]) ELSE <<>>]
      /\ DOMAIN size = Class
  BY DEF Init
<1>2. ASSUME NEW c \in Class PROVE Laid(c, status, view[c], size[c])
  <2>1. status[c] = "linked" => c \in Synth
    BY <1>1
  <2>2. ASSUME c \in Synth PROVE status[c] = "linked" /\ \A n \in DOMAIN view[c] : view[c][n].static
    <3>1. PICK v, all, lens : v = view[c] /\ all = SynthFields(c) /\ v = ViewOf(all, lens)
      BY <1>1, <2>2
    <3>2. Up(c, Super) \in Line
      BY UpLine, NamedFacts
    <3>3. all = Places(Up(c, Super), {})
      BY <3>1 DEF SynthFields
    <3>4. \A n \in DOMAIN v : \E p \in all : v[n].static = Fld(p).static
      BY <3>1, <3>2, <3>3, ViewFacts
    <3>5. ASSUME NEW p \in all PROVE Fld(p).static
      <4>1. /\ p.far \in DOMAIN Up(c, Super) /\ p.cls = Up(c, Super)[p.far] /\ p.cls \in Class
            /\ Fld(p) \in Range(Fields[p.cls])
        BY <3>2, <3>3, <3>5, PlaceFacts
      <4>2. p.far \in 0..Cardinality(Class)
        BY <3>2, <4>1 DEF Line
      <4>3. p.cls \in Synth
        BY <2>2, <4>1, <4>2, SynthUp, ThreadAssumption
      <4> QED BY <4>1, <4>3 DEF SynthPlain
    <3> QED BY <1>1, <2>2, <3>1, <3>4, <3>5
  <2> QED BY <2>1, <2>2 DEF Laid
<1> QED BY <1>1, <1>2 DEF VInv

(* A step that touches one class, which is not synthesized.                 *)
LEMMA LaidElse ==
  ASSUME VInv, NEW c \in Class \ Synth,
         DOMAIN view' = Class, DOMAIN size' = Class,
         \A x \in Class \ {c} : status'[x] = status[x] /\ view'[x] = view[x] /\ size'[x] = size[x],
         status'[c] = "linked" => LaidOut(c, view'[c], size'[c])
  PROVE  VInv'
<1>1. ASSUME NEW x \in Class PROVE Laid(x, status', view'[x], size'[x])
  <2>1. CASE x = c
    BY <2>1 DEF Laid
  <2>2. CASE x # c
    BY <2>2 DEF VInv, Laid
  <2> QED BY <2>1, <2>2
<1> QED BY <1>1 DEF VInv

LEMMA VInvNext == ASSUME VInv, DInv, [Next]_vars PROVE VInv'
<1>1. /\ status \in [Class -> {"absent", "placed", "linked"}]
      /\ DOMAIN view = Class /\ DOMAIN size = Class
      /\ \A c \in Synth : c \in Class /\ status[c] = "linked"
  BY SynthAssumption DEF DInv, GInv, Types, VInv, Laid
<1>2. ASSUME UNCHANGED <<status, view, size>> PROVE VInv'
  BY <1>2 DEF VInv
<1>3. CASE UNCHANGED vars
  BY <1>2, <1>3 DEF vars, record
<1>4. ASSUME NEW t \in Thread, Register(t) PROVE VInv'
  <2>1. PICK c : c = Current(t)
    OBVIOUS
  <2>2. At(t, "read")
    BY <1>4 DEF Register
  <2>3. c \in Class
    BY <2>1, <2>2, Loader DEF DInv
  <2>4. CASE c \in Bad \/ status[c] # "absent"
    BY <1>2, <1>4, <2>1, <2>4 DEF Register, record
  <2>5. CASE ~(c \in Bad \/ status[c] # "absent")
    <3>1. /\ status' = [status EXCEPT ![c] = "placed"]
          /\ view' = [view EXCEPT ![c] = <<>>] /\ size' = [size EXCEPT ![c] = 0]
      BY <1>4, <2>1, <2>5 DEF Register
    <3>2. c \notin Synth /\ status'[c] # "linked"
      BY <1>1, <2>3, <2>5, <3>1
    <3> QED BY <1>1, <2>3, <3>1, <3>2, LaidElse
  <2> QED BY <2>4, <2>5
<1>5. ASSUME NEW t \in Thread, Fail(t) PROVE VInv'
  <2>1. PICK c : c = Current(t)
    OBVIOUS
  <2>2. At(t, "failed")
    BY <1>5 DEF Fail
  <2>3. c \in Class /\ status[c] = "placed"
    BY <2>1, <2>2, Loader DEF DInv
  <2>4. status' = [status EXCEPT ![c] = "absent"] /\ UNCHANGED <<view, size>>
    BY <1>5, <2>1 DEF Fail, record
  <2>5. c \notin Synth /\ status'[c] # "linked"
    BY <1>1, <2>3, <2>4
  <2> QED BY <1>1, <2>3, <2>4, <2>5, LaidElse
<1>6. ASSUME NEW t \in Thread, Link(t) PROVE VInv'
  <2>1. PICK c : c = Current(t)
    OBVIOUS
  <2>2. At(t, "deps") /\ Last(stack[t]).done = Len(Deps(c)) /\ Ends(c, super)
    BY <1>6, <2>1 DEF Link
  <2>3. c \in Class /\ status[c] = "placed" /\ Last(stack[t]) = stack[t][Len(stack[t])]
    BY <2>1, <2>2, Loader DEF DInv
  <2>4. Fits(c, Len(Deps(c)), status, super, ifaces)
    BY <2>1, <2>2, LoaderD
  <2>5. super[c] = Super[c] /\ \A x \in Files[c] \ {c} : status[x] = "linked"
    BY <2>3, <2>4, ReadyFacts DEF DInv
  <2>6. Up(c, super) = Up(c, Super)
    BY <2>3, <2>5, PointersOfFiles
  <2>7. Ends(c, Super) /\ LoadedFields(c) = AllFields(c)
    BY <2>2, <2>6 DEF Ends, LoadedFields, AllFields
  <2>8. PICK all : all = LoadedFields(c) /\ Layout(c, all)
    BY <1>6, <2>1 DEF Link
  <2>9. /\ view' = [view EXCEPT ![c] = ViewOf(AllFields(c), statics)]
        /\ size' = [size EXCEPT ![c] = Width(Instance(AllFields(c)))]
    BY <2>7, <2>8 DEF Layout
  <2>10. LaidOut(c, view'[c], size'[c])
    BY <1>1, <2>3, <2>7, <2>9, LayoutFacts
  <2>11. \A x \in Class \ {c} : status'[x] = status[x]
    BY <1>1, <1>6, <2>1 DEF Link
  <2>12. c \notin Synth
    BY <1>1, <2>3
  <2> QED BY <1>1, <2>3, <2>9, <2>10, <2>11, <2>12, LaidElse
<1>7. CASE Next
  <2>1. PICK t \in Thread :
          \/ \E c \in Class : Resolve(t, c) \/ Initialize(t, c)
          \/ Lock(t) \/ Register(t) \/ Depend(t) \/ Link(t) \/ Fail(t)
    BY <1>7 DEF Next, Load
  <2>2. ASSUME (\E c \in Class : Resolve(t, c) \/ Initialize(t, c)) \/ Lock(t) \/ Depend(t)
        PROVE  VInv'
    BY <1>2, <2>2 DEF Resolve, Initialize, Lock, Depend, record
  <2> QED BY <1>4, <1>5, <1>6, <2>1, <2>2
<1> QED BY <1>3, <1>7

LEMMA VInvAlways == ASSUME Acyclic, SynthPlain PROVE Spec => []VInv
<1>1. Init => VInv
  BY VInvInit
<1>2. VInv /\ DInv /\ [Next]_vars => VInv'
  BY VInvNext
<1> QED BY <1>1, <1>2, DInvAlways, PTL DEF Spec

(* Names found above c in a class that is not synthesized are in c's view.  *)
LEMMA NamesInherited ==
  ASSUME NEW c \in Class, NEW h \in Class \ Synth, NEW m \in 0..Cardinality(Class),
         h = Up(c, Super)[m], NEW v, NEW w, NEW v2, NEW w2, LaidOut(h, v, w), LaidOut(c, v2, w2)
  PROVE  DOMAIN v \subseteq DOMAIN v2
<1>1. PICK N \in Nat : N = Cardinality(Class)
  BY ClassNumber
<1>2. PICK a, b : a = Up(c, Super) /\ b = Up(h, Super)
  OBVIOUS
<1>3. a \in Line /\ b \in Line /\ DOMAIN a = 0..N /\ DOMAIN b = 0..N /\ Super \in [Class -> Class \cup {NoClass}]
  BY <1>1, <1>2, UpLine, NamedFacts DEF Line
<1>4. \A k \in 0..(N - m) : b[k] = a[m + k]
  <2>1. Up(c, Super)[m] \in Class /\ m \in 0..N
    BY <1>1
  <2>2. \A k \in 0..(N - m) : Up(Up(c, Super)[m], Super)[k] = Up(c, Super)[m + k]
    BY <1>1, <1>3, <2>1, UpAbove
  <2> QED BY <1>2, <2>2
<1>5. m \in Nat /\ N - m \in 0..N /\ m + (N - m) = N /\ N - m \in 0..(N - m)
  BY <1>1
<1>6. a[N] = NoClass
  BY <1>1, <1>2 DEF LaidOut, Ends
<1>7. b[N - m] = NoClass
  BY <1>4, <1>5, <1>6
<1>8. \A k \in (N - m)..N : b[k] = NoClass
  BY <1>1, <1>2, <1>3, <1>5, <1>7, UpPast
<1>9. ASSUME NEW n \in DOMAIN v PROVE n \in DOMAIN v2
  <2>1. PICK p \in Places(b, Synth) : Fld(p).name = n
    BY <1>2, <1>9 DEF LaidOut, AllFields
  <2>2. /\ p.far \in 0..N /\ b[p.far] \notin Synth /\ p.cls = b[p.far] /\ p.cls \in Class
        /\ p.num \in 1..Len(Fields[p.cls])
    BY <1>3, <2>1, PlaceFacts
  <2>3. p.far \notin (N - m)..N
    BY <1>8, <2>2, ThreadAssumption
  <2>4. p.far \in 0..(N - m) /\ m + p.far \in 0..N
    BY <1>1, <1>5, <2>2, <2>3
  <2>5. a[m + p.far] = p.cls
    BY <1>4, <2>2, <2>4
  <2> DEFINE q == [far |-> m + p.far, cls |-> a[m + p.far], num |-> p.num]
  <2>6. m + p.far \in Found(a, Synth)
    BY <1>3, <2>2, <2>4, <2>5, ThreadAssumption DEF Found
  <2>7. p.num \in DOMAIN Fields[p.cls]
    <3>1. Fields[p.cls] \in Seq(Range(Fields[p.cls]))
      BY <2>2, FieldAssumption
    <3> QED BY <2>2, <3>1, LenProperties
  <2>8. q \in Own(a[m + p.far], m + p.far)
    BY <2>5, <2>7 DEF Own
  <2>9. q \in Places(a, Synth)
    BY <2>6, <2>8, PlacesAre
  <2>10. Fld(q) = Fld(p)
    BY <2>5 DEF Fld
  <2> HIDE DEF q
  <2> QED BY <1>2, <2>1, <2>9, <2>10 DEF LaidOut, AllFields
<1> QED BY <1>9

LEMMA FirstFacts ==
  ASSUME NEW T, T \subseteq Nat, T # {}
  PROVE  Min(T) \in T /\ \A y \in T : Min(T) <= y
BY LeastNat DEF Min

(* The fields of an object are found in the view of its own class.          *)
LEMMA FieldFacts ==
  ASSUME VInv, DInv, NEW c \in Class, status[c] = "linked",
         NEW n \in Names(c), ~Field(c, n).static
  PROVE  c \notin Synth /\ n \in DOMAIN view[c] /\ Field(c, n) = view[c][n]
<1>1. PICK N \in Nat : N = Cardinality(Class)
  BY ClassNumber
<1>2. super[c] = Super[c] /\ \A x \in Files[c] : status[x] = "linked"
  BY DEF DInv, Closure
<1>3. PICK at \in Line : at = Up(c, super) /\ at = Up(c, Super)
  <2>1. Up(c, super) = Up(c, Super)
    BY <1>2, PointersOfFiles
  <2>2. Up(c, Super) \in Line
    BY UpLine, NamedFacts
  <2> QED BY <2>1, <2>2
<1>4. DOMAIN at = 0..N /\ \A i \in 0..N : at[i] \in Class \cup {NoClass}
  BY <1>1 DEF Line
<1>5. \A i \in 0..N : at[i] \in Files[c] \cup {NoClass}
  BY <1>1, <1>2, <1>3, PointersOfFiles
<1>6. at[0] = c
  BY <1>3, UpFacts, NamedFacts
<1>7. c \in Synth => \A i \in 0..N : at[i] \in Synth \cup {NoClass}
  BY <1>1, <1>3, SynthUp
<1> DEFINE I == {i \in DOMAIN at : at[i] # NoClass /\ n \in DOMAIN view[at[i]]}
           m == Min(I)
           h == at[m]
<1>8. Holder(c, n) = h /\ Field(c, n) = view[h][n]
  BY <1>3 DEF Holder, Field
<1>9. I # {} /\ I \subseteq Nat
  <2>1. PICK x \in Chain(c) : n \in DOMAIN view[x]
    BY DEF Names
  <2>2. PICK i \in DOMAIN at : x = at[i] /\ x # NoClass
    BY <1>3, <2>1 DEF Chain, Range
  <2>3. i \in I
    BY <2>1, <2>2
  <2> QED BY <1>1, <1>4, <2>3
<1>10. m \in I /\ \A i \in I : m <= i
  <2> HIDE DEF I
  <2> QED BY <1>9, FirstFacts
<1>11. m \in 0..N /\ h \in Files[c] /\ h \in Class /\ n \in DOMAIN view[h]
  BY <1>4, <1>5, <1>10
<1> HIDE DEF m
<1>12. h \notin Synth
  BY <1>8, <1>11 DEF VInv, Laid
<1>13. c \notin Synth
  BY <1>7, <1>11, <1>12, ThreadAssumption
<1>14. LaidOut(c, view[c], size[c]) /\ LaidOut(h, view[h], size[h])
  BY <1>2, <1>11, <1>12, <1>13 DEF VInv, Laid
<1>15. n \in DOMAIN view[c]
  <2>1. h \in Class \ Synth /\ h = Up(c, Super)[m] /\ m \in 0..Cardinality(Class)
    BY <1>1, <1>3, <1>11, <1>12
  <2> HIDE DEF h
  <2>2. DOMAIN view[h] \subseteq DOMAIN view[c]
    BY <1>14, <2>1, NamesInherited
  <2> QED BY <1>11, <2>2
<1>16. m = 0
  <2>1. 0 \in I
    BY <1>1, <1>4, <1>6, <1>15, ThreadAssumption
  <2>2. m <= 0
    BY <1>10, <2>1
  <2> QED BY <1>1, <1>11, <2>2
<1> QED BY <1>6, <1>8, <1>13, <1>15, <1>16

(* Two fields of an object share no slot and lie within it, wherever up its *)
(* superclasses they are declared (the layout loop of LoadClassBytesWith,   *)
(* kernel.go), whatever loads raced or failed, when no file needs itself    *)
(* and the synthesized classes have no fields of an object's own.           *)
THEOREM LayoutCorrect == ASSUME Acyclic, SynthPlain PROVE Spec => []SlotsDisjoint
<1>1. VInv /\ DInv => SlotsDisjoint
  <2> SUFFICES ASSUME VInv, DInv, NEW c \in Class, status[c] = "linked",
                      NEW own, own = {n \in Names(c) : ~Field(c, n).static}
               PROVE  /\ \A n \in own : Slots(Field(c, n)) \subseteq 0 .. (size[c] - 1)
                      /\ \A n, o \in own :
                           n # o => Slots(Field(c, n)) \cap Slots(Field(c, o)) = {}
    BY DEF SlotsDisjoint
  <2> DEFINE all == AllFields(c)
  <2>1. PICK at \in Line : at = Up(c, Super)
    BY UpLine, NamedFacts
  <2>2. all = Places(at, Synth)
    BY <2>1 DEF AllFields
  <2>3. ASSUME NEW n \in own
        PROVE  \E p \in Instance(all) :
                 /\ Fld(p).name = n /\ size[c] = Width(Instance(all))
                 /\ Slots(Field(c, n)) = Start(all, p)..(Start(all, p) + Fld(p).width - 1)
    <3>1. n \in Names(c) /\ ~Field(c, n).static
      BY <2>3
    <3>2. c \notin Synth /\ n \in DOMAIN view[c] /\ Field(c, n) = view[c][n]
      BY <3>1, FieldFacts
    <3>3. LaidOut(c, view[c], size[c])
      BY <3>2 DEF VInv, Laid
    <3>4. PICK p \in Instance(all) :
            Fld(p).name = n /\ view[c][n].width = Fld(p).width /\ view[c][n].slot = Start(all, p)
      BY <3>1, <3>2, <3>3 DEF LaidOut
    <3> QED BY <3>2, <3>3, <3>4 DEF LaidOut, Slots
  <2> HIDE DEF all
  <2>4. ASSUME NEW n \in own PROVE Slots(Field(c, n)) \subseteq 0 .. (size[c] - 1)
    <3>1. PICK p \in Instance(all) :
            /\ size[c] = Width(Instance(all))
            /\ Slots(Field(c, n)) = Start(all, p)..(Start(all, p) + Fld(p).width - 1)
      BY <2>3
    <3>2. /\ Start(all, p) \in Nat /\ Fld(p).width \in 1..2 /\ Width(Instance(all)) \in Nat
          /\ Start(all, p) + Fld(p).width <= Width(Instance(all))
      BY <2>2, SlotFacts
    <3> QED BY <3>1, <3>2
  <2>5. ASSUME NEW n \in own, NEW o \in own, n # o
        PROVE  Slots(Field(c, n)) \cap Slots(Field(c, o)) = {}
    <3>1. PICK p \in Instance(all) :
            /\ Fld(p).name = n
            /\ Slots(Field(c, n)) = Start(all, p)..(Start(all, p) + Fld(p).width - 1)
      BY <2>3
    <3>2. PICK q \in Instance(all) :
            /\ Fld(q).name = o
            /\ Slots(Field(c, o)) = Start(all, q)..(Start(all, q) + Fld(q).width - 1)
      BY <2>3
    <3>3. p # q /\ p \in Places(at, Synth) /\ q \in Places(at, Synth)
      BY <2>2, <2>5, <3>1, <3>2 DEF Instance
    <3>4. /\ Start(all, p) \in Nat /\ Fld(p).width \in 1..2
          /\ Before(p, q) => Start(all, p) + Fld(p).width <= Start(all, q)
      BY <2>2, SlotFacts
    <3>5. /\ Start(all, q) \in Nat /\ Fld(q).width \in 1..2
          /\ Before(q, p) => Start(all, q) + Fld(q).width <= Start(all, p)
      BY <2>2, SlotFacts
    <3>6. Before(p, q) \/ Before(q, p)
      BY <3>3, BeforeFacts
    <3> QED BY <3>1, <3>2, <3>4, <3>5, <3>6
  <2> QED BY <2>4, <2>5
<1> QED BY <1>1, VInvAlways, DInvAlways, PTL
====
