-------------------------- MODULE MethodBodyProofs --------------------------
(***************************************************************************)
(* Theorems about MethodBody, for every method body: the interpreter       *)
(* catches where the JVM specification says, the verifier has seen what     *)
(* runs, and the emitter's plan (reachability, canonical depths, linear     *)
(* emission) puts every instruction at the depth its stack has there.      *)
(* Inductions over a handler table or a body take a least counterexample.  *)
(***************************************************************************)
EXTENDS MethodBody, SequenceTheorems, FiniteSetTheorems, WellFoundedInduction, TLAPS

LEMMA LeastNat ==
  ASSUME NEW T, T \subseteq Nat, T # {}
  PROVE  \E x \in T : \A y \in T : x <= y
<1>1. IsWellFoundedOn(OpToRel(<, Nat), Nat)
  BY NatLessThanWellFounded
<1>2. PICK x \in T : \A y \in T : ~(<<y, x>> \in OpToRel(<, Nat))
  BY <1>1, WFMin
<1>3. ASSUME NEW y \in T PROVE x <= y
  <2>1. <<y, x>> \notin OpToRel(<, Nat)
    BY <1>2
  <2>2. x \in Nat /\ y \in Nat
    OBVIOUS
  <2>3. ~(y < x)
    BY <2>1, <2>2 DEF OpToRel
  <2> QED BY <2>2, <2>3
<1> QED BY <1>3

\* Induction, as a property of a set of numbers.
LEMMA SetInduction ==
  ASSUME NEW T, 0 \in T, \A n \in Nat : n \in T => n + 1 \in T
  PROVE  Nat \subseteq T
<1> SUFFICES ASSUME Nat \ T # {} PROVE FALSE
  OBVIOUS
<1>1. PICK x \in Nat \ T : \A y \in Nat \ T : x <= y
  BY LeastNat
<1>2. x - 1 \in Nat
  BY <1>1
<1>3. x - 1 \in T
  BY <1>1, <1>2
<1>4. x - 1 + 1 \in T
  BY <1>2, <1>3
<1> QED BY <1>1, <1>4

LEMMA MinFacts ==
  ASSUME NEW T, T \subseteq Nat, T # {}
  PROVE  Min(T) \in T /\ \A y \in T : Min(T) <= y
BY LeastNat DEF Min

LEMMA PopFacts ==
  ASSUME NEW S, NEW q \in Seq(S), q # <<>>
  PROVE  /\ Last(q) \in S /\ Front(q) \in Seq(S)
         /\ \A x : x \in Range(q) <=> x = Last(q) \/ x \in Range(Front(q))
<1>1. Len(q) \in Nat \ {0} /\ DOMAIN q = 1..Len(q) /\ q[Len(q)] \in S
      /\ \A i \in 1..(Len(q) - 1) : q[i] \in S
  BY EmptySeq, LenProperties, ElementOfSeq
<1>2. 1 \in Int /\ Len(q) - 1 \in Int
  BY <1>1
<1>3. /\ SubSeq(q, 1, Len(q) - 1) \in Seq(S)
      /\ Len(SubSeq(q, 1, Len(q) - 1)) = IF 1 <= Len(q) - 1 THEN Len(q) - 1 - 1 + 1 ELSE 0
      /\ \A i \in 1..(Len(q) - 1 - 1 + 1) : SubSeq(q, 1, Len(q) - 1)[i] = q[1 + i - 1]
  BY <1>1, <1>2, SubSeqProperties
<1>4. /\ Front(q) \in Seq(S) /\ Len(Front(q)) = Len(q) - 1
      /\ Last(q) = q[Len(q)]
  BY <1>1, <1>3 DEF Front, Last
<1>5. /\ DOMAIN Front(q) = 1..(Len(q) - 1)
      /\ \A i \in 1..(Len(q) - 1) : Front(q)[i] = q[i]
  BY <1>1, <1>3, <1>4, LenProperties DEF Front
<1>6. ASSUME NEW x PROVE x \in Range(q) <=> x = Last(q) \/ x \in Range(Front(q))
  <2>1. ASSUME x \in Range(q) PROVE x = Last(q) \/ x \in Range(Front(q))
    <3>1. PICK i \in 1..Len(q) : x = q[i]
      BY <1>1, <2>1 DEF Range
    <3>2. CASE i = Len(q)
      BY <1>4, <3>1, <3>2
    <3>3. CASE i # Len(q)
      <4>1. i \in 1..(Len(q) - 1)
        <5>1. \A n \in Nat : \A k \in 1..n : k # n => k \in 1..(n - 1)
          OBVIOUS
        <5> QED BY <1>1, <3>3, <5>1
      <4>2. x = Front(q)[i]
        BY <1>5, <3>1, <4>1
      <4> QED BY <1>5, <4>1, <4>2 DEF Range
    <3> QED BY <3>2, <3>3
  <2>2. ASSUME x = Last(q) \/ x \in Range(Front(q)) PROVE x \in Range(q)
    <3>1. CASE x = Last(q)
      BY <1>1, <1>4, <3>1 DEF Range
    <3>2. CASE x \in Range(Front(q))
      <4>1. PICK i \in 1..(Len(q) - 1) : x = Front(q)[i]
        BY <1>5, <3>2 DEF Range
      <4>2. i \in 1..Len(q) /\ x = q[i]
        BY <1>1, <1>5, <4>1
      <4> QED BY <1>1, <4>2 DEF Range
    <3> QED BY <2>2, <3>1, <3>2
  <2> QED BY <2>1, <2>2
<1> QED BY <1>1, <1>4, <1>6

LEMMA CatFacts ==
  ASSUME NEW S, NEW q \in Seq(S), NEW r \in Seq(S)
  PROVE  /\ q \o r \in Seq(S)
         /\ \A x : x \in Range(q \o r) <=> x \in Range(q) \/ x \in Range(r)
<1>1. /\ q \o r \in Seq(S) /\ Len(q \o r) = Len(q) + Len(r)
      /\ \A i \in 1..(Len(q) + Len(r)) :
           (q \o r)[i] = IF i <= Len(q) THEN q[i] ELSE r[i - Len(q)]
  BY ConcatProperties
<1>2. /\ DOMAIN q = 1..Len(q) /\ DOMAIN r = 1..Len(r) /\ Len(q) \in Nat /\ Len(r) \in Nat
      /\ DOMAIN (q \o r) = 1..(Len(q) + Len(r))
  BY <1>1
<1>3. ASSUME NEW x PROVE x \in Range(q \o r) <=> x \in Range(q) \/ x \in Range(r)
  <2>1. ASSUME x \in Range(q \o r) PROVE x \in Range(q) \/ x \in Range(r)
    <3>1. PICK i \in 1..(Len(q) + Len(r)) : x = (q \o r)[i]
      BY <1>2, <2>1 DEF Range
    <3>2. \/ i \in 1..Len(q) /\ x = q[i]
          \/ i - Len(q) \in 1..Len(r) /\ x = r[i - Len(q)]
      BY <1>1, <1>2, <3>1
    <3> QED BY <1>2, <3>2 DEF Range
  <2>2. ASSUME x \in Range(q) PROVE x \in Range(q \o r)
    <3>1. PICK i \in 1..Len(q) : x = q[i]
      BY <1>2, <2>2 DEF Range
    <3>2. i \in 1..(Len(q) + Len(r)) /\ x = (q \o r)[i]
      BY <1>1, <1>2, <3>1
    <3> QED BY <1>2, <3>2 DEF Range
  <2>3. ASSUME x \in Range(r) PROVE x \in Range(q \o r)
    <3>1. PICK i \in 1..Len(r) : x = r[i]
      BY <1>2, <2>3 DEF Range
    <3>2. i + Len(q) \in 1..(Len(q) + Len(r)) /\ ~(i + Len(q) <= Len(q))
          /\ (i + Len(q)) - Len(q) = i
      BY <1>2
    <3>3. x = (q \o r)[i + Len(q)]
      BY <1>1, <3>1, <3>2
    <3> QED BY <1>2, <3>2, <3>3 DEF Range
  <2> QED BY <2>1, <2>2, <2>3
<1> QED BY <1>1, <1>3

LEMMA OneFacts ==
  ASSUME NEW S, NEW x \in S
  PROVE  <<x>> \in Seq(S) /\ \A y : y \in Range(<<x>>) <=> y = x
BY DEF Range

LEMMA NoneFacts ==
  ASSUME NEW S
  PROVE  <<>> \in Seq(S) /\ Range(<<>>) = {}
BY DEF Range

LEMMA PushFacts ==
  ASSUME NEW S, NEW q \in Seq(S), NEW x \in S
  PROVE  /\ Append(q, x) \in Seq(S)
         /\ \A y : y \in Range(Append(q, x)) <=> y \in Range(q) \/ y = x
<1>1. Append(q, x) = q \o <<x>>
  BY AppendIsConcat
<1>2. <<x>> \in Seq(S) /\ \A y : y \in Range(<<x>>) <=> y = x
  BY OneFacts
<1> QED BY <1>1, <1>2, CatFacts

-----------------------------------------------------------------------------
(* The edges out of an instruction.                                          *)

\* Where an instruction passes control, and where the verifier follows it.
Edges(b, pc) == {q \in Pcs(b) : \/ b.code[pc].op \in {"if", "goto"} /\ q = b.code[pc].target
                                \/ ~Ends(b.code[pc].op) /\ q = pc + 1}
Thrown(b, pc) == {h.handler : h \in {g \in Range(b.handlers) :
                    \/ b.code[pc].op = "div" /\ MayCatch(g, pc, Arith)
                    \/ b.code[pc].op = "athrow" /\ MayCatch(g, pc, Throwable)}}
Past(b, pc) == {q \in Pcs(b) : b.code[pc].op = "goto" /\ q = pc + 1}

\* The verifier's search follows the exceptions of a division and of an athrow.
SeenClosed(b, S) ==
    /\ DepthClosed(b, S)
    /\ \A pc \in S : \A h \in Range(b.handlers) :
         \/ b.code[pc].op = "div" /\ MayCatch(h, pc, Arith)
         \/ b.code[pc].op = "athrow" /\ MayCatch(h, pc, Throwable)
         => h.handler \in S

LEMMA BodyFacts ==
  ASSUME NEW b \in Bodies
  PROVE  /\ Cardinality(Pcs(b)) \in Nat /\ Pcs(b) = 0 .. Cardinality(Pcs(b)) - 1
         /\ 0 \in Pcs(b) /\ Pcs(b) \subseteq Nat
         /\ b.code[0].depth = 0
         /\ \A pc \in Pcs(b) : b.code[pc].op \in Ops /\ b.code[pc].depth \in Nat
         /\ \A pc \in Pcs(b) : b.code[pc].op \in {"if", "goto"} =>
              /\ b.code[pc].target \in Pcs(b)
              /\ b.code[b.code[pc].target].depth = b.code[pc].depth + StackEffect(b.code[pc].op)
         /\ \A pc \in Pcs(b) : ~Ends(b.code[pc].op) =>
              /\ pc + 1 \in Pcs(b)
              /\ b.code[pc + 1].depth = b.code[pc].depth + StackEffect(b.code[pc].op)
         /\ b.handlers \in Seq(Range(b.handlers))
         /\ \A h \in Range(b.handlers) : h.handler \in Pcs(b) /\ b.code[h.handler].depth = 1
<1>1. WellTyped(b)
  BY BodyAssumption
<1>2. Cardinality(Pcs(b)) \in Nat
  BY <1>1, FS_CardinalityType DEF WellTyped
<1> QED BY <1>1, <1>2 DEF WellTyped

\* The table of handlers is gone through to its end.
LEMMA ThrowSuccsFacts ==
  ASSUME body \in Bodies, NEW pc, NEW c
  PROVE  /\ ThrowSuccs(pc, c) \in Seq(Pcs(body))
         /\ \A x : x \in Range(ThrowSuccs(pc, c)) <=>
              \E h \in Range(body.handlers) : MayCatch(h, pc, c) /\ x = h.handler
<1> DEFINE hs == body.handlers
           May(i) == MayCatch(hs[i], pc, c)
           Table(f, n) == f = [i \in 0..n |->
             IF i = 0 THEN <<>>
             ELSE IF May(i) THEN Append(f[i - 1], hs[i].handler) ELSE f[i - 1]]
           out == CHOOSE f : Table(f, Len(hs))
<1>1. Len(hs) \in Nat /\ DOMAIN hs = 1..Len(hs)
      /\ \A i \in 1..Len(hs) : hs[i] \in Range(hs) /\ hs[i].handler \in Pcs(body)
  BY BodyFacts, LenProperties DEF Range
<1>2. ThrowSuccs(pc, c) = out[Len(hs)]
  BY DEF ThrowSuccs
<1> HIDE DEF hs
<1>3. \A n \in Nat : \E f : Table(f, n)
  <2> DEFINE T == {n \in Nat : \E f : Table(f, n)}
  <2>1. 0 \in T
    <3>1. Table([i \in 0..0 |-> <<>>], 0)
      OBVIOUS
    <3> QED BY <3>1
  <2>2. ASSUME NEW k \in Nat, k \in T PROVE k + 1 \in T
    <3> DEFINE m == k + 1
    <3>1. m - 1 = k /\ m \in Nat /\ m # 0
      OBVIOUS
    <3>2. PICK f : Table(f, k)
      BY <2>2
    <3> HIDE DEF m
    <3> DEFINE g == [i \in 0..m |-> IF i < m THEN f[i]
                       ELSE IF May(m) THEN Append(f[k], hs[m].handler) ELSE f[k]]
    <3>3. ASSUME NEW i \in 0..m
          PROVE  g[i] = IF i = 0 THEN <<>>
                        ELSE IF May(i) THEN Append(g[i - 1], hs[i].handler) ELSE g[i - 1]
      <4>1. CASE i = m
        <5>1. m - 1 \in 0..m /\ g[m - 1] = f[k]
          BY <3>1
        <5> QED BY <3>1, <4>1, <5>1
      <4>2. CASE i # m
        <5>1. i \in 0..(m - 1) /\ i < m /\ (i # 0 => i - 1 \in 0..(m - 1)) /\ m - 1 = k
          BY <3>1, <4>2
        <5>2. f[i] = IF i = 0 THEN <<>>
                     ELSE IF May(i) THEN Append(f[i - 1], hs[i].handler) ELSE f[i - 1]
          BY <3>2, <5>1
        <5>3. i # 0 => g[i - 1] = f[i - 1]
          <6>1. i # 0 => i - 1 \in 0..m /\ i - 1 < m
            BY <3>1, <5>1
          <6> QED BY <6>1
        <5> QED BY <5>1, <5>2, <5>3
      <4> QED BY <4>1, <4>2
    <3>4. Table(g, m)
      BY <3>3
    <3> QED BY <3>1, <3>4 DEF m
  <2> HIDE DEF T
  <2>3. Nat \subseteq T
    BY <2>1, <2>2, SetInduction
  <2> QED BY <2>3 DEF T
<1>4. Table(out, Len(hs))
  BY <1>1, <1>3
<1> HIDE DEF out
<1> DEFINE Right(n) == /\ out[n] \in Seq(Pcs(body))
                       /\ \A x : x \in Range(out[n]) <=>
                            \E j \in 1..n : May(j) /\ x = hs[j].handler
<1>5. Right(0)
  BY <1>1, <1>4, NoneFacts
<1>6. ASSUME NEW n \in 1..Len(hs), Right(n - 1) PROVE Right(n)
  <2>1. n \in 0..Len(hs) /\ n # 0 /\ n - 1 \in 0..Len(hs)
    BY <1>1
  <2>2. out[n] = IF May(n) THEN Append(out[n - 1], hs[n].handler) ELSE out[n - 1]
    BY <1>4, <2>1
  <2>3. \A j : j \in 1..n <=> j = n \/ j \in 1..(n - 1)
    BY <1>1
  <2>4. CASE ~May(n)
    BY <1>6, <2>2, <2>3, <2>4
  <2>5. CASE May(n)
    <3>1. hs[n].handler \in Pcs(body)
      BY <1>1
    <3>2. /\ Append(out[n - 1], hs[n].handler) \in Seq(Pcs(body))
          /\ \A x : x \in Range(Append(out[n - 1], hs[n].handler)) <=>
               x \in Range(out[n - 1]) \/ x = hs[n].handler
      BY <1>6, <3>1, PushFacts
    <3> QED BY <1>6, <2>2, <2>3, <2>5, <3>2
  <2> QED BY <2>4, <2>5
<1>7. Right(Len(hs))
  <2> DEFINE T == {n \in Nat : n <= Len(hs) => Right(n)}
  <2>1. 0 \in T
    BY <1>5
  <2>2. ASSUME NEW n \in Nat, n \in T PROVE n + 1 \in T
    <3> SUFFICES ASSUME n + 1 <= Len(hs) PROVE Right(n + 1)
      OBVIOUS
    <3>1. n + 1 \in 1..Len(hs) /\ (n + 1) - 1 = n /\ n <= Len(hs)
      BY <1>1
    <3>2. Right(n)
      BY <2>2, <3>1
    <3> HIDE DEF Right
    <3>3. Right((n + 1) - 1)
      BY <3>1, <3>2
    <3> QED BY <1>6, <3>1, <3>3
  <2> HIDE DEF T
  <2>3. Nat \subseteq T
    BY <2>1, <2>2, SetInduction
  <2>4. Len(hs) \in T
    BY <1>1, <2>3
  <2> QED BY <1>1, <2>4 DEF T
<1>8. \A x : (\E j \in 1..Len(hs) : May(j) /\ x = hs[j].handler)
             <=> \E h \in Range(hs) : MayCatch(h, pc, c) /\ x = h.handler
  BY <1>1 DEF Range
<1> QED BY <1>2, <1>7, <1>8 DEF hs

LEMMA AppendOne ==
  ASSUME NEW S, NEW x \in S, NEW y \in S
  PROVE  Append(<<x>>, y) = <<x, y>>
<1>1. <<x>> \in Seq(S) /\ Len(<<x>>) = 1 /\ <<x>>[1] = x
  OBVIOUS
<1>2. /\ Append(<<x>>, y) \in Seq(S) /\ Len(Append(<<x>>, y)) = 2
      /\ Append(<<x>>, y)[1] = x /\ Append(<<x>>, y)[2] = y
  BY <1>1, AppendProperties
<1>3. PICK s \in Seq(S) : s = Append(<<x>>, y) /\ Len(s) = 2 /\ s[1] = x /\ s[2] = y
  BY <1>2
<1>4. PICK t : t = <<x, y>>
  OBVIOUS
<1>5. t \in Seq(S)
  BY <1>4
<1>6. Len(t) = 2
  BY <1>4
<1>7. t[1] = x /\ t[2] = y
  BY <1>4
<1>8. \A i \in 1..Len(s) : s[i] = t[i]
  BY <1>3, <1>5, <1>6, <1>7
<1>9. s = t
  BY <1>3, <1>5, <1>6, <1>8, SeqEqual
<1> QED BY <1>3, <1>4, <1>9

LEMMA TwoFacts ==
  ASSUME NEW S, NEW x \in S, NEW y \in S
  PROVE  <<x, y>> \in Seq(S) /\ \A z : z \in Range(<<x, y>>) <=> z = x \/ z = y
<1>1. Append(<<x>>, y) = <<x, y>>
  BY AppendOne
<1>2. <<x>> \in Seq(S) /\ \A z : z \in Range(<<x>>) <=> z = x
  BY OneFacts
<1>3. /\ Append(<<x>>, y) \in Seq(S)
      /\ \A z : z \in Range(Append(<<x>>, y)) <=> z \in Range(<<x>>) \/ z = y
  BY <1>2, PushFacts
<1> QED BY <1>1, <1>2, <1>3

LEMMA VerifierSuccsFacts ==
  ASSUME body \in Bodies, NEW pc \in Pcs(body)
  PROVE  /\ VerifierSuccs(pc) \in Seq(Pcs(body))
         /\ \A x : x \in Range(VerifierSuccs(pc)) <=>
              x \in Edges(body, pc) \cup Thrown(body, pc)
<1> DEFINE op == body.code[pc].op  target == body.code[pc].target
<1>1. /\ op \in Ops
      /\ op \in {"if", "goto"} => target \in Pcs(body)
      /\ ~Ends(op) => pc + 1 \in Pcs(body)
  BY BodyFacts
<1>2. \A x : x \in Edges(body, pc) <=>
        \/ op \in {"if", "goto"} /\ x = target
        \/ ~Ends(op) /\ x = pc + 1
  BY <1>1 DEF Edges
<1>3. \A x : x \in Thrown(body, pc) <=>
        \/ op = "div" /\ x \in Range(ThrowSuccs(pc, Arith))
        \/ op = "athrow" /\ x \in Range(ThrowSuccs(pc, Throwable))
  BY ThrowSuccsFacts DEF Thrown
<1>4. ThrowSuccs(pc, Arith) \in Seq(Pcs(body)) /\ ThrowSuccs(pc, Throwable) \in Seq(Pcs(body))
  BY ThrowSuccsFacts
<1>5. CASE op = "div"
  <2>1. VerifierSuccs(pc) = <<pc + 1>> \o ThrowSuccs(pc, Arith)
    BY <1>5 DEF VerifierSuccs, code
  <2>2. pc + 1 \in Pcs(body) /\ ~Ends(op)
    BY <1>1, <1>5 DEF Ends
  <2>3. <<pc + 1>> \in Seq(Pcs(body)) /\ \A y : y \in Range(<<pc + 1>>) <=> y = pc + 1
    BY <2>2, OneFacts
  <2>4. /\ VerifierSuccs(pc) \in Seq(Pcs(body))
        /\ \A x : x \in Range(VerifierSuccs(pc)) <=>
             x = pc + 1 \/ x \in Range(ThrowSuccs(pc, Arith))
    BY <1>4, <2>1, <2>3, CatFacts
  <2>5. op \notin {"if", "goto"} /\ op # "athrow"
    BY <1>5
  <2> HIDE DEF op, target
  <2> QED BY <1>2, <1>3, <1>5, <2>2, <2>4, <2>5
<1>6. CASE op = "athrow"
  <2>1. VerifierSuccs(pc) = ThrowSuccs(pc, Throwable) /\ Ends(op)
    BY <1>6 DEF VerifierSuccs, code, Ends
  <2>2. op \notin {"if", "goto"} /\ op # "div"
    BY <1>6
  <2> HIDE DEF op, target
  <2> QED BY <1>2, <1>3, <1>4, <1>6, <2>1, <2>2
<1>7. CASE op = "return"
  <2>1. VerifierSuccs(pc) = <<>> /\ Ends(op)
    BY <1>7 DEF VerifierSuccs, code, Ends
  <2>2. op \notin {"if", "goto"} /\ op # "div" /\ op # "athrow"
    BY <1>7
  <2> HIDE DEF op, target
  <2> QED BY <1>2, <1>3, <2>1, <2>2, NoneFacts
<1>8. CASE op = "goto"
  <2>1. VerifierSuccs(pc) = <<target>> /\ Ends(op)
    BY <1>8 DEF VerifierSuccs, code, Ends
  <2>2. op \in {"if", "goto"} /\ op # "div" /\ op # "athrow"
    BY <1>8
  <2> HIDE DEF op, target
  <2> QED BY <1>1, <1>2, <1>3, <2>1, <2>2, OneFacts
<1>9. CASE op = "if"
  <2>1. VerifierSuccs(pc) = <<pc + 1, target>> /\ ~Ends(op)
    BY <1>9 DEF VerifierSuccs, code, Ends
  <2>2. op \in {"if", "goto"} /\ op # "div" /\ op # "athrow"
    BY <1>9
  <2> HIDE DEF op, target
  <2> QED BY <1>1, <1>2, <1>3, <2>1, <2>2, TwoFacts
<1>10. CASE op \notin {"div", "athrow", "return", "goto", "if"}
  <2>1. VerifierSuccs(pc) = <<pc + 1>> /\ ~Ends(op)
    BY <1>10 DEF VerifierSuccs, code, Ends
  <2>2. op \notin {"if", "goto"} /\ op # "div" /\ op # "athrow"
    BY <1>10
  <2> HIDE DEF op, target
  <2> QED BY <1>1, <1>2, <1>3, <2>1, <2>2, OneFacts
<1> QED BY <1>5, <1>6, <1>7, <1>8, <1>9, <1>10

LEMMA ReachSuccsFacts ==
  ASSUME body \in Bodies, NEW pc \in Pcs(body)
  PROVE  /\ ReachSuccs(pc) \in Seq(Pcs(body))
         /\ \A x : x \in Range(ReachSuccs(pc)) => x \in Edges(body, pc) \cup Past(body, pc)
         /\ \A x \in Edges(body, pc) : x \in Range(ReachSuccs(pc))
         /\ \A x \in Past(body, pc) : x \in reach \cup Range(ReachSuccs(pc))
<1> DEFINE op == body.code[pc].op  target == body.code[pc].target
<1>1. /\ op \in Ops
      /\ op \in {"if", "goto"} => target \in Pcs(body)
      /\ ~Ends(op) => pc + 1 \in Pcs(body)
      /\ pc \in Nat /\ (pc + 1 < N <=> pc + 1 \in Pcs(body))
  BY BodyFacts DEF N
<1>2. /\ \A x : x \in Edges(body, pc) <=>
           \/ op \in {"if", "goto"} /\ x = target
           \/ ~Ends(op) /\ x = pc + 1
      /\ \A x : x \in Past(body, pc) <=> op = "goto" /\ pc + 1 \in Pcs(body) /\ x = pc + 1
  BY <1>1 DEF Edges, Past
<1>3. CASE op \in {"return", "athrow"}
  <2>1. ReachSuccs(pc) = <<>> /\ Ends(op) /\ op \notin {"if", "goto"}
    BY <1>3 DEF ReachSuccs, code, Ends
  <2> HIDE DEF op, target
  <2> QED BY <1>2, <2>1, NoneFacts
<1>4. CASE op = "goto"
  <2>1. Ends(op) /\ op \in {"if", "goto"}
    BY <1>4 DEF Ends
  <2>2. CASE pc + 1 < N /\ pc + 1 \notin reach
    <3>1. ReachSuccs(pc) = <<target>> \o <<pc + 1>>
      BY <1>4, <2>2 DEF ReachSuccs, code
    <3>2. ReachSuccs(pc) = <<target, pc + 1>>
      <4>1. target \in Pcs(body) /\ pc + 1 \in Pcs(body)
        BY <1>1, <1>4, <2>2
      <4> HIDE DEF target
      <4>2. <<target>> \in Seq(Pcs(body)) /\ Append(<<target>>, pc + 1) = <<target, pc + 1>>
        BY <4>1, AppendOne
      <4> QED BY <3>1, <4>1, <4>2, AppendIsConcat
    <3> HIDE DEF op, target
    <3> QED BY <1>1, <1>2, <1>4, <2>1, <2>2, <3>2, TwoFacts
  <2>3. CASE ~(pc + 1 < N /\ pc + 1 \notin reach)
    <3>1. ReachSuccs(pc) = <<target>> \o <<>>
      BY <1>4, <2>3 DEF ReachSuccs, code
    <3>2. ReachSuccs(pc) = <<target>>
      <4>1. <<target>> \in Seq(Pcs(body))
        BY <1>1, <1>4
      <4> QED BY <3>1, <4>1, ConcatEmptySeq
    <3> HIDE DEF op, target
    <3> QED BY <1>1, <1>2, <1>4, <2>1, <2>3, <3>2, OneFacts
  <2> QED BY <2>2, <2>3
<1>5. CASE op = "if"
  <2>1. ReachSuccs(pc) = <<target, pc + 1>> /\ ~Ends(op) /\ op \in {"if", "goto"} /\ op # "goto"
    BY <1>5 DEF ReachSuccs, code, Ends
  <2> HIDE DEF op, target
  <2> QED BY <1>1, <1>2, <2>1, TwoFacts
<1>6. CASE op \notin {"return", "athrow", "goto", "if"}
  <2>1. ReachSuccs(pc) = <<pc + 1>> /\ ~Ends(op) /\ op \notin {"if", "goto"}
    BY <1>6 DEF ReachSuccs, code, Ends
  <2> HIDE DEF op, target
  <2> QED BY <1>1, <1>2, <2>1, OneFacts
<1> QED BY <1>3, <1>4, <1>5, <1>6

\* Closed sets, by their edges.
LEMMA ClosedFacts ==
  ASSUME NEW b \in Bodies, NEW S \in SUBSET Pcs(b)
  PROVE  /\ DepthClosed(b, S) <=> 0 \in S /\ \A pc \in S : Edges(b, pc) \subseteq S
         /\ ReachClosed(b, S) <=>
              0 \in S /\ \A pc \in S : Edges(b, pc) \cup Past(b, pc) \subseteq S
         /\ SeenClosed(b, S) <=>
              0 \in S /\ \A pc \in S : Edges(b, pc) \cup Thrown(b, pc) \subseteq S
<1>1. \A pc \in Pcs(b) :
        Edges(b, pc) \subseteq S <=>
          /\ b.code[pc].op \in {"if", "goto"} => b.code[pc].target \in S
          /\ ~Ends(b.code[pc].op) => pc + 1 \in S
  BY BodyFacts DEF Edges
<1>2. DepthClosed(b, S) <=> 0 \in S /\ \A pc \in S : Edges(b, pc) \subseteq S
  BY <1>1 DEF DepthClosed
<1>3. \A pc \in Pcs(b) :
        Past(b, pc) \subseteq S <=> (b.code[pc].op = "goto" /\ pc + 1 \in Pcs(b) => pc + 1 \in S)
  BY DEF Past
<1>4. ReachClosed(b, S) <=>
        0 \in S /\ \A pc \in S : Edges(b, pc) \cup Past(b, pc) \subseteq S
  BY <1>2, <1>3 DEF ReachClosed
<1>5. \A pc \in Pcs(b) :
        Thrown(b, pc) \subseteq S <=>
          \A h \in Range(b.handlers) :
            \/ b.code[pc].op = "div" /\ MayCatch(h, pc, Arith)
            \/ b.code[pc].op = "athrow" /\ MayCatch(h, pc, Throwable)
            => h.handler \in S
  BY DEF Thrown
<1>6. SeenClosed(b, S) <=>
        0 \in S /\ \A pc \in S : Edges(b, pc) \cup Thrown(b, pc) \subseteq S
  BY <1>2, <1>5 DEF SeenClosed
<1> QED BY <1>2, <1>4, <1>6

\* The emitter's least set is closed itself.
LEMMA InReachClosed ==
  ASSUME NEW b \in Bodies
  PROVE  InReach(b) \in SUBSET Pcs(b) /\ ReachClosed(b, InReach(b))
<1>1. InReach(b) \in SUBSET Pcs(b)
  BY DEF InReach
<1>2. 0 \in InReach(b)
  BY BodyFacts, ClosedFacts DEF InReach
<1>3. ASSUME NEW pc \in InReach(b), NEW q \in Edges(b, pc) \cup Past(b, pc)
      PROVE  q \in InReach(b)
  <2>1. q \in Pcs(b)
    BY <1>3 DEF Edges, Past
  <2>2. ASSUME NEW S \in SUBSET Pcs(b), ReachClosed(b, S) PROVE q \in S
    <3>1. pc \in S
      BY <2>2 DEF InReach
    <3> QED BY <1>3, <2>2, <3>1, ClosedFacts
  <2> QED BY <2>1, <2>2 DEF InReach
<1> QED BY <1>1, <1>2, <1>3, ClosedFacts

-----------------------------------------------------------------------------
(* The executions.                                                           *)

Compile == \/ Verify \/ VerifyDone \/ Reachable \/ ReachableDone
           \/ CanonicalDepths \/ CanonicalDepthsDone \/ Emit \/ EmitDone
Exec == \/ Plain \/ Return \/ Goto \/ Branch \/ Invoke \/ InvokeStatic \/ New
        \/ Divide \/ Athrow \/ Checkcast

LEMMA CompileStays == Compile => UNCHANGED <<body, machines>> /\ phase # "run"
BY DEF Compile, Verify, VerifyDone, Reachable, ReachableDone, CanonicalDepths,
       CanonicalDepthsDone, Emit, EmitDone

LEMMA NextParts == Next <=> Compile \/ Exec
BY DEF Next, Compile, Exec

\* The two engines look up an exception as the specification does.
LEMMA CatchFacts ==
  ASSUME body \in Bodies, NEW pc, NEW c \in Exc
  PROVE  /\ ThrowOrHandle(pc, c) = JavaCatch(pc, c)
         /\ \A next : ExcDispatch(pc, c, next) = JavaCatch(pc, c)
         /\ \/ JavaCatch(pc, c) = Left(c)
            \/ \E h \in Range(body.handlers) : /\ Covers(h, pc) /\ h.catch \in Supers[c]
                                             /\ JavaCatch(pc, c) = At(h.handler)
<1> DEFINE hs == {i \in DOMAIN body.handlers :
                    Covers(body.handlers[i], pc) /\ body.handlers[i].catch \in Supers[c]}
<1>1. Len(body.handlers) \in Nat /\ DOMAIN body.handlers = 1..Len(body.handlers)
  BY BodyFacts, LenProperties
<1>2. JavaCatch(pc, c) = IF hs = {} THEN Left(c) ELSE At(body.handlers[Min(hs)].handler)
  BY DEF JavaCatch
<1>3. hs # {} => Min(hs) \in hs
  <2>1. hs \subseteq Nat
    BY <1>1
  <2> HIDE DEF hs
  <2> QED BY <2>1, MinFacts
<1>4. SelectInSeq(body.handlers, LAMBDA h : Covers(h, pc) /\ h.catch \in Supers[c])
        = IF hs # {} THEN Min(hs) ELSE 0
  BY <1>1 DEF SelectInSeq
<1>5. hs # {} => Min(hs) # 0
  BY <1>1, <1>3
<1>6. ThrowOrHandle(pc, c) = JavaCatch(pc, c)
  <2> HIDE DEF hs
  <2> QED BY <1>2, <1>4, <1>5 DEF ThrowOrHandle
<1>7. ASSUME NEW next PROVE ExcDispatch(pc, c, next) = JavaCatch(pc, c)
  <2>1. c # None
    BY ClassAssumption
  <2> HIDE DEF hs
  <2> QED BY <1>2, <1>4, <1>5, <2>1 DEF ExcDispatch
<1>8. hs # {} => LET h == body.handlers[Min(hs)] IN
                 h \in Range(body.handlers) /\ Covers(h, pc) /\ h.catch \in Supers[c]
  BY <1>3 DEF Range
<1>9. \/ JavaCatch(pc, c) = Left(c)
      \/ \E h \in Range(body.handlers) : /\ Covers(h, pc) /\ h.catch \in Supers[c]
                                       /\ JavaCatch(pc, c) = At(h.handler)
  <2> HIDE DEF hs
  <2> QED BY <1>2, <1>8
<1> QED BY <1>6, <1>7, <1>9

LEMMA ExecStays == Exec => phase = "run" /\ java.out = "running" /\ Stay
BY DEF Exec, Running, Plain, Return, Goto, Branch, Invoke, InvokeStatic, New, Divide, Athrow,
       Checkcast

\* The specification's machine leaves, or goes along an edge or to a handler.
LEMMA JavaMoves ==
  ASSUME body \in Bodies, java.pc \in Pcs(body), Exec
  PROVE  /\ phase = "run" /\ java.out = "running" /\ Stay
         /\ \/ java'.out # "running"
            \/ \E q \in Edges(body, java.pc) \cup HandlersOf(body) : java' = At(q)
<1>1. phase = "run" /\ java.out = "running" /\ Stay
  BY ExecStays
<1>2. ASSUME NEW c \in Exc, java' = JavaCatch(java.pc, c)
      PROVE  \/ java'.out # "running"
             \/ \E q \in Edges(body, java.pc) \cup HandlersOf(body) : java' = At(q)
  <2>1. Left(c).out # "running"
    BY ClassAssumption DEF Left
  <2> QED BY <1>2, <2>1, CatchFacts DEF HandlersOf
<1>3. ~Ends(code[java.pc].op) => java.pc + 1 \in Edges(body, java.pc)
  BY BodyFacts DEF Edges, code
<1>4. code[java.pc].op \in {"if", "goto"} => code[java.pc].target \in Edges(body, java.pc)
  BY BodyFacts DEF Edges, code
<1>5. Arith \in Exc
  BY ClassAssumption
<1>6. \/ \E c \in Exc : java' = JavaCatch(java.pc, c)
      \/ java' = Left("returned")
      \/ ~Ends(code[java.pc].op) /\ java' = At(java.pc + 1)
      \/ code[java.pc].op \in {"if", "goto"} /\ java' = At(code[java.pc].target)
  BY <1>5 DEF Exec, Running, Plain, Return, Goto, Branch, Invoke, InvokeStatic, New, Divide, Athrow,
              Checkcast, CalleeThrows, InitFails, Throws, Succeeds, Ends
<1>7. Left("returned").out # "running"
  BY DEF Left
<1> QED BY <1>1, <1>2, <1>3, <1>4, <1>6, <1>7

-----------------------------------------------------------------------------
(* The interpreter.                                                          *)

InterpInv == body \in Bodies /\ InterpFollows

\* The interpreter is where the specification is after every instruction but an
\* athrow and a failed class initialization that the method itself catches, for
\* every body and every table.
THEOREM InterpCorrect == Spec => []InterpFollows
<1>1. Init => InterpInv
  BY DEF Init, InterpInv, InterpFollows
<1>2. InterpInv /\ [Next]_vars => InterpInv'
  <2> SUFFICES ASSUME InterpInv, [Next]_vars PROVE InterpInv'
    OBVIOUS
  <2>1. body \in Bodies /\ InterpFollows
    BY DEF InterpInv
  <2>2. CASE UNCHANGED vars
    BY <2>1, <2>2 DEF vars, machines, InterpInv, InterpFollows
  <2>3. CASE Compile
    BY <2>1, <2>3, CompileStays DEF machines, InterpInv, InterpFollows
  <2>4. CASE Exec
    <3>1. body' = body
      BY <2>4, ExecStays DEF Stay
    <3>2. \A c \in Exc : ThrowOrHandle(java.pc, c) = JavaCatch(java.pc, c)
      BY <2>1, CatchFacts
    <3>3. Arith \in Exc
      BY ClassAssumption
    <3>4. interp' = java' \/ "interp" \in strayed'
      BY <2>4, <3>2, <3>3 DEF Exec, Plain, Return, Goto, Branch, Invoke, InvokeStatic, New,
                              Divide, Athrow, Checkcast, CalleeThrows, Throws, Succeeds, Strays
    <3> QED BY <2>1, <3>1, <3>4 DEF InterpInv, InterpFollows
  <2> QED BY <2>2, <2>3, <2>4, NextParts
<1>3. InterpInv => InterpFollows
  BY DEF InterpInv
<1> QED BY <1>1, <1>2, <1>3, PTL DEF Spec

-----------------------------------------------------------------------------
(* The verifier.                                                             *)

Phases == {"verify", "reach", "depths", "emit", "run"}

\* The worklist: what was visited has its edges visited or queued.
SeenInv ==
  /\ body \in Bodies /\ phase \in Phases
  /\ verified \subseteq Pcs(body)
  /\ phase = "verify" =>
       /\ queue \in Seq(Pcs(body))
       /\ 0 \in verified \cup Range(queue)
       /\ \A pc \in verified :
            Edges(body, pc) \cup Thrown(body, pc) \subseteq verified \cup Range(queue)
  /\ phase # "verify" => SeenClosed(body, verified)
  /\ phase # "run" => java = At(0)
  /\ java.out = "running" => java.pc \in Pcs(body)
  /\ VerifierSees

LEMMA SeenInit == Init => SeenInv
<1> SUFFICES ASSUME Init PROVE SeenInv
  OBVIOUS
<1>1. body \in Bodies /\ phase = "verify" /\ verified = {} /\ queue = <<0>> /\ java = At(0)
  BY DEF Init
<1>2. 0 \in Pcs(body)
  BY <1>1, BodyFacts
<1>3. queue \in Seq(Pcs(body)) /\ 0 \in Range(queue)
  BY <1>1, <1>2, OneFacts
<1> QED BY <1>1, <1>2, <1>3 DEF SeenInv, Phases, VerifierSees, At

LEMMA SeenVerify ==
  ASSUME SeenInv, Verify
  PROVE  SeenInv'
<1> DEFINE pc == Last(queue)
           more == IF pc \in verified THEN <<>> ELSE VerifierSuccs(pc)
<1>1. /\ body \in Bodies /\ phase = "verify" /\ queue \in Seq(Pcs(body)) /\ queue # <<>>
      /\ verified \subseteq Pcs(body) /\ 0 \in verified \cup Range(queue) /\ java = At(0)
      /\ \A p \in verified : Edges(body, p) \cup Thrown(body, p) \subseteq verified \cup Range(queue)
  BY DEF SeenInv, Verify
<1>2. /\ verified' = verified \cup {pc} /\ queue' = Front(queue) \o more
      /\ body' = body /\ phase' = phase /\ java' = java
  BY DEF Verify, machines
<1>3. /\ pc \in Pcs(body) /\ Front(queue) \in Seq(Pcs(body))
      /\ \A x : x \in Range(queue) <=> x = pc \/ x \in Range(Front(queue))
  BY <1>1, PopFacts
<1> HIDE DEF pc
<1>4. more \in Seq(Pcs(body))
  BY <1>1, <1>3, VerifierSuccsFacts, NoneFacts
<1>5. /\ queue' \in Seq(Pcs(body))
      /\ \A x : x \in Range(queue') <=> x \in Range(Front(queue)) \/ x \in Range(more)
  <2> HIDE DEF more
  <2> QED BY <1>2, <1>3, <1>4, CatFacts
<1>6. verified \cup Range(queue) \subseteq verified' \cup Range(queue')
  BY <1>2, <1>3, <1>5
<1>7. ASSUME NEW p \in verified'
      PROVE  Edges(body, p) \cup Thrown(body, p) \subseteq verified' \cup Range(queue')
  <2>1. CASE p \in verified
    BY <1>1, <1>6, <2>1
  <2>2. CASE p \notin verified
    <3>1. p = pc /\ more = VerifierSuccs(pc)
      BY <1>2, <1>7, <2>2
    <3>2. Edges(body, pc) \cup Thrown(body, pc) \subseteq Range(more)
      BY <1>1, <1>3, <3>1, VerifierSuccsFacts
    <3> HIDE DEF more
    <3> QED BY <1>5, <3>1, <3>2
  <2> QED BY <2>1, <2>2
<1>8. verified' \subseteq Pcs(body) /\ 0 \in verified' \cup Range(queue')
  BY <1>1, <1>2, <1>3, <1>6
<1> QED BY <1>1, <1>2, <1>5, <1>7, <1>8 DEF SeenInv, VerifierSees

\* Until the verifier has strayed, an instruction passes control along the edges
\* that it follows, or to where it has been.
LEMMA FollowedMoves ==
  ASSUME body \in Bodies, java.pc \in Pcs(body), Exec,
         java'.out = "running", "verifier" \notin strayed'
  PROVE  /\ "verifier" \notin strayed
         /\ java'.pc \in verified \cup Edges(body, java.pc) \cup Thrown(body, java.pc)
<1> DEFINE pc == java.pc  op == code[java.pc].op
           Followed == verified \cup Edges(body, pc) \cup Thrown(body, pc)
<1>1. /\ ~Ends(op) => pc + 1 \in Edges(body, pc)
      /\ op \in {"if", "goto"} => code[pc].target \in Edges(body, pc)
  BY BodyFacts DEF Edges, code
<1>2. \A q : At(q).pc = q
  BY DEF At
<1>3. CASE Plain \/ Return \/ Goto \/ Branch
  <2>1. strayed' = strayed
    BY <1>3 DEF Plain, Return, Goto, Branch
  <2>2. Left("returned").out # "running"
    BY DEF Left
  <2> QED BY <1>1, <1>2, <1>3, <2>1, <2>2 DEF Running, Plain, Return, Goto, Branch, Ends
<1>4. ASSUME java' = At(pc + 1), ~Ends(op) PROVE java'.pc \in Followed
  BY <1>1, <1>2, <1>4
<1>5. ASSUME NEW F, Unseen(F) \subseteq strayed', strayed \subseteq strayed',
             F \subseteq Followed
      PROVE  "verifier" \notin strayed /\ java'.pc \in Followed
  BY <1>5 DEF Unseen
<1>6. CASE Invoke \/ InvokeStatic \/ New \/ Checkcast
  <2>1. ~Ends(op)
    BY <1>6 DEF Invoke, InvokeStatic, New, Checkcast, Running, Ends
  <2>2. \/ strayed' = strayed /\ java' = At(pc + 1)
        \/ Unseen({}) \subseteq strayed' /\ strayed \subseteq strayed'
    BY <1>6 DEF Invoke, InvokeStatic, New, Checkcast, Succeeds, CalleeThrows, Strays
  <2> HIDE DEF Followed
  <2>3. {} \subseteq Followed
    OBVIOUS
  <2>4. "verifier" \notin strayed /\ java'.pc \in Followed
    BY <1>4, <1>5, <2>1, <2>2, <2>3
  <2> QED BY <2>4 DEF Followed
<1>7. CASE Divide
  <2>1. strayed' = strayed /\ op = "div" /\ ~Ends(op)
    BY <1>7 DEF Divide, Running, Ends
  <2>2. CASE Succeeds
    BY <1>4, <2>1, <2>2 DEF Succeeds
  <2>3. CASE Throws(Arith)
    <3>1. Arith \in Exc /\ Left(Arith).out # "running"
      BY ClassAssumption DEF Left
    <3>2. PICK h \in Range(body.handlers) : /\ Covers(h, pc) /\ h.catch \in Supers[Arith]
                                            /\ java' = At(h.handler)
      BY <2>3, <3>1, CatchFacts DEF Throws
    <3>3. MayCatch(h, pc, Arith)
      BY <3>1, <3>2 DEF MayCatch
    <3>4. h.handler \in Thrown(body, pc)
      BY <2>1, <3>3 DEF Thrown, code
    <3> QED BY <1>2, <2>1, <3>2, <3>4
  <2> QED BY <1>7, <2>2, <2>3 DEF Divide
<1>8. CASE Athrow
  <2>1. /\ op = "athrow" /\ strayed \subseteq strayed'
        /\ Unseen(Range(ThrowSuccs(pc, Throwable))) \subseteq strayed'
    BY <1>8 DEF Athrow, Running
  <2>2. Range(ThrowSuccs(pc, Throwable)) \subseteq Thrown(body, pc)
    BY <2>1, ThrowSuccsFacts DEF Thrown, code
  <2>3. Range(ThrowSuccs(pc, Throwable)) \subseteq Followed
    BY <2>2
  <2> HIDE DEF Followed
  <2>4. "verifier" \notin strayed /\ java'.pc \in Followed
    BY <1>5, <2>1, <2>3
  <2> QED BY <2>4 DEF Followed
<1> QED BY <1>3, <1>6, <1>7, <1>8 DEF Exec

LEMMA SeenStep ==
  ASSUME SeenInv, [Next]_vars
  PROVE  SeenInv'
<1>1. /\ body \in Bodies /\ phase \in Phases /\ verified \subseteq Pcs(body)
      /\ phase # "verify" => SeenClosed(body, verified)
      /\ phase # "run" => java = At(0)
      /\ java.out = "running" => java.pc \in Pcs(body)
      /\ VerifierSees
  BY DEF SeenInv
<1>2. CASE UNCHANGED vars
  BY <1>2 DEF vars, plan, machines, SeenInv, VerifierSees
<1>3. CASE Verify
  BY <1>3, SeenVerify
<1>4. CASE VerifyDone
  <2>1. /\ phase = "verify" /\ phase' = "reach" /\ body' = body /\ verified' = verified
        /\ java' = java /\ queue = <<>>
    BY <1>4 DEF VerifyDone, plan, machines
  <2>2. Range(queue) = {}
    BY <2>1, NoneFacts
  <2>3. SeenClosed(body, verified)
    BY <1>1, <2>1, <2>2, ClosedFacts DEF SeenInv
  <2> QED BY <1>1, <2>1, <2>3 DEF SeenInv, Phases, VerifierSees
<1>5. CASE Reachable \/ ReachableDone \/ CanonicalDepths \/ CanonicalDepthsDone \/ Emit
  <2>1. /\ phase \in {"reach", "depths", "emit"} /\ phase' \in {"reach", "depths", "emit"}
        /\ body' = body /\ verified' = verified /\ java' = java
    BY <1>5 DEF Reachable, ReachableDone, CanonicalDepths, CanonicalDepthsDone, Emit, machines
  <2> QED BY <1>1, <2>1 DEF SeenInv, Phases, VerifierSees
<1>6. CASE EmitDone
  <2>1. /\ phase = "emit" /\ phase' = "run" /\ body' = body /\ verified' = verified
        /\ java' = java
    BY <1>6 DEF EmitDone, plan, machines
  <2>2. 0 \in verified
    BY <1>1, <2>1, ClosedFacts
  <2> QED BY <1>1, <2>1, <2>2 DEF SeenInv, Phases, VerifierSees, At
<1>7. CASE Exec
  <2>1. phase = "run" /\ java.out = "running" /\ body' = body /\ phase' = phase
        /\ verified' = verified
    BY <1>7, ExecStays DEF Stay, plan
  <2>2. java.pc \in Pcs(body)
    BY <1>1, <2>1
  <2>3. \/ java'.out # "running"
        \/ \E q \in Edges(body, java.pc) \cup HandlersOf(body) : java' = At(q)
    BY <1>1, <1>7, <2>2, JavaMoves
  <2>4. java'.out = "running" => java'.pc \in Pcs(body)
    BY <1>1, <2>3, BodyFacts DEF At, Edges, HandlersOf
  <2>5. ASSUME java'.out = "running", "verifier" \notin strayed' PROVE java'.pc \in verified
    <3>1. /\ "verifier" \notin strayed
          /\ java'.pc \in verified \cup Edges(body, java.pc) \cup Thrown(body, java.pc)
      BY <1>1, <1>7, <2>2, <2>5, FollowedMoves
    <3>2. java.pc \in verified
      BY <1>1, <2>1, <3>1 DEF VerifierSees
    <3>3. Edges(body, java.pc) \cup Thrown(body, java.pc) \subseteq verified
      BY <1>1, <2>1, <3>2, ClosedFacts
    <3> QED BY <3>1, <3>3
  <2> QED BY <1>1, <2>1, <2>4, <2>5 DEF SeenInv, VerifierSees
<1> QED BY <1>2, <1>3, <1>4, <1>5, <1>6, <1>7, NextParts DEF Compile

\* For every body, whatever enters its handlers and in whatever order the worklist
\* went, what runs was visited by the dataflow until an exception of a call, cast
\* or class initializer, or an athrow into a typed handler, enters a handler that
\* it had not visited.
THEOREM VerifierCorrect == Spec => []VerifierSees
<1>1. SeenInv => VerifierSees
  BY DEF SeenInv
<1>2. SeenInv /\ [Next]_vars => SeenInv'
  BY SeenStep
<1> QED BY <1>1, <1>2, SeenInit, PTL DEF Spec

-----------------------------------------------------------------------------
(* The emitter: what it reaches.                                             *)

Planned == {"depths", "emit", "run"}

ReachInv ==
  /\ body \in Bodies /\ phase \in Phases
  /\ phase = "verify" => reach = {}
  /\ phase = "reach" =>
       /\ queue \in Seq(Pcs(body))
       /\ reach \cup Range(queue) \subseteq InReach(body)
       /\ 0 \in reach \cup Range(queue)
       /\ \A pc \in reach : Edges(body, pc) \cup Past(body, pc) \subseteq reach \cup Range(queue)
  /\ phase \in Planned => reach = InReach(body)

LEMMA ReachVisit ==
  ASSUME ReachInv, Reachable
  PROVE  ReachInv'
<1> DEFINE pc == Last(queue)
           more == IF pc \in Pcs(body) \ reach THEN ReachSuccs(pc) ELSE <<>>
<1>1. /\ body \in Bodies /\ phase = "reach" /\ queue \in Seq(Pcs(body)) /\ queue # <<>>
      /\ reach \cup Range(queue) \subseteq InReach(body) /\ 0 \in reach \cup Range(queue)
      /\ \A p \in reach : Edges(body, p) \cup Past(body, p) \subseteq reach \cup Range(queue)
  BY DEF ReachInv, Reachable
<1>2. /\ body' = body /\ phase' = phase /\ queue' = Front(queue) \o more
      /\ reach' = IF pc \in Pcs(body) \ reach THEN reach \cup {pc} ELSE reach
  BY DEF Reachable
<1>3. /\ pc \in Pcs(body) /\ Front(queue) \in Seq(Pcs(body))
      /\ \A x : x \in Range(queue) <=> x = pc \/ x \in Range(Front(queue))
  BY <1>1, PopFacts
<1> HIDE DEF pc
<1>4. reach' = reach \cup {pc}
  BY <1>2, <1>3
<1>5. more \in Seq(Pcs(body))
  BY <1>1, <1>3, ReachSuccsFacts, NoneFacts
<1>6. /\ queue' \in Seq(Pcs(body))
      /\ \A x : x \in Range(queue') <=> x \in Range(Front(queue)) \/ x \in Range(more)
  <2> HIDE DEF more
  <2> QED BY <1>2, <1>3, <1>5, CatFacts
<1>7. reach \cup Range(queue) \subseteq reach' \cup Range(queue')
  BY <1>3, <1>4, <1>6
<1>8. Range(more) \subseteq InReach(body)
  <2>1. pc \in InReach(body)
    BY <1>1, <1>3
  <2>2. Edges(body, pc) \cup Past(body, pc) \subseteq InReach(body)
    BY <1>1, <2>1, InReachClosed, ClosedFacts
  <2>3. \A x \in Range(ReachSuccs(pc)) : x \in Edges(body, pc) \cup Past(body, pc)
    BY <1>1, <1>3, ReachSuccsFacts
  <2> QED BY <2>2, <2>3, NoneFacts
<1>9. ASSUME NEW p \in reach'
      PROVE  Edges(body, p) \cup Past(body, p) \subseteq reach' \cup Range(queue')
  <2>1. CASE p \in reach
    BY <1>1, <1>7, <2>1
  <2>2. CASE p \notin reach
    <3>1. p = pc /\ more = ReachSuccs(pc)
      BY <1>3, <1>4, <1>9, <2>2
    <3>2. Edges(body, pc) \cup Past(body, pc) \subseteq reach \cup Range(more)
      BY <1>1, <1>3, <3>1, ReachSuccsFacts
    <3> HIDE DEF more
    <3> QED BY <1>4, <1>6, <3>1, <3>2
  <2> QED BY <2>1, <2>2
<1>10. reach' \cup Range(queue') \subseteq InReach(body) /\ 0 \in reach' \cup Range(queue')
  <2> HIDE DEF more
  <2> QED BY <1>1, <1>3, <1>4, <1>6, <1>7, <1>8
<1> QED BY <1>1, <1>2, <1>6, <1>9, <1>10 DEF ReachInv, Phases, Planned

LEMMA ReachStep ==
  ASSUME HandlersReached, ReachInv, [Next]_vars
  PROVE  ReachInv'
<1>1. /\ body \in Bodies /\ phase \in Phases
      /\ phase = "verify" => reach = {}
      /\ phase \in Planned => reach = InReach(body)
  BY DEF ReachInv
<1>2. CASE UNCHANGED vars
  BY <1>2 DEF vars, plan, ReachInv
<1>3. CASE Verify
  BY <1>1, <1>3 DEF Verify, ReachInv, Phases, Planned
<1>4. CASE VerifyDone
  <2>1. /\ phase = "verify" /\ phase' = "reach" /\ body' = body /\ reach' = reach
        /\ queue' = <<0>>
    BY <1>4 DEF VerifyDone, plan
  <2>2. 0 \in Pcs(body) /\ 0 \in InReach(body)
    BY <1>1, BodyFacts, InReachClosed, ClosedFacts
  <2>3. queue' \in Seq(Pcs(body)) /\ \A x : x \in Range(queue') <=> x = 0
    BY <2>1, <2>2, OneFacts
  <2> QED BY <1>1, <2>1, <2>2, <2>3 DEF ReachInv, Phases, Planned
<1>5. CASE Reachable
  BY <1>5, ReachVisit
<1>6. CASE ReachableDone
  <2>1. /\ phase = "reach" /\ phase' = "depths" /\ body' = body /\ queue = <<>>
        /\ reach' = reach \cup HandlersOf(body)
    BY <1>6 DEF ReachableDone, HandlerPcs, HandlersOf
  <2>2. /\ reach \subseteq InReach(body) /\ 0 \in reach
        /\ \A pc \in reach : Edges(body, pc) \cup Past(body, pc) \subseteq reach
    BY <2>1, NoneFacts DEF ReachInv
  <2>3. reach \in SUBSET Pcs(body)
    BY <1>1, <2>2, InReachClosed
  <2>4. ReachClosed(body, reach)
    BY <1>1, <2>2, <2>3, ClosedFacts
  <2>5. InReach(body) \subseteq reach
    BY <2>3, <2>4 DEF InReach
  <2>6. reach' = InReach(body)
    BY <1>1, <2>1, <2>2, <2>5 DEF HandlersReached
  <2> QED BY <1>1, <2>1, <2>6 DEF ReachInv, Phases
<1>7. CASE CanonicalDepths \/ CanonicalDepthsDone \/ Emit \/ EmitDone
  <2>1. phase \in Planned /\ phase' \in Planned /\ body' = body /\ reach' = reach
    BY <1>7 DEF CanonicalDepths, CanonicalDepthsDone, Emit, EmitDone, Planned, plan
  <2> QED BY <1>1, <2>1 DEF ReachInv, Phases, Planned
<1>8. CASE Exec
  <2>1. phase = "run" /\ body' = body /\ phase' = phase /\ reach' = reach
    BY <1>8, ExecStays DEF Stay, plan
  <2> QED BY <1>1, <2>1 DEF ReachInv, Phases, Planned
<1> QED BY <1>2, <1>3, <1>4, <1>5, <1>6, <1>7, <1>8 DEF Next, Exec

-----------------------------------------------------------------------------
(* The canonical depths.                                                     *)

Depth(pc) == body.code[pc].depth
Items == [pc : Pcs(body), depth : Nat]
At1(q, pc) == \E it \in Range(q) : it.pc = pc

\* Depths d that are right, and a worklist q of pcs that have one.
Right(d, q) ==
  /\ DOMAIN d \subseteq reach /\ 0 \in DOMAIN d
  /\ \A pc \in DOMAIN d : d[pc] = Depth(pc)
  /\ q \in Seq(Items)
  /\ \A it \in Range(q) : it.pc \in DOMAIN d /\ it.depth = Depth(it.pc)

\* v is w with the pcs X enqueued.
Grown(w, v, X) ==
  /\ Right(v.depths, v.queue)
  /\ DOMAIN v.depths = DOMAIN w.depths \cup X
  /\ Range(w.queue) \subseteq Range(v.queue)
  /\ \A pc \in DOMAIN v.depths \ DOMAIN w.depths : At1(v.queue, pc)

LEMMA EnqueueFacts ==
  ASSUME body \in Bodies, reach \subseteq Pcs(body), NEW w, NEW e,
         Right(w.depths, w.queue), e.pc \in reach, GroundTruth(e.pc, e.depth) = Depth(e.pc)
  PROVE  Grown(w, Enqueue(w, e), {e.pc})
<1> DEFINE v == Enqueue(w, e)
<1>1. CASE e.pc \in DOMAIN w.depths
  <2>1. v = w
    BY <1>1 DEF Enqueue
  <2> HIDE DEF v
  <2> QED BY <1>1, <2>1 DEF Grown, v
<1>2. CASE e.pc \notin DOMAIN w.depths
  <2> DEFINE it == [pc |-> e.pc, depth |-> Depth(e.pc)]
  <2>1. /\ v.depths = [pc \in DOMAIN w.depths \cup {e.pc} |->
                         IF pc = e.pc THEN Depth(e.pc) ELSE w.depths[pc]]
        /\ v.queue = Append(w.queue, it)
    BY <1>2 DEF Enqueue
  <2>2. it \in Items /\ it.pc = e.pc /\ it.depth = Depth(it.pc)
    BY BodyFacts DEF Items, Depth
  <2> HIDE DEF v, it
  <2>3. w.queue \in Seq(Items)
    BY DEF Right
  <2>4. /\ v.queue \in Seq(Items)
        /\ \A x : x \in Range(v.queue) <=> x \in Range(w.queue) \/ x = it
    BY <2>1, <2>2, <2>3, PushFacts
  <2>5. DOMAIN v.depths = DOMAIN w.depths \cup {e.pc}
    BY <2>1
  <2>6. \A pc \in DOMAIN v.depths : v.depths[pc] = Depth(pc)
    BY <2>1, <2>5 DEF Right
  <2>7. Right(v.depths, v.queue)
    BY <2>2, <2>4, <2>5, <2>6 DEF Right
  <2>8. At1(v.queue, e.pc)
    BY <2>2, <2>4 DEF At1
  <2> QED BY <2>4, <2>5, <2>7, <2>8 DEF Grown, v
<1> QED BY <1>1, <1>2

\* What stands at an edge is the depth there, or it is overruled.
LEMMA GroundFacts ==
  ASSUME body \in Bodies, NEW pc \in Pcs(body), NEW d,
         d = Depth(pc) \/ pc \in Framed(body)
  PROVE  GroundTruth(pc, d) = Depth(pc)
<1>1. HandlerPcs = {h.handler : h \in Range(body.handlers)}
  BY DEF HandlerPcs
<1>2. pc \in HandlerPcs => Depth(pc) = 1
  BY <1>1, BodyFacts DEF Depth
<1> QED BY <1>2 DEF GroundTruth, Depth, code

LEMMA AfterFacts ==
  ASSUME NEW n \in Nat
  PROVE  Max({0, n}) = n
BY DEF Max

LEMMA EdgesFacts ==
  ASSUME body \in Bodies, NEW it, it.pc \in Pcs(body), it.depth = Depth(it.pc)
  PROVE  LET es == DepthEdges(it)
         IN /\ Len(es) \in {0, 1, 2}
            /\ Len(es) = 0 => Edges(body, it.pc) = {}
            /\ Len(es) = 1 => Edges(body, it.pc) = {es[1].pc}
            /\ Len(es) = 2 => Edges(body, it.pc) = {es[1].pc, es[2].pc}
            /\ \A i \in 1..Len(es) : GroundTruth(es[i].pc, es[i].depth) = Depth(es[i].pc)
<1> DEFINE op == body.code[it.pc].op  target == body.code[it.pc].target
           after == Max({0, it.depth + StackEffect(op)})
<1>1. /\ op \in {"if", "goto"} => target \in Pcs(body) /\ Depth(target) \in Nat
                                  /\ Depth(target) = it.depth + StackEffect(op)
      /\ ~Ends(op) => it.pc + 1 \in Pcs(body) /\ Depth(it.pc + 1) \in Nat
                      /\ Depth(it.pc + 1) = it.depth + StackEffect(op)
  <2>1. /\ it.depth = body.code[it.pc].depth
        /\ op \in {"if", "goto"} => target \in Pcs(body)
             /\ Depth(target) = body.code[it.pc].depth + StackEffect(op)
        /\ ~Ends(op) => it.pc + 1 \in Pcs(body)
             /\ Depth(it.pc + 1) = body.code[it.pc].depth + StackEffect(op)
    BY BodyFacts DEF Depth
  <2>2. \A pc \in Pcs(body) : Depth(pc) \in Nat
    BY BodyFacts DEF Depth
  <2> QED BY <2>1, <2>2
<1>2. \A x : x \in Edges(body, it.pc) <=>
        \/ op \in {"if", "goto"} /\ x = target
        \/ ~Ends(op) /\ x = it.pc + 1
  <2>1. (op \in {"if", "goto"} => target \in Pcs(body)) /\ (~Ends(op) => it.pc + 1 \in Pcs(body))
    BY <1>1
  <2> QED BY <2>1 DEF Edges
<1>3. op \in {"if", "goto"} => target \in Framed(body)
  BY DEF Framed
<1>4. ASSUME NEW d, op \in {"if", "goto"} PROVE GroundTruth(target, d) = Depth(target)
  <2> HIDE DEF op, target
  <2> QED BY <1>1, <1>3, <1>4, GroundFacts
<1>5. ~Ends(op) => GroundTruth(it.pc + 1, after) = Depth(it.pc + 1)
  <2>1. ASSUME ~Ends(op) PROVE after = Depth(it.pc + 1)
    BY <1>1, <2>1, AfterFacts
  <2> HIDE DEF op, target, after
  <2> QED BY <1>1, <2>1, GroundFacts
<1>6. CASE op \in {"return", "athrow"}
  <2>1. DepthEdges(it) = <<>> /\ Ends(op) /\ op \notin {"if", "goto"}
    BY <1>6 DEF DepthEdges, code, Ends
  <2>2. Edges(body, it.pc) = {}
    BY <1>2, <2>1
  <2> QED BY <2>1, <2>2
<1>7. CASE op = "goto"
  <2>1. /\ DepthEdges(it) = << [pc |-> target, depth |-> after] >>
        /\ Ends(op) /\ op \in {"if", "goto"}
    BY <1>7 DEF DepthEdges, code, Ends
  <2>2. Edges(body, it.pc) = {target}
    BY <1>2, <2>1
  <2>3. GroundTruth(target, after) = Depth(target)
    BY <1>4, <2>1
  <2> HIDE DEF op, target, after
  <2> QED BY <2>1, <2>2, <2>3
<1>8. CASE op = "if"
  <2>1. /\ DepthEdges(it) = << [pc |-> target, depth |-> it.depth],
                               [pc |-> it.pc + 1, depth |-> after] >>
        /\ ~Ends(op) /\ op \in {"if", "goto"}
    BY <1>8 DEF DepthEdges, code, Ends
  <2>2. Edges(body, it.pc) = {target, it.pc + 1}
    BY <1>2, <2>1
  <2>3. GroundTruth(target, it.depth) = Depth(target)
        /\ GroundTruth(it.pc + 1, after) = Depth(it.pc + 1)
    BY <1>4, <1>5, <2>1
  <2> HIDE DEF op, target, after
  <2> QED BY <2>1, <2>2, <2>3
<1>9. CASE op \notin {"return", "athrow", "goto", "if"}
  <2>1. /\ DepthEdges(it) = << [pc |-> it.pc + 1, depth |-> after] >>
        /\ ~Ends(op) /\ op \notin {"if", "goto"}
    BY <1>9 DEF DepthEdges, code, Ends
  <2>2. Edges(body, it.pc) = {it.pc + 1}
    BY <1>2, <2>1
  <2> HIDE DEF op, target, after
  <2> QED BY <1>5, <2>1, <2>2
<1> QED BY <1>6, <1>7, <1>8, <1>9

LEMMA EnqueueAllFacts ==
  ASSUME body \in Bodies, reach \subseteq Pcs(body), NEW w, NEW it,
         it.pc \in Pcs(body), it.depth = Depth(it.pc),
         Right(w.depths, w.queue), Edges(body, it.pc) \subseteq reach
  PROVE  Grown(w, EnqueueAll(w, DepthEdges(it)), Edges(body, it.pc))
<1>1. PICK es : es = DepthEdges(it)
  OBVIOUS
<1>2. /\ Len(es) \in {0, 1, 2}
      /\ Len(es) = 0 => Edges(body, it.pc) = {}
      /\ Len(es) = 1 => Edges(body, it.pc) = {es[1].pc}
      /\ Len(es) = 2 => Edges(body, it.pc) = {es[1].pc, es[2].pc}
      /\ \A i \in 1..Len(es) : GroundTruth(es[i].pc, es[i].depth) = Depth(es[i].pc)
  BY <1>1, EdgesFacts
<1>3. CASE Len(es) = 0
  <2>1. EnqueueAll(w, es) = w
    BY <1>3 DEF EnqueueAll
  <2> QED BY <1>1, <1>2, <1>3, <2>1 DEF Grown
<1>4. CASE Len(es) = 1
  <2>1. EnqueueAll(w, es) = Enqueue(w, es[1])
    BY <1>4 DEF EnqueueAll
  <2>2. es[1].pc \in reach /\ GroundTruth(es[1].pc, es[1].depth) = Depth(es[1].pc)
    BY <1>2, <1>4
  <2> QED BY <1>1, <1>2, <1>4, <2>1, <2>2, EnqueueFacts
<1>5. CASE Len(es) = 2
  <2>1. EnqueueAll(w, es) = Enqueue(Enqueue(w, es[1]), es[2])
    BY <1>5 DEF EnqueueAll
  <2>2. /\ es[1].pc \in reach /\ GroundTruth(es[1].pc, es[1].depth) = Depth(es[1].pc)
        /\ es[2].pc \in reach /\ GroundTruth(es[2].pc, es[2].depth) = Depth(es[2].pc)
    BY <1>2, <1>5
  <2>3. PICK v : v = Enqueue(w, es[1])
    OBVIOUS
  <2>4. Grown(w, v, {es[1].pc})
    BY <2>2, <2>3, EnqueueFacts
  <2>5. PICK u : u = Enqueue(v, es[2])
    OBVIOUS
  <2>6. Grown(v, u, {es[2].pc})
    BY <2>2, <2>4, <2>5, EnqueueFacts DEF Grown
  <2>7. Grown(w, u, {es[1].pc, es[2].pc})
    BY <2>4, <2>6 DEF Grown, At1
  <2> QED BY <1>1, <1>2, <1>5, <2>1, <2>3, <2>5, <2>7
<1> QED BY <1>2, <1>3, <1>4, <1>5

DepthInv ==
  /\ phase = "depths" =>
       /\ Right(depths, queue)
       /\ \A pc \in DOMAIN depths : Edges(body, pc) \subseteq DOMAIN depths \/ At1(queue, pc)
  /\ phase \in {"emit", "run"} =>
       /\ DOMAIN depths \subseteq reach
       /\ InDepths(body) \cup HandlersOf(body) \subseteq DOMAIN depths
       /\ \A pc \in DOMAIN depths : depths[pc] = Depth(pc)

LEMMA DepthVisit ==
  ASSUME ReachInv, DepthInv, CanonicalDepths
  PROVE  DepthInv'
<1> DEFINE it == Last(queue)
           w == [depths |-> depths, queue |-> Front(queue)]
           v == EnqueueAll(w, DepthEdges(it))
<1>1. /\ body \in Bodies /\ phase = "depths" /\ queue # <<>> /\ reach = InReach(body)
      /\ Right(depths, queue)
      /\ \A pc \in DOMAIN depths : Edges(body, pc) \subseteq DOMAIN depths \/ At1(queue, pc)
  BY DEF ReachInv, DepthInv, CanonicalDepths, Planned
<1>2. /\ depths' = v.depths /\ queue' = v.queue
      /\ body' = body /\ phase' = phase /\ reach' = reach
  BY DEF CanonicalDepths
<1>3. /\ it \in Items /\ Front(queue) \in Seq(Items)
      /\ \A x : x \in Range(queue) <=> x = it \/ x \in Range(Front(queue))
  BY <1>1, PopFacts DEF Right
<1> HIDE DEF it
<1>4. /\ it.pc \in Pcs(body) /\ it.pc \in DOMAIN depths /\ it.depth = Depth(it.pc)
      /\ it.pc \in reach
  BY <1>1, <1>3 DEF Right, Items
<1>5. Right(w.depths, w.queue)
  BY <1>1, <1>3 DEF Right
<1>6. reach \subseteq Pcs(body) /\ Edges(body, it.pc) \subseteq reach
  BY <1>1, <1>4, InReachClosed, ClosedFacts
<1>7. Grown(w, v, Edges(body, it.pc))
  <2> HIDE DEF w
  <2> QED BY <1>1, <1>4, <1>5, <1>6, EnqueueAllFacts
<1>8. w.depths = depths /\ w.queue = Front(queue)
  OBVIOUS
<1> HIDE DEF w, v
<1>9. /\ Right(depths', queue')
      /\ DOMAIN depths' = DOMAIN depths \cup Edges(body, it.pc)
      /\ Range(Front(queue)) \subseteq Range(queue')
      /\ \A pc \in DOMAIN depths' \ DOMAIN depths : At1(queue', pc)
  BY <1>2, <1>7, <1>8 DEF Grown
<1>10. ASSUME NEW pc \in DOMAIN depths'
       PROVE  Edges(body, pc) \subseteq DOMAIN depths' \/ At1(queue', pc)
  <2>1. CASE pc = it.pc
    BY <1>9, <2>1
  <2>2. CASE pc \notin DOMAIN depths
    BY <1>9, <2>2
  <2>3. CASE pc \in DOMAIN depths /\ pc # it.pc
    <3>1. Edges(body, pc) \subseteq DOMAIN depths \/ At1(queue, pc)
      BY <1>1, <2>3
    <3>2. At1(queue, pc) => At1(queue', pc)
      BY <1>3, <1>9, <2>3 DEF At1
    <3> QED BY <1>9, <3>1, <3>2
  <2> QED BY <2>1, <2>2, <2>3
<1>11. Right(depths, queue)'
  BY <1>2, <1>9 DEF Right, Items, Depth
<1> QED BY <1>1, <1>2, <1>10, <1>11 DEF DepthInv, At1

LEMMA DepthStep ==
  ASSUME HandlersReached, ReachInv, DepthInv, [Next]_vars
  PROVE  DepthInv'
<1>1. body \in Bodies /\ (phase \in Planned => reach = InReach(body))
  BY DEF ReachInv
<1>2. CASE UNCHANGED vars
  BY <1>2 DEF vars, plan, DepthInv, Right, Items, Depth, At1
<1>3. CASE Verify \/ VerifyDone \/ Reachable
  BY <1>3 DEF Verify, VerifyDone, Reachable, DepthInv
<1>4. CASE ReachableDone
  <2>1. /\ phase' = "depths" /\ body' = body
        /\ depths' = [pc \in {0} |-> 0] /\ queue' = <<[pc |-> 0, depth |-> 0]>>
    BY <1>4 DEF ReachableDone
  <2>2. reach' = InReach(body)
    BY <1>4, <2>1, ReachStep DEF ReachInv, Planned, Next
  <2>3. 0 \in Pcs(body) /\ Depth(0) = 0 /\ 0 \in InReach(body)
    BY <1>1, BodyFacts, InReachClosed, ClosedFacts DEF Depth
  <2> DEFINE it == [pc |-> 0, depth |-> 0]
  <2>4. it \in Items /\ it.pc = 0 /\ it.depth = 0 /\ queue' = <<it>>
    BY <2>1, <2>3 DEF Items
  <2> HIDE DEF it
  <2>5. queue' \in Seq(Items) /\ \A x : x \in Range(queue') <=> x = it
    BY <2>4, OneFacts
  <2>6. DOMAIN depths' = {0} /\ depths'[0] = 0
    BY <2>1
  <2>7. Right(depths, queue)'
    BY <2>1, <2>2, <2>3, <2>4, <2>5, <2>6 DEF Right, Items, Depth
  <2>8. At1(queue', 0)
    BY <2>4, <2>5 DEF At1
  <2> QED BY <2>1, <2>6, <2>7, <2>8 DEF DepthInv, At1
<1>5. CASE CanonicalDepths
  BY <1>5, DepthVisit
<1>6. CASE CanonicalDepthsDone
  <2>1. /\ phase = "depths" /\ queue = <<>> /\ phase' = "emit" /\ body' = body /\ reach' = reach
        /\ depths' = [pc \in DOMAIN depths \cup HandlersOf(body) |->
                        IF pc \in DOMAIN depths THEN depths[pc] ELSE 1]
    BY <1>6 DEF CanonicalDepthsDone, HandlerPcs, HandlersOf
  <2>2. Right(depths, queue) /\ \A pc \in DOMAIN depths : Edges(body, pc) \subseteq DOMAIN depths
    BY <2>1, NoneFacts DEF DepthInv, At1
  <2>3. reach = InReach(body) /\ reach \subseteq Pcs(body)
    BY <1>1, <2>1, InReachClosed DEF Planned
  <2>4. DOMAIN depths \in SUBSET Pcs(body) /\ DepthClosed(body, DOMAIN depths)
    BY <1>1, <2>2, <2>3, ClosedFacts DEF Right
  <2>5. InDepths(body) \subseteq DOMAIN depths
    BY <2>4 DEF InDepths
  <2>6. \A pc \in HandlersOf(body) : Depth(pc) = 1
    BY <1>1, BodyFacts DEF HandlersOf, Depth
  <2>7. DOMAIN depths' = DOMAIN depths \cup HandlersOf(body)
    BY <2>1
  <2>8. HandlersOf(body) \subseteq reach
    BY <1>1, <2>3 DEF HandlersReached
  <2>9. \A pc \in DOMAIN depths' : depths'[pc] = Depth(pc)
    BY <2>1, <2>2, <2>6, <2>7 DEF Right
  <2>10. DOMAIN depths' \subseteq reach
    BY <2>2, <2>7, <2>8 DEF Right
  <2> QED BY <2>1, <2>5, <2>7, <2>9, <2>10 DEF DepthInv, Depth
<1>7. CASE Emit \/ EmitDone
  <2>1. /\ phase = "emit" /\ phase' \in {"emit", "run"} /\ body' = body /\ reach' = reach
        /\ depths' = depths
    BY <1>7 DEF Emit, EmitDone, plan
  <2> QED BY <2>1 DEF DepthInv, Depth
<1>8. CASE Exec
  <2>1. phase = "run" /\ body' = body /\ phase' = phase /\ reach' = reach /\ depths' = depths
    BY <1>8, ExecStays DEF Stay, plan
  <2> QED BY <2>1 DEF DepthInv, Depth
<1> QED BY <1>2, <1>3, <1>4, <1>5, <1>6, <1>7, <1>8 DEF Next, Exec

-----------------------------------------------------------------------------
(* The emission, instruction after instruction.                              *)

LinearInv ==
  /\ phase \notin {"emit", "run"} => DOMAIN emitted = {}
  /\ phase \in {"emit", "run"} =>
       /\ DOMAIN emitted \subseteq reach
       /\ \A pc \in DOMAIN emitted : emitted[pc] = Depth(pc)
       /\ \A pc \in DOMAIN emitted : \A q \in reach : q < pc => q \in DOMAIN emitted
       /\ \A pc \in DOMAIN emitted : (\A q \in DOMAIN emitted : q <= pc) =>
            eDepth = Depth(pc) + StackEffect(code[pc].op)
  /\ phase = "run" => DOMAIN emitted = reach

LEMMA LinearEmit ==
  ASSUME StraightHandlers, ReachInv, DepthInv, LinearInv, Emit
  PROVE  LinearInv'
<1> DEFINE left == reach \ DOMAIN emitted
           pc == Min(left)
           d == IF pc \in DOMAIN depths THEN depths[pc] ELSE eDepth
<1>1. /\ body \in Bodies /\ phase = "emit" /\ reach = InReach(body) /\ reach # DOMAIN emitted
      /\ InDepths(body) \cup HandlersOf(body) \subseteq DOMAIN depths
      /\ \A q \in DOMAIN depths : depths[q] = Depth(q)
  BY DEF ReachInv, DepthInv, Emit, Planned
<1>2. /\ DOMAIN emitted \subseteq reach
      /\ \A p \in DOMAIN emitted : emitted[p] = Depth(p)
      /\ \A p \in DOMAIN emitted : \A q \in reach : q < p => q \in DOMAIN emitted
      /\ \A p \in DOMAIN emitted : (\A q \in DOMAIN emitted : q <= p) =>
           eDepth = Depth(p) + StackEffect(code[p].op)
  BY <1>1 DEF LinearInv
<1>3. /\ emitted' = [q \in DOMAIN emitted \cup {pc} |-> IF q = pc THEN d ELSE emitted[q]]
      /\ eDepth' = d + StackEffect(code[pc].op)
      /\ body' = body /\ phase' = phase /\ reach' = reach
  BY DEF Emit
<1>4. reach \subseteq Nat /\ reach \subseteq Pcs(body)
  BY <1>1, InReachClosed, BodyFacts
<1>5. pc \in left /\ \A q \in left : pc <= q
  <2>1. left \subseteq Nat /\ left # {}
    BY <1>1, <1>2, <1>4
  <2> HIDE DEF left
  <2> QED BY <2>1, MinFacts
<1> HIDE DEF pc
<1>6. d = Depth(pc)
  <2>1. CASE pc \in DOMAIN depths
    BY <1>1, <2>1
  <2>2. CASE pc \notin DOMAIN depths
    <3>1. pc - 1 \in reach /\ ~Ends(body.code[pc - 1].op)
      <4>1. pc \in InReach(body) /\ pc \notin InDepths(body) \cup HandlersOf(body)
        BY <1>1, <1>5, <2>2
      <4>2. \A q \in InReach(body) :
              \/ q \in InDepths(body) \cup HandlersOf(body)
              \/ q - 1 \in InReach(body) /\ ~Ends(body.code[q - 1].op)
        BY <1>1 DEF StraightHandlers
      <4> QED BY <1>1, <4>1, <4>2
    <3>2. pc - 1 \in DOMAIN emitted
      BY <1>4, <1>5, <3>1
    <3>3. ASSUME NEW q \in DOMAIN emitted PROVE q <= pc - 1
      <4>1. q \in Nat /\ pc \in Nat /\ q # pc
        BY <1>2, <1>4, <1>5
      <4>2. ~(pc < q)
        BY <1>2, <1>5
      <4> QED BY <4>1, <4>2
    <3>4. eDepth = Depth(pc - 1) + StackEffect(code[pc - 1].op)
      BY <1>2, <3>2, <3>3
    <3>5. pc - 1 \in Pcs(body) /\ (pc - 1) + 1 = pc
      <4>1. pc \in Nat
        BY <1>4, <1>5
      <4> QED BY <1>4, <3>1, <4>1
    <3>6. Depth(pc) = Depth(pc - 1) + StackEffect(code[pc - 1].op)
      BY <1>1, <3>1, <3>5, BodyFacts DEF Depth, code
    <3> QED BY <2>2, <3>4, <3>6
  <2> QED BY <2>1, <2>2
<1> HIDE DEF d
<1>7. DOMAIN emitted' = DOMAIN emitted \cup {pc}
  BY <1>3
<1>8. \A p \in DOMAIN emitted' : emitted'[p] = Depth(p)
  BY <1>2, <1>3, <1>6, <1>7
<1>9. ASSUME NEW p \in DOMAIN emitted', NEW q \in reach, q < p PROVE q \in DOMAIN emitted'
  <2>1. CASE p \in DOMAIN emitted
    BY <1>2, <1>7, <1>9, <2>1
  <2>2. CASE p = pc
    <3>1. q \notin left
      <4>1. pc \in Nat /\ q \in Nat
        BY <1>4, <1>5, <1>9
      <4>2. ~(pc <= q)
        BY <1>9, <2>2, <4>1
      <4> HIDE DEF left
      <4> QED BY <1>5, <4>2
    <3> QED BY <1>7, <3>1
  <2> QED BY <1>7, <2>1, <2>2
<1>10. ASSUME NEW p \in DOMAIN emitted', \A q \in DOMAIN emitted' : q <= p
       PROVE  eDepth' = Depth(p) + StackEffect(code[p].op)
  <2>1. p = pc
    <3>1. pc <= p
      BY <1>7, <1>10
    <3>2. p \in DOMAIN emitted => ~(pc < p)
      BY <1>2, <1>5
    <3>3. p \in Nat /\ pc \in Nat
      BY <1>2, <1>4, <1>5, <1>7
    <3> QED BY <1>7, <3>1, <3>2, <3>3
  <2> QED BY <1>3, <1>6, <2>1
<1>11. DOMAIN emitted' \subseteq reach
  BY <1>2, <1>5, <1>7
<1> QED BY <1>1, <1>3, <1>8, <1>9, <1>10, <1>11 DEF LinearInv, Depth, code

LEMMA LinearStep ==
  ASSUME StraightHandlers, HandlersReached, ReachInv, DepthInv, LinearInv, [Next]_vars
  PROVE  LinearInv'
<1>1. CASE UNCHANGED vars
  BY <1>1 DEF vars, plan, LinearInv, Depth, code
<1>2. CASE Verify \/ VerifyDone \/ Reachable \/ ReachableDone \/ CanonicalDepths
  BY <1>2 DEF Verify, VerifyDone, Reachable, ReachableDone, CanonicalDepths, plan, LinearInv
<1>3. CASE CanonicalDepthsDone
  BY <1>3 DEF CanonicalDepthsDone, LinearInv
<1>4. CASE Emit
  BY <1>4, LinearEmit
<1>5. CASE EmitDone
  <2>1. /\ phase = "emit" /\ phase' = "run" /\ reach = DOMAIN emitted /\ body' = body
        /\ reach' = reach /\ emitted' = emitted /\ eDepth' = eDepth
    BY <1>5 DEF EmitDone, plan
  <2> QED BY <2>1 DEF LinearInv, Depth, code
<1>6. CASE Exec
  <2>1. /\ phase = "run" /\ body' = body /\ phase' = phase /\ reach' = reach
        /\ emitted' = emitted /\ eDepth' = eDepth
    BY <1>6, ExecStays DEF Stay, plan
  <2> QED BY <2>1 DEF LinearInv, Depth, code
<1> QED BY <1>1, <1>2, <1>3, <1>4, <1>5, <1>6 DEF Next, Exec

-----------------------------------------------------------------------------
(* The emitted function.                                                     *)

RunInv ==
  /\ phase # "run" => java = At(0)
  /\ phase = "run" /\ java.out = "running" => java.pc \in reach
  /\ "emit" \notin strayed => emit = java

LEMMA NextFacts ==
  ASSUME NEW pc, reach \subseteq Nat, pc \in reach, pc + 1 \in reach
  PROVE  EmittedNext(pc) = At(pc + 1)
<1> DEFINE after == {q \in reach : q > pc}
<1>1. pc \in Nat /\ after \subseteq Nat /\ \A q \in after : q > pc
  OBVIOUS
<1>2. pc + 1 \in after
  BY <1>1
<1>3. EmittedNext(pc) = IF after = {} THEN Left("returned nil") ELSE At(Min(after))
  BY DEF EmittedNext
<1> HIDE DEF after
<1>4. Min(after) \in after /\ Min(after) <= pc + 1
  BY <1>1, <1>2, MinFacts
<1>5. Min(after) = pc + 1
  <2>1. Min(after) \in Nat /\ Min(after) > pc
    BY <1>1, <1>4
  <2> QED BY <1>1, <1>4, <2>1
<1> QED BY <1>2, <1>3, <1>5

LEMMA RunStep ==
  ASSUME HandlersReached, ReachInv, RunInv, [Next]_vars
  PROVE  RunInv'
<1>1. body \in Bodies /\ (phase \in Planned => reach = InReach(body))
  BY DEF ReachInv
<1>2. CASE UNCHANGED vars
  BY <1>2 DEF vars, plan, machines, RunInv
<1>3. CASE Compile
  <2>1. /\ java' = java /\ emit' = emit /\ strayed' = strayed /\ body' = body /\ phase # "run"
        /\ java = At(0)
    BY <1>3, CompileStays DEF machines, RunInv
  <2>2. phase' = "run" => reach' = InReach(body)
    <3>1. ReachInv'
      BY <1>3, ReachStep, NextParts
    <3> QED BY <2>1, <3>1 DEF ReachInv, Planned
  <2>3. At(0).pc = 0 /\ 0 \in InReach(body)
    BY <1>1, InReachClosed, ClosedFacts DEF At
  <2> QED BY <2>1, <2>2, <2>3 DEF RunInv
<1>4. CASE Exec
  <2>1. phase = "run" /\ java.out = "running" /\ body' = body /\ phase' = phase
        /\ reach' = reach
    BY <1>4, ExecStays DEF Stay, plan
  <2>2. /\ reach = InReach(body) /\ java.pc \in reach /\ reach \subseteq Pcs(body)
        /\ java.pc \in Pcs(body) /\ reach \subseteq Nat
    BY <1>1, <2>1, InReachClosed, BodyFacts DEF RunInv, Planned
  <2>3. Edges(body, java.pc) \cup HandlersOf(body) \subseteq reach
    BY <1>1, <2>2, InReachClosed, ClosedFacts DEF HandlersReached
  <2>4. \/ java'.out # "running"
        \/ \E q \in Edges(body, java.pc) \cup HandlersOf(body) : java' = At(q)
    BY <1>1, <1>4, <2>2, JavaMoves
  <2>5. java'.out = "running" => java'.pc \in reach
    BY <2>3, <2>4 DEF At
  <2>6. ~Ends(code[java.pc].op) => EmittedNext(java.pc) = At(java.pc + 1)
    <3>1. ~Ends(code[java.pc].op) => java.pc + 1 \in Edges(body, java.pc)
      BY <1>1, <2>2, BodyFacts DEF Edges, code
    <3> QED BY <2>2, <2>3, <3>1, NextFacts
  <2>7. \A c \in Exc : \A next : ExcDispatch(java.pc, c, next) = JavaCatch(java.pc, c)
    BY <1>1, CatchFacts
  <2>8. \A next : ExcDispatch(java.pc, None, next) = next
    BY DEF ExcDispatch
  <2>9. Arith \in Exc
    BY ClassAssumption
  <2>10. emit' = java' \/ "emit" \in strayed'
    <3>1. CASE Plain \/ Return \/ Goto \/ Branch
      BY <2>6, <3>1 DEF Running, Plain, Return, Goto, Branch, Ends
    <3>2. CASE Invoke \/ Divide \/ InvokeStatic \/ New
      BY <2>6, <2>7, <2>8, <2>9, <3>2 DEF Running, Invoke, Divide, InvokeStatic, New, Throws,
                                          CalleeThrows, Succeeds, Strays, Ends
    <3>3. CASE Athrow
      BY <2>7, <3>3 DEF Athrow
    <3>4. CASE Checkcast
      BY <2>6, <2>8, <3>4 DEF Running, Checkcast, Ends
    <3> QED BY <1>4, <3>1, <3>2, <3>3, <3>4 DEF Exec
  <2> QED BY <2>1, <2>5, <2>10 DEF RunInv
<1> QED BY <1>2, <1>3, <1>4, NextParts

EmitInv == ReachInv /\ DepthInv /\ LinearInv /\ RunInv

\* For every body whose handlers are reached by the emitter's search and are
\* straight code, the emitted function is where the specification says, at an
\* instruction emitted with the depth the stack has there (Reachable,
\* computeCanonicalDepths, body and excDispatch together), casts apart.
THEOREM EmitCorrect ==
  ASSUME HandlersReached, StraightHandlers
  PROVE  Spec => []EmitFollows
<1>1. Init => EmitInv
  BY DEF Init, EmitInv, ReachInv, DepthInv, LinearInv, RunInv, Phases, Planned
<1>2. EmitInv /\ [Next]_vars => EmitInv'
  BY ReachStep, DepthStep, LinearStep, RunStep DEF EmitInv
<1>3. EmitInv => EmitFollows
  <2> SUFFICES ASSUME EmitInv, phase = "run", "emit" \notin strayed
               PROVE  /\ emit = java
                      /\ java.out = "running" =>
                           java.pc \in DOMAIN emitted /\ emitted[java.pc] = code[java.pc].depth
    BY DEF EmitFollows
  <2>1. emit = java /\ (java.out = "running" => java.pc \in reach)
    BY DEF EmitInv, RunInv
  <2>2. DOMAIN emitted = reach /\ \A pc \in DOMAIN emitted : emitted[pc] = Depth(pc)
    BY DEF EmitInv, LinearInv
  <2> QED BY <2>1, <2>2 DEF Depth, code
<1> QED BY <1>1, <1>2, <1>3, PTL DEF Spec
=============================================================================
