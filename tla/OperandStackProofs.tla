------------------------- MODULE OperandStackProofs -------------------------
(***************************************************************************)
(* Theorems about OperandStack, for every stack size, number of locals and *)
(* set of signatures: outside the instructions where an engine is known to *)
(* differ, it follows the JVM's stack and locals.                          *)
(***************************************************************************)
EXTENDS OperandStack, SequenceTheorems, WellFoundedInduction, TLAPS

LEMMA LeastNat ==
  ASSUME NEW T, T \subseteq Nat, T # {}
  PROVE  \E x \in T : \A y \in T : x <= y
<1>1. IsWellFoundedOn(OpToRel(<, Nat), Nat)
  BY NatLessThanWellFounded
<1>2. PICK x \in T : \A y \in T : ~(<<y, x>> \in OpToRel(<, Nat))
  BY <1>1, WFMin
<1>3. ASSUME NEW y \in T PROVE x <= y
  <2>1. <<y, x>> \notin OpToRel(<, Nat)
    BY <1>2
  <2>2. x \in Nat /\ y \in Nat
    OBVIOUS
  <2>3. ~(y < x)
    BY <2>1, <2>2 DEF OpToRel
  <2> QED BY <2>2, <2>3
<1> QED BY <1>3

\* Induction up to n, as a property of a set of numbers.
LEMMA UpTo ==
  ASSUME NEW n \in Nat, NEW T, 0 \in T, \A k \in 1..n : k - 1 \in T => k \in T
  PROVE  0..n \subseteq T
<1> SUFFICES ASSUME (0..n) \ T # {} PROVE FALSE
  OBVIOUS
<1>1. PICK x \in (0..n) \ T : \A y \in (0..n) \ T : x <= y
  <2>1. (0..n) \ T \subseteq Nat
    OBVIOUS
  <2> QED BY <2>1, LeastNat
<1>2. x \in 1..n /\ x - 1 \in 0..n
  BY <1>1
<1>3. x - 1 \in T
  BY <1>1, <1>2
<1> QED BY <1>1, <1>2, <1>3

(***************************************************************************)
(* A function defined from its value one step before.                      *)
(***************************************************************************)
Steps(n, V, v, B) == n \in Nat /\ v \in V /\ B \in [1..n -> [V -> V]]
Follows(n, V, v, B, f) ==
  f \in [0..n -> V] /\ f[0] = v /\ \A k \in 1..n : f[k] = B[k][f[k - 1]]

LEMMA Iteration ==
  ASSUME NEW n, NEW V, NEW v, NEW B, Steps(n, V, v, B)
  PROVE  \E f : Follows(n, V, v, B, f)
<1> USE DEF Steps
<1> DEFINE T == {m \in 0..n : \E f \in [0..n -> V] :
                   f[0] = v /\ \A k \in 1..m : f[k] = B[k][f[k - 1]]}
<1>1. 0 \in T
  <2>1. [k \in 0..n |-> v] \in [0..n -> V] /\ [k \in 0..n |-> v][0] = v
    OBVIOUS
  <2>2. 0 \in 0..n /\ \A k \in 1..0 : FALSE
    OBVIOUS
  <2> QED BY <2>1, <2>2
<1>2. ASSUME NEW m \in 1..n, m - 1 \in T PROVE m \in T
  <2>1. PICK f \in [0..n -> V] : f[0] = v /\ \A k \in 1..m - 1 : f[k] = B[k][f[k - 1]]
    BY <1>2
  <2> DEFINE g == [f EXCEPT ![m] = B[m][f[m - 1]]]
  <2>2. g \in [0..n -> V] /\ g[0] = v
    BY <2>1
  <2>3. ASSUME NEW k \in 1..m PROVE g[k] = B[k][g[k - 1]]
    <3>1. CASE k = m
      BY <3>1
    <3>2. CASE k # m
      BY <2>1, <3>2
    <3> QED BY <3>1, <3>2
  <2> HIDE DEF g
  <2> QED BY <2>2, <2>3
<1>3. 0..n \subseteq T
  <2> HIDE DEF T
  <2> QED BY <1>1, <1>2, UpTo
<1>4. n \in T
  BY <1>3
<1> QED BY <1>4 DEF Follows

LEMMA DepthsFacts ==
  ASSUME NEW ws \in Seq(Nat)
  PROVE  /\ Depths(ws) \in [0..Len(ws) -> Nat]
         /\ Depths(ws)[0] = 0
         /\ \A k \in 1..Len(ws) : Depths(ws)[k] = Depths(ws)[k - 1] + ws[k]
<1> DEFINE n == Len(ws)
           B == [k \in 1..n |-> [d \in Nat |-> d + ws[k]]]
           Sum(f) == [k \in 0..n |-> IF k = 0 THEN 0 ELSE f[k - 1] + ws[k]]
<1>1. n \in Nat /\ \A k \in 1..n : ws[k] \in Nat
  BY LenProperties
<1>2. B \in [1..n -> [Nat -> Nat]]
  BY <1>1
<1>3. \E f : Follows(n, Nat, 0, B, f)
  <2>1. Steps(n, Nat, 0, B)
    BY <1>1, <1>2 DEF Steps
  <2> HIDE DEF B, n
  <2> QED BY <2>1, Iteration
<1>4. PICK f \in [0..n -> Nat] : f[0] = 0 /\ \A k \in 1..n : f[k] = B[k][f[k - 1]]
  BY <1>3 DEF Follows
<1>5. f = Sum(f)
  <2>1. \A k \in 0..n : k # 0 => k \in 1..n /\ k - 1 \in 0..n /\ f[k - 1] \in Nat
    BY <1>1
  <2>2. \A k \in 0..n : k # 0 => f[k] = f[k - 1] + ws[k]
    BY <1>1, <1>4, <2>1
  <2>3. DOMAIN f = 0..n
    BY <1>4
  <2> QED BY <1>1, <1>4, <2>2, <2>3
<1>6. Depths(ws) = Sum(Depths(ws))
  <2>1. Depths(ws) = CHOOSE g : g = Sum(g)
    BY DEF Depths
  <2> QED BY <1>5, <2>1
<1>7. DOMAIN Depths(ws) = 0..n /\ Depths(ws)[0] = 0
      /\ \A k \in 1..n : Depths(ws)[k] = Depths(ws)[k - 1] + ws[k]
  BY <1>1, <1>6
<1>8. \A k \in 0..n : Depths(ws)[k] \in Nat
  <2> DEFINE T == {k \in 0..n : Depths(ws)[k] \in Nat}
  <2>1. 0 \in T
    BY <1>1, <1>7
  <2>2. ASSUME NEW k \in 1..n, k - 1 \in T PROVE k \in T
    BY <1>1, <1>7, <2>2
  <2> HIDE DEF T
  <2>3. 0..n \subseteq T
    BY <1>1, <2>1, <2>2, UpTo
  <2> QED BY <2>3 DEF T
<1> QED BY <1>6, <1>7, <1>8

LEMMA DepthsGrow ==
  ASSUME NEW ws \in Seq({1, 2})
  PROVE  /\ Depths(ws) \in [0..Len(ws) -> Nat] /\ Total(ws) \in Nat /\ Len(ws) \in Nat
         /\ DOMAIN ws = 1..Len(ws)
         /\ Depths(ws)[0] = 0
         /\ \A k \in 1..Len(ws) : /\ ws[k] \in {1, 2}
                                /\ Depths(ws)[k] = Depths(ws)[k - 1] + ws[k]
                                /\ Depths(ws)[k] \in 1..Total(ws)
                                /\ Depths(ws)[k - 1] \in 0..Total(ws)
<1> DEFINE n == Len(ws)
           D == Depths(ws)
           T == {k \in 0..n : \A j \in 0..k : D[j] <= D[k]}
<1>1. n \in Nat /\ DOMAIN ws = 1..n /\ \A k \in 1..n : ws[k] \in {1, 2}
  BY LenProperties
<1>2. ws \in Seq(Nat)
  BY SeqMonotonic
<1>3. D \in [0..n -> Nat] /\ D[0] = 0 /\ \A k \in 1..n : D[k] = D[k - 1] + ws[k]
  BY <1>2, DepthsFacts
<1> HIDE DEF D
<1>4. 0 \in T
  BY <1>1, <1>3
<1>5. ASSUME NEW k \in 1..n, k - 1 \in T PROVE k \in T
  <2>1. \A j \in 0..k - 1 : j \in 0..n /\ D[j] <= D[k - 1]
    BY <1>1, <1>5
  <2>2. D[k - 1] <= D[k] /\ D[k - 1] \in Nat /\ D[k] \in Nat
    BY <1>1, <1>3
  <2>3. \A j \in 0..k : D[j] \in Nat /\ (j = k \/ j \in 0..k - 1)
    BY <1>1, <1>3
  <2>4. \A j \in 0..k : D[j] <= D[k]
    BY <2>1, <2>2, <2>3
  <2> QED BY <1>1, <2>4
<1>6. 0..n \subseteq T
  <2> HIDE DEF T
  <2> QED BY <1>1, <1>4, <1>5, UpTo
<1>7. \A j \in 0..n : D[j] <= D[n]
  BY <1>1, <1>6
<1>8. Total(ws) = D[n] /\ D[n] \in Nat
  BY <1>1, <1>3 DEF Total, D
<1>9. ASSUME NEW k \in 1..n
      PROVE  D[k] \in 1..D[n] /\ D[k - 1] \in 0..D[n]
  <2>1. k \in 0..n /\ k - 1 \in 0..n
    BY <1>1
  <2>2. D[k] \in Nat /\ D[k - 1] \in Nat /\ D[k] = D[k - 1] + ws[k] /\ ws[k] \in {1, 2}
    BY <1>1, <1>3, <2>1
  <2> QED BY <1>7, <1>8, <2>1, <2>2
<1> QED BY <1>1, <1>3, <1>8, <1>9 DEF D

LEMMA DepthsOfFew ==
  /\ Total(<<>>) = 0
  /\ \A a \in {1, 2} : Depths(<<a>>)[1] = a /\ Total(<<a>>) = a
  /\ \A a, b \in {1, 2} : /\ Depths(<<a, b>>)[1] = a /\ Depths(<<a, b>>)[2] = a + b
                         /\ Total(<<a, b>>) = a + b
  /\ \A a, b, c \in {1, 2} : /\ Depths(<<a, b, c>>)[1] = a /\ Depths(<<a, b, c>>)[2] = a + b
                            /\ Depths(<<a, b, c>>)[3] = a + b + c
                            /\ Total(<<a, b, c>>) = a + b + c
<1>1. Total(<<>>) = 0
  <2>1. <<>> \in Seq({1, 2}) /\ Len(<<>>) = 0
    OBVIOUS
  <2> QED BY <2>1, DepthsGrow DEF Total
<1>2. ASSUME NEW a \in {1, 2} PROVE Depths(<<a>>)[1] = a /\ Total(<<a>>) = a
  <2> DEFINE ws == <<a>>
  <2>1. ws \in Seq({1, 2}) /\ Len(ws) = 1 /\ ws[1] = a
    OBVIOUS
  <2> HIDE DEF ws
  <2>2. 1 \in 1..Len(ws)
    BY <2>1
  <2>3. Depths(ws)[0] = 0 /\ Depths(ws)[1] = Depths(ws)[1 - 1] + ws[1]
    BY <2>1, <2>2, DepthsGrow
  <2>4. Depths(ws)[1] = a /\ Total(ws) = a
    BY <2>1, <2>3 DEF Total
  <2> QED BY <2>4 DEF ws
<1>3. ASSUME NEW a \in {1, 2}, NEW b \in {1, 2}
      PROVE  /\ Depths(<<a, b>>)[1] = a /\ Depths(<<a, b>>)[2] = a + b
             /\ Total(<<a, b>>) = a + b
  <2> DEFINE ws == <<a, b>>
  <2>1. ws \in Seq({1, 2}) /\ Len(ws) = 2 /\ ws[1] = a /\ ws[2] = b
    OBVIOUS
  <2> HIDE DEF ws
  <2>2. 1 \in 1..Len(ws) /\ 2 \in 1..Len(ws)
    BY <2>1
  <2>3. /\ Depths(ws)[0] = 0 /\ Depths(ws)[1] = Depths(ws)[1 - 1] + ws[1]
        /\ Depths(ws)[2] = Depths(ws)[2 - 1] + ws[2]
    BY <2>1, <2>2, DepthsGrow
  <2>4. Depths(ws)[1] = a /\ Depths(ws)[2] = a + b /\ Total(ws) = a + b
    BY <2>1, <2>3 DEF Total
  <2> QED BY <2>4 DEF ws
<1>4. ASSUME NEW a \in {1, 2}, NEW b \in {1, 2}, NEW c \in {1, 2}
      PROVE  /\ Depths(<<a, b, c>>)[1] = a /\ Depths(<<a, b, c>>)[2] = a + b
             /\ Depths(<<a, b, c>>)[3] = a + b + c
             /\ Total(<<a, b, c>>) = a + b + c
  <2> DEFINE ws == <<a, b, c>>
  <2>1. ws \in Seq({1, 2}) /\ Len(ws) = 3 /\ ws[1] = a /\ ws[2] = b /\ ws[3] = c
    OBVIOUS
  <2> HIDE DEF ws
  <2>2. 1 \in 1..Len(ws) /\ 2 \in 1..Len(ws) /\ 3 \in 1..Len(ws)
    BY <2>1
  <2>3. /\ Depths(ws)[0] = 0 /\ Depths(ws)[1] = Depths(ws)[1 - 1] + ws[1]
        /\ Depths(ws)[2] = Depths(ws)[2 - 1] + ws[2]
        /\ Depths(ws)[3] = Depths(ws)[3 - 1] + ws[3]
    BY <2>1, <2>2, DepthsGrow
  <2>4. Depths(ws)[1] = a /\ Depths(ws)[2] = a + b /\ Depths(ws)[3] = a + b + c
        /\ Total(ws) = a + b + c
    BY <2>1, <2>3 DEF Total
  <2> QED BY <2>4 DEF ws
<1> QED BY <1>1, <1>2, <1>3, <1>4

\* An operand below the others changes nothing for them.
LEMMA DepthsAppend ==
  ASSUME NEW ws \in Seq({1, 2}), NEW w \in {1, 2}
  PROVE  /\ Append(ws, w) \in Seq({1, 2}) /\ Len(Append(ws, w)) = Len(ws) + 1
         /\ \A k \in 0..Len(ws) : Depths(Append(ws, w))[k] = Depths(ws)[k]
         /\ Total(Append(ws, w)) = Total(ws) + w
<1> DEFINE n == Len(ws)
           xs == Append(ws, w)
<1>1. n \in Nat /\ xs \in Seq({1, 2}) /\ Len(xs) = n + 1 /\ xs[n + 1] = w
      /\ \A k \in 1..n : xs[k] = ws[k]
  BY AppendProperties, LenProperties
<1>2. /\ Depths(ws)[0] = 0 /\ Depths(xs)[0] = 0
      /\ \A k \in 1..n : Depths(ws)[k] = Depths(ws)[k - 1] + ws[k]
      /\ \A k \in 1..n + 1 : Depths(xs)[k] = Depths(xs)[k - 1] + xs[k]
  <2> HIDE DEF xs
  <2> QED BY <1>1, DepthsGrow
<1> HIDE DEF xs
<1> DEFINE T == {k \in 0..n : Depths(xs)[k] = Depths(ws)[k]}
<1>3. 0 \in T
  BY <1>1, <1>2
<1>4. ASSUME NEW k \in 1..n, k - 1 \in T PROVE k \in T
  BY <1>1, <1>2, <1>4
<1>5. 0..n \subseteq T
  <2> HIDE DEF T
  <2> QED BY <1>1, <1>3, <1>4, UpTo
<1>6. \A k \in 0..n : Depths(xs)[k] = Depths(ws)[k]
  BY <1>5
<1>7. Total(xs) = Total(ws) + w
  <2>1. n + 1 \in 1..n + 1 /\ n \in 0..n /\ n + 1 - 1 = n
    BY <1>1
  <2> QED BY <1>1, <1>2, <1>6, <2>1 DEF Total
<1> QED BY <1>1, <1>6, <1>7 DEF xs

LEMMA WidthsFacts ==
  ASSUME NEW kinds, NEW S, kinds \in Seq(S)
  PROVE  /\ Widths(kinds) \in Seq({1, 2}) /\ Len(Widths(kinds)) = Len(kinds)
         /\ DOMAIN kinds = 1..Len(kinds) /\ DOMAIN Widths(kinds) = 1..Len(kinds)
         /\ \A k \in 1..Len(kinds) : Widths(kinds)[k] = Width(kinds[k])
<1>1. Len(kinds) \in Nat /\ DOMAIN kinds = 1..Len(kinds)
  BY LenProperties
<1>2. \A k \in 1..Len(kinds) : Width(kinds[k]) \in {1, 2}
  BY DEF Width
<1>3. Widths(kinds) \in [1..Len(kinds) -> {1, 2}]
  BY <1>1, <1>2 DEF Widths
<1>4. Widths(kinds) \in Seq({1, 2}) /\ Len(Widths(kinds)) = Len(kinds)
  BY <1>1, <1>3
<1> QED BY <1>1, <1>3, <1>4 DEF Widths

(***************************************************************************)
(* The stack in slots: a long or a double is followed by its pad, and a    *)
(* pad follows nothing else.                                               *)
(***************************************************************************)
Slot == Value \cup {Pad}

Whole(s) ==
  \A p \in 1..Len(s) :
    /\ Cat2(s[p].kind) => p < Len(s) /\ s[p + 1] = Pad
    /\ s[p] = Pad => p > 1 /\ Cat2(s[p - 1].kind)

LEMMA SlotFacts ==
  /\ Pad.kind = "pad" /\ Junk # Pad /\ Pad \notin Value
  /\ ~Cat2("pad") /\ ~Cat2("none") /\ "pad" \notin Kinds /\ "none" \notin Kinds
  /\ NoValue \notin Value /\ NoValue.kind = "none"
  /\ "i" \in Kinds /\ "a" \in Kinds /\ "any" \notin Kinds /\ "v" \notin Kinds
  /\ \A k \in Kinds : k \in {"i", "f", "a", "l", "d"}
  /\ \A v \in Value : v.kind \in Kinds
BY StackAssumption DEF Pad, Junk, NoValue, Value, Cat2

LEMMA BelowFacts ==
  ASSUME NEW S, NEW s \in Seq(S), NEW n \in 0..Len(s)
  PROVE  /\ Below(s, n) \in Seq(S) /\ Len(Below(s, n)) = Len(s) - n
         /\ \A p \in 1..Len(s) - n : Below(s, n)[p] = s[p]
<1>1. Len(s) \in Nat /\ 1 \in Int /\ Len(s) - n \in Int
      /\ \A p \in 1..Len(s) - n : s[p] \in S
  BY LenProperties
<1>2. /\ SubSeq(s, 1, Len(s) - n) \in Seq(S)
      /\ Len(SubSeq(s, 1, Len(s) - n)) =
           IF 1 <= Len(s) - n THEN Len(s) - n - 1 + 1 ELSE 0
      /\ \A p \in 1..Len(s) - n - 1 + 1 : SubSeq(s, 1, Len(s) - n)[p] = s[1 + p - 1]
  BY <1>1, SubSeqProperties
<1> QED BY <1>1, <1>2 DEF Below

LEMMA TopFacts ==
  ASSUME NEW S, NEW s \in Seq(S), NEW n \in 0..Len(s)
  PROVE  /\ Top(s, n) \in Seq(S) /\ Len(Top(s, n)) = n
         /\ \A p \in 1..n : Top(s, n)[p] = s[Len(s) - n + p]
<1> DEFINE a == Len(s) - n + 1
<1>1. Len(s) \in Nat /\ a \in Int /\ Len(s) \in Int
      /\ \A p \in a..Len(s) : s[p] \in S
  BY LenProperties
<1> HIDE DEF a
<1>2. /\ SubSeq(s, a, Len(s)) \in Seq(S)
      /\ Len(SubSeq(s, a, Len(s))) = IF a <= Len(s) THEN Len(s) - a + 1 ELSE 0
      /\ \A p \in 1..Len(s) - a + 1 : SubSeq(s, a, Len(s))[p] = s[a + p - 1]
  BY <1>1, SubSeqProperties
<1> QED BY <1>1, <1>2 DEF Top, a

LEMMA SlotAtFacts ==
  ASSUME NEW S, NEW s \in Seq(S)
  PROVE  /\ \A d \in 1..Len(s) : SlotAt(s, d) = s[Len(s) - d + 1] /\ SlotAt(s, d) \in S
         /\ \A p \in 1..Len(s) : Len(s) - p + 1 \in 1..Len(s) /\ s[p] = SlotAt(s, Len(s) - p + 1)
<1>1. Len(s) \in Nat /\ \A p \in 1..Len(s) : s[p] \in S
  BY LenProperties
<1> QED BY <1>1 DEF SlotAt

\* Cutting a stack under a value leaves two whole ones.
LEMMA WholeCut ==
  ASSUME NEW s \in Seq(Slot), Whole(s), NEW n \in 0..Len(s), n = 0 \/ SlotAt(s, n) # Pad
  PROVE  Whole(Below(s, n)) /\ Whole(Top(s, n))
<1>1. Len(s) \in Nat /\ (n # 0 => s[Len(s) - n + 1] # Pad)
  BY LenProperties DEF SlotAt
<1>2. ASSUME NEW p \in 1..Len(Below(s, n))
      PROVE  /\ Cat2(Below(s, n)[p].kind) => p < Len(Below(s, n)) /\ Below(s, n)[p + 1] = Pad
             /\ Below(s, n)[p] = Pad => p > 1 /\ Cat2(Below(s, n)[p - 1].kind)
  <2>1. Len(Below(s, n)) = Len(s) - n /\ \A q \in 1..Len(s) - n : Below(s, n)[q] = s[q]
    BY BelowFacts
  <2>2. p \in 1..Len(s) /\ p \in 1..Len(s) - n /\ Below(s, n)[p] = s[p]
    BY <1>1, <2>1
  <2>3. ASSUME Cat2(s[p].kind) PROVE p < Len(s) - n /\ Below(s, n)[p + 1] = Pad
    <3>1. p < Len(s) /\ s[p + 1] = Pad
      BY <2>2, <2>3 DEF Whole
    <3>2. p # Len(s) - n
      BY <1>1, <3>1
    <3>3. p + 1 \in 1..Len(s) - n
      BY <1>1, <2>2, <3>2
    <3> QED BY <1>1, <2>1, <3>1, <3>3
  <2>4. ASSUME s[p] = Pad PROVE p > 1 /\ Cat2(Below(s, n)[p - 1].kind)
    <3>1. p > 1 /\ Cat2(s[p - 1].kind)
      BY <2>2, <2>4 DEF Whole
    <3>2. p - 1 \in 1..Len(s) - n
      BY <1>1, <2>2, <3>1
    <3> QED BY <2>1, <3>1, <3>2
  <2> QED BY <2>1, <2>2, <2>3, <2>4
<1>3. ASSUME NEW p \in 1..Len(Top(s, n))
      PROVE  /\ Cat2(Top(s, n)[p].kind) => p < Len(Top(s, n)) /\ Top(s, n)[p + 1] = Pad
             /\ Top(s, n)[p] = Pad => p > 1 /\ Cat2(Top(s, n)[p - 1].kind)
  <2> DEFINE q == Len(s) - n + p
  <2>1. Len(Top(s, n)) = n /\ \A r \in 1..n : Top(s, n)[r] = s[Len(s) - n + r]
    BY TopFacts
  <2>2. p \in 1..n /\ q \in 1..Len(s) /\ Top(s, n)[p] = s[q]
    BY <1>1, <2>1
  <2>3. ASSUME Cat2(s[q].kind) PROVE p < n /\ Top(s, n)[p + 1] = Pad
    <3>1. q < Len(s) /\ s[q + 1] = Pad
      BY <2>2, <2>3 DEF Whole
    <3>2. p + 1 \in 1..n /\ q + 1 = Len(s) - n + (p + 1)
      BY <1>1, <2>2, <3>1
    <3> QED BY <1>1, <2>1, <3>1, <3>2
  <2>4. ASSUME s[q] = Pad PROVE p > 1 /\ Cat2(Top(s, n)[p - 1].kind)
    <3>1. q > 1 /\ Cat2(s[q - 1].kind)
      BY <2>2, <2>4 DEF Whole
    <3>2. p # 1
      BY <1>1, <2>2, <2>4
    <3>3. p - 1 \in 1..n /\ q - 1 = Len(s) - n + (p - 1)
      BY <1>1, <2>2, <3>2
    <3>4. Top(s, n)[p - 1] = s[q - 1]
      BY <2>1, <3>3
    <3> QED BY <2>2, <3>1, <3>2, <3>4
  <2> QED BY <2>1, <2>2, <2>3, <2>4
<1> QED BY <1>2, <1>3 DEF Whole

LEMMA WholeCat ==
  ASSUME NEW s \in Seq(Slot), NEW t \in Seq(Slot), Whole(s), Whole(t)
  PROVE  s \o t \in Seq(Slot) /\ Len(s \o t) = Len(s) + Len(t) /\ Whole(s \o t)
<1> DEFINE u == s \o t
<1>1. /\ u \in Seq(Slot) /\ Len(u) = Len(s) + Len(t)
      /\ \A p \in 1..Len(s) + Len(t) : u[p] = IF p <= Len(s) THEN s[p] ELSE t[p - Len(s)]
  BY ConcatProperties
<1>2. Len(s) \in Nat /\ Len(t) \in Nat
  BY LenProperties
<1> HIDE DEF u
<1>3. ASSUME NEW p \in 1..Len(u)
      PROVE  /\ Cat2(u[p].kind) => p < Len(u) /\ u[p + 1] = Pad
             /\ u[p] = Pad => p > 1 /\ Cat2(u[p - 1].kind)
  <2>1. CASE p <= Len(s)
    <3>1. p \in 1..Len(s) /\ u[p] = s[p]
      BY <1>1, <1>2, <2>1
    <3>2. ASSUME Cat2(u[p].kind) PROVE p < Len(u) /\ u[p + 1] = Pad
      <4>1. p < Len(s) /\ s[p + 1] = Pad
        BY <3>1, <3>2 DEF Whole
      <4> QED BY <1>1, <1>2, <4>1
    <3>3. ASSUME u[p] = Pad PROVE p > 1 /\ Cat2(u[p - 1].kind)
      <4>1. p > 1 /\ Cat2(s[p - 1].kind)
        BY <3>1, <3>3 DEF Whole
      <4>2. u[p - 1] = s[p - 1]
        BY <1>1, <1>2, <2>1, <4>1
      <4> QED BY <4>1, <4>2
    <3> QED BY <3>2, <3>3
  <2>2. CASE ~(p <= Len(s))
    <3> DEFINE q == p - Len(s)
    <3>1. q \in 1..Len(t) /\ u[p] = t[q]
      BY <1>1, <1>2, <2>2
    <3>2. ASSUME Cat2(u[p].kind) PROVE p < Len(u) /\ u[p + 1] = Pad
      <4>1. q < Len(t) /\ t[q + 1] = Pad
        BY <3>1, <3>2 DEF Whole
      <4>2. p + 1 \in 1..Len(s) + Len(t) /\ p + 1 - Len(s) = q + 1 /\ ~(p + 1 <= Len(s))
        BY <1>1, <1>2, <2>2, <4>1
      <4>3. u[p + 1] = t[q + 1]
        BY <1>1, <4>2
      <4> QED BY <1>1, <1>2, <4>1, <4>2, <4>3
    <3>3. ASSUME u[p] = Pad PROVE p > 1 /\ Cat2(u[p - 1].kind)
      <4>1. q > 1 /\ Cat2(t[q - 1].kind)
        BY <3>1, <3>3 DEF Whole
      <4>2. p - 1 \in 1..Len(s) + Len(t) /\ p - 1 - Len(s) = q - 1 /\ ~(p - 1 <= Len(s))
        BY <1>1, <1>2, <2>2, <4>1
      <4>3. u[p - 1] = t[q - 1]
        BY <1>1, <4>2
      <4> QED BY <1>2, <2>2, <4>1, <4>3
    <3> QED BY <3>2, <3>3
  <2> QED BY <2>1, <2>2
<1> QED BY <1>1, <1>3 DEF Whole, u

LEMMA SlotsOfFacts ==
  ASSUME NEW v \in Value
  PROVE  /\ SlotsOf(v) \in Seq(Slot) /\ Len(SlotsOf(v)) = Width(v.kind) /\ Whole(SlotsOf(v))
         /\ SlotsOf(v)[1] = v /\ v # Pad /\ Width(v.kind) \in {1, 2}
         /\ Width(v.kind) = 2 => SlotsOf(v)[2] = Pad
         /\ v.kind \in Kinds
<1>1. v \in Slot /\ Pad \in Slot /\ v # Pad
  BY SlotFacts DEF Slot
<1>2. CASE Cat2(v.kind)
  <2>1. SlotsOf(v) = <<v, Pad>> /\ Width(v.kind) = 2
    BY <1>2 DEF SlotsOf, Width
  <2>2. <<v, Pad>> \in Seq(Slot) /\ Len(<<v, Pad>>) = 2 /\ <<v, Pad>>[1] = v /\ <<v, Pad>>[2] = Pad
    BY <1>1
  <2> DEFINE s == <<v, Pad>>
  <2>3. s \in Seq(Slot) /\ Len(s) = 2 /\ s[1] = v /\ s[2] = Pad
    BY <2>2
  <2> HIDE DEF s
  <2>4. Whole(s)
    BY <1>1, <1>2, <2>3, SlotFacts DEF Whole
  <2> QED BY <1>1, <2>1, <2>3, <2>4, SlotFacts DEF s
<1>3. CASE ~Cat2(v.kind)
  <2>1. SlotsOf(v) = <<v>> /\ Width(v.kind) = 1
    BY <1>3 DEF SlotsOf, Width
  <2> DEFINE s == <<v>>
  <2>2. s \in Seq(Slot) /\ Len(s) = 1 /\ s[1] = v
    BY <1>1
  <2> HIDE DEF s
  <2>3. Whole(s)
    BY <1>1, <1>3, <2>2 DEF Whole
  <2> QED BY <1>1, <2>1, <2>2, <2>3, SlotFacts DEF s
<1> QED BY <1>2, <1>3

(***************************************************************************)
(* Operands of the given kinds, top first, on top of a stack.              *)
(***************************************************************************)
Holds(s, kinds) ==
  /\ Total(Widths(kinds)) <= Len(s)
  /\ \A k \in DOMAIN kinds : SlotAt(s, Depths(Widths(kinds))[k]).kind = kinds[k]

LEMMA OperandsRead ==
  ASSUME NEW s \in Seq(Slot), NEW kinds \in Seq(Kinds), Holds(s, kinds)
  PROVE  /\ Total(Widths(kinds)) \in 0..Len(s)
         /\ Total(Widths(kinds)) = 0 \/ SlotAt(s, Total(Widths(kinds))) # Pad
         /\ \A o \in Read(s, Widths(kinds)) : o[2] # Pad
         /\ \A k \in DOMAIN kinds : SlotAt(s, Depths(Widths(kinds))[k]) # Pad
<1> DEFINE ws == Widths(kinds)
<1>1. /\ ws \in Seq({1, 2}) /\ Len(ws) = Len(kinds) /\ DOMAIN kinds = 1..Len(kinds)
      /\ DOMAIN ws = 1..Len(kinds)
  BY WidthsFacts
<1> HIDE DEF ws
<1>2. Total(ws) \in Nat /\ Len(ws) \in Nat /\ Depths(ws)[0] = 0
  BY <1>1, DepthsGrow
<1>3. Total(ws) \in 0..Len(s)
  BY <1>2, LenProperties DEF Holds, ws
<1>4. \A k \in 1..Len(kinds) : SlotAt(s, Depths(ws)[k]) # Pad
  <2> SUFFICES ASSUME NEW k \in 1..Len(kinds) PROVE SlotAt(s, Depths(ws)[k]) # Pad
    OBVIOUS
  <2>1. kinds[k] \in Kinds
    BY <1>1, ElementOfSeq
  <2>2. SlotAt(s, Depths(ws)[k]).kind = kinds[k]
    BY <1>1 DEF Holds, ws
  <2> QED BY <2>1, <2>2, SlotFacts
<1>5. Total(ws) = 0 \/ SlotAt(s, Total(ws)) # Pad
  <2>1. CASE Len(ws) = 0
    BY <1>2, <2>1 DEF Total
  <2>2. CASE Len(ws) # 0
    <3>1. Len(ws) \in 1..Len(kinds)
      BY <1>1, <1>2, <2>2
    <3> QED BY <1>4, <3>1 DEF Total
  <2> QED BY <2>1, <2>2
<1>6. \A o \in Read(s, ws) : o[2] # Pad
  BY <1>1, <1>4 DEF Read
<1> QED BY <1>1, <1>3, <1>4, <1>5, <1>6 DEF ws

LEMMA SinglyFacts ==
  ASSUME NEW n \in Nat
  PROVE  /\ Singly(n) \in Seq({1, 2}) /\ DOMAIN Singly(n) = 1..n /\ Total(Singly(n)) = n
         /\ \A k \in 1..n : Depths(Singly(n))[k] = k
<1>1. Singly(n) \in [1..n -> {1, 2}] /\ Len(Singly(n)) = n /\ Singly(n) \in Seq({1, 2})
      /\ \A k \in 1..n : Singly(n)[k] = 1
  BY DEF Singly
<1>2. Depths(Singly(n))[0] = 0 /\ \A k \in 1..n : Depths(Singly(n))[k] = Depths(Singly(n))[k - 1] + 1
  BY <1>1, DepthsGrow
<1> DEFINE T == {k \in 0..n : Depths(Singly(n))[k] = k}
<1>3. 0 \in T
  BY <1>2
<1>4. ASSUME NEW k \in 1..n, k - 1 \in T PROVE k \in T
  BY <1>2, <1>4
<1>5. 0..n \subseteq T
  <2> HIDE DEF T
  <2> QED BY <1>3, <1>4, UpTo
<1>6. \A k \in 0..n : Depths(Singly(n))[k] = k
  BY <1>5
<1> QED BY <1>1, <1>6 DEF Total

\* Popping slot by slot and dropping the sentinels reads the same operands.
LEMMA SinglyRead ==
  ASSUME NEW s \in Seq(Slot), Whole(s), NEW kinds \in Seq(Kinds), Holds(s, kinds)
  PROVE  {o \in Read(s, Singly(Total(Widths(kinds)))) : o[2] # Pad} = Read(s, Widths(kinds))
<1> DEFINE ws == Widths(kinds)
           n == Total(ws)
<1>1. /\ ws \in Seq({1, 2}) /\ Len(ws) = Len(kinds) /\ DOMAIN kinds = 1..Len(kinds)
      /\ DOMAIN ws = 1..Len(kinds)
      /\ \A k \in 1..Len(kinds) : ws[k] = Width(kinds[k])
  BY WidthsFacts
<1>2. /\ n \in 0..Len(s)
      /\ \A k \in 1..Len(kinds) : SlotAt(s, Depths(ws)[k]) # Pad
      /\ \A k \in 1..Len(kinds) : SlotAt(s, Depths(ws)[k]).kind = kinds[k]
  BY <1>1, OperandsRead DEF Holds
<1> HIDE DEF ws
<1>3. /\ n \in Nat /\ Len(kinds) \in Nat /\ Depths(ws)[0] = 0
      /\ Depths(ws) \in [0..Len(kinds) -> Nat]
      /\ \A k \in 1..Len(kinds) : /\ ws[k] \in {1, 2}
                                /\ Depths(ws)[k] = Depths(ws)[k - 1] + ws[k]
                                /\ Depths(ws)[k] \in 1..n
  BY <1>1, DepthsGrow
<1>4. Len(s) \in Nat
  BY LenProperties
<1>5. n = Depths(ws)[Len(kinds)]
  BY <1>1 DEF Total
<1> HIDE DEF n
<1> DEFINE T == {m \in 0..Len(kinds) : \A d \in 1..Depths(ws)[m] :
                   SlotAt(s, d) = Pad \/ \E k \in 1..Len(kinds) : d = Depths(ws)[k]}
<1>6. 0 \in T
  BY <1>3
<1>7. ASSUME NEW m \in 1..Len(kinds), m - 1 \in T PROVE m \in T
  <2> SUFFICES ASSUME NEW d \in 1..Depths(ws)[m], d # Depths(ws)[m], ~(d <= Depths(ws)[m - 1])
               PROVE  SlotAt(s, d) = Pad
    <3>1. m - 1 \in 0..Len(kinds) /\ m \in 0..Len(kinds)
          /\ Depths(ws)[m] \in Nat /\ Depths(ws)[m - 1] \in Nat
      BY <1>3
    <3> QED BY <1>7, <3>1
  <2>1. m - 1 \in 0..Len(kinds) /\ Depths(ws)[m - 1] \in Nat /\ Depths(ws)[m] \in 1..n
        /\ Depths(ws)[m] = Depths(ws)[m - 1] + ws[m] /\ ws[m] \in {1, 2}
    BY <1>3
  <2>2. ws[m] = 2 /\ d = Depths(ws)[m] - 1
    BY <2>1
  <2>3. Cat2(kinds[m])
    BY <1>1, <2>2 DEF Width
  <2> DEFINE p == Len(s) - Depths(ws)[m] + 1
  <2>4. p \in 1..Len(s) /\ SlotAt(s, Depths(ws)[m]) = s[p]
    BY <1>2, <1>4, <2>1, SlotAtFacts
  <2>5. p < Len(s) /\ s[p + 1] = Pad
    BY <1>2, <2>3, <2>4 DEF Whole
  <2>6. d \in 1..Len(s) /\ Len(s) - d + 1 = p + 1
    <3>1. Depths(ws)[m] \in Nat /\ Depths(ws)[m] <= Len(s) /\ Depths(ws)[m] >= 2
      BY <1>2, <1>4, <2>1, <2>2
    <3> QED BY <1>4, <2>2, <3>1
  <2> QED BY <2>5, <2>6, SlotAtFacts
<1>8. 0..Len(kinds) \subseteq T
  <2> HIDE DEF T
  <2> QED BY <1>3, <1>6, <1>7, UpTo
<1>9. \A d \in 1..n : SlotAt(s, d) = Pad \/ \E k \in 1..Len(kinds) : d = Depths(ws)[k]
  <2>1. Len(kinds) \in T
    BY <1>3, <1>8
  <2> QED BY <1>5, <2>1
<1>10. Read(s, Singly(n)) = {<<d, SlotAt(s, d)>> : d \in 1..n}
  <2>1. DOMAIN Singly(n) = 1..n /\ \A k \in 1..n : Depths(Singly(n))[k] = k
    BY <1>3, SinglyFacts
  <2>2. Read(s, Singly(n)) =
          {<<Depths(Singly(n))[k], SlotAt(s, Depths(Singly(n))[k])>> : k \in 1..n}
    BY <2>1 DEF Read
  <2> QED BY <2>1, <2>2
<1>11. Read(s, ws) = {<<Depths(ws)[k], SlotAt(s, Depths(ws)[k])>> : k \in 1..Len(kinds)}
  BY <1>1 DEF Read
<1>12. ASSUME NEW o \in Read(s, ws) PROVE o \in Read(s, Singly(n)) /\ o[2] # Pad
  BY <1>2, <1>3, <1>10, <1>11
<1>13. ASSUME NEW o \in Read(s, Singly(n)), o[2] # Pad PROVE o \in Read(s, ws)
  BY <1>9, <1>10, <1>11, <1>13
<1>14. {o \in Read(s, Singly(n)) : o[2] # Pad} = Read(s, ws)
  BY <1>12, <1>13
<1> QED BY <1>14 DEF n, ws

(***************************************************************************)
(* The instructions.                                                       *)
(***************************************************************************)
IsCall(i) == i.op \in {"invokevirtual", "invokestatic"}

LEMMA PlainCases ==
  ASSUME NEW i \in Plain
  PROVE  /\ <<i.op, i.k>> \notin Avoided
         /\ \/ i.op = "const" /\ i.k \in Kinds /\ i.to = i.k
            \/ i.op \in {"binary", "neg"} /\ i.k \in Numeric /\ i.to = i.k
            \/ i.op \in {"shift", "logic"} /\ i.k \in Kinds \cap {"i", "l"} /\ i.to = i.k
            \/ i.op = "conv" /\ i.k \in Numeric /\ i.to \in Numeric
            \/ i.op = "cmp" /\ i.k \in Numeric /\ i.k # "i" /\ i.to = "i"
            \/ i.op \in {"if1", "if2"} /\ i.k \in {"i", "a"} /\ i.to = "v"
            \/ i.op = "switch" /\ i.k = "i" /\ i.to = "v"
            \/ /\ i.op \in {"getstatic", "putstatic", "getfield", "putfield", "xaload", "xastore"}
               /\ i.k \in Kinds /\ i.to = i.k
            \/ i.op \in {"new", "newarray", "multianewarray", "checkcast"} /\ i.k = "a" /\ i.to = "a"
            \/ i.op \in {"arraylength", "instanceof"} /\ i.k = "a" /\ i.to = "i"
            \/ i.op = "monitor" /\ i.k = "a" /\ i.to = "v"
            \/ IsCall(i) /\ i.k = "any" /\ i.to \in Kinds \cup {"v"} /\ i.args \in Signatures
<1>1. i \in Allowed(Constants \cup Arithmetic \cup Conversions \cup Comparisons \cup Branches
                 \cup Fields \cup ArrayAccesses \cup Objects \cup Calls)
  BY DEF Plain
<1>2. <<i.op, i.k>> \notin Avoided
  BY <1>1 DEF Allowed
<1>3. CASE i \in Constants
  BY <1>2, <1>3 DEF Constants, Ins
<1>4. CASE i \in Arithmetic
  BY <1>2, <1>4 DEF Arithmetic, Ins
<1>5. CASE i \in Conversions
  BY <1>2, <1>5 DEF Conversions, Ins
<1>6. CASE i \in Comparisons
  BY <1>2, <1>6 DEF Comparisons, Ins
<1>7. CASE i \in Branches
  BY <1>2, <1>7 DEF Branches, Ins
<1>8. CASE i \in Fields \cup ArrayAccesses
  BY <1>2, <1>8 DEF Fields, ArrayAccesses, Ins
<1>9. CASE i \in Objects
  BY <1>2, <1>9 DEF Objects, Ins
<1>10. CASE i \in Calls
  BY <1>2, <1>10 DEF Calls, IsCall
<1> QED BY <1>1, <1>3, <1>4, <1>5, <1>6, <1>7, <1>8, <1>9, <1>10 DEF Allowed

LEMMA LocalCases ==
  ASSUME NEW ops, NEW kinds, NEW i \in LocalOps(ops, kinds)
  PROVE  /\ <<i.op, i.k>> \notin Avoided
         /\ i.op \in ops /\ i.k \in kinds /\ i.to = i.k /\ i.n \in Locals
BY DEF LocalOps, Allowed

LEMMA ReturnCases ==
  ASSUME NEW i \in Returns
  PROVE  i.op = "return" /\ i.k \in Kinds /\ i.to = i.k
BY DEF Returns, Ins

\* Whatever takes its operands from the top of the stack.
Taking == Plain \cup LocalOps({"store", "wstore"}, Kinds) \cup Returns

LEMMA TakesFacts ==
  ASSUME NEW i \in Taking
  PROVE  Takes(i) \in Seq(Kinds) /\ Gives(i) \in Kinds \cup {"v"}
<1>1. "i" \in Kinds /\ "a" \in Kinds /\ Numeric \subseteq Kinds
  BY SlotFacts DEF Numeric
<1>2. CASE i \in LocalOps({"store", "wstore"}, Kinds) \cup Returns
  <2>1. i.op \in {"store", "wstore", "return"} /\ i.k \in Kinds
    <3>1. CASE i \in LocalOps({"store", "wstore"}, Kinds)
      <4>1. i.op \in {"store", "wstore"} /\ i.k \in Kinds
        BY <3>1, LocalCases
      <4> QED BY <4>1
    <3>2. CASE i \in Returns
      BY <3>2, ReturnCases
    <3> QED BY <1>2, <3>1, <3>2
  <2>2. Takes(i) = <<i.k>> /\ Gives(i) = "v"
    BY <2>1 DEF Takes, Gives
  <2> QED BY <2>1, <2>2
<1>3. CASE i \in Plain
  <2>1. Gives(i) \in Kinds \cup {"v"}
    BY <1>1, <1>3, PlainCases DEF Gives
  <2>2. CASE i.op \in {"const", "getstatic", "new"}
    <3>1. Takes(i) = <<>>
      BY <2>2 DEF Takes
    <3> QED BY <2>1, <3>1
  <2>3. CASE i.op \in {"putstatic", "neg", "conv", "if1"}
    <3>1. Takes(i) = <<i.k>> /\ i.k \in Kinds
      BY <1>1, <1>3, <2>3, PlainCases DEF Takes, IsCall
    <3> QED BY <2>1, <3>1
  <2>4. CASE i.op \in {"binary", "logic", "cmp", "if2"}
    <3>1. Takes(i) = <<i.k, i.k>> /\ i.k \in Kinds
      BY <1>1, <1>3, <2>4, PlainCases DEF Takes, IsCall
    <3> QED BY <2>1, <3>1
  <2>5. CASE i.op \in {"shift", "putfield"}
    <3>1. (Takes(i) = <<"i", i.k>> \/ Takes(i) = <<i.k, "a">>) /\ i.k \in Kinds
      BY <1>1, <1>3, <2>5, PlainCases DEF Takes, IsCall
    <3> QED BY <1>1, <2>1, <3>1
  <2>6. CASE i.op = "xaload"
    <3>1. Takes(i) = <<"i", "a">>
      BY <2>6 DEF Takes
    <3> QED BY <1>1, <2>1, <3>1
  <2>7. CASE i.op = "xastore"
    <3>1. Takes(i) = <<i.k, "i", "a">> /\ i.k \in Kinds
      BY <1>1, <1>3, <2>7, PlainCases DEF Takes, IsCall
    <3> QED BY <1>1, <2>1, <3>1
  <2>8. CASE i.op \in {"getfield", "arraylength", "checkcast", "instanceof", "monitor"}
    <3>1. Takes(i) = <<"a">>
      BY <2>8 DEF Takes
    <3> QED BY <1>1, <2>1, <3>1
  <2>9. CASE i.op \in {"switch", "newarray", "multianewarray"}
    <3>1. Takes(i) = <<"i">> \/ Takes(i) = <<"i", "i">>
      BY <2>9 DEF Takes
    <3>2. \A k \in Kinds : <<k>> \in Seq(Kinds) /\ <<k, k>> \in Seq(Kinds)
      OBVIOUS
    <3> QED BY <1>1, <2>1, <3>1, <3>2
  <2>10. CASE IsCall(i)
    <3>1. i.args \in Seq(Kinds)
      BY <1>3, <2>10, PlainCases, StackAssumption DEF IsCall
    <3>2. Takes(i) = i.args \/ Takes(i) = Append(i.args, "a")
      BY <2>10 DEF Takes, IsCall
    <3>3. Append(i.args, "a") \in Seq(Kinds)
      BY <1>1, <3>1, AppendProperties
    <3> QED BY <2>1, <3>1, <3>2, <3>3
  <2> QED
    <3>1. i.op \in {"const", "getstatic", "new", "putstatic", "neg", "conv", "if1", "binary", "logic", "cmp",
              "if2", "shift", "putfield", "xaload", "xastore", "getfield", "arraylength",
              "checkcast", "instanceof", "monitor", "switch", "newarray", "multianewarray"}
          \/ IsCall(i)
      BY <1>3, PlainCases
    <3> QED BY <2>2, <2>3, <2>4, <2>5, <2>6, <2>7, <2>8, <2>9, <2>10, <3>1
<1> QED BY <1>2, <1>3 DEF Taking

LEMMA WidthsOfFew ==
  /\ Width("i") = 1 /\ Width("a") = 1 /\ \A a : Width(a) \in {1, 2}
  /\ Widths(<<>>) = <<>>
  /\ \A a : Widths(<<a>>) = <<Width(a)>>
  /\ \A a, b : Widths(<<a, b>>) = <<Width(a), Width(b)>>
  /\ \A a, b, c : Widths(<<a, b, c>>) = <<Width(a), Width(b), Width(c)>>
<1>1. Width("i") = 1 /\ Width("a") = 1 /\ \A a : Width(a) \in {1, 2}
  BY DEF Width, Cat2
<1>2. Widths(<<>>) = <<>>
  BY DEF Widths
<1>3. ASSUME NEW a PROVE Widths(<<a>>) = <<Width(a)>>
  BY DEF Widths
<1>4. ASSUME NEW a, NEW b PROVE Widths(<<a, b>>) = <<Width(a), Width(b)>>
  BY DEF Widths
<1>5. ASSUME NEW a, NEW b, NEW c PROVE Widths(<<a, b, c>>) = <<Width(a), Width(b), Width(c)>>
  BY DEF Widths
<1> QED BY <1>1, <1>2, <1>3, <1>4, <1>5

LEMMA WidthsAppend ==
  ASSUME NEW kinds \in Seq(Kinds)
  PROVE  /\ Widths(Append(kinds, "a")) = Append(Widths(kinds), 1)
         /\ Total(Widths(Append(kinds, "a"))) = Total(Widths(kinds)) + 1
         /\ Total(Widths(kinds)) \in Nat
<1> DEFINE ws == Widths(kinds)
           xs == Widths(Append(kinds, "a"))
           ys == Append(ws, 1)
<1>1. "a" \in Kinds
  BY SlotFacts
<1>2. /\ Append(kinds, "a") \in Seq(Kinds) /\ Len(Append(kinds, "a")) = Len(kinds) + 1
      /\ \A k \in 1..Len(kinds) : Append(kinds, "a")[k] = kinds[k]
      /\ Append(kinds, "a")[Len(kinds) + 1] = "a"
  BY <1>1, AppendProperties
<1>3. /\ ws \in Seq({1, 2}) /\ Len(ws) = Len(kinds)
      /\ \A k \in 1..Len(kinds) : ws[k] = Width(kinds[k])
  BY WidthsFacts
<1>4. /\ xs \in Seq({1, 2}) /\ Len(xs) = Len(kinds) + 1
      /\ \A k \in 1..Len(kinds) + 1 : xs[k] = Width(Append(kinds, "a")[k])
  BY <1>2, WidthsFacts
<1>5. /\ ys \in Seq({1, 2}) /\ Len(ys) = Len(kinds) + 1
      /\ \A k \in 1..Len(kinds) : ys[k] = ws[k]
      /\ ys[Len(kinds) + 1] = 1
  BY <1>3, AppendProperties
<1>6. Len(kinds) \in Nat
  BY LenProperties
<1> HIDE DEF ws, xs, ys
<1>7. \A k \in 1..Len(kinds) + 1 : xs[k] = ys[k]
  <2> SUFFICES ASSUME NEW k \in 1..Len(kinds) + 1 PROVE xs[k] = ys[k]
    OBVIOUS
  <2>1. CASE k = Len(kinds) + 1
    BY <1>2, <1>4, <1>5, <2>1, WidthsOfFew
  <2>2. CASE k # Len(kinds) + 1
    <3>1. k \in 1..Len(kinds)
      BY <1>6, <2>2
    <3> QED BY <1>2, <1>3, <1>4, <1>5, <3>1
  <2> QED BY <2>1, <2>2
<1>8. xs = ys
  BY <1>4, <1>5, <1>7, SeqEqual
<1>9. Total(ys) = Total(ws) + 1
  BY <1>3, DepthsAppend DEF ys
<1>10. Total(ws) \in Nat
  BY <1>3, DepthsGrow
<1> QED BY <1>8, <1>9, <1>10 DEF ws, xs, ys

\* The interpreter's pops are the operands of the instruction, those of a call
\* slot by slot.
LEMMA InterpPopsFacts ==
  ASSUME NEW i \in Taking
  PROVE  /\ ~IsCall(i) => InterpPops(i) = Widths(Takes(i))
         /\ IsCall(i) => InterpPops(i) = Singly(OperandSlots(i))
<1>1. CASE i \in LocalOps({"store", "wstore"}, Kinds)
  <2>1. i.op \in {"store", "wstore"}
    BY <1>1, LocalCases
  <2> QED BY <2>1, WidthsOfFew DEF InterpPops, Takes, IsCall
<1>2. CASE i \in Returns
  <2>1. i.op = "return"
    BY <1>2, ReturnCases
  <2> QED BY <2>1, WidthsOfFew DEF InterpPops, Takes, IsCall
<1>3. CASE i \in Plain /\ IsCall(i)
  <2>1. i.args \in Seq(Kinds)
    BY <1>3, PlainCases, StackAssumption DEF IsCall
  <2> QED BY <1>3, <2>1, WidthsAppend DEF InterpPops, Takes, IsCall, OperandSlots
<1>4. CASE i \in Plain /\ ~IsCall(i)
  <2>1. CASE i.op \in {"const", "getstatic", "new", "putstatic", "neg", "conv", "if1"}
    BY <2>1, WidthsOfFew DEF InterpPops, Takes, IsCall
  <2>2. CASE i.op \in {"binary", "logic", "cmp", "if2"}
    BY <2>2, WidthsOfFew DEF InterpPops, Takes, IsCall
  <2>3. CASE i.op \in {"shift", "putfield"}
    BY <2>3, WidthsOfFew DEF InterpPops, InterpShift, Takes, IsCall
  <2>4. CASE i.op \in {"xaload", "xastore", "multianewarray"}
    <3>1. CASE i.op = "xastore"
      BY <3>1, WidthsOfFew DEF InterpPops, Takes, IsCall
    <3>2. CASE i.op = "xaload"
      BY <3>2, WidthsOfFew DEF InterpPops, Takes, IsCall
    <3>3. CASE i.op = "multianewarray"
      BY <3>3, WidthsOfFew DEF InterpPops, Takes, IsCall
    <3> QED BY <2>4, <3>1, <3>2, <3>3
  <2>5. CASE i.op \in {"getfield", "arraylength", "checkcast", "instanceof", "monitor", "switch", "newarray"}
    BY <2>5, WidthsOfFew DEF InterpPops, Takes, IsCall
  <2> QED
    <3>1. i.op \in {"const", "getstatic", "new", "putstatic", "neg", "conv", "if1", "binary", "logic", "cmp",
              "if2", "shift", "putfield", "xaload", "xastore", "getfield", "arraylength",
              "checkcast", "instanceof", "monitor", "switch", "newarray", "multianewarray"}
      BY <1>4, PlainCases
    <3> QED BY <2>1, <2>2, <2>3, <2>4, <2>5, <3>1
<1> QED BY <1>1, <1>2, <1>3, <1>4 DEF Taking

\* The emitter reads the operands of every instruction it knows.
LEMMA EmitPopsFacts ==
  ASSUME NEW i \in Taking, ~Unsupported(i.op)
  PROVE  EmitPops(i) = Widths(Takes(i))
<1>1. CASE i \in LocalOps({"store", "wstore"}, Kinds)
  <2>1. i.op = "store"
    <3>1. i.op \in {"store", "wstore"}
      BY <1>1, LocalCases
    <3> QED BY <3>1 DEF Unsupported
  <2> QED BY <2>1, WidthsOfFew DEF EmitPops, Takes
<1>2. CASE i \in Returns
  <2>1. i.op = "return"
    BY <1>2, ReturnCases
  <2> QED BY <2>1, WidthsOfFew DEF EmitPops, Takes
<1>3. CASE i \in Plain /\ IsCall(i)
  <2>1. i.args \in Seq(Kinds)
    BY <1>3, PlainCases, StackAssumption DEF IsCall
  <2> QED BY <1>3, <2>1, WidthsAppend DEF EmitPops, Takes, IsCall
<1>4. CASE i \in Plain /\ ~IsCall(i)
  <2>1. CASE i.op \in {"const", "getstatic", "new", "putstatic", "neg", "conv", "if1"}
    BY <2>1, WidthsOfFew DEF EmitPops, Takes
  <2>2. CASE i.op \in {"binary", "logic", "cmp", "if2"}
    BY <2>2, WidthsOfFew DEF EmitPops, Takes
  <2>3. CASE i.op \in {"shift", "putfield"}
    BY <2>3, WidthsOfFew DEF EmitPops, Takes
  <2>4. CASE i.op \in {"xaload", "xastore"}
    <3>1. CASE i.op = "xastore"
      BY <3>1, WidthsOfFew DEF EmitPops, Takes
    <3>2. CASE i.op = "xaload"
      BY <3>2, WidthsOfFew DEF EmitPops, Takes
    <3> QED BY <2>4, <3>1, <3>2
  <2>5. CASE i.op \in {"getfield", "arraylength", "checkcast", "instanceof", "monitor", "switch", "newarray"}
    BY <2>5, WidthsOfFew DEF EmitPops, Takes
  <2> QED
    <3>1. i.op \in {"const", "getstatic", "new", "putstatic", "neg", "conv", "if1", "binary", "logic", "cmp",
              "if2", "shift", "putfield", "xaload", "xastore", "getfield", "arraylength",
              "checkcast", "instanceof", "monitor", "switch", "newarray", "multianewarray"}
      BY <1>4, PlainCases
    <3>2. i.op # "multianewarray"
      BY DEF Unsupported
    <3> QED BY <2>1, <2>2, <2>3, <2>4, <2>5, <3>1, <3>2
<1> QED BY <1>1, <1>2, <1>3, <1>4 DEF Taking

\* The entries of StackEffect that are not the difference of the operands and
\* the result.
WrongEffect(i) == \/ i.op = "neg" /\ ~Cat2(i.k)
                  \/ i.op = "logic" /\ i.k = "l"

LEMMA OperandSlotsOfFew ==
  ASSUME NEW i
  PROVE  /\ Takes(i) = <<>> => OperandSlots(i) = 0
         /\ \A a : Takes(i) = <<a>> => OperandSlots(i) = Width(a)
         /\ \A a, b : Takes(i) = <<a, b>> => OperandSlots(i) = Width(a) + Width(b)
         /\ \A a, b, c : Takes(i) = <<a, b, c>> => OperandSlots(i) = Width(a) + Width(b) + Width(c)
<1>1. Takes(i) = <<>> => OperandSlots(i) = 0
  BY WidthsOfFew, DepthsOfFew DEF OperandSlots
<1>2. ASSUME NEW a, Takes(i) = <<a>> PROVE OperandSlots(i) = Width(a)
  <2>1. Total(<<Width(a)>>) = Width(a)
    <3>1. Width(a) \in {1, 2}
      BY WidthsOfFew
    <3> QED BY <3>1, DepthsOfFew
  <2> QED BY <1>2, <2>1, WidthsOfFew DEF OperandSlots
<1>3. ASSUME NEW a, NEW b, Takes(i) = <<a, b>> PROVE OperandSlots(i) = Width(a) + Width(b)
  <2>1. Total(<<Width(a), Width(b)>>) = Width(a) + Width(b)
    <3>1. Width(a) \in {1, 2} /\ Width(b) \in {1, 2}
      BY WidthsOfFew
    <3> QED BY <3>1, DepthsOfFew
  <2> QED BY <1>3, <2>1, WidthsOfFew DEF OperandSlots
<1>4. ASSUME NEW a, NEW b, NEW c, Takes(i) = <<a, b, c>>
      PROVE  OperandSlots(i) = Width(a) + Width(b) + Width(c)
  <2>1. Total(<<Width(a), Width(b), Width(c)>>) = Width(a) + Width(b) + Width(c)
    <3>1. Width(a) \in {1, 2} /\ Width(b) \in {1, 2} /\ Width(c) \in {1, 2}
      BY WidthsOfFew
    <3> QED BY <3>1, DepthsOfFew
  <2> QED BY <1>4, <2>1, WidthsOfFew DEF OperandSlots
<1> QED BY <1>1, <1>2, <1>3, <1>4

LEMMA EffectFacts ==
  ASSUME NEW i \in Taking, ~Unsupported(i.op), i.op # "return", ~WrongEffect(i)
  PROVE  StackEffect(i) = GivenSlots(i) - OperandSlots(i)
<1>1. CASE i \in LocalOps({"store", "wstore"}, Kinds)
  <2>1. i.op = "store"
    <3>1. i.op \in {"store", "wstore"}
      BY <1>1, LocalCases
    <3> QED BY <3>1 DEF Unsupported
  <2>2. GivenSlots(i) = 0
    BY <2>1 DEF GivenSlots, Gives
  <2>3. OperandSlots(i) = Width(i.k)
    BY <2>1, OperandSlotsOfFew DEF Takes
  <2>4. StackEffect(i) = 0 - Width(i.k)
    BY <2>1 DEF StackEffect
  <2> QED BY <2>2, <2>3, <2>4
<1>2. CASE i \in Returns
  BY <1>2, ReturnCases
<1>3. CASE i \in Plain /\ IsCall(i)
  <2>1. i.args \in Seq(Kinds)
    BY <1>3, PlainCases, StackAssumption DEF IsCall
  <2>2. /\ i.op = "invokestatic" => OperandSlots(i) = Total(Widths(i.args))
        /\ i.op = "invokevirtual" => OperandSlots(i) = Total(Widths(i.args)) + 1
        /\ Total(Widths(i.args)) \in Nat
    BY <2>1, WidthsAppend DEF OperandSlots, Takes
  <2>3. StackEffect(i) = CallEffect(i)
    BY <1>3 DEF IsCall, StackEffect
  <2>4. Gives(i) = i.to
    BY <1>3 DEF IsCall, Gives
  <2>5. GivenSlots(i) = IF i.to = "v" THEN 0 ELSE Width(i.to)
    BY <2>4 DEF GivenSlots
  <2>6. GivenSlots(i) \in Nat
    <3>1. Width(i.to) \in Nat
      BY WidthsOfFew
    <3> QED BY <2>5, <3>1
  <2> QED BY <1>3, <2>2, <2>3, <2>5, <2>6 DEF CallEffect, IsCall
<1>4. CASE i \in Plain /\ ~IsCall(i)
  <2>1. CASE i.op \in {"const", "getstatic"}
    <3>1. i.to = i.k /\ i.k # "v"
      BY <1>4, <2>1, PlainCases, SlotFacts DEF IsCall
    <3>2. GivenSlots(i) = Width(i.k)
      BY <2>1, <3>1, WidthsOfFew DEF Gives, GivenSlots
    <3>3. OperandSlots(i) = 0
      BY <2>1, <3>1, OperandSlotsOfFew, WidthsOfFew DEF Takes
    <3>4. StackEffect(i) = Width(i.k)
      BY <2>1, <3>1 DEF StackEffect
    <3> QED BY <2>1, <3>1, <3>2, <3>3, <3>4, WidthsOfFew
  <2>2. CASE i.op = "putstatic"
    <3>1. i.k # "v"
      BY <1>4, <2>2, PlainCases, SlotFacts DEF IsCall
    <3>2. GivenSlots(i) = 0
      BY <2>2, <3>1, WidthsOfFew DEF Gives, GivenSlots
    <3>3. OperandSlots(i) = Width(i.k)
      BY <2>2, <3>1, OperandSlotsOfFew, WidthsOfFew DEF Takes
    <3>4. StackEffect(i) = 0 - Width(i.k)
      BY <2>2, <3>1 DEF StackEffect
    <3> QED BY <2>2, <3>1, <3>2, <3>3, <3>4, WidthsOfFew
  <2>3. CASE i.op \in {"if1", "switch", "monitor"}
    <3>1. i.to = "v" /\ i.k \in {"i", "a"}
      BY <1>4, <2>3, PlainCases, SlotFacts DEF IsCall
    <3>2. GivenSlots(i) = 0
      BY <2>3, <3>1, WidthsOfFew DEF Gives, GivenSlots
    <3>3. OperandSlots(i) = 1
      <4>1. Takes(i) = <<i.k>> \/ Takes(i) = <<"i">> \/ Takes(i) = <<"a">>
        BY <2>3, <3>1 DEF Takes
      <4> QED BY <3>1, <4>1, OperandSlotsOfFew, WidthsOfFew
    <3>4. StackEffect(i) = -1
      BY <2>3, <3>1 DEF StackEffect
    <3> QED BY <2>3, <3>1, <3>2, <3>3, <3>4, WidthsOfFew
  <2>4. CASE i.op = "if2"
    <3>1. i.to = "v" /\ i.k \in {"i", "a"}
      BY <1>4, <2>4, PlainCases, SlotFacts DEF IsCall
    <3>2. GivenSlots(i) = 0
      BY <2>4, <3>1, WidthsOfFew DEF Gives, GivenSlots
    <3>3. OperandSlots(i) = 2
      <4>1. Takes(i) = <<i.k, i.k>>
        BY <2>4, <3>1 DEF Takes
      <4> QED BY <3>1, <4>1, OperandSlotsOfFew, WidthsOfFew
    <3>4. StackEffect(i) = -2
      BY <2>4, <3>1 DEF StackEffect
    <3> QED BY <2>4, <3>1, <3>2, <3>3, <3>4, WidthsOfFew
  <2>5. CASE i.op = "neg"
    <3>1. i.to = i.k /\ i.k # "v" /\ Cat2(i.k)
      <4>1. i.to = i.k /\ i.k \in Numeric
        BY <1>4, <2>5, PlainCases DEF IsCall
      <4>2. Cat2(i.k)
        BY <2>5 DEF WrongEffect
      <4> QED BY <4>1, <4>2, SlotFacts DEF Numeric
    <3>2. GivenSlots(i) = Width(i.k)
      BY <2>5, <3>1, WidthsOfFew DEF Gives, GivenSlots
    <3>3. OperandSlots(i) = Width(i.k)
      BY <2>5, <3>1, OperandSlotsOfFew, WidthsOfFew DEF Takes
    <3>4. StackEffect(i) = 0
      BY <2>5, <3>1 DEF StackEffect
    <3> QED BY <2>5, <3>1, <3>2, <3>3, <3>4, WidthsOfFew
  <2>6. CASE i.op = "conv"
    <3>1. i.to # "v"
      BY <1>4, <2>6, PlainCases, SlotFacts DEF IsCall, Numeric
    <3>2. GivenSlots(i) = Width(i.to)
      BY <2>6, <3>1, WidthsOfFew DEF Gives, GivenSlots
    <3>3. OperandSlots(i) = Width(i.k)
      BY <2>6, <3>1, OperandSlotsOfFew, WidthsOfFew DEF Takes
    <3>4. StackEffect(i) = Width(i.to) - Width(i.k)
      BY <2>6, <3>1 DEF StackEffect
    <3> QED BY <2>6, <3>1, <3>2, <3>3, <3>4, WidthsOfFew
  <2>7. CASE i.op = "binary"
    <3>1. i.to = i.k /\ i.k # "v"
      BY <1>4, <2>7, PlainCases, SlotFacts DEF IsCall, Numeric
    <3>2. GivenSlots(i) = Width(i.k)
      BY <2>7, <3>1, WidthsOfFew DEF Gives, GivenSlots
    <3>3. OperandSlots(i) = Width(i.k) + Width(i.k)
      <4>1. Takes(i) = <<i.k, i.k>>
        BY <2>7, <3>1 DEF Takes
      <4> QED BY <3>1, <4>1, OperandSlotsOfFew, WidthsOfFew
    <3>4. StackEffect(i) = IF Cat2(i.k) THEN -2 ELSE -1
      BY <2>7, <3>1 DEF StackEffect
    <3> QED BY <2>7, <3>1, <3>2, <3>3, <3>4, WidthsOfFew DEF Width
  <2>8. CASE i.op = "logic"
    <3>1. i.to = "i" /\ i.k = "i"
      BY <1>4, <2>8, PlainCases, SlotFacts DEF IsCall, WrongEffect
    <3>2. GivenSlots(i) = 1
      BY <2>8, <3>1, WidthsOfFew DEF Gives, GivenSlots
    <3>3. OperandSlots(i) = 2
      <4>1. Takes(i) = <<"i", "i">>
        BY <2>8, <3>1 DEF Takes
      <4> QED BY <3>1, <4>1, OperandSlotsOfFew, WidthsOfFew
    <3>4. StackEffect(i) = -1
      BY <2>8, <3>1 DEF StackEffect
    <3> QED BY <2>8, <3>1, <3>2, <3>3, <3>4, WidthsOfFew
  <2>9. CASE i.op = "shift"
    <3>1. i.to = i.k /\ i.k # "v"
      BY <1>4, <2>9, PlainCases, SlotFacts DEF IsCall
    <3>2. GivenSlots(i) = Width(i.k)
      BY <2>9, <3>1, WidthsOfFew DEF Gives, GivenSlots
    <3>3. OperandSlots(i) = 1 + Width(i.k)
      <4>1. Takes(i) = <<"i", i.k>>
        BY <2>9, <3>1 DEF Takes
      <4> QED BY <3>1, <4>1, OperandSlotsOfFew, WidthsOfFew
    <3>4. StackEffect(i) = -1
      BY <2>9, <3>1 DEF StackEffect
    <3> QED BY <2>9, <3>1, <3>2, <3>3, <3>4, WidthsOfFew
  <2>10. CASE i.op = "cmp"
    <3>1. i.to = "i"
      BY <1>4, <2>10, PlainCases, SlotFacts DEF IsCall
    <3>2. GivenSlots(i) = 1
      BY <2>10, <3>1, WidthsOfFew DEF Gives, GivenSlots
    <3>3. OperandSlots(i) = Width(i.k) + Width(i.k)
      <4>1. Takes(i) = <<i.k, i.k>>
        BY <2>10, <3>1 DEF Takes
      <4> QED BY <3>1, <4>1, OperandSlotsOfFew, WidthsOfFew
    <3>4. StackEffect(i) = IF Cat2(i.k) THEN -3 ELSE -1
      BY <2>10, <3>1 DEF StackEffect
    <3> QED BY <2>10, <3>1, <3>2, <3>3, <3>4, WidthsOfFew DEF Width
  <2>11. CASE i.op = "getfield"
    <3>1. i.to = i.k /\ i.k # "v"
      BY <1>4, <2>11, PlainCases, SlotFacts DEF IsCall
    <3>2. GivenSlots(i) = Width(i.k)
      BY <2>11, <3>1, WidthsOfFew DEF Gives, GivenSlots
    <3>3. OperandSlots(i) = 1
      BY <2>11, <3>1, OperandSlotsOfFew, WidthsOfFew DEF Takes
    <3>4. StackEffect(i) = Width(i.k) - 1
      BY <2>11, <3>1 DEF StackEffect
    <3> QED BY <2>11, <3>1, <3>2, <3>3, <3>4, WidthsOfFew
  <2>12. CASE i.op = "putfield"
    <3>1. i.k # "v"
      BY <1>4, <2>12, PlainCases, SlotFacts DEF IsCall
    <3>2. GivenSlots(i) = 0
      BY <2>12, <3>1, WidthsOfFew DEF Gives, GivenSlots
    <3>3. OperandSlots(i) = Width(i.k) + 1
      <4>1. Takes(i) = <<i.k, "a">>
        BY <2>12, <3>1 DEF Takes
      <4> QED BY <3>1, <4>1, OperandSlotsOfFew, WidthsOfFew
    <3>4. StackEffect(i) = 0 - (1 + Width(i.k))
      BY <2>12, <3>1 DEF StackEffect
    <3> QED BY <2>12, <3>1, <3>2, <3>3, <3>4, WidthsOfFew
  <2>13. CASE i.op = "xaload"
    <3>1. i.to = i.k /\ i.k # "v"
      BY <1>4, <2>13, PlainCases, SlotFacts DEF IsCall
    <3>2. GivenSlots(i) = Width(i.k)
      BY <2>13, <3>1, WidthsOfFew DEF Gives, GivenSlots
    <3>3. OperandSlots(i) = 2
      <4>1. Takes(i) = <<"i", "a">>
        BY <2>13, <3>1 DEF Takes
      <4> QED BY <3>1, <4>1, OperandSlotsOfFew, WidthsOfFew
    <3>4. StackEffect(i) = IF Cat2(i.k) THEN 0 ELSE -1
      BY <2>13, <3>1 DEF StackEffect
    <3> QED BY <2>13, <3>1, <3>2, <3>3, <3>4, WidthsOfFew DEF Width
  <2>14. CASE i.op = "xastore"
    <3>1. i.to = i.k /\ i.k # "v"
      BY <1>4, <2>14, PlainCases, SlotFacts DEF IsCall
    <3>2. GivenSlots(i) = 0
      BY <2>14, <3>1, WidthsOfFew DEF Gives, GivenSlots
    <3>3. OperandSlots(i) = Width(i.k) + 1 + 1
      <4>1. Takes(i) = <<i.k, "i", "a">>
        BY <2>14, <3>1 DEF Takes
      <4> QED BY <3>1, <4>1, OperandSlotsOfFew, WidthsOfFew
    <3>4. StackEffect(i) = IF Cat2(i.k) THEN -4 ELSE -3
      BY <2>14, <3>1 DEF StackEffect
    <3> QED BY <2>14, <3>1, <3>2, <3>3, <3>4, WidthsOfFew DEF Width
  <2>15. CASE i.op = "new"
    <3>1. i.to = "a"
      BY <1>4, <2>15, PlainCases, SlotFacts DEF IsCall
    <3>2. GivenSlots(i) = 1
      BY <2>15, <3>1, WidthsOfFew DEF Gives, GivenSlots
    <3>3. OperandSlots(i) = 0
      BY <2>15, <3>1, OperandSlotsOfFew, WidthsOfFew DEF Takes
    <3>4. StackEffect(i) = 1
      BY <2>15, <3>1 DEF StackEffect
    <3> QED BY <2>15, <3>1, <3>2, <3>3, <3>4, WidthsOfFew
  <2>16. CASE i.op \in {"newarray", "checkcast", "arraylength", "instanceof"}
    <3>1. i.to \in {"i", "a"}
      BY <1>4, <2>16, PlainCases, SlotFacts DEF IsCall
    <3>2. GivenSlots(i) = 1
      BY <2>16, <3>1, WidthsOfFew DEF Gives, GivenSlots
    <3>3. OperandSlots(i) = 1
      BY <2>16, <3>1, OperandSlotsOfFew, WidthsOfFew DEF Takes
    <3>4. StackEffect(i) = 0
      BY <2>16, <3>1 DEF StackEffect
    <3> QED BY <2>16, <3>1, <3>2, <3>3, <3>4, WidthsOfFew
  <2> QED
    <3>1. i.op \in {"const", "getstatic", "new", "putstatic", "neg", "conv", "if1", "binary", "logic", "cmp",
              "if2", "shift", "putfield", "xaload", "xastore", "getfield", "arraylength",
              "checkcast", "instanceof", "monitor", "switch", "newarray", "multianewarray"}
      BY <1>4, PlainCases
    <3>2. i.op # "multianewarray"
      BY DEF Unsupported
    <3> QED BY <2>1, <2>2, <2>3, <2>4, <2>5, <2>6, <2>7, <2>8, <2>9, <2>10, <2>11, <2>12, <2>13,
               <2>14, <2>15, <2>16, <3>1, <3>2
<1> QED BY <1>1, <1>2, <1>3, <1>4 DEF Taking

(***************************************************************************)
(* The verifier's checks.                                                  *)
(***************************************************************************)

\* A check that takes a value of kind k and no more.
Fits(check, k) ==
  IF Cat2(k) THEN check.how = "pair"
  ELSE \/ check.how = "any"
       \/ check.how \in {"expect", "exact"} /\ check.k = k

\* The verifier pops half of the operand.
HalfPopped(i) == i.op \in {"neg", "shift"} /\ Cat2(i.k)

LEMMA FitsFacts ==
  /\ \A k : Fits(PairOr(Expect(k), k), k)
  /\ \A k : Fits(PairOr(AnyType, k), k)
  /\ \A k : Fits(PairOr(Exact(k), k), k)
  /\ \A k : ~Cat2(k) => Fits(Expect(k), k) /\ Fits(Exact(k), k)
  /\ ~Cat2("i") /\ ~Cat2("a")
BY DEF Fits, PairOr, Expect, AnyType, Exact, Pair, Cat2

FitAll(checks, kinds) ==
  /\ DOMAIN checks = DOMAIN kinds
  /\ \A k \in DOMAIN kinds : Fits(checks[k], kinds[k])

LEMMA FitFew ==
  /\ FitAll(<<>>, <<>>)
  /\ \A c, k : Fits(c, k) => FitAll(<<c>>, <<k>>)
  /\ \A c, k, d, l : Fits(c, k) /\ Fits(d, l) => FitAll(<<c, d>>, <<k, l>>)
  /\ \A c, k, d, l, e, m :
       Fits(c, k) /\ Fits(d, l) /\ Fits(e, m) => FitAll(<<c, d, e>>, <<k, l, m>>)
<1>1. FitAll(<<>>, <<>>)
  BY DEF FitAll
<1>2. ASSUME NEW c, NEW k, Fits(c, k) PROVE FitAll(<<c>>, <<k>>)
  <2>1. DOMAIN <<c>> = {1} /\ DOMAIN <<k>> = {1} /\ <<c>>[1] = c /\ <<k>>[1] = k
    OBVIOUS
  <2> QED BY <1>2, <2>1 DEF FitAll
<1>3. ASSUME NEW c, NEW k, NEW d, NEW l, Fits(c, k), Fits(d, l)
      PROVE  FitAll(<<c, d>>, <<k, l>>)
  <2>1. /\ DOMAIN <<c, d>> = {1, 2} /\ DOMAIN <<k, l>> = {1, 2}
        /\ <<c, d>>[1] = c /\ <<k, l>>[1] = k /\ <<c, d>>[2] = d /\ <<k, l>>[2] = l
    OBVIOUS
  <2> QED BY <1>3, <2>1 DEF FitAll
<1>4. ASSUME NEW c, NEW k, NEW d, NEW l, NEW e, NEW m, Fits(c, k), Fits(d, l), Fits(e, m)
      PROVE  FitAll(<<c, d, e>>, <<k, l, m>>)
  <2>1. /\ DOMAIN <<c, d, e>> = {1, 2, 3} /\ DOMAIN <<k, l, m>> = {1, 2, 3}
        /\ <<c, d, e>>[1] = c /\ <<k, l, m>>[1] = k /\ <<c, d, e>>[2] = d /\ <<k, l, m>>[2] = l
        /\ <<c, d, e>>[3] = e /\ <<k, l, m>>[3] = m
    OBVIOUS
  <2> QED BY <1>4, <2>1 DEF FitAll
<1> QED BY <1>1, <1>2, <1>3, <1>4

LEMMA VerPopsFit ==
  ASSUME NEW i \in Taking, ~HalfPopped(i)
  PROVE  FitAll(VerPops(i), Takes(i))
<1>1. CASE i \in LocalOps({"store", "wstore"}, Kinds)
  <2>1. i.op \in {"store", "wstore"}
    BY <1>1, LocalCases
  <2>2. /\ Takes(i) = <<i.k>>
        /\ VerPops(i) = <<PairOr(Expect(i.k), i.k)>> \/ VerPops(i) = <<PairOr(AnyType, i.k)>>
    BY <2>1 DEF VerPops, Takes
  <2> QED BY <2>2, FitFew, FitsFacts
<1>2. CASE i \in Returns
  <2>1. Takes(i) = <<i.k>> /\ VerPops(i) = <<PairOr(AnyType, i.k)>>
    BY <1>2, ReturnCases DEF VerPops, Takes
  <2> QED BY <2>1, FitFew, FitsFacts
<1>3. CASE i \in Plain /\ IsCall(i)
  <2> DEFINE args == Arguments(i.args)
  <2>1. i.args \in Seq(Kinds) /\ "a" \in Kinds
    BY <1>3, PlainCases, StackAssumption DEF IsCall
  <2>2. DOMAIN i.args = 1..Len(i.args) /\ Len(i.args) \in Nat
    BY <2>1, LenProperties
  <2>3. /\ DOMAIN args = 1..Len(i.args)
        /\ \A k \in 1..Len(i.args) : Fits(args[k], i.args[k])
    BY <2>2, FitsFacts DEF Arguments
  <2>4. CASE i.op = "invokestatic"
    <3>1. VerPops(i) = args /\ Takes(i) = i.args
      BY <2>4 DEF VerPops, Takes
    <3> QED BY <2>2, <2>3, <3>1 DEF FitAll
  <2>5. CASE i.op = "invokevirtual"
    <3>1. VerPops(i) = Append(args, Exact("a")) /\ Takes(i) = Append(i.args, "a")
      BY <2>5 DEF VerPops, Takes
    <3> DEFINE n == Len(i.args)
               S == {args[k] : k \in 1..n} \cup {Exact("a")}
    <3>2. args \in Seq(S) /\ Len(args) = n
      <4>1. args = [k \in 1..n |-> args[k]]
        BY <2>2 DEF Arguments
      <4>2. args \in [1..n -> S]
        BY <4>1
      <4> QED BY <2>2, <4>2
    <3>3. /\ Append(args, Exact("a")) \in Seq(S) /\ Len(Append(args, Exact("a"))) = n + 1
          /\ \A k \in 1..n : Append(args, Exact("a"))[k] = args[k]
          /\ Append(args, Exact("a"))[n + 1] = Exact("a")
      <4>1. Exact("a") \in S
        OBVIOUS
      <4> HIDE DEF args, S
      <4> QED BY <3>2, <4>1, AppendProperties
    <3>4. /\ Append(i.args, "a") \in Seq(Kinds) /\ Len(Append(i.args, "a")) = n + 1
          /\ \A k \in 1..n : Append(i.args, "a")[k] = i.args[k]
          /\ Append(i.args, "a")[n + 1] = "a"
      BY <2>1, AppendProperties
    <3> HIDE DEF args, S
    <3>5. DOMAIN Append(args, Exact("a")) = 1..n + 1 /\ DOMAIN Append(i.args, "a") = 1..n + 1
      BY <3>3, <3>4, LenProperties
    <3>6. \A k \in 1..n + 1 : Fits(Append(args, Exact("a"))[k], Append(i.args, "a")[k])
      <4> SUFFICES ASSUME NEW k \in 1..n + 1
                   PROVE  Fits(Append(args, Exact("a"))[k], Append(i.args, "a")[k])
        OBVIOUS
      <4>1. CASE k = n + 1
        BY <3>3, <3>4, <4>1, FitsFacts
      <4>2. CASE k # n + 1
        <5>1. k \in 1..n
          BY <2>2, <4>2
        <5> QED BY <2>3, <3>3, <3>4, <5>1
      <4> QED BY <4>1, <4>2
    <3> QED BY <3>1, <3>5, <3>6 DEF FitAll
  <2> QED BY <1>3, <2>4, <2>5 DEF IsCall
<1>4. CASE i \in Plain /\ ~IsCall(i)
  <2>1. CASE i.op \in {"const", "getstatic", "new"}
    <3>1. VerPops(i) = <<>> /\ Takes(i) = <<>>
      BY <2>1 DEF VerPops, Takes
    <3> QED BY <3>1, FitFew, FitsFacts
  <2>2. CASE i.op = "putstatic"
    <3>1. VerPops(i) = <<PairOr(AnyType, i.k)>> /\ Takes(i) = <<i.k>>
      BY <2>2 DEF VerPops, Takes
    <3> QED BY <3>1, FitFew, FitsFacts
  <2>3. CASE i.op = "conv"
    <3>1. VerPops(i) = <<PairOr(Expect(i.k), i.k)>> /\ Takes(i) = <<i.k>>
      BY <2>3 DEF VerPops, Takes
    <3> QED BY <3>1, FitFew, FitsFacts
  <2>4. CASE i.op \in {"neg", "if1"}
    <3>1. VerPops(i) = <<Expect(i.k)>> /\ Takes(i) = <<i.k>>
      BY <2>4 DEF VerPops, Takes
    <3>2. ~Cat2(i.k)
      BY <1>4, <2>4, PlainCases, FitsFacts DEF IsCall, HalfPopped
    <3> QED BY <3>1, <3>2, FitFew, FitsFacts
  <2>5. CASE i.op \in {"binary", "logic", "cmp"}
    <3>1. VerPops(i) = <<PairOr(Expect(i.k), i.k), PairOr(Expect(i.k), i.k)>> /\ Takes(i) = <<i.k, i.k>>
      BY <2>5 DEF VerPops, Takes
    <3> QED BY <3>1, FitFew, FitsFacts
  <2>6. CASE i.op = "if2"
    <3>1. VerPops(i) = <<Expect(i.k), Expect(i.k)>> /\ Takes(i) = <<i.k, i.k>>
      BY <2>6 DEF VerPops, Takes
    <3>2. ~Cat2(i.k)
      BY <1>4, <2>6, PlainCases, FitsFacts DEF IsCall, HalfPopped
    <3> QED BY <3>1, <3>2, FitFew, FitsFacts
  <2>7. CASE i.op = "shift"
    <3>1. VerPops(i) = <<Expect("i"), Expect(i.k)>> /\ Takes(i) = <<"i", i.k>>
      BY <2>7 DEF VerPops, Takes
    <3>2. ~Cat2(i.k)
      BY <1>4, <2>7, PlainCases, FitsFacts DEF IsCall, HalfPopped
    <3> QED BY <3>1, <3>2, FitFew, FitsFacts
  <2>8. CASE i.op = "xaload"
    <3>1. VerPops(i) = <<Expect("i"), Expect("a")>> /\ Takes(i) = <<"i", "a">>
      BY <2>8 DEF VerPops, Takes
    <3> QED BY <3>1, FitFew, FitsFacts
  <2>9. CASE i.op = "xastore"
    <3>1. VerPops(i) = <<PairOr(Expect(i.k), i.k), Expect("i"), Expect("a")>> /\ Takes(i) = <<i.k, "i", "a">>
      BY <2>9 DEF VerPops, Takes
    <3> QED BY <3>1, FitFew, FitsFacts
  <2>10. CASE i.op = "putfield"
    <3>1. VerPops(i) = <<PairOr(AnyType, i.k), Expect("a")>> /\ Takes(i) = <<i.k, "a">>
      BY <2>10 DEF VerPops, Takes
    <3> QED BY <3>1, FitFew, FitsFacts
  <2>11. CASE i.op \in {"getfield", "arraylength", "checkcast", "instanceof", "monitor"}
    <3>1. VerPops(i) = <<Expect("a")>> /\ Takes(i) = <<"a">>
      BY <2>11 DEF VerPops, Takes
    <3> QED BY <3>1, FitFew, FitsFacts
  <2>12. CASE i.op \in {"switch", "newarray"}
    <3>1. VerPops(i) = <<Expect("i")>> /\ Takes(i) = <<"i">>
      BY <2>12 DEF VerPops, Takes
    <3> QED BY <3>1, FitFew, FitsFacts
  <2>13. CASE i.op = "multianewarray"
    <3>1. VerPops(i) = <<Expect("i"), Expect("i")>> /\ Takes(i) = <<"i", "i">>
      BY <2>13 DEF VerPops, Takes
    <3> QED BY <3>1, FitFew, FitsFacts
  <2> QED
    <3>1. i.op \in {"const", "getstatic", "new", "putstatic", "neg", "conv", "if1", "binary", "logic", "cmp",
              "if2", "shift", "putfield", "xaload", "xastore", "getfield", "arraylength",
              "checkcast", "instanceof", "monitor", "switch", "newarray", "multianewarray"}
      BY <1>4, PlainCases
    <3> QED BY <2>1, <2>2, <2>3, <2>4, <2>5, <2>6, <2>7, <2>8, <2>9, <2>10, <2>11, <2>12, <2>13, <3>1
<1> QED BY <1>1, <1>2, <1>3, <1>4 DEF Taking

Types == Kinds \cup {"top"}

LEMMA TypesOfFacts ==
  ASSUME NEW s \in Seq(Slot)
  PROVE  /\ TypesOf(s) \in Seq(Types) /\ Len(TypesOf(s)) = Len(s) /\ DOMAIN TypesOf(s) = 1..Len(s)
         /\ \A p \in 1..Len(s) : TypesOf(s)[p] = IF s[p] = Pad THEN "top" ELSE s[p].kind
<1>1. Len(s) \in Nat /\ DOMAIN s = 1..Len(s) /\ \A p \in 1..Len(s) : s[p] \in Slot
  BY LenProperties
<1>2. \A p \in 1..Len(s) : (IF s[p] = Pad THEN "top" ELSE s[p].kind) \in Types
  BY <1>1, SlotFacts DEF Slot, Types
<1>3. TypesOf(s) \in [1..Len(s) -> Types]
  BY <1>1, <1>2 DEF TypesOf
<1>4. TypesOf(s) \in Seq(Types) /\ Len(TypesOf(s)) = Len(s)
  BY <1>1, <1>3
<1> QED BY <1>1, <1>3, <1>4 DEF TypesOf

LEMMA TypesOfCut ==
  ASSUME NEW s \in Seq(Slot), NEW n \in 0..Len(s)
  PROVE  /\ TypesOf(Below(s, n)) = Below(TypesOf(s), n)
         /\ TypesOf(Top(s, n)) = Top(TypesOf(s), n)
<1>1. Len(s) \in Nat
  BY LenProperties
<1>2. /\ TypesOf(s) \in Seq(Types) /\ Len(TypesOf(s)) = Len(s)
      /\ \A p \in 1..Len(s) : TypesOf(s)[p] = IF s[p] = Pad THEN "top" ELSE s[p].kind
  BY TypesOfFacts
<1>3. TypesOf(Below(s, n)) = Below(TypesOf(s), n)
  <2> DEFINE b == Below(s, n)
             c == Below(TypesOf(s), n)
  <2>1. b \in Seq(Slot) /\ Len(b) = Len(s) - n /\ \A p \in 1..Len(s) - n : b[p] = s[p]
    BY BelowFacts
  <2>2. c \in Seq(Types) /\ Len(c) = Len(s) - n /\ \A p \in 1..Len(s) - n : c[p] = TypesOf(s)[p]
    BY <1>2, BelowFacts
  <2> HIDE DEF b, c
  <2>3. /\ TypesOf(b) \in Seq(Types) /\ Len(TypesOf(b)) = Len(b)
        /\ \A p \in 1..Len(b) : TypesOf(b)[p] = IF b[p] = Pad THEN "top" ELSE b[p].kind
    BY <2>1, TypesOfFacts
  <2>4. ASSUME NEW p \in 1..Len(b) PROVE TypesOf(b)[p] = c[p]
    <3>1. p \in 1..Len(s) - n /\ p \in 1..Len(s)
      BY <1>1, <2>1
    <3> QED BY <1>2, <2>1, <2>2, <2>3, <3>1
  <2>5. TypesOf(b) = c
    BY <2>1, <2>2, <2>3, <2>4, SeqEqual
  <2> QED BY <2>5 DEF b, c
<1>4. TypesOf(Top(s, n)) = Top(TypesOf(s), n)
  <2> DEFINE b == Top(s, n)
             c == Top(TypesOf(s), n)
  <2>1. b \in Seq(Slot) /\ Len(b) = n /\ \A p \in 1..n : b[p] = s[Len(s) - n + p]
    BY TopFacts
  <2>2. c \in Seq(Types) /\ Len(c) = n /\ \A p \in 1..n : c[p] = TypesOf(s)[Len(s) - n + p]
    <3> DEFINE ts == TypesOf(s)
    <3>1. ts \in Seq(Types) /\ Len(ts) = Len(s) /\ n \in 0..Len(ts)
      BY <1>2
    <3> HIDE DEF ts
    <3>2. /\ Top(ts, n) \in Seq(Types) /\ Len(Top(ts, n)) = n
          /\ \A p \in 1..n : Top(ts, n)[p] = ts[Len(ts) - n + p]
      BY <3>1, TopFacts
    <3> QED BY <3>1, <3>2 DEF ts
  <2> HIDE DEF b, c
  <2>3. /\ TypesOf(b) \in Seq(Types) /\ Len(TypesOf(b)) = Len(b)
        /\ \A p \in 1..Len(b) : TypesOf(b)[p] = IF b[p] = Pad THEN "top" ELSE b[p].kind
    BY <2>1, TypesOfFacts
  <2>4. \A p \in 1..n : Len(s) - n + p \in 1..Len(s)
    BY <1>1
  <2>5. \A p \in 1..Len(b) : TypesOf(b)[p] = c[p]
    BY <1>2, <2>1, <2>2, <2>3, <2>4
  <2>6. TypesOf(b) = c
    BY <2>1, <2>2, <2>3, <2>5, SeqEqual
  <2> QED BY <2>6 DEF b, c
<1> QED BY <1>3, <1>4

LEMMA TypesOfCat ==
  ASSUME NEW s \in Seq(Slot), NEW t \in Seq(Slot)
  PROVE  TypesOf(s \o t) = TypesOf(s) \o TypesOf(t)
<1> DEFINE u == s \o t
           w == TypesOf(s) \o TypesOf(t)
<1>1. /\ u \in Seq(Slot) /\ Len(u) = Len(s) + Len(t)
      /\ \A p \in 1..Len(s) + Len(t) : u[p] = IF p <= Len(s) THEN s[p] ELSE t[p - Len(s)]
  BY ConcatProperties
<1>2. /\ TypesOf(s) \in Seq(Types) /\ Len(TypesOf(s)) = Len(s)
      /\ \A p \in 1..Len(s) : TypesOf(s)[p] = IF s[p] = Pad THEN "top" ELSE s[p].kind
  BY TypesOfFacts
<1>3. /\ TypesOf(t) \in Seq(Types) /\ Len(TypesOf(t)) = Len(t)
      /\ \A p \in 1..Len(t) : TypesOf(t)[p] = IF t[p] = Pad THEN "top" ELSE t[p].kind
  BY TypesOfFacts
<1>4. /\ w \in Seq(Types) /\ Len(w) = Len(s) + Len(t)
      /\ \A p \in 1..Len(s) + Len(t) :
           w[p] = IF p <= Len(s) THEN TypesOf(s)[p] ELSE TypesOf(t)[p - Len(s)]
  <2> DEFINE a == TypesOf(s)
             b == TypesOf(t)
  <2>1. a \in Seq(Types) /\ Len(a) = Len(s) /\ b \in Seq(Types) /\ Len(b) = Len(t)
    BY <1>2, <1>3
  <2> HIDE DEF a, b
  <2>2. /\ a \o b \in Seq(Types) /\ Len(a \o b) = Len(a) + Len(b)
        /\ \A p \in 1..Len(a) + Len(b) : (a \o b)[p] = IF p <= Len(a) THEN a[p] ELSE b[p - Len(a)]
    BY <2>1, ConcatProperties
  <2> QED BY <2>1, <2>2 DEF a, b
<1>5. Len(s) \in Nat /\ Len(t) \in Nat
  BY LenProperties
<1> HIDE DEF u, w
<1>6. /\ TypesOf(u) \in Seq(Types) /\ Len(TypesOf(u)) = Len(u)
      /\ \A p \in 1..Len(u) : TypesOf(u)[p] = IF u[p] = Pad THEN "top" ELSE u[p].kind
  BY <1>1, TypesOfFacts
<1>7. ASSUME NEW p \in 1..Len(u) PROVE TypesOf(u)[p] = w[p]
  <2>1. CASE p <= Len(s)
    <3>1. p \in 1..Len(s) /\ u[p] = s[p] /\ w[p] = TypesOf(s)[p]
      BY <1>1, <1>4, <1>5, <2>1
    <3> QED BY <1>2, <1>6, <3>1
  <2>2. CASE ~(p <= Len(s))
    <3>1. p - Len(s) \in 1..Len(t) /\ u[p] = t[p - Len(s)] /\ w[p] = TypesOf(t)[p - Len(s)]
      BY <1>1, <1>4, <1>5, <2>2
    <3> QED BY <1>3, <1>6, <3>1
  <2> QED BY <2>1, <2>2
<1>8. TypesOf(u) = w
  BY <1>1, <1>4, <1>6, <1>7, SeqEqual
<1> QED BY <1>8 DEF u, w

LEMMA TypesOfValue ==
  ASSUME NEW v \in Value
  PROVE  TypesOf(SlotsOf(v)) = IF Cat2(v.kind) THEN <<v.kind, "top">> ELSE <<v.kind>>
<1>1. v # Pad
  BY SlotFacts
<1>2. CASE Cat2(v.kind)
  <2>1. SlotsOf(v) = <<v, Pad>>
    BY <1>2 DEF SlotsOf
  <2>2. TypesOf(<<v, Pad>>) = <<v.kind, "top">>
    BY <1>1 DEF TypesOf
  <2> QED BY <1>2, <2>1, <2>2
<1>3. CASE ~Cat2(v.kind)
  <2>1. SlotsOf(v) = <<v>>
    BY <1>3 DEF SlotsOf
  <2>2. TypesOf(<<v>>) = <<v.kind>>
    BY <1>1 DEF TypesOf
  <2> QED BY <1>3, <2>1, <2>2
<1> QED BY <1>2, <1>3

\* Checks that fit the operands on top of the stack pop them and nothing else.
LEMMA CheckedFacts ==
  ASSUME NEW s \in Seq(Slot), Whole(s), NEW kinds \in Seq(Kinds), Holds(s, kinds),
         NEW checks, FitAll(checks, kinds), ver.types = TypesOf(s), ver.ok
  PROVE  Checked(checks) = [ver EXCEPT !.types = TypesOf(Below(s, Total(Widths(kinds))))]
<1> DEFINE ws == Widths(kinds)
           popped == [k \in DOMAIN checks |-> IF checks[k].how = "pair" THEN 2 ELSE 1]
           ts == TypesOf(s)
<1>1. /\ ws \in Seq({1, 2}) /\ Len(ws) = Len(kinds) /\ DOMAIN kinds = 1..Len(kinds)
      /\ DOMAIN ws = 1..Len(kinds)
      /\ \A k \in 1..Len(kinds) : ws[k] = Width(kinds[k])
  BY WidthsFacts
<1>2. DOMAIN checks = 1..Len(kinds) /\ \A k \in 1..Len(kinds) : Fits(checks[k], kinds[k])
  BY <1>1 DEF FitAll
<1>3. popped = ws
  <2>1. ws = [k \in 1..Len(kinds) |-> Width(kinds[k])]
    BY <1>1 DEF Widths
  <2>2. \A k \in 1..Len(kinds) : (IF checks[k].how = "pair" THEN 2 ELSE 1) = Width(kinds[k])
    BY <1>2 DEF Fits, Width
  <2> QED BY <1>2, <2>1, <2>2
<1>4. /\ Total(ws) \in 0..Len(s)
      /\ \A k \in 1..Len(kinds) : SlotAt(s, Depths(ws)[k]) # Pad
      /\ \A k \in 1..Len(kinds) : SlotAt(s, Depths(ws)[k]).kind = kinds[k]
  BY <1>1, OperandsRead DEF Holds
<1>5. Len(s) \in Nat
  BY LenProperties
<1>6. /\ ts \in Seq(Types) /\ Len(ts) = Len(s)
      /\ \A p \in 1..Len(s) : ts[p] = IF s[p] = Pad THEN "top" ELSE s[p].kind
  BY TypesOfFacts
<1> HIDE DEF ws, ts
<1>7. ASSUME NEW k \in 1..Len(kinds)
      PROVE  Accepts(Below(ts, Depths(ws)[k - 1]), checks[k])
  <2> DEFINE d == Depths(ws)[k - 1]
             e == Depths(ws)[k]
             b == Below(ts, d)
             n == Len(s) - d
             p == Len(s) - e + 1
  <2>1. d \in 0..Len(s) /\ e \in 1..Len(s) /\ e = d + ws[k] /\ ws[k] \in {1, 2}
    <3>1. d \in 0..Total(ws) /\ e \in 1..Total(ws) /\ e = d + ws[k] /\ ws[k] \in {1, 2}
      BY <1>1, DepthsGrow
    <3>2. Total(ws) \in Nat /\ Total(ws) <= Len(s)
      BY <1>4, <1>5
    <3> HIDE DEF d, e
    <3> QED BY <1>5, <3>1, <3>2
  <2> HIDE DEF d, e
  <2>2. Len(b) = n /\ \A q \in 1..n : b[q] = ts[q]
    BY <1>6, <2>1, BelowFacts
  <2>3. p \in 1..Len(s) /\ s[p].kind = kinds[k] /\ s[p] # Pad
    <3>1. SlotAt(s, e) = s[p] /\ p \in 1..Len(s)
      BY <1>5, <2>1, SlotAtFacts
    <3> QED BY <1>4, <3>1 DEF e
  <2>4. n \in Nat /\ p \in Nat
    BY <1>5, <2>1
  <2>5. CASE Cat2(kinds[k])
    <3>1. ws[k] = 2 /\ checks[k].how = "pair"
      BY <1>1, <1>2, <2>5 DEF Fits, Width
    <3>2. p < Len(s) /\ s[p + 1] = Pad
      BY <2>3, <2>5 DEF Whole
    <3>3. n - 1 = p /\ n = p + 1 /\ n \in 1..n /\ n - 1 \in 1..n /\ n >= 2 /\ n \in 1..Len(s)
      BY <1>5, <2>1, <2>3, <3>1
    <3>4. b[n] = "top" /\ b[n - 1] = kinds[k]
      BY <1>6, <2>2, <2>3, <3>2, <3>3
    <3> HIDE DEF b, n
    <3>5. Accepts(b, checks[k])
      BY <2>2, <2>5, <3>1, <3>3, <3>4 DEF Accepts
    <3> QED BY <3>5 DEF b, d
  <2>6. CASE ~Cat2(kinds[k])
    <3>1. ws[k] = 1
      BY <1>1, <2>6 DEF Width
    <3>2. n = p /\ n \in 1..n /\ n >= 1
      BY <1>5, <2>1, <2>3, <3>1
    <3>3. b[n] = kinds[k]
      BY <1>6, <2>2, <2>3, <3>2
    <3>4. \/ checks[k].how = "any"
          \/ checks[k].how \in {"expect", "exact"} /\ checks[k].k = kinds[k]
      BY <1>2, <2>6 DEF Fits
    <3> HIDE DEF b, n
    <3>5. Accepts(b, checks[k])
      BY <2>2, <3>2, <3>3, <3>4 DEF Accepts
    <3> QED BY <3>5 DEF b, d
  <2> QED BY <2>5, <2>6 DEF d
<1>8. TypesOf(Below(s, Total(ws))) = Below(ts, Total(ws))
  BY <1>4, TypesOfCut DEF ts
<1>9. Checked(checks) = [ver EXCEPT !.types = Below(@, Total(ws))]
  <2>1. \A k \in DOMAIN checks : Accepts(Below(ver.types, Depths(popped)[k - 1]), checks[k])
    BY <1>2, <1>3, <1>7 DEF ts
  <2> QED BY <1>3, <2>1 DEF Checked
<1> QED BY <1>8, <1>9 DEF ts, ws

(***************************************************************************)
(* The JVM's own stack and locals.                                         *)
(***************************************************************************)
JvmOK ==
  /\ jvm \in [stack : Seq(Slot), locals : [Locals -> Value \cup {NoValue}]]
  /\ Whole(jvm.stack)
  /\ Len(jvm.stack) <= MaxStack

LEMMA FreshFacts ==
  ASSUME NEW k \in Kinds, Free(k) # {}
  PROVE  Fresh(k) \in Value /\ Fresh(k).kind = k
<1>1. MaxLive[k] \in Nat
  BY StackAssumption
<1>2. Free(k) \subseteq Nat
  BY <1>1 DEF Free
<1>3. (CHOOSE id \in Free(k) : TRUE) \in Nat
  BY <1>2
<1> QED BY <1>3 DEF Fresh, Value

LEMMA LegalFacts ==
  ASSUME NEW i \in Taking, Legal(i)
  PROVE  Holds(jvm.stack, Takes(i)) /\ Room(GivenSlots(i) - OperandSlots(i))
BY DEF Legal, Holds, OperandSlots

LEMMA ResultFacts ==
  ASSUME JvmOK, NEW i \in Plain, Legal(i), Gives(i) # "v" => Free(Gives(i)) # {}
  PROVE  /\ Result(i) \in Seq(Slot) /\ Len(Result(i)) = GivenSlots(i) /\ Whole(Result(i))
         /\ Gives(i) # "v" => /\ Computed(i) \in Value /\ Computed(i).kind = Gives(i)
                              /\ Result(i) = SlotsOf(Computed(i)) /\ Gives(i) \in Kinds
<1>1. Takes(i) \in Seq(Kinds) /\ Gives(i) \in Kinds \cup {"v"} /\ i \in Taking
  BY TakesFacts DEF Taking
<1>2. CASE Gives(i) = "v"
  <2>1. Result(i) = <<>> /\ GivenSlots(i) = 0
    BY <1>2 DEF Result, GivenSlots
  <2>2. <<>> \in Seq(Slot) /\ Len(<<>>) = 0 /\ \A p \in 1..0 : FALSE
    OBVIOUS
  <2>3. Whole(<<>>)
    BY <2>2 DEF Whole
  <2> QED BY <1>2, <2>1, <2>2, <2>3
<1>3. CASE Gives(i) # "v"
  <2>1. Computed(i) \in Value /\ Computed(i).kind = Gives(i)
    <3>1. CASE i.op # "checkcast"
      BY <1>1, <1>3, <3>1, FreshFacts DEF Computed
    <3>2. CASE i.op = "checkcast"
      <4>1. Takes(i) = <<"a">> /\ Gives(i) = "a"
        <5>1. i.to = "a"
          BY <3>2, PlainCases DEF IsCall
        <5> QED BY <3>2, <5>1 DEF Takes, Gives
      <4>2. Depths(Widths(Takes(i)))[1] = 1 /\ Total(Widths(Takes(i))) = 1
        <5>1. Widths(<<"a">>) = <<1>> /\ 1 \in {1, 2}
          BY WidthsOfFew
        <5>2. Depths(<<1>>)[1] = 1 /\ Total(<<1>>) = 1
          BY <5>1, DepthsOfFew
        <5> QED BY <4>1, <5>1, <5>2
      <4>3. SlotAt(jvm.stack, 1).kind = "a" /\ 1 <= Len(jvm.stack)
        <5>1. 1 \in DOMAIN Takes(i) /\ Takes(i)[1] = "a"
          BY <4>1
        <5> QED BY <1>1, <4>2, <5>1, LegalFacts DEF Holds
      <4>4. SlotAt(jvm.stack, 1) \in Slot
        BY <4>3, SlotAtFacts, LenProperties DEF JvmOK
      <4> QED BY <3>2, <4>1, <4>3, <4>4, SlotFacts DEF Computed, Slot
    <3> QED BY <3>1, <3>2
  <2>2. Result(i) = SlotsOf(Computed(i)) /\ GivenSlots(i) = Width(Gives(i))
    BY <1>3 DEF Result, GivenSlots
  <2> QED BY <1>1, <1>3, <2>1, <2>2, SlotsOfFacts
<1> QED BY <1>2, <1>3

ShuffleOps == {"pop", "pop2", "dup", "dup_x1", "dup_x2", "dup2", "dup2_x1", "dup2_x2", "swap"}

LEMMA ShuffleCases ==
  ASSUME NEW i \in Shuffles
  PROVE  i.op \in ShuffleOps /\ i.k = "any" /\ <<i.op, i.k>> \notin Avoided
BY DEF Shuffles, Allowed, Ins, ShuffleOps

LEMMA BlockFacts ==
  ASSUME NEW op \in ShuffleOps
  PROVE  Block(op)[1] \in {1, 2} /\ Block(op)[2] \in {0, 1, 2}
BY DEF ShuffleOps, Block

\* The block that a shuffle moves, what it skips, and what is below.
LEMMA PartsFacts ==
  ASSUME NEW S, NEW s \in Seq(S), NEW n \in Nat, NEW m \in Nat, n + m <= Len(s)
  PROVE  /\ Top(s, n) \in Seq(S) /\ Len(Top(s, n)) = n
         /\ \A p \in 1..n : Top(s, n)[p] = s[Len(s) - n + p]
         /\ Top(Below(s, n), m) \in Seq(S) /\ Len(Top(Below(s, n), m)) = m
         /\ \A p \in 1..m : Top(Below(s, n), m)[p] = s[Len(s) - n - m + p]
         /\ Below(s, n + m) \in Seq(S) /\ Len(Below(s, n + m)) = Len(s) - n - m
         /\ \A p \in 1..Len(s) - n - m : Below(s, n + m)[p] = s[p]
<1>1. Len(s) \in Nat /\ n \in 0..Len(s) /\ n + m \in 0..Len(s) /\ m \in 0..Len(s) - n
  BY LenProperties
<1> DEFINE b == Below(s, n)
<1>2. b \in Seq(S) /\ Len(b) = Len(s) - n /\ \A p \in 1..Len(s) - n : b[p] = s[p]
  BY <1>1, BelowFacts
<1> HIDE DEF b
<1>3. /\ Top(b, m) \in Seq(S) /\ Len(Top(b, m)) = m
      /\ \A p \in 1..m : Top(b, m)[p] = b[Len(b) - m + p]
  <2>1. m \in 0..Len(b)
    BY <1>1, <1>2
  <2> QED BY <1>2, <2>1, TopFacts
<1>4. \A p \in 1..m : Len(b) - m + p \in 1..Len(s) - n /\ Len(b) - m + p = Len(s) - n - m + p
  BY <1>1, <1>2
<1>5. \A p \in 1..m : Top(b, m)[p] = s[Len(s) - n - m + p]
  <2> SUFFICES ASSUME NEW p \in 1..m PROVE Top(b, m)[p] = s[Len(s) - n - m + p]
    OBVIOUS
  <2>1. Top(b, m)[p] = b[Len(b) - m + p]
    BY <1>3
  <2>2. b[Len(b) - m + p] = s[Len(b) - m + p]
    BY <1>2, <1>4
  <2> QED BY <1>4, <2>1, <2>2
<1>6. /\ Top(s, n) \in Seq(S) /\ Len(Top(s, n)) = n
      /\ \A p \in 1..n : Top(s, n)[p] = s[Len(s) - n + p]
  BY <1>1, TopFacts
<1>7. /\ Below(s, n + m) \in Seq(S) /\ Len(Below(s, n + m)) = Len(s) - (n + m)
      /\ \A p \in 1..Len(s) - (n + m) : Below(s, n + m)[p] = s[p]
  BY <1>1, BelowFacts
<1>8. Len(s) - (n + m) = Len(s) - n - m
  BY <1>1
<1> QED BY <1>3, <1>5, <1>6, <1>7, <1>8 DEF b

LEMMA PartsWhole ==
  ASSUME NEW s \in Seq(Slot), Whole(s), NEW n \in Nat, NEW m \in Nat, n + m <= Len(s), n # 0,
         SlotAt(s, n) # Pad, SlotAt(s, n + m) # Pad
  PROVE  Whole(Top(s, n)) /\ Whole(Top(Below(s, n), m)) /\ Whole(Below(s, n + m))
<1>1. Len(s) \in Nat /\ n \in 0..Len(s) /\ n + m \in 0..Len(s) /\ m \in 0..Len(s) - n
  BY LenProperties
<1>2. Whole(Top(s, n)) /\ Whole(Below(s, n)) /\ Whole(Below(s, n + m))
  BY <1>1, WholeCut
<1> DEFINE b == Below(s, n)
<1>3. b \in Seq(Slot) /\ Len(b) = Len(s) - n /\ \A p \in 1..Len(s) - n : b[p] = s[p]
  BY <1>1, BelowFacts
<1>4. m = 0 \/ SlotAt(b, m) # Pad
  <2> SUFFICES ASSUME m # 0 PROVE SlotAt(b, m) # Pad
    OBVIOUS
  <2>1. m \in 1..Len(b) /\ n + m \in 1..Len(s)
    BY <1>1, <1>3
  <2>2. SlotAt(b, m) = b[Len(b) - m + 1] /\ SlotAt(s, n + m) = s[Len(s) - (n + m) + 1]
    BY <1>3, <2>1, SlotAtFacts
  <2>3. Len(b) - m + 1 \in 1..Len(s) - n /\ Len(b) - m + 1 = Len(s) - (n + m) + 1
    BY <1>1, <1>3, <2>1
  <2> QED BY <1>3, <2>2, <2>3
<1>5. m \in 0..Len(b) /\ Whole(b)
  BY <1>1, <1>2, <1>3
<1>6. Whole(Top(b, m))
  <2> HIDE DEF b
  <2> QED BY <1>3, <1>4, <1>5, WholeCut
<1> QED BY <1>2, <1>6

LEMMA ShuffledFacts ==
  ASSUME NEW op \in ShuffleOps, NEW s \in Seq(Slot), Whole(s),
         Block(op)[1] + Block(op)[2] <= Len(s), SlotAt(s, Block(op)[1]) # Pad,
         SlotAt(s, Block(op)[1] + Block(op)[2]) # Pad
  PROVE  /\ Shuffled(op, s) \in Seq(Slot) /\ Whole(Shuffled(op, s))
         /\ TypesOf(Shuffled(op, s)) = Shuffled(op, TypesOf(s))
<1> DEFINE n == Block(op)[1]
           m == Block(op)[2]
           block == Top(s, n)
           skipped == Top(Below(s, n), m)
           rest == Below(s, n + m)
<1>1. n \in Nat /\ m \in Nat /\ n # 0 /\ n + m <= Len(s)
  BY BlockFacts
<1>a. Len(s) \in Nat /\ n \in 0..Len(s) /\ n + m \in 0..Len(s) /\ m \in 0..Len(s) - n
  BY <1>1, LenProperties
<1> HIDE DEF n, m
<1>2. block \in Seq(Slot) /\ skipped \in Seq(Slot) /\ rest \in Seq(Slot)
  BY <1>1, PartsFacts
<1>3. Whole(block) /\ Whole(skipped) /\ Whole(rest)
  BY <1>1, PartsWhole DEF n, m
<1> DEFINE ts == TypesOf(s)
<1>4. /\ TypesOf(block) = Top(ts, n) /\ TypesOf(skipped) = Top(Below(ts, n), m)
      /\ TypesOf(rest) = Below(ts, n + m)
  <2>1. TypesOf(block) = Top(ts, n) /\ TypesOf(rest) = Below(ts, n + m)
        /\ TypesOf(Below(s, n)) = Below(ts, n)
    BY <1>a, TypesOfCut
  <2>2. Below(s, n) \in Seq(Slot) /\ Len(Below(s, n)) = Len(s) - n
    BY <1>a, BelowFacts
  <2>3. TypesOf(skipped) = Top(TypesOf(Below(s, n)), m)
    BY <1>a, <2>2, TypesOfCut
  <2> QED BY <2>1, <2>3
<1> HIDE DEF block, skipped, rest
<1>5. CASE op \in {"pop", "pop2"}
  <2>1. Shuffled(op, s) = rest /\ Shuffled(op, ts) = Below(ts, n + m)
    BY <1>5 DEF Shuffled, n, m, rest
  <2> QED BY <1>2, <1>3, <1>4, <2>1
<1>6. CASE op = "swap"
  <2>1. /\ Shuffled(op, s) = rest \o block \o skipped
        /\ Shuffled(op, ts) = Below(ts, n + m) \o Top(ts, n) \o Top(Below(ts, n), m)
    BY <1>6 DEF Shuffled, n, m, rest, block, skipped
  <2>2. rest \o block \in Seq(Slot) /\ Whole(rest \o block)
    BY <1>2, <1>3, WholeCat
  <2>3. rest \o block \o skipped \in Seq(Slot) /\ Whole(rest \o block \o skipped)
    BY <1>2, <1>3, <2>2, WholeCat
  <2>4. TypesOf(rest \o block \o skipped) = TypesOf(rest) \o TypesOf(block) \o TypesOf(skipped)
    BY <1>2, <2>2, TypesOfCat
  <2> QED BY <1>4, <2>1, <2>3, <2>4
<1>7. CASE op \notin {"pop", "pop2", "swap"}
  <2>1. /\ Shuffled(op, s) = rest \o block \o skipped \o block
        /\ Shuffled(op, ts) = Below(ts, n + m) \o Top(ts, n) \o Top(Below(ts, n), m) \o Top(ts, n)
    BY <1>7 DEF Shuffled, n, m, rest, block, skipped
  <2>2. rest \o block \in Seq(Slot) /\ Whole(rest \o block)
    BY <1>2, <1>3, WholeCat
  <2>3. rest \o block \o skipped \in Seq(Slot) /\ Whole(rest \o block \o skipped)
    BY <1>2, <1>3, <2>2, WholeCat
  <2>4. /\ rest \o block \o skipped \o block \in Seq(Slot)
        /\ Whole(rest \o block \o skipped \o block)
    BY <1>2, <1>3, <2>3, WholeCat
  <2>5. TypesOf(rest \o block \o skipped) = TypesOf(rest) \o TypesOf(block) \o TypesOf(skipped)
    BY <1>2, <2>2, TypesOfCat
  <2>6. TypesOf(rest \o block \o skipped \o block) =
          TypesOf(rest) \o TypesOf(block) \o TypesOf(skipped) \o TypesOf(block)
    BY <1>2, <2>3, <2>5, TypesOfCat
  <2> QED BY <1>4, <2>1, <2>4, <2>6
<1> QED BY <1>5, <1>6, <1>7

LEMMA StoredFacts ==
  ASSUME NEW locals \in [Locals -> Value \cup {NoValue}], NEW n \in Locals, NEW v \in Value
  PROVE  /\ Stored(locals, n, v) \in [Locals -> Value \cup {NoValue}]
         /\ Stored(locals, n, v)[n] = v /\ v # NoValue
         /\ \A m \in Locals : m # n => Stored(locals, n, v)[m] \in {locals[m], NoValue}
<1>1. v # NoValue
  BY SlotFacts
<1>2. ASSUME NEW m \in Locals
      PROVE  /\ m = n => Stored(locals, n, v)[m] = v
             /\ m # n => Stored(locals, n, v)[m] \in {locals[m], NoValue}
  <2>1. Stored(locals, n, v)[m] =
          CASE m = n -> v
            [] m = n - 1 /\ Cat2(locals[m].kind) -> NoValue
            [] m = n + 1 /\ Cat2(v.kind) -> NoValue
            [] OTHER -> locals[m]
    BY DEF Stored
  <2>2. CASE m = n
    <3>1. m \in Int /\ n \in Int
      BY DEF Locals
    <3>2. m # n - 1 /\ m # n + 1
      BY <2>2, <3>1
    <3> QED BY <2>1, <2>2, <3>2
  <2>3. CASE m # n
    BY <2>1, <2>3
  <2> QED BY <2>2, <2>3
<1>3. \A m \in Locals : Stored(locals, n, v)[m] \in Value \cup {NoValue}
  BY <1>2
<1>4. Stored(locals, n, v) \in [Locals -> Value \cup {NoValue}]
  <2>1. DOMAIN Stored(locals, n, v) = Locals
    BY DEF Stored
  <2>2. Stored(locals, n, v) = [m \in Locals |-> Stored(locals, n, v)[m]]
    BY DEF Stored
  <2> QED BY <1>3, <2>2
<1> QED BY <1>1, <1>2, <1>4

LEMMA Locating ==
  ASSUME NEW k \in Kinds
  PROVE  /\ Widths(<<k>>) = <<Width(k)>> /\ Depths(<<Width(k)>>)[1] = Width(k)
         /\ Total(<<Width(k)>>) = Width(k) /\ Width(k) \in {1, 2}
         /\ DOMAIN <<k>> = {1} /\ <<k>>[1] = k /\ DOMAIN <<Width(k)>> = {1}
<1>1. Width(k) \in {1, 2} /\ Widths(<<k>>) = <<Width(k)>>
  BY WidthsOfFew
<1>2. Depths(<<Width(k)>>)[1] = Width(k) /\ Total(<<Width(k)>>) = Width(k)
  BY <1>1, DepthsOfFew
<1> QED BY <1>1, <1>2

\* The value that a store or a return takes.
LEMMA OneOperand ==
  ASSUME JvmOK, NEW i \in LocalOps({"store", "wstore"}, Kinds) \cup Returns, Legal(i)
  PROVE  /\ i \in Taking /\ i.k \in Kinds /\ Takes(i) = <<i.k>> /\ Gives(i) = "v" /\ ~IsCall(i)
         /\ OperandSlots(i) = Width(i.k) /\ Width(i.k) \in 1..Len(jvm.stack)
         /\ SlotAt(jvm.stack, Width(i.k)) \in Value
         /\ SlotAt(jvm.stack, Width(i.k)).kind = i.k
         /\ SlotAt(jvm.stack, Width(i.k)) # Pad
<1>1. i \in Taking /\ i.k \in Kinds /\ i.op \in {"store", "wstore", "return"}
  <2>1. CASE i \in LocalOps({"store", "wstore"}, Kinds)
    <3>1. i.op \in {"store", "wstore"} /\ i.k \in Kinds
      BY <2>1, LocalCases
    <3> QED BY <2>1, <3>1 DEF Taking
  <2>2. CASE i \in Returns
    BY <2>2, ReturnCases DEF Taking
  <2> QED BY <2>1, <2>2
<1>2. Takes(i) = <<i.k>> /\ Gives(i) = "v" /\ ~IsCall(i)
  BY <1>1 DEF Takes, Gives, IsCall
<1>3. Width(i.k) \in {1, 2} /\ Widths(Takes(i)) = <<Width(i.k)>>
      /\ Depths(Widths(Takes(i)))[1] = Width(i.k) /\ Total(Widths(Takes(i))) = Width(i.k)
      /\ DOMAIN Takes(i) = {1} /\ Takes(i)[1] = i.k
  BY <1>1, <1>2, Locating
<1>4. Width(i.k) <= Len(jvm.stack) /\ SlotAt(jvm.stack, Width(i.k)).kind = i.k
  BY <1>1, <1>3, LegalFacts DEF Holds
<1>5. jvm.stack \in Seq(Slot) /\ Len(jvm.stack) \in Nat
  BY LenProperties DEF JvmOK
<1>6. Width(i.k) \in 1..Len(jvm.stack)
  BY <1>3, <1>4, <1>5
<1>7. SlotAt(jvm.stack, Width(i.k)) \in Slot
  BY <1>5, <1>6, SlotAtFacts
<1> QED BY <1>1, <1>2, <1>3, <1>4, <1>6, <1>7, SlotFacts DEF Slot, OperandSlots

LEMMA JvmStep ==
  ASSUME JvmOK, [Next]_vars
  PROVE  JvmOK'
<1> USE DEF JvmOK
<1>0. jvm.stack \in Seq(Slot) /\ Len(jvm.stack) \in Nat /\ MaxStack \in Nat
  BY LenProperties, StackAssumption
<1>1. ASSUME NEW i \in Plain, Compute(i) PROVE JvmOK'
  <2>1. Legal(i) /\ (Gives(i) # "v" => Free(Gives(i)) # {}) /\ i \in Taking
    BY <1>1 DEF Compute, Taking
  <2>2. Holds(jvm.stack, Takes(i)) /\ Takes(i) \in Seq(Kinds) /\ Room(GivenSlots(i) - OperandSlots(i))
    BY <2>1, LegalFacts, TakesFacts
  <2>3. /\ OperandSlots(i) \in 0..Len(jvm.stack)
        /\ OperandSlots(i) = 0 \/ SlotAt(jvm.stack, OperandSlots(i)) # Pad
    BY <1>0, <2>2, OperandsRead DEF OperandSlots
  <2> DEFINE b == Below(jvm.stack, OperandSlots(i))
  <2>4. b \in Seq(Slot) /\ Len(b) = Len(jvm.stack) - OperandSlots(i) /\ Whole(b)
    BY <1>0, <2>3, BelowFacts, WholeCut
  <2>5. Result(i) \in Seq(Slot) /\ Len(Result(i)) = GivenSlots(i) /\ Whole(Result(i))
    BY <2>1, ResultFacts
  <2>6. /\ b \o Result(i) \in Seq(Slot) /\ Whole(b \o Result(i))
        /\ Len(b \o Result(i)) = Len(b) + Len(Result(i))
    BY <2>4, <2>5, WholeCat
  <2>7. Len(b \o Result(i)) <= MaxStack
    <3>1. GivenSlots(i) \in Nat
      BY <2>5, LenProperties
    <3> QED BY <1>0, <2>2, <2>3, <2>4, <2>5, <2>6, <3>1 DEF Room
  <2>8. jvm' = [jvm EXCEPT !.stack = b \o Result(i)]
    BY <1>1 DEF Compute
  <2> QED BY <2>6, <2>7, <2>8
<1>2. ASSUME NEW i \in Shuffles, Shuffle(i) PROVE JvmOK'
  <2>1. i.op \in ShuffleOps /\ LegalShuffle(i.op) /\ jvm' = [jvm EXCEPT !.stack = Shuffled(i.op, @)]
    BY <1>2, ShuffleCases DEF Shuffle
  <2>2. /\ Block(i.op)[1] + Block(i.op)[2] <= Len(jvm.stack) /\ SlotAt(jvm.stack, Block(i.op)[1]) # Pad
        /\ SlotAt(jvm.stack, Block(i.op)[1] + Block(i.op)[2]) # Pad
        /\ Len(Shuffled(i.op, jvm.stack)) <= MaxStack
    BY <1>0, <2>1, BlockFacts DEF LegalShuffle
  <2>3. Shuffled(i.op, jvm.stack) \in Seq(Slot) /\ Whole(Shuffled(i.op, jvm.stack))
    BY <1>0, <2>1, <2>2, ShuffledFacts
  <2> QED BY <2>1, <2>2, <2>3
<1>3. ASSUME NEW i \in LocalOps({"load", "wload"}, Kinds), Load(i) PROVE JvmOK'
  <2>1. i.k \in Kinds /\ i.n \in Locals
    BY LocalCases
  <2>2. /\ jvm.locals[i.n].kind = i.k /\ Room(Width(i.k))
        /\ jvm' = [jvm EXCEPT !.stack = @ \o SlotsOf(jvm.locals[i.n])]
    BY <1>3 DEF Load
  <2>3. jvm.locals[i.n] \in Value
    BY <2>1, <2>2, SlotFacts
  <2>4. /\ SlotsOf(jvm.locals[i.n]) \in Seq(Slot) /\ Whole(SlotsOf(jvm.locals[i.n]))
        /\ Len(SlotsOf(jvm.locals[i.n])) = Width(i.k)
    BY <2>2, <2>3, SlotsOfFacts
  <2> DEFINE u == jvm.stack \o SlotsOf(jvm.locals[i.n])
  <2>5. u \in Seq(Slot) /\ Whole(u) /\ Len(u) = Len(jvm.stack) + Width(i.k)
    BY <1>0, <2>4, WholeCat
  <2>6. jvm' = [jvm EXCEPT !.stack = u] /\ Len(u) <= MaxStack
    BY <2>2, <2>5 DEF Room
  <2> QED BY <2>5, <2>6
<1>4. ASSUME NEW i \in LocalOps({"store", "wstore"}, Kinds), Store(i) PROVE JvmOK'
  <2> DEFINE v == SlotAt(jvm.stack, Width(i.k))
  <2>1. Legal(i) /\ jvm' = [stack |-> Below(jvm.stack, Width(i.k)), locals |-> Stored(jvm.locals, i.n, v)]
    BY <1>4 DEF Store
  <2>2. Width(i.k) \in 1..Len(jvm.stack) /\ v \in Value /\ v # Pad
    BY <2>1, OneOperand
  <2>3. i.n \in Locals
    BY LocalCases
  <2>4. Width(i.k) \in 0..Len(jvm.stack)
    BY <2>2
  <2>5. /\ Below(jvm.stack, Width(i.k)) \in Seq(Slot) /\ Whole(Below(jvm.stack, Width(i.k)))
        /\ Len(Below(jvm.stack, Width(i.k))) = Len(jvm.stack) - Width(i.k)
    BY <1>0, <2>2, <2>4, BelowFacts, WholeCut
  <2>6. Len(jvm.stack) - Width(i.k) <= MaxStack
    BY <1>0, <2>4
  <2>7. Stored(jvm.locals, i.n, v) \in [Locals -> Value \cup {NoValue}]
    BY <2>2, <2>3, StoredFacts
  <2> QED BY <2>1, <2>5, <2>6, <2>7
<1>5. ASSUME NEW i \in LocalOps({"iinc"}, {"i"}), Iinc(i) PROVE JvmOK'
  <2>1. Fresh("i") \in Value
    BY <1>5, FreshFacts, SlotFacts DEF Iinc
  <2>2. jvm' = [jvm EXCEPT !.locals[i.n] = Fresh("i")]
    BY <1>5 DEF Iinc
  <2> QED BY <2>1, <2>2
<1>6. ASSUME NEW i \in Returns, Return(i) PROVE JvmOK'
  <2>1. jvm' = [stack |-> <<>>, locals |-> Unset]
    BY <1>6 DEF Return
  <2>2. <<>> \in Seq(Slot) /\ Len(<<>>) = 0 /\ \A p \in 1..0 : FALSE
    OBVIOUS
  <2>3. Whole(<<>>)
    BY <2>2 DEF Whole
  <2>4. Unset \in [Locals -> Value \cup {NoValue}]
    BY DEF Unset
  <2> QED BY <1>0, <2>1, <2>2, <2>3, <2>4
<1>7. CASE UNCHANGED vars
  BY <1>7 DEF vars
<1> QED BY <1>1, <1>2, <1>3, <1>4, <1>5, <1>6, <1>7 DEF Next

LEMMA JvmInit == Init => JvmOK
<1> SUFFICES ASSUME Init PROVE JvmOK
  OBVIOUS
<1>1. jvm = [stack |-> <<>>, locals |-> Unset]
  BY DEF Init
<1>2. <<>> \in Seq(Slot) /\ Len(<<>>) = 0 /\ \A p \in 1..0 : FALSE
  OBVIOUS
<1>3. Whole(<<>>)
  BY <1>2 DEF Whole
<1>4. Unset \in [Locals -> Value \cup {NoValue}] /\ MaxStack \in Nat
  BY StackAssumption DEF Unset
<1> QED BY <1>1, <1>2, <1>3, <1>4 DEF JvmOK

(***************************************************************************)
(* The interpreter.                                                        *)
(***************************************************************************)
Moved(op, s) == [j \in DOMAIN InterpShuffle(op) |-> SlotAt(s, InterpShuffle(op)[j])]

LEMMA CatTuples ==
  /\ \A a, b : <<a>> \o <<b>> = <<a, b>>
  /\ \A a, b, c : <<a>> \o <<b, c>> = <<a, b, c>> /\ <<a, b>> \o <<c>> = <<a, b, c>>
  /\ \A a, b, c, d : <<a, b, c>> \o <<d>> = <<a, b, c, d>> /\ <<a, b>> \o <<c, d>> = <<a, b, c, d>>
<1>1. ASSUME NEW a, NEW b PROVE <<a>> \o <<b>> = <<a, b>>
  <2> DEFINE S == {a, b}
             s == <<a>>
             t == <<b>>
             u == s \o t
  <2>1. s \in Seq(S) /\ t \in Seq(S) /\ Len(s) = 1 /\ Len(t) = 1
        /\ s[1] = a /\ t[1] = b
    OBVIOUS
  <2> HIDE DEF S, s, t
  <2>2. u \in Seq(S) /\ Len(u) = Len(s) + Len(t)
        /\ \A p \in 1..Len(s) + Len(t) : u[p] = IF p <= Len(s) THEN s[p] ELSE t[p - Len(s)]
    BY <2>1, ConcatProperties
  <2> HIDE DEF u
  <2>3. 1 \in 1..Len(s) + Len(t) /\ 2 \in 1..Len(s) + Len(t)
    BY <2>1
  <2>4. u[1] = a /\ u[2] = b
    BY <2>1, <2>2, <2>3
  <2>5. u = <<a, b>>
    BY <2>1, <2>2, <2>4
  <2> QED BY <2>5 DEF u, s, t
<1>2. ASSUME NEW a, NEW b, NEW c PROVE <<a>> \o <<b, c>> = <<a, b, c>>
  <2> DEFINE S == {a, b, c}
             s == <<a>>
             t == <<b, c>>
             u == s \o t
  <2>1. s \in Seq(S) /\ t \in Seq(S) /\ Len(s) = 1 /\ Len(t) = 2
        /\ s[1] = a /\ t[1] = b /\ t[2] = c
    OBVIOUS
  <2> HIDE DEF S, s, t
  <2>2. u \in Seq(S) /\ Len(u) = Len(s) + Len(t)
        /\ \A p \in 1..Len(s) + Len(t) : u[p] = IF p <= Len(s) THEN s[p] ELSE t[p - Len(s)]
    BY <2>1, ConcatProperties
  <2> HIDE DEF u
  <2>3. 1 \in 1..Len(s) + Len(t) /\ 2 \in 1..Len(s) + Len(t) /\ 3 \in 1..Len(s) + Len(t)
    BY <2>1
  <2>4. u[1] = a /\ u[2] = b /\ u[3] = c
    BY <2>1, <2>2, <2>3
  <2>5. u = <<a, b, c>>
    BY <2>1, <2>2, <2>4
  <2> QED BY <2>5 DEF u, s, t
<1>3. ASSUME NEW a, NEW b, NEW c PROVE <<a, b>> \o <<c>> = <<a, b, c>>
  <2> DEFINE S == {a, b, c}
             s == <<a, b>>
             t == <<c>>
             u == s \o t
  <2>1. s \in Seq(S) /\ t \in Seq(S) /\ Len(s) = 2 /\ Len(t) = 1
        /\ s[1] = a /\ s[2] = b /\ t[1] = c
    OBVIOUS
  <2> HIDE DEF S, s, t
  <2>2. u \in Seq(S) /\ Len(u) = Len(s) + Len(t)
        /\ \A p \in 1..Len(s) + Len(t) : u[p] = IF p <= Len(s) THEN s[p] ELSE t[p - Len(s)]
    BY <2>1, ConcatProperties
  <2> HIDE DEF u
  <2>3. 1 \in 1..Len(s) + Len(t) /\ 2 \in 1..Len(s) + Len(t) /\ 3 \in 1..Len(s) + Len(t)
    BY <2>1
  <2>4. u[1] = a /\ u[2] = b /\ u[3] = c
    BY <2>1, <2>2, <2>3
  <2>5. u = <<a, b, c>>
    BY <2>1, <2>2, <2>4
  <2> QED BY <2>5 DEF u, s, t
<1>4. ASSUME NEW a, NEW b, NEW c, NEW d PROVE <<a, b, c>> \o <<d>> = <<a, b, c, d>>
  <2> DEFINE S == {a, b, c, d}
             s == <<a, b, c>>
             t == <<d>>
             u == s \o t
  <2>1. s \in Seq(S) /\ t \in Seq(S) /\ Len(s) = 3 /\ Len(t) = 1
        /\ s[1] = a /\ s[2] = b /\ s[3] = c /\ t[1] = d
    OBVIOUS
  <2> HIDE DEF S, s, t
  <2>2. u \in Seq(S) /\ Len(u) = Len(s) + Len(t)
        /\ \A p \in 1..Len(s) + Len(t) : u[p] = IF p <= Len(s) THEN s[p] ELSE t[p - Len(s)]
    BY <2>1, ConcatProperties
  <2> HIDE DEF u
  <2>3. 1 \in 1..Len(s) + Len(t) /\ 2 \in 1..Len(s) + Len(t) /\ 3 \in 1..Len(s) + Len(t) /\ 4 \in 1..Len(s) + Len(t)
    BY <2>1
  <2>4. u[1] = a /\ u[2] = b /\ u[3] = c /\ u[4] = d
    BY <2>1, <2>2, <2>3
  <2>5. u = <<a, b, c, d>>
    BY <2>1, <2>2, <2>4
  <2> QED BY <2>5 DEF u, s, t
<1>5. ASSUME NEW a, NEW b, NEW c, NEW d PROVE <<a, b>> \o <<c, d>> = <<a, b, c, d>>
  <2> DEFINE S == {a, b, c, d}
             s == <<a, b>>
             t == <<c, d>>
             u == s \o t
  <2>1. s \in Seq(S) /\ t \in Seq(S) /\ Len(s) = 2 /\ Len(t) = 2
        /\ s[1] = a /\ s[2] = b /\ t[1] = c /\ t[2] = d
    OBVIOUS
  <2> HIDE DEF S, s, t
  <2>2. u \in Seq(S) /\ Len(u) = Len(s) + Len(t)
        /\ \A p \in 1..Len(s) + Len(t) : u[p] = IF p <= Len(s) THEN s[p] ELSE t[p - Len(s)]
    BY <2>1, ConcatProperties
  <2> HIDE DEF u
  <2>3. 1 \in 1..Len(s) + Len(t) /\ 2 \in 1..Len(s) + Len(t) /\ 3 \in 1..Len(s) + Len(t) /\ 4 \in 1..Len(s) + Len(t)
    BY <2>1
  <2>4. u[1] = a /\ u[2] = b /\ u[3] = c /\ u[4] = d
    BY <2>1, <2>2, <2>3
  <2>5. u = <<a, b, c, d>>
    BY <2>1, <2>2, <2>4
  <2> QED BY <2>5 DEF u, s, t
<1> QED BY <1>1, <1>2, <1>3, <1>4, <1>5

LEMMA PartTuples ==
  ASSUME NEW s \in Seq(Slot), NEW n \in Nat, NEW m \in Nat, n + m <= Len(s)
  PROVE  /\ n = 1 => Top(s, n) = <<SlotAt(s, 1)>>
         /\ n = 2 => Top(s, n) = <<SlotAt(s, 2), SlotAt(s, 1)>>
         /\ m = 0 => Top(Below(s, n), m) = <<>>
         /\ n = 1 /\ m = 1 => Top(Below(s, n), m) = <<SlotAt(s, 2)>>
         /\ n = 1 /\ m = 2 => Top(Below(s, n), m) = <<SlotAt(s, 3), SlotAt(s, 2)>>
         /\ \A d \in 1..n + m : SlotAt(s, d) \in Slot
<1> DEFINE t == Top(s, n)
           u == Top(Below(s, n), m)
<1>1. /\ t \in Seq(Slot) /\ Len(t) = n /\ \A p \in 1..n : t[p] = s[Len(s) - n + p]
      /\ u \in Seq(Slot) /\ Len(u) = m /\ \A p \in 1..m : u[p] = s[Len(s) - n - m + p]
  <2>1. /\ Top(s, n) \in Seq(Slot) /\ Len(Top(s, n)) = n
        /\ \A p \in 1..n : Top(s, n)[p] = s[Len(s) - n + p]
    <3>1. n \in 0..Len(s)
      BY LenProperties
    <3> QED BY <3>1, TopFacts
  <2>2. /\ Top(Below(s, n), m) \in Seq(Slot) /\ Len(Top(Below(s, n), m)) = m
        /\ \A p \in 1..m : Top(Below(s, n), m)[p] = s[Len(s) - n - m + p]
    BY PartsFacts
  <2> QED BY <2>1, <2>2
<1>2. Len(s) \in Nat /\ \A d \in 1..Len(s) : SlotAt(s, d) = s[Len(s) - d + 1] /\ SlotAt(s, d) \in Slot
  BY SlotAtFacts, LenProperties
<1>3. \A d \in 1..n + m : d \in 1..Len(s)
  BY <1>2
<1> HIDE DEF t, u
<1>4. ASSUME n = 1 PROVE t = <<SlotAt(s, 1)>>
  <2>1. 1 \in 1..n /\ 1 \in 1..Len(s) /\ Len(s) - n + 1 = Len(s) - 1 + 1
    BY <1>2, <1>4
  <2>2. t[1] = SlotAt(s, 1)
    BY <1>1, <1>2, <2>1
  <2> QED BY <1>1, <1>4, <2>2
<1>5. ASSUME n = 2 PROVE t = <<SlotAt(s, 2), SlotAt(s, 1)>>
  <2>1. /\ 1 \in 1..n /\ 2 \in 1..n /\ 1 \in 1..Len(s) /\ 2 \in 1..Len(s)
        /\ Len(s) - n + 1 = Len(s) - 2 + 1 /\ Len(s) - n + 2 = Len(s) - 1 + 1
    BY <1>2, <1>5
  <2>2. t[1] = SlotAt(s, 2) /\ t[2] = SlotAt(s, 1)
    BY <1>1, <1>2, <2>1
  <2> QED BY <1>1, <1>5, <2>2
<1>6. ASSUME m = 0 PROVE u = <<>>
  BY <1>1, <1>6
<1>7. ASSUME n = 1, m = 1 PROVE u = <<SlotAt(s, 2)>>
  <2>1. 1 \in 1..m /\ 2 \in 1..Len(s) /\ Len(s) - n - m + 1 = Len(s) - 2 + 1
    BY <1>2, <1>7
  <2>2. u[1] = SlotAt(s, 2)
    BY <1>1, <1>2, <2>1
  <2> QED BY <1>1, <1>7, <2>2
<1>8. ASSUME n = 1, m = 2 PROVE u = <<SlotAt(s, 3), SlotAt(s, 2)>>
  <2>1. /\ 1 \in 1..m /\ 2 \in 1..m /\ 2 \in 1..Len(s) /\ 3 \in 1..Len(s)
        /\ Len(s) - n - m + 1 = Len(s) - 3 + 1 /\ Len(s) - n - m + 2 = Len(s) - 2 + 1
    BY <1>2, <1>8
  <2>2. u[1] = SlotAt(s, 3) /\ u[2] = SlotAt(s, 2)
    BY <1>1, <1>2, <2>1
  <2> QED BY <1>1, <1>8, <2>2
<1> QED BY <1>2, <1>3, <1>4, <1>5, <1>6, <1>7, <1>8 DEF t, u

\* But for two forms of dup, the interpreter's slot moves are the JVM's.
LEMMA MovedFacts ==
  ASSUME NEW op \in ShuffleOps, op \notin {"dup2_x1", "dup2_x2"}, NEW s \in Seq(Slot),
         Block(op)[1] + Block(op)[2] <= Len(s)
  PROVE  /\ Shuffled(op, s) = Below(s, Block(op)[1] + Block(op)[2]) \o Moved(op, s)
         /\ Moved(op, s) \in Seq(Slot) /\ Len(Moved(op, s)) = Len(InterpShuffle(op))
         /\ \A j \in 1..Len(InterpShuffle(op)) : Moved(op, s)[j] = SlotAt(s, InterpShuffle(op)[j])
         /\ Below(s, Block(op)[1] + Block(op)[2]) \in Seq(Slot)
<1> DEFINE n == Block(op)[1]
           m == Block(op)[2]
           t == Top(s, n)
           u == Top(Below(s, n), m)
           r == Below(s, n + m)
<1>1. n \in Nat /\ m \in Nat /\ n + m <= Len(s)
  BY BlockFacts
<1>2. /\ n = 1 => t = <<SlotAt(s, 1)>>
      /\ n = 2 => t = <<SlotAt(s, 2), SlotAt(s, 1)>>
      /\ m = 0 => u = <<>>
      /\ n = 1 /\ m = 1 => u = <<SlotAt(s, 2)>>
      /\ n = 1 /\ m = 2 => u = <<SlotAt(s, 3), SlotAt(s, 2)>>
      /\ \A d \in 1..n + m : SlotAt(s, d) \in Slot
  <2> HIDE DEF n, m
  <2> QED BY <1>1, PartTuples
<1>3. t \in Seq(Slot) /\ u \in Seq(Slot) /\ r \in Seq(Slot)
  <2> HIDE DEF n, m
  <2> QED BY <1>1, PartsFacts
<1>4. /\ op = "swap" => Shuffled(op, s) = (r \o t) \o u
      /\ op \in {"dup", "dup_x1", "dup_x2", "dup2"} => Shuffled(op, s) = ((r \o t) \o u) \o t
      /\ op \in {"pop", "pop2"} => Shuffled(op, s) = r
  BY DEF Shuffled
<1>5. (r \o t) \o u = r \o (t \o u) /\ ((r \o t) \o u) \o t = r \o ((t \o u) \o t)
  <2> DEFINE w == t \o u
  <2> HIDE DEF t, u, r
  <2>1. (r \o t) \o u = r \o (t \o u)
    BY <1>3, ConcatAssociative
  <2>2. w \in Seq(Slot)
    BY <1>3, ConcatProperties
  <2> HIDE DEF w
  <2>3. (r \o w) \o t = r \o (w \o t)
    BY <1>3, <2>2, ConcatAssociative
  <2> QED BY <2>1, <2>3 DEF w
<1> DEFINE x1 == SlotAt(s, 1)
           x2 == SlotAt(s, 2)
           x3 == SlotAt(s, 3)
<1>6. CASE op \in {"pop", "pop2"}
  <2>1. Moved(op, s) = <<>> /\ Len(InterpShuffle(op)) = 0
    BY <1>6 DEF Moved, InterpShuffle
  <2>2. r \o <<>> = r /\ <<>> \in Seq(Slot) /\ Len(<<>>) = 0
    BY <1>3, ConcatEmptySeq
  <2>3. \A j \in 1..0 : FALSE
    OBVIOUS
  <2> QED BY <1>3, <1>4, <1>6, <2>1, <2>2, <2>3
<1>7. CASE op = "dup"
  <2>1. n = 1 /\ m = 0 /\ InterpShuffle(op) = <<1, 1>>
    BY <1>7 DEF Block, InterpShuffle
  <2>2. Moved(op, s) = <<x1, x1>>
    BY <2>1 DEF Moved
  <2>3. x1 \in Slot
    BY <1>2, <2>1
  <2>4. t = <<x1>> /\ u = <<>>
    BY <1>2, <2>1
  <2> HIDE DEF t, u, r, n, m, x1
  <2>5. (t \o u) \o t = <<x1, x1>> /\ <<x1, x1>> \in Seq(Slot)
    <3>1. t \o u = t
      BY <1>3, <2>4, ConcatEmptySeq
    <3> QED BY <2>3, <2>4, <3>1, CatTuples
  <2>6. \A j \in 1..2 : Moved(op, s)[j] = SlotAt(s, InterpShuffle(op)[j])
    BY <2>1, <2>2 DEF x1
  <2> QED BY <1>3, <1>4, <1>5, <1>7, <2>1, <2>2, <2>5, <2>6 DEF r, n, m
<1>8. CASE op = "dup_x1"
  <2>1. n = 1 /\ m = 1 /\ InterpShuffle(op) = <<1, 2, 1>>
    BY <1>8 DEF Block, InterpShuffle
  <2>2. Moved(op, s) = <<x1, x2, x1>>
    BY <2>1 DEF Moved
  <2>3. x1 \in Slot /\ x2 \in Slot
    BY <1>2, <2>1
  <2>4. t = <<x1>> /\ u = <<x2>>
    BY <1>2, <2>1
  <2> HIDE DEF t, u, r, n, m, x1, x2
  <2>5. (t \o u) \o t = <<x1, x2, x1>> /\ <<x1, x2, x1>> \in Seq(Slot)
    <3>1. t \o u = <<x1, x2>>
      BY <2>4, CatTuples
    <3>2. <<x1, x2>> \o <<x1>> = <<x1, x2, x1>>
      BY CatTuples
    <3>3. <<x1, x2, x1>> \in Seq(Slot)
      BY <2>3
    <3> QED BY <2>4, <3>1, <3>2, <3>3
  <2>6. \A j \in 1..3 : Moved(op, s)[j] = SlotAt(s, InterpShuffle(op)[j])
    BY <2>1, <2>2 DEF x1, x2
  <2> QED BY <1>3, <1>4, <1>5, <1>8, <2>1, <2>2, <2>5, <2>6 DEF r, n, m
<1>9. CASE op = "dup_x2"
  <2>1. n = 1 /\ m = 2 /\ InterpShuffle(op) = <<1, 3, 2, 1>>
    BY <1>9 DEF Block, InterpShuffle
  <2>2. Moved(op, s) = <<x1, x3, x2, x1>>
    BY <2>1 DEF Moved
  <2>3. x1 \in Slot /\ x2 \in Slot /\ x3 \in Slot
    BY <1>2, <2>1
  <2>4. t = <<x1>> /\ u = <<x3, x2>>
    BY <1>2, <2>1
  <2> HIDE DEF t, u, r, n, m, x1, x2, x3
  <2>5. t \o u = <<x1, x3, x2>>
    BY <2>3, <2>4, CatTuples
  <2>6. (t \o u) \o t = <<x1, x3, x2, x1>> /\ <<x1, x3, x2, x1>> \in Seq(Slot)
    <3>1. <<x1, x3, x2>> \o <<x1>> = <<x1, x3, x2, x1>>
      BY CatTuples
    <3>2. <<x1, x3, x2, x1>> \in Seq(Slot)
      BY <2>3
    <3> QED BY <2>4, <2>5, <3>1, <3>2
  <2>7. \A j \in 1..4 : Moved(op, s)[j] = SlotAt(s, InterpShuffle(op)[j])
    BY <2>1, <2>2 DEF x1, x2, x3
  <2> QED BY <1>3, <1>4, <1>5, <1>9, <2>1, <2>2, <2>6, <2>7 DEF r, n, m
<1>10. CASE op = "dup2"
  <2>1. n = 2 /\ m = 0 /\ InterpShuffle(op) = <<2, 1, 2, 1>>
    BY <1>10 DEF Block, InterpShuffle
  <2>2. Moved(op, s) = <<x2, x1, x2, x1>>
    BY <2>1 DEF Moved
  <2>3. x1 \in Slot /\ x2 \in Slot
    BY <1>2, <2>1
  <2>4. t = <<x2, x1>> /\ u = <<>>
    BY <1>2, <2>1
  <2> HIDE DEF t, u, r, n, m, x1, x2
  <2>5. t \o u = <<x2, x1>>
    BY <1>3, <2>4, ConcatEmptySeq
  <2>6. (t \o u) \o t = <<x2, x1, x2, x1>> /\ <<x2, x1, x2, x1>> \in Seq(Slot)
    BY <2>3, <2>4, <2>5, CatTuples
  <2>7. \A j \in 1..4 : Moved(op, s)[j] = SlotAt(s, InterpShuffle(op)[j])
    BY <2>1, <2>2 DEF x1, x2
  <2> QED BY <1>3, <1>4, <1>5, <1>10, <2>1, <2>2, <2>6, <2>7 DEF r, n, m
<1>11. CASE op = "swap"
  <2>1. n = 1 /\ m = 1 /\ InterpShuffle(op) = <<1, 2>>
    BY <1>11 DEF Block, InterpShuffle
  <2>2. Moved(op, s) = <<x1, x2>>
    BY <2>1 DEF Moved
  <2>3. x1 \in Slot /\ x2 \in Slot
    BY <1>2, <2>1
  <2>4. t = <<x1>> /\ u = <<x2>>
    BY <1>2, <2>1
  <2> HIDE DEF t, u, r, n, m, x1, x2
  <2>5. t \o u = <<x1, x2>> /\ <<x1, x2>> \in Seq(Slot)
    BY <2>3, <2>4, CatTuples
  <2>6. \A j \in 1..2 : Moved(op, s)[j] = SlotAt(s, InterpShuffle(op)[j])
    BY <2>1, <2>2 DEF x1, x2
  <2> QED BY <1>3, <1>4, <1>5, <1>11, <2>1, <2>2, <2>5, <2>6 DEF r, n, m
<1> QED BY <1>6, <1>7, <1>8, <1>9, <1>10, <1>11 DEF ShuffleOps

\* What the interpreter holds.
InterpOK ==
  /\ interp \in [slots : Seq(Slot), locals : [Locals -> Value \cup {NoValue}], ok : BOOLEAN]
  /\ InterpMatches

LEMMA InterpReads ==
  ASSUME JvmOK, InterpOK, NEW i \in Taking, Legal(i)
  PROVE  InterpRead(i) = Taken(i) /\ Total(InterpPops(i)) = OperandSlots(i)
<1>1. jvm.stack \in Seq(Slot) /\ Whole(jvm.stack) /\ interp.slots = jvm.stack
  BY DEF JvmOK, InterpOK, InterpMatches
<1>2. Takes(i) \in Seq(Kinds) /\ Holds(jvm.stack, Takes(i))
  BY TakesFacts, LegalFacts
<1>3. CASE ~IsCall(i)
  <2>1. InterpPops(i) = Widths(Takes(i))
    BY <1>3, InterpPopsFacts
  <2>2. \A o \in Read(jvm.stack, Widths(Takes(i))) : o[2] # Pad
    BY <1>1, <1>2, OperandsRead
  <2> QED BY <1>1, <2>1, <2>2 DEF InterpRead, Taken, OperandSlots
<1>4. CASE IsCall(i)
  <2>1. InterpPops(i) = Singly(OperandSlots(i))
    BY <1>4, InterpPopsFacts
  <2>2. {o \in Read(jvm.stack, Singly(OperandSlots(i))) : o[2] # Pad} = Taken(i)
    BY <1>1, <1>2, SinglyRead DEF Taken, OperandSlots
  <2>3. OperandSlots(i) \in Nat
    BY <1>1, <1>2, OperandsRead DEF OperandSlots
  <2> QED BY <1>1, <2>1, <2>2, <2>3, SinglyFacts DEF InterpRead
<1> QED BY <1>3, <1>4

LEMMA InterpStep ==
  ASSUME JvmOK, InterpOK, InterpDrift \subseteq Avoided, [Next]_vars
  PROVE  InterpOK'
<1>0. /\ jvm.stack \in Seq(Slot) /\ jvm.locals \in [Locals -> Value \cup {NoValue}]
      /\ jvm \in [stack : Seq(Slot), locals : [Locals -> Value \cup {NoValue}]]
  BY DEF JvmOK
<1>a. /\ interp \in [slots : Seq(Slot), locals : [Locals -> Value \cup {NoValue}], ok : BOOLEAN]
      /\ interp.ok /\ interp.slots = jvm.stack
      /\ \A n \in Locals : jvm.locals[n] # NoValue => interp.locals[n] = jvm.locals[n]
  BY DEF InterpOK, InterpMatches
<1>b. JvmOK'
  BY JvmStep
<1>c. /\ jvm'.stack \in Seq(Slot) /\ jvm'.locals \in [Locals -> Value \cup {NoValue}]
  BY <1>b DEF JvmOK
<1>1. ASSUME NEW i \in Plain, Compute(i) PROVE InterpOK'
  <2>1. Legal(i) /\ i \in Taking
    BY <1>1 DEF Compute, Taking
  <2>2. InterpRead(i) = Taken(i) /\ Total(InterpPops(i)) = OperandSlots(i)
    BY <2>1, InterpReads
  <2>3. /\ jvm' = [jvm EXCEPT !.stack = Below(@, OperandSlots(i)) \o Result(i)]
        /\ interp' = [interp EXCEPT !.slots = Below(@, OperandSlots(i)) \o Result(i), !.ok = @ /\ TRUE]
    BY <1>1, <2>2 DEF Compute
  <2>4. /\ jvm'.locals = jvm.locals /\ interp'.locals = interp.locals
        /\ interp'.slots = jvm'.stack /\ interp'.ok = TRUE
        /\ interp' \in [slots : Seq(Slot), locals : [Locals -> Value \cup {NoValue}], ok : BOOLEAN]
    BY <1>0, <1>a, <1>c, <2>3
  <2> QED BY <1>a, <2>4 DEF InterpOK, InterpMatches
<1>2. ASSUME NEW i \in Shuffles, Shuffle(i) PROVE InterpOK'
  <2>1. /\ i.op \in ShuffleOps /\ i.op \notin {"dup2_x1", "dup2_x2"} /\ LegalShuffle(i.op)
        /\ jvm' = [jvm EXCEPT !.stack = Shuffled(i.op, @)]
        /\ interp' = [interp EXCEPT !.slots = InterpShuffled(i.op)]
    BY <1>2, ShuffleCases DEF Shuffle, InterpDrift
  <2>2. Block(i.op)[1] + Block(i.op)[2] <= Len(jvm.stack)
    BY <1>0, <2>1, BlockFacts, LenProperties DEF LegalShuffle
  <2>3. InterpShuffled(i.op) = Shuffled(i.op, jvm.stack)
    <3>1. Shuffled(i.op, jvm.stack)
            = Below(jvm.stack, Block(i.op)[1] + Block(i.op)[2]) \o Moved(i.op, jvm.stack)
      BY <1>0, <2>1, <2>2, MovedFacts
    <3>2. InterpShuffled(i.op)
            = Below(jvm.stack, Block(i.op)[1] + Block(i.op)[2]) \o Moved(i.op, jvm.stack)
      BY <1>a DEF InterpShuffled, Moved
    <3> QED BY <3>1, <3>2
  <2>4. /\ jvm'.locals = jvm.locals /\ interp'.locals = interp.locals
        /\ interp'.slots = jvm'.stack /\ interp'.ok = TRUE
        /\ interp' \in [slots : Seq(Slot), locals : [Locals -> Value \cup {NoValue}], ok : BOOLEAN]
    BY <1>0, <1>a, <1>c, <2>1, <2>3
  <2> QED BY <1>a, <2>4 DEF InterpOK, InterpMatches
<1>3. ASSUME NEW i \in LocalOps({"load", "wload"}, Kinds), Load(i) PROVE InterpOK'
  <2>1. i.k \in Kinds /\ i.n \in Locals
    BY LocalCases
  <2>2. /\ jvm.locals[i.n].kind = i.k
        /\ jvm' = [jvm EXCEPT !.stack = @ \o SlotsOf(jvm.locals[i.n])]
        /\ interp' = [interp EXCEPT !.slots = @ \o SlotsOf(interp.locals[i.n])]
    BY <1>3 DEF Load
  <2>3. interp.locals[i.n] = jvm.locals[i.n]
    BY <1>a, <2>1, <2>2, SlotFacts
  <2>4. /\ jvm'.locals = jvm.locals /\ interp'.locals = interp.locals
        /\ interp'.slots = jvm'.stack /\ interp'.ok = TRUE
        /\ interp' \in [slots : Seq(Slot), locals : [Locals -> Value \cup {NoValue}], ok : BOOLEAN]
    BY <1>0, <1>a, <1>c, <2>2, <2>3
  <2> QED BY <1>a, <2>4 DEF InterpOK, InterpMatches
<1>4. ASSUME NEW i \in LocalOps({"store", "wstore"}, Kinds), Store(i) PROVE InterpOK'
  <2> DEFINE v == SlotAt(jvm.stack, Width(i.k))
             locals == Stored(jvm.locals, i.n, v)
             kept == [m \in Locals |-> IF locals[m] = NoValue THEN NoValue
                                       ELSE IF m = i.n THEN v ELSE interp.locals[m]]
  <2>1. Legal(i) /\ i.n \in Locals
    BY <1>4, LocalCases DEF Store
  <2>2. i \in Taking /\ v \in Value /\ OperandSlots(i) = Width(i.k)
    BY <2>1, OneOperand
  <2>3. InterpRead(i) = Taken(i) /\ Total(InterpPops(i)) = Width(i.k)
    BY <2>1, <2>2, InterpReads
  <2>4. /\ jvm' = [stack |-> Below(jvm.stack, Width(i.k)), locals |-> locals]
        /\ interp' = [slots |-> Below(jvm.stack, Width(i.k)), locals |-> kept, ok |-> TRUE]
    BY <1>4, <1>a, <2>3 DEF Store
  <2>5. /\ locals[i.n] = v /\ v # NoValue
        /\ \A m \in Locals : m # i.n => locals[m] \in {jvm.locals[m], NoValue}
    BY <1>0, <2>1, <2>2, StoredFacts
  <2> HIDE DEF locals, v
  <2>6. \A n \in Locals : locals[n] # NoValue => kept[n] = locals[n]
    BY <1>a, <2>5
  <2>7. kept \in [Locals -> Value \cup {NoValue}]
    BY <1>a, <2>2
  <2>8. Below(jvm.stack, Width(i.k)) \in Seq(Slot)
    BY <1>c, <2>4
  <2> HIDE DEF kept
  <2> QED BY <2>4, <2>6, <2>7, <2>8 DEF InterpOK, InterpMatches
<1>5. ASSUME NEW i \in LocalOps({"iinc"}, {"i"}), Iinc(i) PROVE InterpOK'
  <2>1. i.n \in Locals
    BY LocalCases
  <2>2. jvm.locals[i.n] # NoValue /\ Fresh("i") \in Value
    BY <1>5, FreshFacts, SlotFacts DEF Iinc
  <2>3. interp.locals[i.n] = jvm.locals[i.n]
    BY <1>a, <2>1, <2>2
  <2>4. /\ jvm' = [jvm EXCEPT !.locals[i.n] = Fresh("i")]
        /\ interp' = [interp EXCEPT !.locals[i.n] = Fresh("i"), !.ok = @ /\ TRUE]
    BY <1>5, <2>3 DEF Iinc
  <2>5. /\ jvm'.stack = jvm.stack /\ jvm'.locals = [jvm.locals EXCEPT ![i.n] = Fresh("i")]
        /\ interp'.locals = [interp.locals EXCEPT ![i.n] = Fresh("i")]
        /\ interp'.slots = interp.slots /\ interp'.ok = TRUE
        /\ interp' \in [slots : Seq(Slot), locals : [Locals -> Value \cup {NoValue}], ok : BOOLEAN]
    BY <1>0, <1>a, <2>2, <2>4
  <2>6. \A n \in Locals : jvm'.locals[n] # NoValue => interp'.locals[n] = jvm'.locals[n]
    BY <1>0, <1>a, <2>5
  <2> QED BY <1>a, <2>5, <2>6 DEF InterpOK, InterpMatches
<1>6. ASSUME NEW i \in Returns, Return(i) PROVE InterpOK'
  <2>1. InterpRead(i) = Taken(i)
    <3>1. Legal(i) /\ i \in Taking
      BY <1>6 DEF Return, Taking
    <3> QED BY <3>1, InterpReads
  <2>2. /\ jvm' = [stack |-> <<>>, locals |-> Unset]
        /\ interp' = [slots |-> <<>>, locals |-> Unset, ok |-> TRUE]
    BY <1>6, <1>a, <2>1 DEF Return
  <2>3. Unset \in [Locals -> Value \cup {NoValue}] /\ <<>> \in Seq(Slot)
    BY DEF Unset
  <2> QED BY <2>2, <2>3 DEF InterpOK, InterpMatches
<1>7. CASE UNCHANGED vars
  BY <1>7 DEF vars, InterpOK, InterpMatches
<1> QED BY <1>1, <1>2, <1>3, <1>4, <1>5, <1>6, <1>7 DEF Next

\* Where a program does without dup2_x1 and dup2_x2, the interpreter's slots
\* and locals are the JVM's and every instruction reads the operands the JVM
\* gives it, whatever the methods' signatures (internal/vm/interp.go, exec).
THEOREM InterpreterFollowsJVM ==
  ASSUME InterpDrift \subseteq Avoided
  PROVE  Spec => []InterpMatches
<1>1. Init => JvmOK /\ InterpOK
  <2>1. Unset \in [Locals -> Value \cup {NoValue}] /\ <<>> \in Seq(Slot)
    BY DEF Unset
  <2>2. Init => InterpOK
    BY <2>1 DEF Init, InterpOK, InterpMatches
  <2> QED BY <2>2, JvmInit
<1>2. JvmOK /\ InterpOK /\ [Next]_vars => JvmOK' /\ InterpOK'
  BY JvmStep, InterpStep
<1>3. InterpOK => InterpMatches
  BY DEF InterpOK
<1> QED BY <1>1, <1>2, <1>3, PTL DEF Spec

(***************************************************************************)
(* The emitter.                                                            *)
(***************************************************************************)
Held == Value \cup {Pad, Junk, NoValue}

\* Every value of a stack is in the variable of its position.
Places(t, s) == \A p \in 1..Len(t) : t[p] # Pad => s[p - 1] = t[p]

LEMMA PlacesCut ==
  ASSUME NEW t \in Seq(Slot), NEW s, Places(t, s), NEW n \in 0..Len(t)
  PROVE  Places(Below(t, n), s)
<1>1. Len(t) \in Nat /\ Len(Below(t, n)) = Len(t) - n
      /\ \A p \in 1..Len(t) - n : Below(t, n)[p] = t[p]
  BY BelowFacts, LenProperties
<1> QED BY <1>1 DEF Places

LEMMA PlacesPush ==
  ASSUME NEW t \in Seq(Slot), NEW s \in [Variables -> Held], Places(t, s),
         Len(t) \in Variables, NEW v \in Value
  PROVE  /\ Written(s, Len(t), v) \in [Variables -> Held]
         /\ Places(t \o SlotsOf(v), Written(s, Len(t), v))
<1> DEFINE w == Written(s, Len(t), v)
           n == Len(t)
           x == SlotsOf(v)
           u == t \o x
<1>1. n \in Nat
  BY LenProperties
<1>2. /\ x \in Seq(Slot) /\ Len(x) \in {1, 2} /\ x[1] = v
      /\ Len(x) = 2 => x[2] = Pad
  BY SlotsOfFacts
<1>3. w \in [Variables -> Held] /\ w[n] = v /\ \A d \in Variables : d # n => w[d] = s[d]
  BY DEF Written, Held
<1>4. Variables = 0..MaxStack + 1 /\ MaxStack \in Nat
  BY StackAssumption DEF Variables
<1> HIDE DEF x
<1>5. Len(u) = n + Len(x) /\ \A p \in 1..n + Len(x) : u[p] = IF p <= n THEN t[p] ELSE x[p - n]
  BY <1>2, ConcatProperties
<1> HIDE DEF u, w
<1>6. ASSUME NEW p \in 1..Len(u), u[p] # Pad PROVE w[p - 1] = u[p]
  <2>1. CASE p <= n
    <3>1. u[p] = t[p] /\ p \in 1..n /\ p - 1 # n /\ p - 1 \in Variables
      BY <1>1, <1>2, <1>4, <1>5, <2>1
    <3>2. s[p - 1] = t[p]
      BY <1>6, <3>1 DEF Places
    <3> QED BY <1>3, <3>1, <3>2
  <2>2. CASE p = n + 1
    <3>1. p - 1 = n /\ p - n = 1 /\ u[p] = x[1]
      BY <1>1, <1>2, <1>5, <2>2
    <3> QED BY <1>2, <1>3, <3>1
  <2>3. CASE p > n + 1
    <3>1. p - n = 2 /\ Len(x) = 2 /\ u[p] = x[2]
      BY <1>1, <1>2, <1>5, <2>3
    <3> QED BY <1>2, <1>6, <3>1
  <2> QED BY <1>1, <2>1, <2>2, <2>3
<1> QED BY <1>3, <1>6 DEF Places, u, w, x

\* The assignments of a shuffle, one after another.
Runs(s, d, as, n, f) ==
  /\ f \in [0..n -> [Variables -> Held]] /\ f[0] = s
  /\ \A k \in 1..n : f[k] = Assign(f[k - 1], f[k - 1], d + as[k][1], d + as[k][2])
  /\ Assigned(s, d, as) = f[n]

LEMMA AssignedFold ==
  ASSUME NEW s \in [Variables -> Held], NEW d, NEW as, NEW n \in Nat, Len(as) = n
  PROVE  \E f : Runs(s, d, as, n, f)
<1> DEFINE V == [Variables -> Held]
           B == [k \in 1..n |-> [t \in V |-> Assign(t, t, d + as[k][1], d + as[k][2])]]
           Sum(f) == [k \in 0..n |-> IF k = 0 THEN s
                                     ELSE Assign(f[k - 1], f[k - 1], d + as[k][1], d + as[k][2])]
<1>1. \A t \in V : \A to, from : Assign(t, t, to, from) \in V
  BY DEF Assign
<1>2. B \in [1..n -> [V -> V]]
  BY <1>1
<1>3. \E f : Follows(n, V, s, B, f)
  <2>1. Steps(n, V, s, B)
    BY <1>2 DEF Steps
  <2> HIDE DEF B, V
  <2> QED BY <2>1, Iteration
<1>4. PICK f : f \in [0..n -> V] /\ f[0] = s /\ \A k \in 1..n : f[k] = B[k][f[k - 1]]
  BY <1>3 DEF Follows
<1>5. \A k \in 1..n : f[k] = Assign(f[k - 1], f[k - 1], d + as[k][1], d + as[k][2])
  <2>1. ASSUME NEW k \in 1..n PROVE f[k] = Assign(f[k - 1], f[k - 1], d + as[k][1], d + as[k][2])
    <3>1. k - 1 \in 0..n
      OBVIOUS
    <3>2. f[k - 1] \in V
      BY <1>4, <3>1
    <3> HIDE DEF V
    <3>3. f[k] = [t \in V |-> Assign(t, t, d + as[k][1], d + as[k][2])][f[k - 1]]
      BY <1>4
    <3> QED BY <3>2, <3>3
  <2> QED BY <2>1
<1>6. f = Sum(f)
  <2>1. \A k \in 0..n : k # 0 => k \in 1..n
    OBVIOUS
  <2>2. DOMAIN f = 0..n
    BY <1>4
  <2> QED BY <1>4, <1>5, <2>1, <2>2
<1>7. Assigned(s, d, as) = (CHOOSE g : g = Sum(g))[n]
  BY DEF Assigned
<1> DEFINE g == CHOOSE h : h = Sum(h)
<1>8. g = Sum(g)
  BY <1>6
<1> QED
  <2>1. \A k \in 0..n : k # 0 => k \in 1..n /\ k - 1 \in 0..n
    OBVIOUS
  <2> HIDE DEF g
  <2>2. /\ DOMAIN g = 0..n /\ g[0] = s
        /\ \A k \in 1..n : g[k] = Assign(g[k - 1], g[k - 1], d + as[k][1], d + as[k][2])
    <3> DEFINE A(t, k) == Assign(t, t, d + as[k][1], d + as[k][2])
    <3>1. g = [k \in 0..n |-> IF k = 0 THEN s ELSE A(g[k - 1], k)]
      BY <1>8
    <3> HIDE DEF A
    <3>2. DOMAIN g = 0..n /\ g[0] = s /\ \A k \in 1..n : g[k] = A(g[k - 1], k)
      <4>1. DOMAIN g = 0..n /\ \A k \in 0..n : g[k] = IF k = 0 THEN s ELSE A(g[k - 1], k)
        BY <3>1
      <4>2. 0 \in 0..n /\ \A k \in 1..n : k \in 0..n /\ k # 0
        OBVIOUS
      <4> QED BY <4>1, <4>2
    <3> QED BY <3>2 DEF A
  <2> DEFINE T == {k \in 0..n : g[k] \in V}
  <2>3. 0 \in T
    BY <2>2
  <2>4. ASSUME NEW k \in 1..n, k - 1 \in T PROVE k \in T
    <3>1. g[k - 1] \in V /\ k \in 0..n
      BY <2>4
    <3>2. g[k] = Assign(g[k - 1], g[k - 1], d + as[k][1], d + as[k][2])
      BY <2>2
    <3> HIDE DEF V
    <3>3. g[k] \in V
      BY <1>1, <3>1, <3>2
    <3> QED BY <3>1, <3>3
  <2> HIDE DEF T
  <2>5. 0..n \subseteq T
    BY <2>3, <2>4, UpTo
  <2>6. g \in [0..n -> V]
    <3>1. \A k \in 0..n : g[k] \in V
      BY <2>5 DEF T
    <3> QED BY <1>8, <3>1
  <2>7. Assigned(s, d, as) = g[n]
    BY <1>7 DEF g
  <2> QED BY <2>2, <2>6, <2>7 DEF Runs

\* What the assignments leave: the block above, the skipped slots, the block.
LEMMA AssignedFacts ==
  ASSUME NEW s \in [Variables -> Held], NEW d \in Int
  PROVE  /\ \A op \in {"pop", "pop2"} : Assigned(s, d, Assignments(op)) = s
         /\ LET w == Assigned(s, d, Assignments("dup"))
            IN  d - 1..d \subseteq Variables =>
                  /\ w \in [Variables -> Held] /\ \A e \in Variables : e # d => w[e] = s[e]
                  /\ w[d] = s[d - 1]
         /\ LET w == Assigned(s, d, Assignments("dup_x1"))
            IN  d - 2..d \subseteq Variables =>
                  /\ w \in [Variables -> Held] /\ \A e \in Variables : e < d - 2 => w[e] = s[e]
                  /\ w[d - 2] = s[d - 1] /\ w[d - 1] = s[d - 2] /\ w[d] = s[d - 1]
         /\ LET w == Assigned(s, d, Assignments("dup_x2"))
            IN  d - 3..d \subseteq Variables =>
                  /\ w \in [Variables -> Held] /\ \A e \in Variables : e < d - 3 => w[e] = s[e]
                  /\ w[d - 3] = s[d - 1] /\ w[d - 2] = s[d - 3] /\ w[d - 1] = s[d - 2] /\ w[d] = s[d - 1]
         /\ LET w == Assigned(s, d, Assignments("dup2"))
            IN  d - 2..d + 1 \subseteq Variables =>
                  /\ w \in [Variables -> Held] /\ \A e \in Variables : e \notin {d, d + 1} => w[e] = s[e]
                  /\ w[d] = s[d - 2] /\ w[d + 1] = s[d - 1]
<1>1. ASSUME NEW op \in {"pop", "pop2"} PROVE Assigned(s, d, Assignments(op)) = s
  <2> DEFINE as == Assignments(op)
  <2>1. as = <<>> /\ Len(as) = 0 /\ 0 \in Nat
    BY <1>1 DEF Assignments
  <2> HIDE DEF as
  <2>2. PICK f : Runs(s, d, as, 0, f)
    BY <2>1, AssignedFold
  <2>3. f[0] = s /\ Assigned(s, d, as) = f[0]
    BY <2>2 DEF Runs
  <2> QED BY <2>3 DEF as
<1>2. LET w == Assigned(s, d, Assignments("dup"))
      IN  d - 1..d \subseteq Variables =>
            /\ w \in [Variables -> Held] /\ \A e \in Variables : e # d => w[e] = s[e]
            /\ w[d] = s[d - 1]
  <2> SUFFICES ASSUME d - 1..d \subseteq Variables
               PROVE  LET w == Assigned(s, d, Assignments("dup"))
                      IN  /\ w \in [Variables -> Held] /\ \A e \in Variables : e # d => w[e] = s[e]
                          /\ w[d] = s[d - 1]
    OBVIOUS
  <2> DEFINE as == Assignments("dup")
  <2>1. /\ Len(as) = 1 /\ 1 \in Nat
        /\ as[1][1] = 0 /\ as[1][2] = -1
    BY DEF Assignments
  <2> HIDE DEF as
  <2>2. PICK f : Runs(s, d, as, 1, f)
    BY <2>1, AssignedFold
  <2>a. /\ f \in [0..1 -> [Variables -> Held]] /\ f[0] = s /\ Assigned(s, d, as) = f[1]
        /\ \A k \in 1..1 : f[k] = Assign(f[k - 1], f[k - 1], d + as[k][1], d + as[k][2])
    BY <2>2 DEF Runs
  <2>3. d - 1 \in Variables /\ d \in Variables
    OBVIOUS
  <2>4. f[1] \in [Variables -> Held] /\ f[1] = [f[0] EXCEPT ![d] = f[0][d - 1]]
    <3>1. f[1] = Assign(f[0], f[0], d + (0), d + (-1))
      <4>1. 1 \in 1..1 /\ 1 - 1 = 0
        OBVIOUS
      <4> QED BY <2>1, <2>a, <4>1
    <3>2. d + (0) = d /\ d + (-1) = d - 1
      OBVIOUS
    <3> QED BY <2>a, <2>3, <3>1, <3>2 DEF Assign
  <2>5. /\ f[1] \in [Variables -> Held] /\ \A e \in Variables : e # d => f[1][e] = s[e]
        /\ f[1][d] = s[d - 1]
    BY <2>a, <2>3, <2>4
  <2> QED BY <2>a, <2>5 DEF as
<1>3. LET w == Assigned(s, d, Assignments("dup_x1"))
      IN  d - 2..d \subseteq Variables =>
            /\ w \in [Variables -> Held] /\ \A e \in Variables : e < d - 2 => w[e] = s[e]
            /\ w[d - 2] = s[d - 1] /\ w[d - 1] = s[d - 2] /\ w[d] = s[d - 1]
  <2> SUFFICES ASSUME d - 2..d \subseteq Variables
               PROVE  LET w == Assigned(s, d, Assignments("dup_x1"))
                      IN  /\ w \in [Variables -> Held] /\ \A e \in Variables : e < d - 2 => w[e] = s[e]
                          /\ w[d - 2] = s[d - 1] /\ w[d - 1] = s[d - 2] /\ w[d] = s[d - 1]
    OBVIOUS
  <2> DEFINE as == Assignments("dup_x1")
  <2>1. /\ Len(as) = 3 /\ 3 \in Nat
        /\ as[1][1] = 0 /\ as[1][2] = -1
        /\ as[2][1] = -1 /\ as[2][2] = -2
        /\ as[3][1] = -2 /\ as[3][2] = 0
    BY DEF Assignments
  <2> HIDE DEF as
  <2>2. PICK f : Runs(s, d, as, 3, f)
    BY <2>1, AssignedFold
  <2>a. /\ f \in [0..3 -> [Variables -> Held]] /\ f[0] = s /\ Assigned(s, d, as) = f[3]
        /\ \A k \in 1..3 : f[k] = Assign(f[k - 1], f[k - 1], d + as[k][1], d + as[k][2])
    BY <2>2 DEF Runs
  <2>3. d - 2 \in Variables /\ d - 1 \in Variables /\ d \in Variables
    OBVIOUS
  <2>4. f[1] \in [Variables -> Held] /\ f[1] = [f[0] EXCEPT ![d] = f[0][d - 1]]
    <3>1. f[1] = Assign(f[0], f[0], d + (0), d + (-1))
      <4>1. 1 \in 1..3 /\ 1 - 1 = 0
        OBVIOUS
      <4> QED BY <2>1, <2>a, <4>1
    <3>2. d + (0) = d /\ d + (-1) = d - 1
      OBVIOUS
    <3> QED BY <2>a, <2>3, <3>1, <3>2 DEF Assign
  <2>5. f[2] \in [Variables -> Held] /\ f[2] = [f[1] EXCEPT ![d - 1] = f[1][d - 2]]
    <3>1. f[2] = Assign(f[1], f[1], d + (-1), d + (-2))
      <4>1. 2 \in 1..3 /\ 2 - 1 = 1
        OBVIOUS
      <4> QED BY <2>1, <2>a, <4>1
    <3>2. d + (-1) = d - 1 /\ d + (-2) = d - 2
      OBVIOUS
    <3> QED BY <2>a, <2>3, <3>1, <3>2 DEF Assign
  <2>6. f[3] \in [Variables -> Held] /\ f[3] = [f[2] EXCEPT ![d - 2] = f[2][d]]
    <3>1. f[3] = Assign(f[2], f[2], d + (-2), d + (0))
      <4>1. 3 \in 1..3 /\ 3 - 1 = 2
        OBVIOUS
      <4> QED BY <2>1, <2>a, <4>1
    <3>2. d + (-2) = d - 2 /\ d + (0) = d
      OBVIOUS
    <3> QED BY <2>a, <2>3, <3>1, <3>2 DEF Assign
  <2>7. /\ f[3] \in [Variables -> Held] /\ \A e \in Variables : e < d - 2 => f[3][e] = s[e]
        /\ f[3][d - 2] = s[d - 1] /\ f[3][d - 1] = s[d - 2] /\ f[3][d] = s[d - 1]
    BY <2>a, <2>3, <2>4, <2>5, <2>6
  <2> QED BY <2>a, <2>7 DEF as
<1>4. LET w == Assigned(s, d, Assignments("dup_x2"))
      IN  d - 3..d \subseteq Variables =>
            /\ w \in [Variables -> Held] /\ \A e \in Variables : e < d - 3 => w[e] = s[e]
            /\ w[d - 3] = s[d - 1] /\ w[d - 2] = s[d - 3] /\ w[d - 1] = s[d - 2] /\ w[d] = s[d - 1]
  <2> SUFFICES ASSUME d - 3..d \subseteq Variables
               PROVE  LET w == Assigned(s, d, Assignments("dup_x2"))
                      IN  /\ w \in [Variables -> Held] /\ \A e \in Variables : e < d - 3 => w[e] = s[e]
                          /\ w[d - 3] = s[d - 1] /\ w[d - 2] = s[d - 3] /\ w[d - 1] = s[d - 2] /\ w[d] = s[d - 1]
    OBVIOUS
  <2> DEFINE as == Assignments("dup_x2")
  <2>1. /\ Len(as) = 4 /\ 4 \in Nat
        /\ as[1][1] = 0 /\ as[1][2] = -1
        /\ as[2][1] = -1 /\ as[2][2] = -2
        /\ as[3][1] = -2 /\ as[3][2] = -3
        /\ as[4][1] = -3 /\ as[4][2] = 0
    BY DEF Assignments
  <2> HIDE DEF as
  <2>2. PICK f : Runs(s, d, as, 4, f)
    BY <2>1, AssignedFold
  <2>a. /\ f \in [0..4 -> [Variables -> Held]] /\ f[0] = s /\ Assigned(s, d, as) = f[4]
        /\ \A k \in 1..4 : f[k] = Assign(f[k - 1], f[k - 1], d + as[k][1], d + as[k][2])
    BY <2>2 DEF Runs
  <2>3. d - 3 \in Variables /\ d - 2 \in Variables /\ d - 1 \in Variables /\ d \in Variables
    OBVIOUS
  <2>4. f[1] \in [Variables -> Held] /\ f[1] = [f[0] EXCEPT ![d] = f[0][d - 1]]
    <3>1. f[1] = Assign(f[0], f[0], d + (0), d + (-1))
      <4>1. 1 \in 1..4 /\ 1 - 1 = 0
        OBVIOUS
      <4> QED BY <2>1, <2>a, <4>1
    <3>2. d + (0) = d /\ d + (-1) = d - 1
      OBVIOUS
    <3> QED BY <2>a, <2>3, <3>1, <3>2 DEF Assign
  <2>5. f[2] \in [Variables -> Held] /\ f[2] = [f[1] EXCEPT ![d - 1] = f[1][d - 2]]
    <3>1. f[2] = Assign(f[1], f[1], d + (-1), d + (-2))
      <4>1. 2 \in 1..4 /\ 2 - 1 = 1
        OBVIOUS
      <4> QED BY <2>1, <2>a, <4>1
    <3>2. d + (-1) = d - 1 /\ d + (-2) = d - 2
      OBVIOUS
    <3> QED BY <2>a, <2>3, <3>1, <3>2 DEF Assign
  <2>6. f[3] \in [Variables -> Held] /\ f[3] = [f[2] EXCEPT ![d - 2] = f[2][d - 3]]
    <3>1. f[3] = Assign(f[2], f[2], d + (-2), d + (-3))
      <4>1. 3 \in 1..4 /\ 3 - 1 = 2
        OBVIOUS
      <4> QED BY <2>1, <2>a, <4>1
    <3>2. d + (-2) = d - 2 /\ d + (-3) = d - 3
      OBVIOUS
    <3> QED BY <2>a, <2>3, <3>1, <3>2 DEF Assign
  <2>7. f[4] \in [Variables -> Held] /\ f[4] = [f[3] EXCEPT ![d - 3] = f[3][d]]
    <3>1. f[4] = Assign(f[3], f[3], d + (-3), d + (0))
      <4>1. 4 \in 1..4 /\ 4 - 1 = 3
        OBVIOUS
      <4> QED BY <2>1, <2>a, <4>1
    <3>2. d + (-3) = d - 3 /\ d + (0) = d
      OBVIOUS
    <3> QED BY <2>a, <2>3, <3>1, <3>2 DEF Assign
  <2>8. /\ f[4] \in [Variables -> Held] /\ \A e \in Variables : e < d - 3 => f[4][e] = s[e]
        /\ f[4][d - 3] = s[d - 1] /\ f[4][d - 2] = s[d - 3] /\ f[4][d - 1] = s[d - 2] /\ f[4][d] = s[d - 1]
    BY <2>a, <2>3, <2>4, <2>5, <2>6, <2>7
  <2> QED BY <2>a, <2>8 DEF as
<1>5. LET w == Assigned(s, d, Assignments("dup2"))
      IN  d - 2..d + 1 \subseteq Variables =>
            /\ w \in [Variables -> Held] /\ \A e \in Variables : e \notin {d, d + 1} => w[e] = s[e]
            /\ w[d] = s[d - 2] /\ w[d + 1] = s[d - 1]
  <2> SUFFICES ASSUME d - 2..d + 1 \subseteq Variables
               PROVE  LET w == Assigned(s, d, Assignments("dup2"))
                      IN  /\ w \in [Variables -> Held] /\ \A e \in Variables : e \notin {d, d + 1} => w[e] = s[e]
                          /\ w[d] = s[d - 2] /\ w[d + 1] = s[d - 1]
    OBVIOUS
  <2> DEFINE as == Assignments("dup2")
  <2>1. /\ Len(as) = 2 /\ 2 \in Nat
        /\ as[1][1] = 0 /\ as[1][2] = -2
        /\ as[2][1] = 1 /\ as[2][2] = -1
    BY DEF Assignments
  <2> HIDE DEF as
  <2>2. PICK f : Runs(s, d, as, 2, f)
    BY <2>1, AssignedFold
  <2>a. /\ f \in [0..2 -> [Variables -> Held]] /\ f[0] = s /\ Assigned(s, d, as) = f[2]
        /\ \A k \in 1..2 : f[k] = Assign(f[k - 1], f[k - 1], d + as[k][1], d + as[k][2])
    BY <2>2 DEF Runs
  <2>3. d - 2 \in Variables /\ d - 1 \in Variables /\ d \in Variables /\ d + 1 \in Variables
    OBVIOUS
  <2>4. f[1] \in [Variables -> Held] /\ f[1] = [f[0] EXCEPT ![d] = f[0][d - 2]]
    <3>1. f[1] = Assign(f[0], f[0], d + (0), d + (-2))
      <4>1. 1 \in 1..2 /\ 1 - 1 = 0
        OBVIOUS
      <4> QED BY <2>1, <2>a, <4>1
    <3>2. d + (0) = d /\ d + (-2) = d - 2
      OBVIOUS
    <3> QED BY <2>a, <2>3, <3>1, <3>2 DEF Assign
  <2>5. f[2] \in [Variables -> Held] /\ f[2] = [f[1] EXCEPT ![d + 1] = f[1][d - 1]]
    <3>1. f[2] = Assign(f[1], f[1], d + (1), d + (-1))
      <4>1. 2 \in 1..2 /\ 2 - 1 = 1
        OBVIOUS
      <4> QED BY <2>1, <2>a, <4>1
    <3>2. d + (1) = d + 1 /\ d + (-1) = d - 1
      OBVIOUS
    <3> QED BY <2>a, <2>3, <3>1, <3>2 DEF Assign
  <2>6. /\ f[2] \in [Variables -> Held] /\ \A e \in Variables : e \notin {d, d + 1} => f[2][e] = s[e]
        /\ f[2][d] = s[d - 2] /\ f[2][d + 1] = s[d - 1]
    BY <2>a, <2>3, <2>4, <2>5
  <2> QED BY <2>a, <2>6 DEF as
<1> QED BY <1>1, <1>2, <1>3, <1>4, <1>5

\* But for two forms of dup, the assignments move what the JVM moves.
LEMMA PlacesShuffle ==
  ASSUME NEW op \in ShuffleOps, op \notin {"dup2_x1", "dup2_x2", "swap"},
         NEW t \in Seq(Slot), Block(op)[1] + Block(op)[2] <= Len(t), Len(t) <= MaxStack,
         NEW s \in [Variables -> Held], Places(t, s)
  PROVE  LET w == Assigned(s, Len(t), Assignments(op))
         IN  w \in [Variables -> Held] /\ Places(Shuffled(op, t), w)
<1> DEFINE n == Block(op)[1]
           m == Block(op)[2]
           d == Len(t)
           r == Below(t, n + m)
           x == Moved(op, t)
           w == Assigned(s, d, Assignments(op))
           u == r \o x
           b == d - (n + m)
<1>1. d \in Nat /\ n \in {1, 2} /\ m \in {0, 1, 2} /\ n + m \in 0..d /\ b \in Nat
  BY BlockFacts, LenProperties
<1>2. /\ Shuffled(op, t) = r \o x /\ r \in Seq(Slot) /\ x \in Seq(Slot)
      /\ Len(x) = Len(InterpShuffle(op))
      /\ \A j \in 1..Len(InterpShuffle(op)) : x[j] = SlotAt(t, InterpShuffle(op)[j])
  BY MovedFacts
<1>3. Len(r) = b /\ \A p \in 1..b : r[p] = t[p]
  <2> HIDE DEF n, m
  <2> QED BY <1>1, BelowFacts
<1>4. \A k \in 1..d : SlotAt(t, k) # Pad => s[d - k] = SlotAt(t, k)
  <2>1. ASSUME NEW k \in 1..d, SlotAt(t, k) # Pad PROVE s[d - k] = SlotAt(t, k)
    <3>1. SlotAt(t, k) = t[d - k + 1]
      BY SlotAtFacts
    <3>2. d - k + 1 \in 1..d /\ (d - k + 1) - 1 = d - k
      BY <1>1
    <3> QED BY <2>1, <3>1, <3>2 DEF Places
  <2> QED BY <2>1
<1>5. Variables = 0..MaxStack + 1 /\ MaxStack \in Nat
  BY StackAssumption DEF Variables
\* The order of InterpShuffle and the assignments agree.
<1>6. /\ w \in [Variables -> Held]
      /\ \A e \in Variables : e < b => w[e] = s[e]
      /\ \A j \in 1..Len(InterpShuffle(op)) :
           /\ InterpShuffle(op)[j] \in 1..d
           /\ w[b + j - 1] = s[d - InterpShuffle(op)[j]]
  <2> HIDE DEF w, r, x, u
  <2>1. CASE op \in {"pop", "pop2"}
    <3>1. w = s /\ Len(InterpShuffle(op)) = 0
      BY <2>1, AssignedFacts DEF w, InterpShuffle
    <3>2. \A j \in 1..0 : FALSE
      OBVIOUS
    <3> QED BY <3>1, <3>2
  <2>2. CASE op = "dup"
    <3>1. n = 1 /\ m = 0 /\ InterpShuffle(op) = <<1, 1>>
      BY <2>2 DEF Block, InterpShuffle
    <3>2. d - 1..d \subseteq Variables
      BY <1>1, <1>5, <3>1
    <3>3. /\ w \in [Variables -> Held] /\ \A e \in Variables : e # d => w[e] = s[e]
          /\ w[d] = s[d - 1]
      <4>1. w = Assigned(s, d, Assignments("dup")) /\ d \in Int
        BY <1>1, <2>2 DEF w
      <4> HIDE DEF d
      <4> QED BY <3>2, <4>1, AssignedFacts
    <3>4. b = d - 1 /\ d - 1 \in Variables
      BY <1>1, <3>1, <3>2
    <3>5. w[d - 1] = s[d - 1]
      BY <1>1, <3>3, <3>4
    <3>6. /\ w[b + 1 - 1] = s[d - InterpShuffle(op)[1]] /\ w[b + 2 - 1] = s[d - InterpShuffle(op)[2]]
          /\ b + 1 - 1 = d - 1 /\ b + 2 - 1 = d
      BY <1>1, <3>1, <3>3, <3>4, <3>5
    <3>7. Len(InterpShuffle(op)) = 2 /\ \A j \in 1..2 : InterpShuffle(op)[j] \in 1..d
      BY <1>1, <3>1
    <3>8. \A j \in 1..2 : j = 1 \/ j = 2
      OBVIOUS
    <3>9. \A e \in Variables : e < b => e # d
      BY <1>1, <1>5, <3>4
    <3> HIDE DEF d, b, n, m
    <3>10. \A e \in Variables : e < b => w[e] = s[e]
      BY <3>3, <3>9
    <3>11. ASSUME NEW j \in 1..2
           PROVE  w[b + j - 1] = s[d - InterpShuffle(op)[j]]
      BY <3>6, <3>8
    <3> QED BY <3>3, <3>7, <3>10, <3>11
  <2>3. CASE op = "dup_x1"
    <3>1. n = 1 /\ m = 1 /\ InterpShuffle(op) = <<1, 2, 1>>
      BY <2>3 DEF Block, InterpShuffle
    <3>2. d - 2..d \subseteq Variables
      BY <1>1, <1>5, <3>1
    <3>3. /\ w \in [Variables -> Held] /\ \A e \in Variables : e < d - 2 => w[e] = s[e]
          /\ w[d - 2] = s[d - 1] /\ w[d - 1] = s[d - 2] /\ w[d] = s[d - 1]
      <4>1. w = Assigned(s, d, Assignments("dup_x1")) /\ d \in Int
        BY <1>1, <2>3 DEF w
      <4> HIDE DEF d
      <4> QED BY <3>2, <4>1, AssignedFacts
    <3>4. b = d - 2 /\ b + 1 - 1 = d - 2 /\ b + 2 - 1 = d - 1 /\ b + 3 - 1 = d
      BY <1>1, <3>1
    <3>6. /\ w[b + 1 - 1] = s[d - InterpShuffle(op)[1]] /\ w[b + 2 - 1] = s[d - InterpShuffle(op)[2]]
          /\ w[b + 3 - 1] = s[d - InterpShuffle(op)[3]]
      BY <3>1, <3>3, <3>4
    <3>7. Len(InterpShuffle(op)) = 3 /\ \A j \in 1..3 : InterpShuffle(op)[j] \in 1..d
      BY <1>1, <3>1
    <3>8. \A j \in 1..3 : j = 1 \/ j = 2 \/ j = 3
      OBVIOUS
    <3> QED BY <3>3, <3>4, <3>6, <3>7, <3>8
  <2>4. CASE op = "dup_x2"
    <3>1. n = 1 /\ m = 2 /\ InterpShuffle(op) = <<1, 3, 2, 1>>
      BY <2>4 DEF Block, InterpShuffle
    <3>2. d - 3..d \subseteq Variables
      BY <1>1, <1>5, <3>1
    <3>3. /\ w \in [Variables -> Held] /\ \A e \in Variables : e < d - 3 => w[e] = s[e]
          /\ w[d - 3] = s[d - 1] /\ w[d - 2] = s[d - 3] /\ w[d - 1] = s[d - 2] /\ w[d] = s[d - 1]
      <4>1. w = Assigned(s, d, Assignments("dup_x2")) /\ d \in Int
        BY <1>1, <2>4 DEF w
      <4> HIDE DEF d
      <4> QED BY <3>2, <4>1, AssignedFacts
    <3>4. b = d - 3 /\ b + 1 - 1 = d - 3 /\ b + 2 - 1 = d - 2 /\ b + 3 - 1 = d - 1 /\ b + 4 - 1 = d
      BY <1>1, <3>1
    <3>6. /\ w[b + 1 - 1] = s[d - InterpShuffle(op)[1]] /\ w[b + 2 - 1] = s[d - InterpShuffle(op)[2]]
          /\ w[b + 3 - 1] = s[d - InterpShuffle(op)[3]] /\ w[b + 4 - 1] = s[d - InterpShuffle(op)[4]]
      BY <3>1, <3>3, <3>4
    <3>7. Len(InterpShuffle(op)) = 4 /\ \A j \in 1..4 : InterpShuffle(op)[j] \in 1..d
      BY <1>1, <3>1
    <3>8. \A j \in 1..4 : j = 1 \/ j = 2 \/ j = 3 \/ j = 4
      OBVIOUS
    <3> QED BY <3>3, <3>4, <3>6, <3>7, <3>8
  <2>5. CASE op = "dup2"
    <3>1. n = 2 /\ m = 0 /\ InterpShuffle(op) = <<2, 1, 2, 1>>
      BY <2>5 DEF Block, InterpShuffle
    <3>2. d - 2..d + 1 \subseteq Variables
      BY <1>1, <1>5, <3>1
    <3>3. /\ w \in [Variables -> Held] /\ \A e \in Variables : e \notin {d, d + 1} => w[e] = s[e]
          /\ w[d] = s[d - 2] /\ w[d + 1] = s[d - 1]
      <4>1. w = Assigned(s, d, Assignments("dup2")) /\ d \in Int
        BY <1>1, <2>5 DEF w
      <4> HIDE DEF d
      <4> QED BY <3>2, <4>1, AssignedFacts
    <3>4. /\ b = d - 2 /\ b + 1 - 1 = d - 2 /\ b + 2 - 1 = d - 1 /\ b + 3 - 1 = d /\ b + 4 - 1 = d + 1
          /\ d - 2 \in Variables /\ d - 1 \in Variables
      BY <1>1, <3>1, <3>2
    <3>5. w[d - 2] = s[d - 2] /\ w[d - 1] = s[d - 1]
      <4>1. d - 2 \notin {d, d + 1} /\ d - 1 \notin {d, d + 1}
        BY <1>1
      <4> HIDE DEF d, b, n, m
      <4> QED BY <3>3, <3>4, <4>1
    <3>6. /\ w[b + 1 - 1] = s[d - InterpShuffle(op)[1]] /\ w[b + 2 - 1] = s[d - InterpShuffle(op)[2]]
          /\ w[b + 3 - 1] = s[d - InterpShuffle(op)[3]] /\ w[b + 4 - 1] = s[d - InterpShuffle(op)[4]]
      BY <3>1, <3>3, <3>4, <3>5
    <3>7. Len(InterpShuffle(op)) = 4 /\ \A j \in 1..4 : InterpShuffle(op)[j] \in 1..d
      BY <1>1, <3>1
    <3>8. \A j \in 1..4 : j = 1 \/ j = 2 \/ j = 3 \/ j = 4
      OBVIOUS
    <3>9. \A e \in Variables : e < b => e \notin {d, d + 1}
      BY <1>1, <1>5, <3>4
    <3> QED BY <3>3, <3>6, <3>7, <3>8, <3>9
  <2> QED BY <2>1, <2>2, <2>3, <2>4, <2>5 DEF ShuffleOps
<1>7. Places(u, w)
  <2> HIDE DEF r, x, w, n, m
  <2>1. /\ Len(u) = b + Len(x)
        /\ \A p \in 1..b + Len(x) : u[p] = IF p <= b THEN r[p] ELSE x[p - b]
    <3>1. /\ Len(u) = Len(r) + Len(x)
          /\ \A p \in 1..Len(r) + Len(x) : u[p] = IF p <= Len(r) THEN r[p] ELSE x[p - Len(r)]
      BY <1>2, ConcatProperties
    <3> HIDE DEF b, u
    <3> QED BY <1>3, <3>1
  <2>2. Len(x) \in Nat
    BY <1>2, LenProperties
  <2> HIDE DEF u
  <2>3. ASSUME NEW p \in 1..Len(u), u[p] # Pad PROVE w[p - 1] = u[p]
    <3>1. CASE p <= b
      <4>1. u[p] = t[p] /\ p \in 1..d /\ p - 1 \in Variables /\ p - 1 < b
        BY <1>1, <1>3, <1>5, <2>1, <2>2, <3>1
      <4>2. s[p - 1] = t[p]
        BY <2>3, <4>1 DEF Places
      <4> QED BY <1>6, <4>1, <4>2
    <3>2. CASE p > b
      <4> DEFINE j == p - b
      <4>1. j \in 1..Len(x) /\ b + j - 1 = p - 1 /\ u[p] = x[j]
        BY <1>1, <2>1, <2>2, <3>2
      <4> HIDE DEF j, b
      <4>2. /\ InterpShuffle(op)[j] \in 1..d /\ w[b + j - 1] = s[d - InterpShuffle(op)[j]]
            /\ u[p] = SlotAt(t, InterpShuffle(op)[j])
        BY <1>2, <1>6, <4>1
      <4> QED BY <1>4, <2>3, <4>1, <4>2
    <3> QED BY <1>1, <2>1, <2>2, <3>1, <3>2
  <2> QED BY <2>3 DEF Places
<1> QED BY <1>2, <1>6, <1>7 DEF u, w

\* What the emitter holds.
EmitOK ==
  /\ emit \in [on : BOOLEAN, ok : BOOLEAN, depth : Nat, locals : [Locals -> Held],
               s : [Variables -> Held]]
  /\ EmitMatches

LEMMA EmitPlaces ==
  ASSUME JvmOK, EmitOK, emit.on
  PROVE  /\ Places(jvm.stack, emit.s) /\ emit.s \in [Variables -> Held]
         /\ emit.depth = Len(jvm.stack) /\ emit.ok /\ Len(jvm.stack) \in Variables
         /\ emit.locals \in [Locals -> Held]
         /\ \A n \in Locals : jvm.locals[n] # NoValue => emit.locals[n] = jvm.locals[n]
<1>1. /\ jvm.stack \in Seq(Slot) /\ Len(jvm.stack) \in Nat /\ Len(jvm.stack) <= MaxStack
      /\ DOMAIN jvm.stack = 1..Len(jvm.stack)
  BY LenProperties DEF JvmOK
<1>2. Variables = 0..MaxStack + 1 /\ MaxStack \in Nat
  BY StackAssumption DEF Variables
<1>3. \A p \in 1..Len(jvm.stack) : p - 1 \in Variables
  BY <1>1, <1>2
<1>4. Places(jvm.stack, emit.s)
  BY <1>1, <1>3 DEF EmitOK, EmitMatches, Places, Var
<1>5. Len(jvm.stack) \in Variables
  BY <1>1, <1>2
<1> QED BY <1>4, <1>5 DEF EmitOK, EmitMatches

LEMMA EmitReads ==
  ASSUME JvmOK, EmitOK, emit.on, NEW i \in Taking, Legal(i), ~Unsupported(i.op)
  PROVE  /\ EmitRead(i) = Taken(i) /\ Total(EmitPops(i)) = OperandSlots(i)
         /\ \A k \in 1..Len(jvm.stack) : SlotAt(jvm.stack, k) # Pad =>
              Var(emit.depth - k) = SlotAt(jvm.stack, k)
<1> DEFINE t == jvm.stack
           d == Len(t)
           ws == Widths(Takes(i))
<1>1. /\ t \in Seq(Slot) /\ d \in Nat /\ Places(t, emit.s) /\ emit.depth = d /\ d <= MaxStack
      /\ emit.s \in [Variables -> Held]
  BY EmitPlaces, LenProperties DEF JvmOK
<1>2. Takes(i) \in Seq(Kinds) /\ Holds(t, Takes(i))
  BY TakesFacts, LegalFacts
<1>3. EmitPops(i) = ws
  BY EmitPopsFacts
<1>4. Variables = 0..MaxStack + 1 /\ MaxStack \in Nat
  BY StackAssumption DEF Variables
<1>5. ASSUME NEW k \in 1..d, SlotAt(t, k) # Pad PROVE Var(emit.depth - k) = SlotAt(t, k)
  <2>1. SlotAt(t, k) = t[d - k + 1]
    BY <1>1, SlotAtFacts
  <2>2. d - k + 1 \in 1..d /\ (d - k + 1) - 1 = d - k /\ d - k \in Variables
    BY <1>1, <1>4
  <2> QED BY <1>1, <1>5, <2>1, <2>2 DEF Places, Var
<1>6. /\ DOMAIN ws = 1..Len(Takes(i)) /\ DOMAIN Takes(i) = 1..Len(Takes(i))
      /\ ws \in Seq({1, 2}) /\ Len(ws) = Len(Takes(i))
  BY <1>2, WidthsFacts
<1>7. /\ Total(ws) \in 0..d
      /\ \A k \in DOMAIN Takes(i) : SlotAt(t, Depths(ws)[k]) # Pad
  <2> HIDE DEF t
  <2> QED BY <1>1, <1>2, OperandsRead
<1>8. \A k \in DOMAIN ws : Depths(ws)[k] \in 1..d
  <2> HIDE DEF ws, d, t
  <2>1. \A k \in 1..Len(ws) : Depths(ws)[k] \in 1..Total(ws)
    BY <1>6, DepthsGrow
  <2> QED BY <1>1, <1>6, <1>7, <2>1
<1>9. \A k \in DOMAIN ws : Var(emit.depth - Depths(ws)[k]) = SlotAt(t, Depths(ws)[k])
  BY <1>5, <1>6, <1>7, <1>8
<1> QED BY <1>3, <1>5, <1>9 DEF EmitRead, Taken, Read, OperandSlots

EmitStates == [on : BOOLEAN, ok : BOOLEAN, depth : Nat, locals : [Locals -> Held],
               s : [Variables -> Held]]

EmitState(d, locals, s) ==
  [on |-> TRUE, ok |-> TRUE, depth |-> d, locals |-> locals, s |-> s]

EmitParts(d, locals, s) ==
  d \in Nat /\ locals \in [Locals -> Held] /\ s \in [Variables -> Held]

LEMMA EmitRecord ==
  ASSUME NEW d, NEW locals, NEW s, EmitParts(d, locals, s)
  PROVE  /\ EmitState(d, locals, s) \in EmitStates
         /\ EmitState(d, locals, s).on /\ EmitState(d, locals, s).ok
         /\ EmitState(d, locals, s).depth = d /\ EmitState(d, locals, s).locals = locals
         /\ EmitState(d, locals, s).s = s
BY DEF EmitStates, EmitState, EmitParts

LEMMA EmitSwitched ==
  ASSUME NEW e \in EmitStates, NEW b \in BOOLEAN
  PROVE  /\ [e EXCEPT !.on = b] \in EmitStates /\ [e EXCEPT !.on = b].on = b
         /\ [e EXCEPT !.ok = b] \in EmitStates /\ [e EXCEPT !.ok = b].ok = b
         /\ [e EXCEPT !.ok = b].locals = e.locals /\ [e EXCEPT !.ok = b].depth = e.depth
BY DEF EmitStates

\* What the emitter holds after an instruction that it translates.
LEMMA EmitNext ==
  ASSUME JvmOK', NEW i, emit.on, ~Unsupported(i.op), NextDepth(i) = Len(jvm'.stack),
         NEW s \in [Variables -> Held], Places(jvm'.stack, s),
         NEW locals \in [Locals -> Held],
         \A n \in Locals : jvm'.locals[n] # NoValue => locals[n] = jvm'.locals[n],
         emit' = Emitted(i, s, locals, TRUE), emit.ok
  PROVE  EmitOK'
<1> DEFINE t == jvm'.stack
           d == Len(t)
<1>1. /\ t \in Seq(Slot) /\ d \in Nat /\ d <= MaxStack
      /\ DOMAIN t = 1..d
  BY LenProperties DEF JvmOK
<1>2. Variables = 0..MaxStack + 1 /\ MaxStack \in Nat
  BY StackAssumption DEF Variables
<1>3. emit' = [on |-> TRUE, ok |-> TRUE, depth |-> d, locals |-> locals, s |-> Live(s, d)]
  BY DEF Emitted
<1>4. Live(s, d) \in [Variables -> Held]
  BY DEF Live, Held
<1>5. \A p \in 1..d : p - 1 \in Variables /\ Live(s, d)[p - 1] = s[p - 1]
  BY <1>1, <1>2 DEF Live
<1> DEFINE w == Live(s, d)
<1>6. w \in [Variables -> Held] /\ \A p \in 1..d : p - 1 \in Variables /\ w[p - 1] = s[p - 1]
  BY <1>4, <1>5
<1>7. emit' = [on |-> TRUE, ok |-> TRUE, depth |-> d, locals |-> locals, s |-> w]
  BY <1>3
<1> HIDE DEF w
<1> HIDE DEF d
<1>8. /\ emit' \in EmitStates
      /\ emit'.on /\ emit'.ok /\ emit'.depth = d /\ emit'.locals = locals /\ emit'.s = w
  <2>1. emit' = EmitState(d, locals, w)
    BY <1>7, Zenon DEF EmitState
  <2>2. EmitParts(d, locals, w)
    BY <1>1, <1>6 DEF EmitParts
  <2> DEFINE e == EmitState(d, locals, w)
  <2>3. /\ e \in EmitStates /\ e.on /\ e.ok
        /\ e.depth = d /\ e.locals = locals /\ e.s = w
    BY <2>2, EmitRecord
  <2>4. emit' = e
    BY <2>1
  <2> HIDE DEF e
  <2> QED BY <2>3, <2>4, Zenon
<1>9. ASSUME NEW p \in 1..d, t[p] # Pad PROVE Var(p - 1)' = t[p]
  <2>1. Var(p - 1)' = w[p - 1]
    BY <1>6, <1>8 DEF Var
  <2> QED BY <1>6, <1>9, <2>1 DEF Places, d
<1>10. EmitMatches'
  BY <1>1, <1>8, <1>9 DEF EmitMatches, d
<1> QED BY <1>8, <1>10 DEF EmitOK, EmitStates

LEMMA EmitEntryOK ==
  /\ Unset \in [Locals -> Held] /\ Unset \in [Locals -> Value \cup {NoValue}]
  /\ EmitEntry \in EmitStates /\ EmitEntry.depth = 0 /\ EmitEntry.locals = Unset
  /\ EmitOff \in EmitStates /\ EmitOff.on = FALSE
<1>1. Unset \in [Locals -> Held] /\ Unset \in [Locals -> Value \cup {NoValue}]
  BY DEF Unset, Held
<1> DEFINE s == [d \in Variables |-> Junk]
<1>2. s \in [Variables -> Held] /\ 0 \in Nat
  BY DEF Held
<1> HIDE DEF s
<1>3. EmitEntry = EmitState(0, Unset, s)
  BY DEF EmitEntry, EmitState, s
<1>4. EmitEntry \in EmitStates /\ EmitEntry.depth = 0 /\ EmitEntry.locals = Unset
  <2>1. EmitParts(0, Unset, s)
    BY <1>1, <1>2 DEF EmitParts
  <2> DEFINE e == EmitState(0, Unset, s)
  <2>2. e \in EmitStates /\ e.depth = 0 /\ e.locals = Unset
    BY <2>1, EmitRecord
  <2> HIDE DEF e
  <2> QED BY <1>3, <2>2, Zenon DEF e
<1>5. EmitOff \in EmitStates /\ EmitOff.on = FALSE
  BY <1>4, EmitSwitched DEF EmitOff
<1> QED BY <1>1, <1>4, <1>5

LEMMA EmitOffOK ==
  ASSUME emit' = EmitOff
  PROVE  EmitOK'
<1>1. emit' \in EmitStates /\ ~emit'.on
  BY EmitEntryOK
<1> QED BY <1>1 DEF EmitOK, EmitMatches, EmitStates

LEMMA DepthAfter ==
  ASSUME JvmOK, EmitOK, emit.on, NEW i, NEW e \in Int, StackEffect(i) = e, Len(jvm.stack) + e \in Nat
  PROVE  NextDepth(i) = Len(jvm.stack) + e
<1>1. emit.depth = Len(jvm.stack) /\ Len(jvm.stack) \in Nat
  BY EmitPlaces, LenProperties DEF JvmOK
<1> QED BY <1>1 DEF NextDepth

LEMMA ShuffleDepth ==
  ASSUME NEW i \in Shuffles, i.op \notin {"dup2_x1", "dup2_x2", "swap"}, NEW t \in Seq(Slot),
         Block(i.op)[1] + Block(i.op)[2] <= Len(t)
  PROVE  /\ StackEffect(i) \in Int
         /\ Len(Shuffled(i.op, t)) = Len(t) + StackEffect(i)
<1> DEFINE n == Block(i.op)[1]
           m == Block(i.op)[2]
           r == Below(t, n + m)
           x == Moved(i.op, t)
<1>1. i.op \in ShuffleOps
  BY ShuffleCases
<1>2. Len(t) \in Nat /\ n + m \in 0..Len(t)
  BY <1>1, BlockFacts, LenProperties
<1>3. /\ Shuffled(i.op, t) = r \o x /\ x \in Seq(Slot) /\ r \in Seq(Slot)
      /\ Len(x) = Len(InterpShuffle(i.op))
  BY <1>1, MovedFacts
<1>4. Len(r) = Len(t) - (n + m)
  <2> HIDE DEF n, m
  <2> QED BY <1>2, BelowFacts
<1>5. Len(r \o x) = Len(r) + Len(x)
  <2>1. x \in Seq(Slot) /\ r \in Seq(Slot)
    BY <1>3
  <2> HIDE DEF r, x
  <2> QED BY <2>1, ConcatProperties
<1>6. StackEffect(i) \in Int /\ Len(InterpShuffle(i.op)) - (n + m) = StackEffect(i)
  <2>1. CASE i.op = "pop"
    BY <2>1 DEF StackEffect, InterpShuffle, Block
  <2>2. CASE i.op = "pop2"
    BY <2>2 DEF StackEffect, InterpShuffle, Block
  <2>3. CASE i.op = "dup"
    BY <2>3 DEF StackEffect, InterpShuffle, Block
  <2>4. CASE i.op = "dup_x1"
    BY <2>4 DEF StackEffect, InterpShuffle, Block
  <2>5. CASE i.op = "dup_x2"
    BY <2>5 DEF StackEffect, InterpShuffle, Block
  <2>6. CASE i.op = "dup2"
    BY <2>6 DEF StackEffect, InterpShuffle, Block
  <2> QED BY <1>1, <2>1, <2>2, <2>3, <2>4, <2>5, <2>6 DEF ShuffleOps
<1>7. Len(InterpShuffle(i.op)) \in Int
  <2> HIDE DEF x
  <2> QED BY <1>3, LenProperties
<1> HIDE DEF r, x, n, m
<1> QED BY <1>2, <1>3, <1>4, <1>5, <1>6, <1>7

LEMMA EmitStep ==
  ASSUME JvmOK, EmitOK, EmitDrift \subseteq Avoided, [Next]_vars
  PROVE  EmitOK'
<1> DEFINE t == jvm.stack
<1>0. /\ t \in Seq(Slot) /\ Len(t) \in Nat /\ Len(t) <= MaxStack
      /\ jvm.locals \in [Locals -> Value \cup {NoValue}]
      /\ jvm \in [stack : Seq(Slot), locals : [Locals -> Value \cup {NoValue}]]
  BY LenProperties DEF JvmOK
<1>a. emit.on => /\ Places(t, emit.s) /\ emit.s \in [Variables -> Held]
                 /\ emit.depth = Len(t) /\ emit.ok /\ Len(t) \in Variables
                 /\ emit.locals \in [Locals -> Held]
                 /\ \A n \in Locals : jvm.locals[n] # NoValue => emit.locals[n] = jvm.locals[n]
  BY EmitPlaces
<1>b. JvmOK'
  BY JvmStep
<1>c. Variables = 0..MaxStack + 1 /\ MaxStack \in Nat
  BY StackAssumption DEF Variables
<1>1. ASSUME NEW i \in Plain, Compute(i) PROVE EmitOK'
  <2> DEFINE n == OperandSlots(i)
             b == Below(t, n)
  <2>1. /\ Legal(i) /\ (Gives(i) # "v" => Free(Gives(i)) # {}) /\ i \in Taking
        /\ jvm' = [jvm EXCEPT !.stack = b \o Result(i)]
        /\ emit' = Emitted(i, IF Gives(i) = "v" THEN emit.s
                              ELSE Written(emit.s, ResultAt(i), Computed(i)),
                           emit.locals, EmitRead(i) = Taken(i))
    BY <1>1 DEF Compute, Taking
  <2>2. CASE ~emit.on \/ Unsupported(i.op)
    BY <2>1, <2>2, EmitOffOK DEF Emitted
  <2>3. CASE emit.on /\ ~Unsupported(i.op)
    <3>1. EmitRead(i) = Taken(i) /\ Total(EmitPops(i)) = n
      BY <2>1, <2>3, EmitReads
    <3>2. n \in 0..Len(t)
      <4>1. Takes(i) \in Seq(Kinds) /\ Holds(t, Takes(i))
        BY <2>1, TakesFacts, LegalFacts
      <4> QED BY <1>0, <4>1, OperandsRead DEF OperandSlots
    <3>3. b \in Seq(Slot) /\ Len(b) = Len(t) - n /\ Places(b, emit.s)
      <4> HIDE DEF n, t
      <4> QED BY <1>0, <1>a, <2>3, <3>2, BelowFacts, PlacesCut
    <3>4. /\ Result(i) \in Seq(Slot) /\ Len(Result(i)) = GivenSlots(i)
          /\ Gives(i) # "v" => Computed(i) \in Value /\ Result(i) = SlotsOf(Computed(i))
      BY <2>1, ResultFacts
    <3>5. ResultAt(i) = Len(b) /\ Len(b) \in Variables
      BY <1>0, <1>a, <1>c, <2>3, <3>1, <3>2, <3>3 DEF ResultAt
    <3> DEFINE s == IF Gives(i) = "v" THEN emit.s ELSE Written(emit.s, ResultAt(i), Computed(i))
               u == b \o Result(i)
    <3>6. s \in [Variables -> Held] /\ Places(u, s)
      <4>1. CASE Gives(i) = "v"
        <5>1. Result(i) = <<>>
          BY <4>1 DEF Result
        <5>2. b \o <<>> = b
          BY <3>3, ConcatEmptySeq
        <5> QED BY <1>a, <2>3, <3>3, <4>1, <5>1, <5>2
      <4>2. CASE Gives(i) # "v"
        <5>1. s = Written(emit.s, Len(b), Computed(i)) /\ u = b \o SlotsOf(Computed(i))
          BY <3>4, <3>5, <4>2
        <5>2. Computed(i) \in Value
          BY <3>4, <4>2
        <5> HIDE DEF s, u, b
        <5> QED BY <1>a, <2>3, <3>3, <3>5, <5>1, <5>2, PlacesPush
      <4> QED BY <4>1, <4>2
    <3>7. jvm'.stack = u /\ jvm'.locals = jvm.locals
      BY <1>0, <2>1
    <3>8. Len(u) = Len(t) - n + GivenSlots(i) /\ GivenSlots(i) \in Nat
      <4>1. GivenSlots(i) \in Nat
        BY <3>4, LenProperties
      <4> HIDE DEF b
      <4> QED BY <3>3, <3>4, <4>1, ConcatProperties
    <3>9. NextDepth(i) = Len(u)
      <4>1. ~WrongEffect(i) /\ i.op # "return"
        BY PlainCases, StackAssumption DEF WrongEffect, EmitDrift, InterpDrift, Numeric, Cat2, IsCall
      <4>2. StackEffect(i) = GivenSlots(i) - n
        BY <2>1, <2>3, <4>1, EffectFacts
      <4> HIDE DEF n, u, t
      <4>3. GivenSlots(i) - n \in Int /\ Len(t) + (GivenSlots(i) - n) \in Nat
            /\ Len(u) = Len(t) + (GivenSlots(i) - n)
        BY <1>0, <3>2, <3>8
      <4>4. NextDepth(i) = Len(t) + (GivenSlots(i) - n)
        BY <2>3, <4>2, <4>3, DepthAfter DEF t
      <4> QED BY <4>3, <4>4
    <3>10. emit' = Emitted(i, s, emit.locals, TRUE)
      BY <2>1, <3>1
    <3> HIDE DEF s, u
    <3> QED BY <1>a, <1>b, <2>3, <3>6, <3>7, <3>9, <3>10, EmitNext
  <2> QED BY <2>2, <2>3
<1>2. ASSUME NEW i \in Shuffles, Shuffle(i) PROVE EmitOK'
  <2>1. /\ i.op \in ShuffleOps /\ i.op \notin {"dup2_x1", "dup2_x2"} /\ LegalShuffle(i.op)
        /\ jvm' = [jvm EXCEPT !.stack = Shuffled(i.op, @)]
        /\ emit' = IF Unsupported(i.op) THEN EmitOff
                   ELSE Emitted(i, Assigned(emit.s, emit.depth, Assignments(i.op)), emit.locals,
                                TRUE)
    BY <1>2, ShuffleCases DEF Shuffle, EmitDrift, InterpDrift
  <2>2. CASE ~emit.on \/ Unsupported(i.op)
    BY <2>1, <2>2, EmitOffOK DEF Emitted
  <2>3. CASE emit.on /\ ~Unsupported(i.op)
    <3> DEFINE s == Assigned(emit.s, Len(t), Assignments(i.op))
               u == Shuffled(i.op, t)
    <3>1. Block(i.op)[1] + Block(i.op)[2] <= Len(t) /\ i.op # "swap"
      BY <1>0, <2>1, <2>3, BlockFacts DEF LegalShuffle, Unsupported
    <3>2. s \in [Variables -> Held] /\ Places(u, s)
      <4> HIDE DEF t
      <4> QED BY <1>0, <1>a, <2>1, <2>3, <3>1, PlacesShuffle
    <3>3. StackEffect(i) \in Int /\ Len(u) = Len(t) + StackEffect(i)
      <4> HIDE DEF t
      <4> QED BY <1>0, <2>1, <3>1, ShuffleDepth
    <3>4. jvm'.stack = u /\ jvm'.locals = jvm.locals
      BY <1>0, <2>1
    <3>5. NextDepth(i) = Len(u)
      <4>1. Len(u) \in Nat
        BY <1>b, <3>4, LenProperties DEF JvmOK
      <4> HIDE DEF u
      <4> QED BY <2>3, <3>3, <4>1, DepthAfter
    <3>6. emit' = Emitted(i, s, emit.locals, TRUE)
      BY <1>a, <2>1, <2>3
    <3> HIDE DEF s, u
    <3> QED BY <1>a, <1>b, <2>3, <3>2, <3>4, <3>5, <3>6, EmitNext
  <2> QED BY <2>2, <2>3
<1>3. ASSUME NEW i \in LocalOps({"load", "wload"}, Kinds), Load(i) PROVE EmitOK'
  <2>1. i.op \in {"load", "wload"} /\ i.k \in Kinds /\ i.n \in Locals
    BY LocalCases
  <2> DEFINE v == jvm.locals[i.n]
  <2>2. /\ v.kind = i.k /\ Room(Width(i.k))
        /\ jvm' = [jvm EXCEPT !.stack = @ \o SlotsOf(v)]
        /\ emit' = Emitted(i, Written(emit.s, emit.depth, emit.locals[i.n]), emit.locals, TRUE)
    BY <1>3 DEF Load
  <2>3. CASE ~emit.on \/ Unsupported(i.op)
    BY <2>2, <2>3, EmitOffOK DEF Emitted
  <2>4. CASE emit.on /\ ~Unsupported(i.op)
    <3>1. v \in Value /\ v # NoValue
      BY <1>0, <2>1, <2>2, SlotFacts
    <3>2. emit.locals[i.n] = v
      BY <1>a, <2>1, <2>4, <3>1
    <3> DEFINE s == Written(emit.s, Len(t), v)
               u == t \o SlotsOf(v)
    <3>3. s \in [Variables -> Held] /\ Places(u, s)
      <4> HIDE DEF v, t
      <4> QED BY <1>0, <1>a, <2>4, <3>1, PlacesPush
    <3>4. jvm'.stack = u /\ jvm'.locals = jvm.locals
      BY <1>0, <2>2
    <3>5. SlotsOf(v) \in Seq(Slot) /\ Len(SlotsOf(v)) = Width(i.k) /\ Width(i.k) \in {1, 2}
      BY <2>2, <3>1, SlotsOfFacts
    <3>6. Len(u) = Len(t) + Width(i.k)
      <4> HIDE DEF v, t
      <4> QED BY <1>0, <3>5, ConcatProperties
    <3>7. StackEffect(i) = Width(i.k)
      <4>1. i.op = "load"
        BY <2>1, <2>4 DEF Unsupported
      <4> QED BY <4>1 DEF StackEffect
    <3>8. NextDepth(i) = Len(u)
      <4>1. Width(i.k) \in Int /\ Len(t) + Width(i.k) \in Nat
        BY <1>0, <3>5
      <4> QED BY <2>4, <3>6, <3>7, <4>1, DepthAfter
    <3>9. emit' = Emitted(i, s, emit.locals, TRUE)
      BY <1>a, <2>2, <2>4, <3>2
    <3> HIDE DEF s, u
    <3> QED BY <1>a, <1>b, <2>4, <3>3, <3>4, <3>8, <3>9, EmitNext
  <2> QED BY <2>3, <2>4
<1>4. ASSUME NEW i \in LocalOps({"store", "wstore"}, Kinds), Store(i) PROVE EmitOK'
  <2> DEFINE v == SlotAt(t, Width(i.k))
             locals == Stored(jvm.locals, i.n, v)
             kept(new) == [m \in Locals |-> IF locals[m] = NoValue THEN NoValue
                                            ELSE IF m = i.n THEN new ELSE emit.locals[m]]
             u == Below(t, Width(i.k))
  <2>1. /\ Legal(i) /\ i.op \in {"store", "wstore"} /\ i.n \in Locals
        /\ jvm' = [stack |-> u, locals |-> locals]
        /\ emit' = IF ~emit.on \/ Unsupported(i.op) THEN EmitOff
                   ELSE Emitted(i, emit.s, kept(Var(ResultAt(i))), EmitRead(i) = Taken(i))
    BY <1>4, LocalCases DEF Store
  <2>2. CASE ~emit.on \/ Unsupported(i.op)
    BY <2>1, <2>2, EmitOffOK DEF Emitted
  <2>3. CASE emit.on /\ ~Unsupported(i.op)
    <3>1. /\ i \in Taking /\ i.k \in Kinds /\ v \in Value /\ v # Pad
          /\ OperandSlots(i) = Width(i.k) /\ Width(i.k) \in 1..Len(t) /\ Gives(i) = "v"
      BY <2>1, OneOperand
    <3>2. /\ EmitRead(i) = Taken(i) /\ Total(EmitPops(i)) = Width(i.k)
          /\ Var(emit.depth - Width(i.k)) = v
      BY <2>1, <2>3, <3>1, EmitReads
    <3>3. Width(i.k) \in 0..Len(t)
      BY <3>1
    <3>4. Len(u) = Len(t) - Width(i.k) /\ Places(u, emit.s)
      <4> HIDE DEF t
      <4> QED BY <1>0, <1>a, <2>3, <3>3, BelowFacts, PlacesCut
    <3>5. /\ locals[i.n] = v /\ v # NoValue
          /\ \A m \in Locals : m # i.n => locals[m] \in {jvm.locals[m], NoValue}
      BY <1>0, <2>1, <3>1, StoredFacts
    <3>6. emit' = Emitted(i, emit.s, kept(v), TRUE)
      BY <2>1, <2>3, <3>2 DEF ResultAt
    <3> HIDE DEF locals, v
    <3>7. kept(v) \in [Locals -> Held]
      BY <1>a, <2>3, <3>1 DEF Held
    <3>8. \A n \in Locals : locals[n] # NoValue => kept(v)[n] = locals[n]
      BY <1>a, <2>3, <3>5
    <3>9. StackEffect(i) = 0 - Width(i.k)
      <4>1. i.op = "store"
        BY <2>1, <2>3 DEF Unsupported
      <4> QED BY <4>1 DEF StackEffect
    <3>10. NextDepth(i) = Len(u)
      <4>1. 0 - Width(i.k) \in Int /\ Len(t) + (0 - Width(i.k)) \in Nat
            /\ Len(t) + (0 - Width(i.k)) = Len(t) - Width(i.k)
        BY <1>0, <3>3
      <4>2. NextDepth(i) = Len(t) + (0 - Width(i.k))
        BY <2>3, <3>9, <4>1, DepthAfter
      <4> QED BY <3>4, <4>1, <4>2
    <3>11. jvm'.stack = u /\ jvm'.locals = locals
      BY <2>1
    <3> DEFINE k == kept(v)
    <3>12. /\ k \in [Locals -> Held] /\ emit' = Emitted(i, emit.s, k, TRUE)
           /\ \A n \in Locals : jvm'.locals[n] # NoValue => k[n] = jvm'.locals[n]
      BY <3>6, <3>7, <3>8, <3>11
    <3> HIDE DEF k, u
    <3> QED BY <1>a, <1>b, <2>3, <3>4, <3>10, <3>11, <3>12, EmitNext
  <2> QED BY <2>2, <2>3
<1>5. ASSUME NEW i \in LocalOps({"iinc"}, {"i"}), Iinc(i) PROVE EmitOK'
  <2> DEFINE v == Fresh("i")
             k == [emit.locals EXCEPT ![i.n] = v]
  <2>1. i.n \in Locals /\ i.op \in {"iinc"}
    BY LocalCases
  <2>2. /\ jvm.locals[i.n] # NoValue /\ v \in Value
        /\ jvm' = [jvm EXCEPT !.locals[i.n] = v]
        /\ emit' = Emitted(i, emit.s, k, emit.locals[i.n] = jvm.locals[i.n])
    BY <1>5, FreshFacts, SlotFacts DEF Iinc
  <2>3. CASE ~emit.on \/ Unsupported(i.op)
    BY <2>2, <2>3, EmitOffOK DEF Emitted
  <2>4. CASE emit.on /\ ~Unsupported(i.op)
    <3> HIDE DEF v
    <3>1. emit.locals[i.n] = jvm.locals[i.n]
      BY <1>a, <2>1, <2>2, <2>4
    <3>2. jvm'.stack = t /\ jvm'.locals = [jvm.locals EXCEPT ![i.n] = v]
      BY <1>0, <2>2
    <3>3. /\ k \in [Locals -> Held]
          /\ \A n \in Locals : jvm'.locals[n] # NoValue => k[n] = jvm'.locals[n]
      BY <1>0, <1>a, <2>1, <2>2, <2>4, <3>2 DEF Held
    <3>4. StackEffect(i) = 0
      BY <2>1 DEF StackEffect
    <3>5. NextDepth(i) = Len(t)
      <4>1. Len(t) + 0 = Len(t) /\ Len(t) + 0 \in Nat /\ 0 \in Int
        BY <1>0
      <4>2. NextDepth(i) = Len(t) + 0
        BY <2>4, <3>4, <4>1, DepthAfter
      <4> QED BY <4>1, <4>2
    <3>6. emit' = Emitted(i, emit.s, k, TRUE)
      BY <2>2, <3>1
    <3> HIDE DEF k
    <3> QED BY <1>a, <1>b, <2>4, <3>2, <3>3, <3>5, <3>6, EmitNext
  <2> QED BY <2>3, <2>4
<1>6. ASSUME NEW i \in Returns, Return(i) PROVE EmitOK'
  <2>1. /\ jvm' = [stack |-> <<>>, locals |-> Unset]
        /\ emit' = [EmitEntry EXCEPT !.ok = emit.on => emit.ok /\ EmitRead(i) = Taken(i)]
        /\ Legal(i)
    BY <1>6 DEF Return
  <2>2. emit.on => emit.ok /\ EmitRead(i) = Taken(i)
    <3>1. i \in Taking /\ ~Unsupported(i.op)
      BY ReturnCases DEF Taking, Unsupported
    <3> QED BY <1>a, <2>1, <3>1, EmitReads
  <2>3. /\ emit' \in [on : BOOLEAN, ok : BOOLEAN, depth : Nat, locals : [Locals -> Held],
                      s : [Variables -> Held]]
        /\ emit'.ok = TRUE /\ emit'.depth = 0 /\ emit'.locals = Unset
    <3>1. EmitEntry \in EmitStates /\ EmitEntry.depth = 0 /\ EmitEntry.locals = Unset
      BY EmitEntryOK
    <3> DEFINE b == emit.on => emit.ok /\ EmitRead(i) = Taken(i)
    <3>2. b = TRUE
      BY <2>2
    <3>3. emit' = [EmitEntry EXCEPT !.ok = TRUE]
      BY <2>1, <3>2
    <3> HIDE DEF b
    <3>4. TRUE \in BOOLEAN
      OBVIOUS
    <3> QED BY <3>1, <3>3, <3>4 DEF EmitStates
  <2>4. jvm'.stack = <<>> /\ jvm'.locals = Unset /\ Len(<<>>) = 0 /\ DOMAIN <<>> = {}
    BY <2>1
  <2> QED BY <2>3, <2>4 DEF EmitOK, EmitMatches
<1>7. CASE UNCHANGED vars
  BY <1>7 DEF vars, EmitOK, EmitMatches, Var
<1> QED BY <1>1, <1>2, <1>3, <1>4, <1>5, <1>6, <1>7 DEF Next

\* Where a program does without the forms EmitDrift lists, the emitted code
\* reads every operand from the variable the JVM's stack puts it in, and the
\* depth from the table of effects is the height of the stack
\* (internal/emitter/emit_one.go, canonical_depth.go; classfile.StackEffect).
THEOREM EmitterFollowsJVM ==
  ASSUME EmitDrift \subseteq Avoided
  PROVE  Spec => []EmitMatches
<1>1. Init => JvmOK /\ EmitOK
  <2> SUFFICES ASSUME Init PROVE EmitOK
    BY JvmInit
  <2>1. jvm = [stack |-> <<>>, locals |-> Unset] /\ emit = EmitEntry
    BY DEF Init
  <2>2. jvm.stack = <<>> /\ jvm.locals = Unset /\ Len(<<>>) = 0 /\ DOMAIN <<>> = {}
    BY <2>1
  <2>3. emit.ok = TRUE
    BY <2>1 DEF EmitEntry
  <2>4. emit \in EmitStates /\ emit.depth = 0 /\ emit.locals = Unset
    BY <2>1, EmitEntryOK
  <2> QED BY <2>2, <2>3, <2>4 DEF EmitOK, EmitMatches, EmitStates
<1>2. JvmOK /\ EmitOK /\ [Next]_vars => JvmOK' /\ EmitOK'
  BY JvmStep, EmitStep
<1>3. EmitOK => EmitMatches
  BY DEF EmitOK
<1> QED BY <1>1, <1>2, <1>3, PTL DEF Spec

(***************************************************************************)
(* The verifier.                                                           *)
(***************************************************************************)
VerOK ==
  /\ ver \in [types : Seq(Types), locals : [Locals -> Types], ok : BOOLEAN]
  /\ VerifierMatches

LEMMA VerPopped ==
  ASSUME JvmOK, VerOK, NEW i \in Taking, Legal(i), ~HalfPopped(i)
  PROVE  Checked(VerPops(i)) = [ver EXCEPT !.types = TypesOf(Below(jvm.stack, OperandSlots(i)))]
<1> DEFINE t == jvm.stack
<1>1. t \in Seq(Slot) /\ Whole(t) /\ ver.types = TypesOf(t) /\ ver.ok
  BY DEF JvmOK, VerOK, VerifierMatches
<1>2. Takes(i) \in Seq(Kinds) /\ Holds(t, Takes(i))
  BY TakesFacts, LegalFacts
<1>3. FitAll(VerPops(i), Takes(i))
  BY VerPopsFit
<1> HIDE DEF t
<1>4. Checked(VerPops(i)) = [ver EXCEPT !.types = TypesOf(Below(t, Total(Widths(Takes(i)))))]
  BY <1>1, <1>2, <1>3, CheckedFacts
<1> QED BY <1>4 DEF OperandSlots, t

\* The type of a slot below the top.
LEMMA TypeAt ==
  ASSUME JvmOK, VerOK, NEW k \in 1..Len(jvm.stack)
  PROVE  /\ ver.types[Len(ver.types) - k + 1]
              = IF SlotAt(jvm.stack, k) = Pad THEN "top" ELSE SlotAt(jvm.stack, k).kind
         /\ Len(ver.types) = Len(jvm.stack)
<1>1. /\ jvm.stack \in Seq(Slot) /\ ver.types = TypesOf(jvm.stack)
      /\ Len(jvm.stack) \in Nat
  BY LenProperties DEF JvmOK, VerOK, VerifierMatches
<1>2. Len(jvm.stack) - k + 1 \in 1..Len(jvm.stack)
  BY <1>1
<1>3. SlotAt(jvm.stack, k) = jvm.stack[Len(jvm.stack) - k + 1]
  BY <1>1, SlotAtFacts
<1>4. /\ Len(TypesOf(jvm.stack)) = Len(jvm.stack)
      /\ \A p \in 1..Len(jvm.stack) :
           TypesOf(jvm.stack)[p] = IF jvm.stack[p] = Pad THEN "top" ELSE jvm.stack[p].kind
  BY <1>1, TypesOfFacts
<1> QED BY <1>1, <1>2, <1>3, <1>4

\* A shift of a long pops one of its slots and pushes one back: what is left
\* is the long.
LEMMA LongShift ==
  ASSUME JvmOK, VerOK, NEW i \in Plain, i.op = "shift", i.k = "l", Legal(i),
         NEW v \in Value, v.kind = "l"
  PROVE  VerStep(i) = [ver EXCEPT !.types = TypesOf(Below(jvm.stack, OperandSlots(i)) \o SlotsOf(v))]
<1> DEFINE t == jvm.stack
           ty == ver.types
           d == Len(t)
           ws == Widths(Takes(i))
<1>1. /\ t \in Seq(Slot) /\ Whole(t) /\ ty = TypesOf(t) /\ ver.ok /\ d \in Nat /\ ty \in Seq(Types)
  BY LenProperties DEF JvmOK, VerOK, VerifierMatches
<1>2. Takes(i) = <<"i", "l">> /\ ws = <<1, 2>> /\ Gives(i) = "l"
  <2>1. Takes(i) = <<"i", "l">>
    BY DEF Takes
  <2>2. Width("i") = 1 /\ Width("l") = 2
    BY DEF Width, Cat2
  <2>3. ws = <<1, 2>>
    BY <2>1, <2>2, WidthsOfFew
  <2>4. i.to = "l"
    BY PlainCases DEF IsCall
  <2> QED BY <2>1, <2>3, <2>4 DEF Gives
<1>3. Depths(ws)[1] = 1 /\ Depths(ws)[2] = 3 /\ OperandSlots(i) = 3
  <2>1. 1 \in {1, 2} /\ 2 \in {1, 2} /\ 1 + 2 = 3
    OBVIOUS
  <2>2. Depths(<<1, 2>>)[1] = 1 /\ Depths(<<1, 2>>)[2] = 3 /\ Total(<<1, 2>>) = 3
    BY <2>1, DepthsOfFew
  <2> QED BY <1>2, <2>2 DEF OperandSlots
<1>4. d >= 3 /\ SlotAt(t, 1).kind = "i" /\ SlotAt(t, 3).kind = "l"
  <2>1. /\ OperandSlots(i) <= Len(t)
        /\ \A k \in DOMAIN Takes(i) : SlotAt(t, Depths(ws)[k]).kind = Takes(i)[k]
    BY DEF Legal
  <2>2. 1 \in DOMAIN Takes(i) /\ 2 \in DOMAIN Takes(i) /\ Takes(i)[1] = "i" /\ Takes(i)[2] = "l"
    BY <1>2
  <2> QED BY <1>1, <1>3, <2>1, <2>2
<1>5. 1 \in 1..d /\ 2 \in 1..d /\ 3 \in 1..d
  BY <1>1, <1>4
<1>6. SlotAt(t, 2) = Pad
  <2>1. SlotAt(t, 3) = t[d - 3 + 1] /\ SlotAt(t, 2) = t[d - 2 + 1]
    BY <1>1, <1>5, SlotAtFacts
  <2>2. d - 3 + 1 \in 1..d /\ (d - 3 + 1) + 1 = d - 2 + 1
    BY <1>1, <1>5
  <2> QED BY <1>1, <1>4, <2>1, <2>2 DEF Whole, Cat2
<1>7. ty[d - 1 + 1] = "i" /\ ty[d - 2 + 1] = "top" /\ ty[d - 3 + 1] = "l" /\ Len(ty) = d
  BY <1>4, <1>5, <1>6, TypeAt, SlotFacts
<1> DEFINE checks == <<Expect("i"), Expect("l")>>
           popped == [k \in DOMAIN checks |-> IF checks[k].how = "pair" THEN 2 ELSE 1]
<1>8. VerPops(i) = checks
  BY DEF VerPops
<1>9. popped = <<1, 1>>
  BY DEF Expect
<1>10. Depths(<<1, 1>>)[0] = 0 /\ Depths(<<1, 1>>)[1] = 1 /\ Total(<<1, 1>>) = 2
  <2>1. 1 \in {1, 2} /\ 1 + 1 = 2 /\ <<1, 1>> \in Seq(Nat)
    OBVIOUS
  <2>2. Depths(<<1, 1>>)[1] = 1 /\ Total(<<1, 1>>) = 2
    BY <2>1, DepthsOfFew
  <2> QED BY <2>1, <2>2, DepthsFacts
<1>11. /\ Below(ty, 0) \in Seq(Types) /\ Len(Below(ty, 0)) = d /\ Below(ty, 0)[d] = "i"
       /\ Below(ty, 1) \in Seq(Types) /\ Len(Below(ty, 1)) = d - 1 /\ Below(ty, 1)[d - 1] = "top"
       /\ Below(ty, 2) \in Seq(Types) /\ Len(Below(ty, 2)) = d - 2
       /\ \A p \in 1..d - 2 : Below(ty, 2)[p] = ty[p]
  <2>1. 0 \in 0..Len(ty) /\ 1 \in 0..Len(ty) /\ 2 \in 0..Len(ty)
    BY <1>1, <1>5, <1>7
  <2> HIDE DEF ty, d
  <2>2. /\ Below(ty, 0) \in Seq(Types) /\ Len(Below(ty, 0)) = Len(ty) - 0
        /\ \A p \in 1..Len(ty) - 0 : Below(ty, 0)[p] = ty[p]
    BY <1>1, <2>1, BelowFacts
  <2>3. /\ Below(ty, 1) \in Seq(Types) /\ Len(Below(ty, 1)) = Len(ty) - 1
        /\ \A p \in 1..Len(ty) - 1 : Below(ty, 1)[p] = ty[p]
    BY <1>1, <2>1, BelowFacts
  <2>4. /\ Below(ty, 2) \in Seq(Types) /\ Len(Below(ty, 2)) = Len(ty) - 2
        /\ \A p \in 1..Len(ty) - 2 : Below(ty, 2)[p] = ty[p]
    BY <1>1, <2>1, BelowFacts
  <2>5. /\ d \in 1..Len(ty) - 0 /\ Len(ty) - 0 = d /\ d - 1 \in 1..Len(ty) - 1
        /\ d - 1 + 1 = d /\ d - 2 + 1 = d - 1
    BY <1>1, <1>5, <1>7
  <2> QED BY <1>7, <2>2, <2>3, <2>4, <2>5
<1>12. \A k \in DOMAIN checks : Accepts(Below(ty, Depths(popped)[k - 1]), checks[k])
  <2>1. /\ DOMAIN checks = {1, 2} /\ checks[1] = Expect("i") /\ checks[2] = Expect("l")
        /\ 1 - 1 = 0 /\ 2 - 1 = 1
    OBVIOUS
  <2>2. Accepts(Below(ty, 0), Expect("i"))
    <3>1. Len(Below(ty, 0)) = d /\ Below(ty, 0)[d] = "i" /\ d >= 1
      BY <1>1, <1>5, <1>11
    <3> QED BY <3>1 DEF Accepts, Expect
  <2>3. Accepts(Below(ty, 1), Expect("l"))
    <3>1. Len(Below(ty, 1)) = d - 1 /\ Below(ty, 1)[d - 1] = "top" /\ d - 1 >= 1
      BY <1>1, <1>5, <1>11
    <3> QED BY <3>1 DEF Accepts, Expect
  <2> HIDE DEF checks, popped, ty
  <2>4. Depths(popped)[0] = 0 /\ Depths(popped)[1] = 1
    BY <1>9, <1>10
  <2> QED BY <2>1, <2>2, <2>3, <2>4
<1>13. Checked(VerPops(i)) = [ver EXCEPT !.types = Below(ty, 2)]
  <2>1. Checked(checks) = [ver EXCEPT !.types = Below(ver.types, Total(popped))]
    <3> HIDE DEF checks
    <3> QED BY <1>1, <1>12 DEF Checked
  <2> HIDE DEF checks, popped
  <2> QED BY <1>8, <1>9, <1>10, <2>1
<1>14. VerStep(i) = [ver EXCEPT !.types = Below(ty, 2) \o <<"top">>]
  <2>1. VerPush(i) = "top"
    <3>1. Len(ver.types) - 1 = d - 2 + 1
      BY <1>1, <1>7
    <3> QED BY <1>7, <3>1 DEF VerPush
  <2>2. Checked(VerPops(i)).ok
    BY <1>1, <1>13 DEF VerOK
  <2>3. VerStep(i) = Push(Checked(VerPops(i)), "top")
    BY <1>2, <2>1, <2>2 DEF VerStep
  <2>4. Push([ver EXCEPT !.types = Below(ty, 2)], "top") = [ver EXCEPT !.types = Below(ty, 2) \o <<"top">>]
    BY SlotFacts DEF Push, Cat2, VerOK
  <2> QED BY <1>13, <2>3, <2>4
<1> DEFINE a == Below(ty, 2)
           x == <<"top">>
           b == Below(ty, 3)
           y == <<"l", "top">>
<1>15. /\ b \in Seq(Types) /\ Len(b) = d - 3 /\ \A p \in 1..d - 3 : b[p] = ty[p]
       /\ b = TypesOf(Below(t, 3))
  <2>1. 3 \in 0..Len(ty) /\ 3 \in 0..Len(t)
    BY <1>1, <1>5, <1>7
  <2>2. TypesOf(Below(t, 3)) = Below(TypesOf(t), 3)
    BY <1>1, <2>1, TypesOfCut
  <2>3. b = TypesOf(Below(t, 3))
    BY <1>1, <2>2
  <2> HIDE DEF ty, t
  <2>4. b \in Seq(Types) /\ Len(b) = Len(ty) - 3 /\ \A p \in 1..Len(ty) - 3 : b[p] = ty[p]
    BY <1>1, <2>1, BelowFacts
  <2> QED BY <1>7, <2>3, <2>4
<1>16. x \in Seq(Types) /\ y \in Seq(Types) /\ Len(x) = 1 /\ Len(y) = 2
       /\ x[1] = "top" /\ y[1] = "l" /\ y[2] = "top"
  <2>1. "l" \in Types /\ "top" \in Types
    BY DEF Types, Value
  <2> QED BY <2>1
<1>17. TypesOf(Below(t, 3) \o SlotsOf(v)) = b \o y
  <2>1. Below(t, 3) \in Seq(Slot) /\ SlotsOf(v) \in Seq(Slot)
    <3>1. 3 \in 0..Len(t)
      BY <1>1, <1>5
    <3> HIDE DEF t
    <3> QED BY <1>1, <3>1, BelowFacts, SlotsOfFacts
  <2>2. TypesOf(SlotsOf(v)) = y
    BY TypesOfValue DEF Cat2
  <2> HIDE DEF t, y
  <2> QED BY <1>15, <2>1, <2>2, TypesOfCat
<1>18. a \o x = b \o y
  <2> HIDE DEF x, y, b, a
  <2>1. a \in Seq(Types) /\ Len(a) = d - 2 /\ \A p \in 1..d - 2 : a[p] = ty[p]
    BY <1>11 DEF a
  <2> DEFINE f == a \o x
             g == b \o y
  <2>2. /\ f \in Seq(Types) /\ Len(f) = Len(a) + Len(x)
        /\ \A p \in 1..Len(a) + Len(x) : f[p] = IF p <= Len(a) THEN a[p] ELSE x[p - Len(a)]
    BY <1>16, <2>1, ConcatProperties
  <2>3. /\ g \in Seq(Types) /\ Len(g) = Len(b) + Len(y)
        /\ \A p \in 1..Len(b) + Len(y) : g[p] = IF p <= Len(b) THEN b[p] ELSE y[p - Len(b)]
    <3>1. b \in Seq(Types) /\ y \in Seq(Types)
      BY <1>15, <1>16
    <3> QED BY <3>1, ConcatProperties
  <2> HIDE DEF f, g
  <2>4. Len(f) = d - 1 /\ Len(g) = d - 1
    BY <1>1, <1>15, <1>16, <2>1, <2>2, <2>3
  <2>5. ASSUME NEW p \in 1..d - 1 PROVE f[p] = g[p]
    <3>1. f[p] = IF p <= d - 2 THEN a[p] ELSE x[p - (d - 2)]
      BY <1>1, <1>16, <2>1, <2>2, <2>4
    <3>2. g[p] = IF p <= d - 3 THEN b[p] ELSE y[p - (d - 3)]
      BY <1>1, <1>15, <1>16, <2>3, <2>4
    <3>3. CASE p <= d - 3
      <4>1. p \in 1..d - 3 /\ p \in 1..d - 2 /\ p <= d - 2
        BY <1>1, <3>3
      <4> QED BY <1>15, <2>1, <3>1, <3>2, <3>3, <4>1
    <3>4. CASE p = d - 2
      <4>1. p \in 1..d - 2 /\ p - (d - 3) = 1 /\ ~(p <= d - 3) /\ p <= d - 2 /\ p = d - 3 + 1
        BY <1>1, <3>4
      <4>2. f[p] = "l" /\ g[p] = "l"
        BY <1>7, <1>16, <2>1, <3>1, <3>2, <4>1
      <4> QED BY <4>2
    <3>5. CASE p = d - 1
      <4>1. p - (d - 2) = 1 /\ p - (d - 3) = 2 /\ ~(p <= d - 2) /\ ~(p <= d - 3)
        BY <1>1, <3>5
      <4> QED BY <1>16, <3>1, <3>2, <4>1
    <3> QED BY <1>1, <3>3, <3>4, <3>5
  <2>6. f = g
    BY <2>2, <2>3, <2>4, <2>5
  <2> QED BY <2>6 DEF f, g
<1> QED BY <1>3, <1>14, <1>17, <1>18

LEMMA VerPushed ==
  ASSUME VerOK, NEW t \in Seq(Slot), NEW w \in [types : Seq(Types), locals : [Locals -> Types], ok : BOOLEAN],
         w.types = TypesOf(t), NEW v \in Value
  PROVE  Push(w, v.kind) = [w EXCEPT !.types = TypesOf(t \o SlotsOf(v))]
<1>1. SlotsOf(v) \in Seq(Slot)
  BY SlotsOfFacts
<1>2. TypesOf(t \o SlotsOf(v)) = TypesOf(t) \o TypesOf(SlotsOf(v))
  BY <1>1, TypesOfCat
<1>3. TypesOf(SlotsOf(v)) = IF Cat2(v.kind) THEN <<v.kind, "top">> ELSE <<v.kind>>
  BY TypesOfValue
<1> QED BY <1>2, <1>3 DEF Push

\* What the verifier holds after an instruction.
LEMMA VerNext ==
  ASSUME JvmOK', VerOK, NEW locals \in [Locals -> Types],
         ver' = [types |-> TypesOf(jvm'.stack), locals |-> locals, ok |-> TRUE],
         \A n \in Locals : jvm'.locals[n] # NoValue => locals[n] = jvm'.locals[n].kind
  PROVE  VerOK'
<1>1. jvm'.stack \in Seq(Slot)
  BY DEF JvmOK
<1> DEFINE ty == TypesOf(jvm'.stack)
<1>2. ty \in Seq(Types)
  <2> DEFINE t == jvm'.stack
  <2> HIDE DEF t
  <2>1. TypesOf(t) \in Seq(Types)
    BY <1>1, TypesOfFacts DEF t
  <2> QED BY <2>1 DEF t
<1>3. TypesOf(jvm.stack)' = ty
  BY DEF TypesOf
<1> HIDE DEF ty
<1>4. ver' = [types |-> ty, locals |-> locals, ok |-> TRUE]
  BY DEF ty
<1>5. ver' \in [types : Seq(Types), locals : [Locals -> Types], ok : BOOLEAN]
  BY <1>2, <1>4
<1>6. VerifierMatches'
  BY <1>3, <1>4 DEF VerifierMatches
<1> QED BY <1>5, <1>6 DEF VerOK

LEMMA SwapSingles ==
  ASSUME JvmOK, VerOK, LegalShuffle("swap")
  PROVE  \A k \in Range(Top(ver.types, 2)) : ~Cat2(k)
<1> DEFINE t == jvm.stack
           d == Len(t)
           u == Top(ver.types, 2)
<1>1. t \in Seq(Slot) /\ Whole(t) /\ d \in Nat /\ ver.types \in Seq(Types) /\ Len(ver.types) = d
  BY TypesOfFacts, LenProperties DEF JvmOK, VerOK, VerifierMatches
<1>2. d >= 2 /\ SlotAt(t, 1) # Pad /\ SlotAt(t, 2) # Pad
  <2>1. Block("swap")[1] = 1 /\ Block("swap")[2] = 1 /\ 1 + 1 = 2
    BY DEF Block
  <2> QED BY <1>1, <2>1 DEF LegalShuffle
<1>3. 1 \in 1..d /\ 2 \in 1..d /\ d - 1 \in 1..d /\ d \in 1..d /\ d - 1 + 1 = d /\ d - 2 + 1 = d - 1
  BY <1>1, <1>2
<1>4. SlotAt(t, 1) = t[d] /\ SlotAt(t, 2) = t[d - 1]
  BY <1>1, <1>3, SlotAtFacts
<1>5. ~Cat2(t[d].kind) /\ ~Cat2(t[d - 1].kind)
  BY <1>1, <1>2, <1>3, <1>4 DEF Whole
<1>6. ver.types[d] = t[d].kind /\ ver.types[d - 1] = t[d - 1].kind
  BY <1>1, <1>2, <1>3, <1>4, TypeAt
<1>7. /\ u \in Seq(Types) /\ Len(u) = 2 /\ \A p \in 1..2 : u[p] = ver.types[d - 2 + p]
  <2> DEFINE ty == ver.types
  <2>1. 2 \in 0..Len(ty) /\ ty \in Seq(Types) /\ Len(ty) = d
    BY <1>1, <1>2
  <2> HIDE DEF ty, d
  <2>2. /\ Top(ty, 2) \in Seq(Types) /\ Len(Top(ty, 2)) = 2
        /\ \A p \in 1..2 : Top(ty, 2)[p] = ty[Len(ty) - 2 + p]
    BY <2>1, TopFacts
  <2> QED BY <2>1, <2>2 DEF ty
<1>8. d - 2 + 1 = d - 1 /\ d - 2 + 2 = d /\ 1 \in 1..2 /\ 2 \in 1..2
  BY <1>1
<1>9. u[1] = t[d - 1].kind /\ u[2] = t[d].kind
  BY <1>6, <1>7, <1>8
<1>10. DOMAIN u = {1, 2}
  <2> HIDE DEF u
  <2> QED BY <1>7
<1> QED BY <1>5, <1>9, <1>10 DEF Range

LEMMA VerStepOK ==
  ASSUME JvmOK, VerOK, VerDrift \subseteq Avoided, [Next]_vars
  PROVE  VerOK'
<1> DEFINE t == jvm.stack
<1>0. /\ t \in Seq(Slot) /\ Whole(t) /\ Len(t) \in Nat
      /\ jvm.locals \in [Locals -> Value \cup {NoValue}]
      /\ jvm \in [stack : Seq(Slot), locals : [Locals -> Value \cup {NoValue}]]
  BY LenProperties DEF JvmOK
<1>a. /\ ver \in [types : Seq(Types), locals : [Locals -> Types], ok : BOOLEAN]
      /\ ver.ok = TRUE /\ ver.types = TypesOf(t) /\ ver.locals \in [Locals -> Types]
      /\ \A n \in Locals : jvm.locals[n] # NoValue => ver.locals[n] = jvm.locals[n].kind
  BY DEF VerOK, VerifierMatches
<1>b. JvmOK'
  BY JvmStep
<1>1. ASSUME NEW i \in Plain, Compute(i) PROVE VerOK'
  <2> DEFINE n == OperandSlots(i)
             b == Below(t, n)
             v == Computed(i)
             u == b \o Result(i)
  <2>1. /\ Legal(i) /\ (Gives(i) # "v" => Free(Gives(i)) # {}) /\ i \in Taking
        /\ jvm' = [jvm EXCEPT !.stack = u] /\ ver' = VerStep(i)
    BY <1>1 DEF Compute, Taking
  <2>2. /\ Gives(i) # "v" => /\ v \in Value /\ v.kind = Gives(i)
                             /\ Result(i) = SlotsOf(v)
        /\ Gives(i) = "v" => Result(i) = <<>>
    BY <2>1, ResultFacts DEF Result
  <2>3. n \in 0..Len(t) /\ Holds(t, Takes(i)) /\ Takes(i) \in Seq(Kinds)
    <3>1. Takes(i) \in Seq(Kinds) /\ Holds(t, Takes(i))
      BY <2>1, TakesFacts, LegalFacts
    <3> QED BY <1>0, <3>1, OperandsRead DEF OperandSlots
  <2>4. b \in Seq(Slot)
    <3> HIDE DEF t, n
    <3> QED BY <1>0, <2>3, BelowFacts
  <2>5. VerStep(i) = [ver EXCEPT !.types = TypesOf(u)]
    <3>1. CASE i.op = "shift" /\ Cat2(i.k)
      <4>1. i.k = "l" /\ Gives(i) = "l"
        BY <3>1, PlainCases DEF IsCall, Cat2, Gives
      <4>2. v \in Value /\ v.kind = "l" /\ Result(i) = SlotsOf(v)
        BY <2>2, <4>1
      <4> HIDE DEF v
      <4> QED BY <2>1, <3>1, <4>1, <4>2, LongShift
    <3>2. CASE ~(i.op = "shift" /\ Cat2(i.k))
      <4>1. ~HalfPopped(i)
        <5>1. i.op = "neg" => ~Cat2(i.k)
          BY PlainCases DEF VerDrift, Cat2
        <5> QED BY <3>2, <5>1 DEF HalfPopped
      <4> DEFINE w == [ver EXCEPT !.types = TypesOf(b)]
      <4>2. Checked(VerPops(i)) = w
        BY <2>1, <4>1, VerPopped
      <4>3. /\ w \in [types : Seq(Types), locals : [Locals -> Types], ok : BOOLEAN]
            /\ w.types = TypesOf(b) /\ w.ok = TRUE
            /\ [w EXCEPT !.types = TypesOf(u)] = [ver EXCEPT !.types = TypesOf(u)]
        <5>1. TypesOf(b) \in Seq(Types)
          <6> HIDE DEF b
          <6> QED BY <2>4, TypesOfFacts
        <5> QED BY <1>a, <5>1
      <4>4. CASE Gives(i) = "v"
        <5>1. u = b
          BY <2>2, <2>4, <4>4, ConcatEmptySeq
        <5>2. VerStep(i) = w
          BY <4>2, <4>4 DEF VerStep
        <5> QED BY <5>1, <5>2
      <4>5. CASE Gives(i) # "v"
        <5>1. VerPush(i) = v.kind
          <6>1. CASE i.op # "shift"
            BY <2>2, <4>5, <6>1 DEF VerPush
          <6>2. CASE i.op = "shift"
            <7>1. i.k = "i" /\ Gives(i) = "i" /\ Takes(i) = <<"i", "i">>
              <8>1. i.k = "i" /\ i.to = "i"
                BY <3>2, <6>2, PlainCases DEF IsCall, Cat2
              <8> QED BY <6>2, <8>1 DEF Gives, Takes
            <7>2. Widths(Takes(i)) = <<1, 1>>
              BY <7>1, WidthsOfFew
            <7>3. Depths(<<1, 1>>)[2] = 2 /\ Total(<<1, 1>>) = 2
              <8>1. 1 \in {1, 2} /\ 1 + 1 = 2
                OBVIOUS
              <8> QED BY <8>1, DepthsOfFew
            <7>4. n = 2
              BY <7>2, <7>3 DEF OperandSlots
            <7>5. SlotAt(t, 2).kind = "i"
              <8>1. /\ \A k \in DOMAIN Takes(i) :
                         SlotAt(t, Depths(Widths(Takes(i)))[k]).kind = Takes(i)[k]
                BY <2>3 DEF Holds
              <8>2. 2 \in DOMAIN Takes(i) /\ Takes(i)[2] = "i"
                BY <7>1
              <8> QED BY <7>2, <7>3, <8>1, <8>2
            <7>6. 2 \in 1..Len(t) /\ SlotAt(t, 2) # Pad
              BY <1>0, <2>3, <7>4, <7>5, SlotFacts
            <7>7. ver.types[Len(ver.types) - 2 + 1] = "i" /\ Len(ver.types) = Len(t)
              BY <7>5, <7>6, TypeAt
            <7>8. Len(ver.types) - 1 = Len(ver.types) - 2 + 1
              BY <1>0, <7>7
            <7> QED BY <2>2, <6>2, <7>1, <7>7, <7>8 DEF VerPush
          <6> QED BY <6>1, <6>2
        <5>2. VerStep(i) = Push(w, v.kind)
          BY <4>2, <4>3, <4>5, <5>1 DEF VerStep
        <5>3. v \in Value /\ u = b \o SlotsOf(v)
          BY <2>2, <4>5
        <5> HIDE DEF v, w, b, u
        <5>4. Push(w, v.kind) = [w EXCEPT !.types = TypesOf(b \o SlotsOf(v))]
          BY <2>4, <4>3, <5>3, VerPushed
        <5> QED BY <4>3, <5>2, <5>3, <5>4
      <4> QED BY <4>4, <4>5
    <3> QED BY <3>1, <3>2
  <2>6. jvm'.stack = u /\ jvm'.locals = jvm.locals
    BY <1>0, <2>1
  <2> HIDE DEF u
  <2>7. ver' = [types |-> TypesOf(jvm'.stack), locals |-> ver.locals, ok |-> TRUE]
    BY <1>a, <2>1, <2>5, <2>6
  <2> QED BY <1>a, <1>b, <2>6, <2>7, VerNext
<1>2. ASSUME NEW i \in Shuffles, Shuffle(i) PROVE VerOK'
  <2> DEFINE u == Shuffled(i.op, t)
  <2>1. /\ i.op \in ShuffleOps /\ LegalShuffle(i.op)
        /\ jvm' = [jvm EXCEPT !.stack = Shuffled(i.op, @)] /\ ver' = VerShuffle(i.op)
    BY <1>2, ShuffleCases DEF Shuffle
  <2>2. /\ Block(i.op)[1] + Block(i.op)[2] <= Len(t) /\ SlotAt(t, Block(i.op)[1]) # Pad
        /\ SlotAt(t, Block(i.op)[1] + Block(i.op)[2]) # Pad
    BY <1>0, <2>1, BlockFacts DEF LegalShuffle
  <2>3. TypesOf(u) = Shuffled(i.op, ver.types)
    BY <1>0, <1>a, <2>1, <2>2, ShuffledFacts
  <2>4. Len(ver.types) = Len(t)
    BY <1>0, <1>a, TypesOfFacts
  <2>5. ver' = [ver EXCEPT !.types = TypesOf(u)]
    <3>1. ~(Len(ver.types) < Block(i.op)[1] + Block(i.op)[2])
      BY <1>0, <2>1, <2>2, <2>4, BlockFacts
    <3>2. i.op = "swap" => \A k \in Range(Top(ver.types, 2)) : ~Cat2(k)
      BY <2>1, SwapSingles
    <3>3. VerShuffle(i.op) = [ver EXCEPT !.types = Shuffled(i.op, ver.types)]
      BY <3>1, <3>2 DEF VerShuffle
    <3> QED BY <2>1, <2>3, <3>3
  <2>6. jvm'.stack = u /\ jvm'.locals = jvm.locals
    BY <1>0, <2>1
  <2> HIDE DEF u
  <2>7. ver' = [types |-> TypesOf(jvm'.stack), locals |-> ver.locals, ok |-> TRUE]
    BY <1>a, <2>5, <2>6
  <2> QED BY <1>a, <1>b, <2>6, <2>7, VerNext
<1>3. ASSUME NEW i \in LocalOps({"load", "wload"}, Kinds), Load(i) PROVE VerOK'
  <2> DEFINE v == jvm.locals[i.n]
             u == t \o SlotsOf(v)
  <2>1. i.op \in {"load", "wload"} /\ i.k \in Kinds /\ i.n \in Locals /\ <<i.op, i.k>> \notin Avoided
    BY LocalCases
  <2>2. v.kind = i.k /\ jvm' = [jvm EXCEPT !.stack = u] /\ ver' = VerLoad(i)
    BY <1>3 DEF Load
  <2>3. v \in Value /\ v # NoValue
    BY <1>0, <2>1, <2>2, SlotFacts
  <2>4. ver.locals[i.n] = i.k /\ ~(i.op = "wload" /\ Cat2(i.k))
    BY <1>a, <2>1, <2>2, <2>3 DEF VerDrift, Cat2
  <2>5. ver' = Push(ver, v.kind)
    BY <2>2, <2>4 DEF VerLoad
  <2>6. Push(ver, v.kind) = [ver EXCEPT !.types = TypesOf(u)]
    <3> HIDE DEF v, t
    <3> QED BY <1>0, <1>a, <2>3, VerPushed
  <2>7. jvm'.stack = u /\ jvm'.locals = jvm.locals
    BY <1>0, <2>2
  <2> HIDE DEF u
  <2>8. ver' = [types |-> TypesOf(jvm'.stack), locals |-> ver.locals, ok |-> TRUE]
    BY <1>a, <2>5, <2>6, <2>7
  <2> QED BY <1>a, <1>b, <2>7, <2>8, VerNext
<1>4. ASSUME NEW i \in LocalOps({"store", "wstore"}, Kinds), Store(i) PROVE VerOK'
  <2> DEFINE v == SlotAt(t, Width(i.k))
             locals == Stored(jvm.locals, i.n, v)
             kept(old) == [m \in Locals |-> IF locals[m] = NoValue THEN "top"
                                            ELSE IF m = i.n THEN i.k ELSE old[m]]
             u == Below(t, Width(i.k))
             c == Checked(VerPops(i))
  <2>1. /\ Legal(i) /\ i.op \in {"store", "wstore"} /\ i.n \in Locals /\ i.k \in Kinds
        /\ jvm' = [stack |-> u, locals |-> locals]
        /\ ver' = IF c.ok THEN [c EXCEPT !.locals = kept(@)] ELSE c
    BY <1>4, LocalCases DEF Store
  <2>2. /\ i \in Taking /\ v \in Value /\ v.kind = i.k /\ OperandSlots(i) = Width(i.k)
    BY <2>1, OneOperand
  <2>3. c = [ver EXCEPT !.types = TypesOf(u)]
    <3>1. ~HalfPopped(i)
      BY <2>1 DEF HalfPopped
    <3>2. Checked(VerPops(i)) = [ver EXCEPT !.types = TypesOf(Below(t, OperandSlots(i)))]
      BY <2>1, <2>2, <3>1, VerPopped
    <3> QED BY <2>2, <3>2
  <2>4. /\ locals[i.n] = v /\ v # NoValue
        /\ \A m \in Locals : m # i.n => locals[m] \in {jvm.locals[m], NoValue}
    BY <1>0, <2>1, <2>2, StoredFacts
  <2> HIDE DEF v, locals, u, c
  <2> DEFINE k == kept(ver.locals)
  <2>5. ver' = [types |-> TypesOf(u), locals |-> k, ok |-> TRUE]
    BY <1>a, <2>1, <2>3
  <2>6. k \in [Locals -> Types]
    BY <1>a, <2>1 DEF Types
  <2>7. \A n \in Locals : locals[n] # NoValue => k[n] = locals[n].kind
    BY <1>a, <2>2, <2>4
  <2>8. jvm'.stack = u /\ jvm'.locals = locals
    BY <2>1
  <2> HIDE DEF k
  <2> QED BY <1>b, <2>5, <2>6, <2>7, <2>8, VerNext
<1>5. ASSUME NEW i \in LocalOps({"iinc"}, {"i"}), Iinc(i) PROVE VerOK'
  <2> DEFINE v == Fresh("i")
  <2>1. i.n \in Locals
    BY LocalCases
  <2>2. /\ jvm.locals[i.n].kind = "i" /\ jvm.locals[i.n] # NoValue /\ v \in Value /\ v.kind = "i"
        /\ jvm' = [jvm EXCEPT !.locals[i.n] = v]
        /\ ver' = IF ver.locals[i.n] = "i" THEN ver ELSE Reject
    BY <1>5, FreshFacts, SlotFacts DEF Iinc
  <2> HIDE DEF v
  <2>3. ver.locals[i.n] = "i"
    BY <1>a, <2>1, <2>2
  <2>4. ver' = [types |-> TypesOf(t), locals |-> ver.locals, ok |-> TRUE]
    BY <1>a, <2>2, <2>3
  <2>5. jvm'.stack = t /\ jvm'.locals = [jvm.locals EXCEPT ![i.n] = v]
    BY <1>0, <2>2
  <2>6. \A n \in Locals : jvm'.locals[n] # NoValue => ver.locals[n] = jvm'.locals[n].kind
    BY <1>0, <1>a, <2>1, <2>2, <2>3, <2>5
  <2> QED BY <1>a, <1>b, <2>4, <2>5, <2>6, VerNext
<1>6. ASSUME NEW i \in Returns, Return(i) PROVE VerOK'
  <2> DEFINE locals == [n \in Locals |-> "top"]
  <2>1. /\ Legal(i) /\ jvm' = [stack |-> <<>>, locals |-> Unset]
        /\ ver' = [types |-> <<>>, locals |-> locals, ok |-> Checked(VerPops(i)).ok]
    BY <1>6 DEF Return
  <2>2. Checked(VerPops(i)).ok = TRUE
    <3>1. i \in Taking /\ ~HalfPopped(i)
      BY ReturnCases DEF Taking, HalfPopped
    <3>2. Checked(VerPops(i)) = [ver EXCEPT !.types = TypesOf(Below(t, OperandSlots(i)))]
      BY <2>1, <3>1, VerPopped
    <3> QED BY <1>a, <3>2
  <2>3. TypesOf(<<>>) = <<>>
    BY DEF TypesOf
  <2>4. jvm'.stack = <<>> /\ jvm'.locals = Unset /\ \A n \in Locals : Unset[n] = NoValue
    BY <2>1 DEF Unset
  <2>5. ver' = [types |-> TypesOf(jvm'.stack), locals |-> locals, ok |-> TRUE]
    BY <2>1, <2>2, <2>3, <2>4
  <2>6. locals \in [Locals -> Types]
    BY DEF Types
  <2> HIDE DEF locals
  <2> QED BY <1>b, <2>4, <2>5, <2>6, VerNext
<1>7. CASE UNCHANGED vars
  BY <1>7 DEF vars, VerOK, VerifierMatches
<1> QED BY <1>1, <1>2, <1>3, <1>4, <1>5, <1>6, <1>7 DEF Next

\* Where a program does without the forms VerDrift lists, the verifier accepts
\* every legal block and its types are those of the JVM's stack and locals,
\* whatever the methods' signatures (internal/verify/verify.go).
THEOREM VerifierFollowsJVM ==
  ASSUME VerDrift \subseteq Avoided
  PROVE  Spec => []VerifierMatches
<1>1. Init => JvmOK /\ VerOK
  <2> SUFFICES ASSUME Init PROVE VerOK
    BY JvmInit
  <2>1. /\ jvm = [stack |-> <<>>, locals |-> Unset]
        /\ ver = [types |-> <<>>, locals |-> [n \in Locals |-> "top"], ok |-> TRUE]
    BY DEF Init
  <2>2. TypesOf(<<>>) = <<>> /\ <<>> \in Seq(Types) /\ [n \in Locals |-> "top"] \in [Locals -> Types]
    BY DEF TypesOf, Types
  <2>3. \A n \in Locals : jvm.locals[n] = NoValue
    BY <2>1 DEF Unset
  <2> QED BY <2>1, <2>2, <2>3 DEF VerOK, VerifierMatches
<1>2. JvmOK /\ VerOK /\ [Next]_vars => JvmOK' /\ VerOK'
  BY JvmStep, VerStepOK
<1>3. VerOK => VerifierMatches
  BY DEF VerOK
<1> QED BY <1>1, <1>2, <1>3, PTL DEF Spec

=============================================================================
