---------------------------- MODULE MCMethodBody ----------------------------
(* Bodies as javac lays them out.                                           *)
EXTENDS MethodBody

I(op, depth) == [op |-> op, target |-> 0, depth |-> depth]
J(op, target, depth) == [op |-> op, target |-> target, depth |-> depth]
H(start, end, handler, catch) ==
    [start |-> start, end |-> end, handler |-> handler, catch |-> catch]
Body_(s, handlers) == [code |-> [pc \in 0..Len(s) - 1 |-> s[pc + 1]], handlers |-> handlers]

\* return f() ? 1 : 2
Ternary == Body_(<<I("invoke", 0), J("if", 4, 1), I("const", 0), J("goto", 5, 1),
                   I("const", 0), I("return", 1)>>, <<>>)

\* while (f()) x = (T) g(); return 1
Loop == Body_(<<I("const", 0), I("store", 1), I("invoke", 0), J("if", 8, 1), I("invoke", 0),
                I("checkcast", 1), I("store", 1), J("goto", 2, 0),
                I("const", 0), I("return", 1)>>, <<>>)

\* try { x = f() / 2 } catch (A e) { } catch (B e) { } return 1, for every way
\* to cover the first instructions with the two handlers.
TryCatch == {
    Body_(<<I("invoke", 0), I("const", 1), I("div", 2), I("store", 1), J("goto", 8, 0),
            I("store", 1), J("goto", 8, 0), I("store", 1), I("const", 0), I("return", 1)>>,
          <<H(a, b, 5, c), H(d, e, 7, g)>>) :
        a \in 0..1, b \in {1, 3, 4}, d \in {0, 2}, e \in 3..4,
        c \in {"any", "E", "F"}, g \in {"any", "E", "F"}}

\* try { new T(); S.f() } catch (E e) { } return 1
StaticInTry == Body_(<<I("new", 0), I("store", 1), I("invokestatic", 0), I("store", 1),
                       J("goto", 6, 0), I("store", 1), I("const", 0), I("return", 1)>>,
                     <<H(0, 4, 5, "E")>>)

\* try { x = f() / 2 } finally { g() } return 1
Finally == Body_(<<I("invoke", 0), I("const", 1), I("div", 2), I("store", 1), I("invoke", 0),
                   I("store", 1), J("goto", 12, 0), I("store", 1), I("invoke", 0),
                   I("store", 1), I("const", 0), I("athrow", 1), I("const", 0),
                   I("return", 1)>>, <<H(0, 4, 7, "any")>>)

\* try { x = 1 / f() } catch (E e) { y = (T) e } return 1
CastInHandler == Body_(<<I("const", 0), I("invoke", 1), I("div", 2), I("store", 1),
                         J("goto", 7, 0), I("checkcast", 1), I("store", 1), I("const", 0),
                         I("return", 1)>>, <<H(0, 4, 5, "any")>>)

\* try { if (1 / f() != 0) throw g() } catch (E e) { } return 1
ThrowInTry == Body_(<<I("const", 0), I("invoke", 1), I("div", 2), J("if", 6, 1), I("invoke", 0),
                      I("athrow", 1), J("goto", 8, 0), I("store", 1), I("const", 0),
                      I("return", 1)>>, <<H(0, 6, 7, "E")>>)

StaticCatch == {StaticInTry}

\* return S.f()
StaticCall == {Body_(<<I("invokestatic", 0), I("return", 1)>>, <<>>)}

PlainBodies == TryCatch \cup {Ternary, Loop, StaticInTry, Finally, CastInHandler, ThrowInTry}

\* try { return f() } catch (any) { return 2 }
TryReturn == {Body_(<<I("invoke", 0), I("return", 1), I("store", 1), I("const", 0),
                      I("return", 1)>>, <<H(0, 2, 2, "any")>>)}

\* F is a class of its own, E is what a division throws.
CatchTypes == [c \in {"E", "F"} |-> {c, "any"}]
MCExc == {"E", "F"}
MCArith == "E"
MCThrowable == "Throwable"

\* What the proof of EmitFollows asks of the bodies.
ASSUME HandlersReached /\ StraightHandlers
=============================================================================
