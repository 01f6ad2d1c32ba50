--------------------------- MODULE MCOperandStack ---------------------------
(* Blocks of at most MaxStack slots and MaxLocals locals.                   *)
EXTENDS OperandStack

\* Everything in which they differ; and all of it but one engine's.
KnownDrift == InterpDrift \cup EmitDrift \cup VerDrift
ShuffleDrift == KnownDrift \ {<<"dup2_x1", "any">>}
EffectDrift == KnownDrift \ {<<"neg", "i">>, <<"neg", "f">>, <<"logic", "l">>}
TypeDrift == KnownDrift \ VerDrift
AllKinds == {"i", "f", "a", "l", "d"}
\* No argument, one, and every kind after a receiver-like reference.
SomeSignatures == {<<>>, <<"i">>} \cup {<<"a", k>> : k \in AllKinds}
TwoOfSome == [k \in AllKinds |-> IF k \in {"i", "l"} THEN 2 ELSE 1]
=============================================================================
