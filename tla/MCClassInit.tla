---- MODULE MCClassInit ----
(* ClassInit on three classes: B extends A, A's <clinit> uses B and C, and C's *)
(* uses A.                                                                    *)
EXTENDS ClassInit

CONSTANTS A, B, C

MCSuper == [c \in Class |-> IF c = B THEN A ELSE NoClass]
MCUses == [c \in Class |-> CASE c = A -> {B, C}
                             [] c = B -> {}
                             [] c = C -> {A}]
====
