---- MODULE MCClassLoading ----
(* ClassLoading on a small class path: Sub extends Base and implements Face,    *)
(* Base extends the synthesized Lib, Lost extends Gone, which is missing, and   *)
(* Odd has a static constant that cannot be read.                               *)
EXTENDS ClassLoading

CONSTANTS Lib, Base, Sub, Face, Lost, Gone, Odd

MCSuper == [c \in Class |-> CASE c = Base -> Lib
                              [] c = Sub -> Base
                              [] c = Lost -> Gone
                              [] OTHER -> NoClass]
MCIfaces == [c \in Class |-> IF c = Sub THEN <<Face>> ELSE <<>>]

\* Fields of every width, a static one, and one that hides another.
MCFields == [c \in Class |->
  CASE c = Base -> <<[name |-> "x", width |-> 2, static |-> FALSE],
                     [name |-> "s", width |-> 1, static |-> TRUE],
                     [name |-> "y", width |-> 1, static |-> FALSE]>>
    [] c = Sub -> <<[name |-> "y", width |-> 2, static |-> FALSE],
                    [name |-> "z", width |-> 1, static |-> FALSE]>>
    [] c = Odd -> <<[name |-> "k", width |-> 1, static |-> TRUE]>>
    [] OTHER -> <<>>]

\* Sub's code uses a Sub as a Base and as a Face.
MCAsks == [c \in Class |-> IF c = Sub THEN {<<Sub, Base>>, <<Sub, Face>>} ELSE {}]

ASSUME Acyclic /\ AsksSound /\ SynthPlain

\* As Throwable: a synthesized class with a field of its own.
MCLibFields == [MCFields EXCEPT ![Lib] = <<[name |-> "m", width |-> 1, static |-> FALSE]>>]

\* Base's code uses a Sub as a Base, as a superclass with a factory does.
MCFactoryAsks == [MCAsks EXCEPT ![Base] = {<<Sub, Base>>}]
====
