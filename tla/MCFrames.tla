---- MODULE MCFrames ----
(* Frames with a method of each engine, one of them synchronized. *)
EXTENDS Frames, TLC

CONSTANTS run, step, task, a, b

MCEngine == [m \in Method |-> CASE m = run -> "interp"
                                [] m = step -> "emitted"
                                [] m = task -> "native"]
MCSyncOn == [m \in Method |-> IF m = run THEN a ELSE NoObject]
\* One block where the interpreter runs, nested ones in emitted code.
MCBlocks == [m \in Method |-> CASE m = run -> 1
                                [] m = step -> 2
                                [] OTHER -> 0]

ASSUME ThrowsUnlocked

Symmetry == Permutations(Thread)
====
