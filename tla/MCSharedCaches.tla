---- MODULE MCSharedCaches ----
(* Two call sites whose hashes collide, and two receiver classes that share  *)
(* the first site's method and not the second's.                             *)
EXTENDS SharedCaches, TLC

CONSTANTS s1, s2, c1, c2

MCIcSlot == s1 :> 0 @@ s2 :> 0
MCMethod == s1 :> (c1 :> 1 @@ c2 :> 1) @@ s2 :> (c1 :> 2 @@ c2 :> 3)
Threads == Permutations(Thread)
====
