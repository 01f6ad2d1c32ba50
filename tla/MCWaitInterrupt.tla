---- MODULE MCWaitInterrupt ----
(* WaitInterrupt on a small instance: the threads are model values. *)
EXTENDS WaitInterrupt
====
