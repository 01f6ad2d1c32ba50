---- MODULE MCThreads ----
(* Threads on a small instance: the threads are model values. *)
EXTENDS Threads
====
