---- MODULE MCMonitor ----
(* Monitor on a small instance: the threads are model values. *)
EXTENDS Monitor
====
