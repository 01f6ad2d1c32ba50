---- MODULE MCMemberLookup ----
(* Every hierarchy of three interfaces and a chain of two classes; a smaller *)
(* set of disagreements to avoid shows each of the others.                   *)
EXTENDS MemberLookup

MCAvoided == Disagreements
====
