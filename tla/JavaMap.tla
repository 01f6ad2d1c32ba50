------------------------------ MODULE JavaMap ------------------------------
(***************************************************************************)
(* What java.util.Map and java.util.Set promise of one map and one set     *)
(* (the part of them that HashMap and HashSet of the runtime offer): keys  *)
(* are equality classes, a class has at most one entry, and an answer says *)
(* what was there before.                                                  *)
(***************************************************************************)
EXTENDS FiniteSets, Naturals

CONSTANTS Key, Value, Null   \* Null is Java's null

VARIABLES entries,   \* the map, a function from some keys to values
          members,   \* the set
          answer     \* what the last call returned: a value, a flag or a size

vars == <<entries, members, answer>>

Was(v) == [value |-> v]
Told(b) == [flag |-> b]
Counted(s) == [size |-> Cardinality(s)]

Init == entries = [k \in {} |-> Null] /\ members = {} /\ answer = Was(Null)

Lookup(k) == IF k \in DOMAIN entries THEN entries[k] ELSE Null

Get(k) == answer' = Was(Lookup(k)) /\ UNCHANGED <<entries, members>>

ContainsKey(k) == answer' = Told(k \in DOMAIN entries) /\ UNCHANGED <<entries, members>>

Put(k, v) ==
    /\ answer' = Was(Lookup(k))
    /\ entries' = [j \in DOMAIN entries \cup {k} |-> IF j = k THEN v ELSE entries[j]]
    /\ UNCHANGED members

Remove(k) ==
    /\ answer' = Was(Lookup(k))
    /\ entries' = [j \in DOMAIN entries \ {k} |-> entries[j]]
    /\ UNCHANGED members

Clear == entries' = [k \in {} |-> Null] /\ answer' = Was(Null) /\ UNCHANGED members

IsEmpty == answer' = Told(DOMAIN entries = {}) /\ UNCHANGED <<entries, members>>

Size == answer' = Counted(DOMAIN entries) /\ UNCHANGED <<entries, members>>

Add(k) == answer' = Told(k \notin members) /\ members' = members \cup {k} /\ UNCHANGED entries

Delete(k) == answer' = Told(k \in members) /\ members' = members \ {k} /\ UNCHANGED entries

Contains(k) == answer' = Told(k \in members) /\ UNCHANGED <<entries, members>>

Count == answer' = Counted(members) /\ UNCHANGED <<entries, members>>

NoMember == answer' = Told(members = {}) /\ UNCHANGED <<entries, members>>

Next ==
    \/ \E k \in Key : \/ Get(k) \/ ContainsKey(k) \/ Remove(k)
                      \/ Add(k) \/ Delete(k) \/ Contains(k)
                      \/ \E v \in Value : Put(k, v)
    \/ Clear \/ Size \/ IsEmpty \/ Count \/ NoMember

Spec == Init /\ [][Next]_vars
=============================================================================
