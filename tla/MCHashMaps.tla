----------------------------- MODULE MCHashMaps -----------------------------
(* Keys of every kind of Java object, some equal without being identical.   *)
EXTENDS HashMaps, TLC

Boxes == {"Long", "Boolean", "Short", "Byte", "Character"}
Dates == {"Date"}

Object_(id, kind, class, content, go, type, num) ==
    [id |-> id, kind |-> kind, class |-> class, content |-> content, go |-> go,
     first |-> [type |-> type, num |-> num]]

\* Two equal strings, two equal Integers, a Long of the same number, and an
\* object without a number first.
PlainKeys == {
    Object_("s1", "string", "String", "one", "one", "other", 0),
    Object_("s2", "string", "String", "one", "one", "other", 0),
    Object_("i1", "instance", "Integer", "", "", "int32", 1),
    Object_("i2", "instance", "Integer", "", "", "int32", 1),
    Object_("l1", "instance", "Long", "", "", "int64", 1),
    Object_("o1", "instance", "Node", "", "", "other", 0)}

\* Two strings of one unpaired surrogate each, which x.Go() makes alike.
SurrogateKeys == {
    Object_("h1", "string", "String", "uD800", "uFFFD", "other", 0),
    Object_("h2", "string", "String", "uD801", "uFFFD", "other", 0)}

\* Two objects of one class, without equals of its own, whose first field is an int.
PointKeys == {
    Object_("p1", "instance", "Point", "", "", "int32", 1),
    Object_("p2", "instance", "Point", "", "", "int32", 1)}

\* A Short and an Integer of one number: the Short says that they are equal.
BoxKeys == {
    Object_("b1", "instance", "Short", "", "", "int32", 1),
    Object_("i1", "instance", "Integer", "", "", "int32", 1)}

\* The values are only kept and given back.
Values == Permutations(Value)
=============================================================================
