------------------------------ MODULE HashMaps ------------------------------
(***************************************************************************)
(* java.util.HashMap (LinkedHashMap shares its natives) and                *)
(* java.util.HashSet of the runtime: Go maps indexed by a key computed     *)
(* from the Java object (kernel/natives_p7.go).  The Java program owns one *)
(* map and one set and calls them with the objects of its heap.            *)
(***************************************************************************)
EXTENDS FiniteSets, Integers

CONSTANTS
    Object,         \* the objects used as keys, records as below
    Value,          \* the values put
    Null,           \* Java's null, as a value and as an answer
    IntegerClass,   \* java/lang/Integer, with natives of its own
    Wrappers,       \* the boxes of natWrapperEquals: Long, Boolean, Short, Byte, Character
    OwnEquals       \* the program's classes whose own equals compares contents

\* kind is the Go type of the Java value.  content is a string's UTF-16 units,
\* or what the equals of an OwnEquals class compares; go is the text x.Go()
\* makes of a string, in which every unpaired surrogate is U+FFFD, so that
\* strings of different content may have the same.  first is the first field:
\* its Go type and the number in it ("other" is a reference, a float, no field).
ASSUME ObjectAssumption ==
    /\ \A o \in Object :
           /\ o.kind \in {"null", "string", "instance", "array"}
           /\ o.first \in [type : {"int32", "int64", "other"}, num : Int]
           /\ o.kind = "instance" /\ o.class = IntegerClass => o.first.type = "int32"
    /\ \A o, p \in Object : o.kind = "string" /\ p.kind = "string" /\ o.content = p.content
                              => o.go = p.go
    /\ IntegerClass \notin Wrappers \cup OwnEquals /\ Wrappers \cap OwnEquals = {}

Numeric(o) == o.kind = "instance" /\ o.first.type \in {"int32", "int64"}

\* o.equals(p), by what o is.  A string compares UTF-16 units, an Integer looks
\* for an Integer of its value, and the other wrappers compare the two first
\* fields whatever the class of p.  (On an instance without fields that last
\* comparison panics; the model answers that it is not equal.)  Equals need not
\* be symmetric: a Short of 1 is equal to the Integer of 1, which is not to it.
Equal(o, p) ==
    \/ o = p
    \/ o.kind = "string" /\ p.kind = "string" /\ o.content = p.content
    \/ /\ o.kind = "instance" /\ p.kind = "instance"
       /\ \/ o.class = IntegerClass /\ p.class = IntegerClass /\ o.first.num = p.first.num
          \/ o.class \in Wrappers /\ Numeric(p) /\ o.first = p.first
          \/ o.class \in OwnEquals /\ o.class = p.class /\ o.content = p.content

VARIABLES data,      \* mapBuf.data
          keys,      \* mapBuf.keys, the objects behind the keys of data
          setData,   \* the keys of setBuf.data
          setKeys,   \* setBuf.keys
          answer     \* what the last call returned

mapVars == <<data, keys, setData, setKeys, answer>>

Keyed(kind, s, cls, num, p) == [kind |-> kind, s |-> s, cls |-> cls, num |-> num, p |-> p]

\* A plausible bug: numbers are not told apart by their class.
hashKeyOfNumber(o) ==
    CASE o.kind = "null" -> Keyed("Z", "", "", 0, "")
      [] o.kind = "string" -> Keyed("S", o.go, "", 0, "")
      [] Numeric(o) -> Keyed("N", "", "", o.first.num, "")
      [] OTHER -> Keyed("R", "", "", 0, o.id)

hashKey(o) ==
    CASE o.kind = "null" -> Keyed("Z", "", "", 0, "")
      [] o.kind = "string" -> Keyed("S", o.go, "", 0, "")
      [] Numeric(o) -> Keyed("N", "", o.class, o.first.num, "")
      [] OTHER -> Keyed("R", "", "", 0, o.id)

Empty == [k \in {} |-> Null]
With(f, k, v) == [j \in DOMAIN f \cup {k} |-> IF j = k THEN v ELSE f[j]]
Without(f, k) == [j \in DOMAIN f \ {k} |-> f[j]]

\* What a native returns: a Java reference, a boolean or an int.
Was(v) == [value |-> v]
Told(b) == [flag |-> b]
Counted(s) == [size |-> Cardinality(s)]

MapInit ==
    /\ data = Empty /\ keys = Empty
    /\ setData = {} /\ setKeys = Empty
    /\ answer = Was(Null)

Lookup(k) == IF k \in DOMAIN data THEN data[k] ELSE Null

Get(o) == answer' = Was(Lookup(hashKey(o))) /\ UNCHANGED <<data, keys, setData, setKeys>>

Put(o, v) ==
    LET key == hashKey(o) IN
    /\ answer' = Was(Lookup(key))
    /\ data' = With(data, key, v)
    /\ keys' = With(keys, key, o)
    /\ UNCHANGED <<setData, setKeys>>

\* A plausible bug: the entry's value goes, its key object stays.
RemoveKeepsKey(o) ==
    LET key == hashKey(o) IN
    /\ answer' = Was(Lookup(key))
    /\ data' = Without(data, key)
    /\ UNCHANGED <<keys, setData, setKeys>>

Remove(o) ==
    LET key == hashKey(o) IN
    /\ answer' = Was(Lookup(key))
    /\ data' = Without(data, key)
    /\ keys' = Without(keys, key)
    /\ UNCHANGED <<setData, setKeys>>

ContainsKey(o) ==
    /\ answer' = Told(hashKey(o) \in DOMAIN data)
    /\ UNCHANGED <<data, keys, setData, setKeys>>

Size == answer' = Counted(DOMAIN data) /\ UNCHANGED <<data, keys, setData, setKeys>>

IsEmpty == answer' = Told(DOMAIN data = {}) /\ UNCHANGED <<data, keys, setData, setKeys>>

Clear == data' = Empty /\ keys' = Empty /\ answer' = Was(Null) /\ UNCHANGED <<setData, setKeys>>

Add(o) ==
    LET key == hashKey(o) IN
    /\ answer' = Told(key \notin setData)
    /\ setData' = setData \cup {key}
    /\ setKeys' = With(setKeys, key, o)
    /\ UNCHANGED <<data, keys>>

Delete(o) ==
    LET key == hashKey(o) IN
    /\ answer' = Told(key \in setData)
    /\ setData' = setData \ {key}
    /\ setKeys' = Without(setKeys, key)
    /\ UNCHANGED <<data, keys>>

Contains(o) ==
    /\ answer' = Told(hashKey(o) \in setData)
    /\ UNCHANGED <<data, keys, setData, setKeys>>

Count == answer' = Counted(setData) /\ UNCHANGED <<data, keys, setData, setKeys>>

NoMember == answer' = Told(setData = {}) /\ UNCHANGED <<data, keys, setData, setKeys>>

MapNext ==
    \/ \E o \in Object : \/ Get(o) \/ ContainsKey(o) \/ Remove(o)
                         \/ Add(o) \/ Delete(o) \/ Contains(o)
                         \/ \E v \in Value : Put(o, v)
    \/ Clear \/ Size \/ IsEmpty \/ Count \/ NoMember

MapSpec == MapInit /\ [][MapNext]_mapVars

-----------------------------------------------------------------------------
\* The objects an object is equal to.
ClassOf(o) == {p \in Object : Equal(o, p)}
Key == {ClassOf(o) : o \in Object}

\* Equal objects have one key, and others two: what hashKey is for.  The code
\* keeps it for the keys of PlainObjects (NativeStateProofs) and not for all.
KeysRespectEquals == \A o, p \in Object : hashKey(o) = hashKey(p) <=> Equal(o, p)

\* The Go key of an equality class.
KeyOf(c) == hashKey(CHOOSE o \in c : TRUE)

\* The Java map and the Java set behind a Go map and the keys of one.
Members(s) == {c \in Key : KeyOf(c) \in s}
Entries(f) == [c \in Members(DOMAIN f) |-> f[KeyOf(c)]]

Abstract == INSTANCE JavaMap WITH entries <- Entries(data), members <- Members(setData)

\* The two Go maps of a HashMap have the same keys, and the object kept for a
\* key is one that was put under it (natHashMapPut, natHashMapRemove,
\* natHashMapClear); likewise for a HashSet.
BuffersAgree ==
    /\ DOMAIN keys = DOMAIN data /\ \A k \in DOMAIN keys : hashKey(keys[k]) = k
    /\ DOMAIN setKeys = setData /\ \A k \in setData : hashKey(setKeys[k]) = k

\* A HashMap is a map and a HashSet a set by equals: what is put under an object
\* is found, replaced, counted and removed under every equal one and under no
\* other.  True of keys that respect equals; two strings of unpaired surrogates
\* or two points of one abscissa break it (hashKey, natives_p7.go).
ImplementsJavaMap == Abstract!Spec
=============================================================================
