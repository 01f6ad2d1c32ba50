---- MODULE MemberLookup ----
(***************************************************************************)
(* How a name finds its member in a hierarchy of classes and interfaces:   *)
(* resolution (kernel.go), the choice of the method a call runs (interp.go *)
(* and genrt.go), subtype tests, and Class.getMethod with Method.invoke    *)
(* (reflect.go), beside what the JVM specification prescribes.  The        *)
(* hierarchy grows by one loaded type at a time, and one name with its     *)
(* descriptor is followed through it.                                      *)
(***************************************************************************)
EXTENDS Naturals, Sequences, FiniteSets

CONSTANTS
  IfaceCount, ClassCount,  \* bound: the types that are loaded
  MaxIfaces,               \* bound: the direct superinterfaces of one type
  Avoided                  \* the known disagreements the property keeps clear of

Disagreements == {"interface of a superclass", "several interfaces", "private", "reflection"}

ASSUME LookupAssumption == /\ IfaceCount \in Nat /\ ClassCount \in Nat \ {0}
                           /\ Avoided \subseteq Disagreements

Iface == 1..IfaceCount
Class == IfaceCount + 1..IfaceCount + ClassCount
Type == Iface \cup Class
None == 0

\* Each class extends the one before it; the first extends Object, which does
\* not have the member.
Super(t) == IF t \in Class /\ t - 1 \in Class THEN t - 1 ELSE None

VARIABLES
  loaded,    \* how many types are loaded: types 1..loaded
  ifaces,    \* Class.Ifaces, in the order of the class file
  declares   \* what the type declares under the name

lookupVars == <<loaded, ifaces, declares>>

LookupInit == /\ loaded = 0
              /\ ifaces = [t \in Type |-> <<>>]
              /\ declares = [t \in Type |-> "nothing"]

IfaceLists(t) ==
  UNION {{l \in [1..n -> Iface \cap 1..t - 1] : \A i, j \in 1..n : l[i] = l[j] => i = j} :
         n \in 0..MaxIfaces}

\* loadClass: the superclass and the interfaces come first, then the members.
Load == /\ loaded < IfaceCount + ClassCount
        /\ loaded' = loaded + 1
        /\ \E l \in IfaceLists(loaded') : ifaces' = [ifaces EXCEPT ![loaded'] = l]
        /\ \E d \in {"nothing", "abstract", "public"}
                    \cup (IF loaded' \in Class THEN {"private"} ELSE {}) :
             declares' = [declares EXCEPT ![loaded'] = d]

LookupNext == Load

LookupSpec == LookupInit /\ [][LookupNext]_lookupVars

----
Has(t) == declares[t] # "nothing"

\* What f finds for the first entry of the list it finds anything for.
FirstFound(list, f) ==
  LET hits == {n \in DOMAIN list : f[list[n]] # None}
  IN IF hits = {} THEN None ELSE f[list[CHOOSE n \in hits : \A m \in hits : n <= m]]

\* The superclasses of t, t included: the loops over x.Super.
Chain(t) == IF t \in Class THEN {c \in Class : c <= t} ELSE {t}

\* The nearest of t and its superclasses that is in S.
NearestIn(S, t) ==
  LET near == Chain(t) \cap S
  IN IF near = {} THEN None ELSE CHOOSE c \in near : \A x \in near : x <= c

\* Mutant: an interface's own superinterfaces are not searched.
DirectIfaces(list) == FirstFound(list, [i \in Iface |-> IF Has(i) THEN i ELSE None])

\* walkIfaces: depth first in the order of the lists.  The set of interfaces
\* already seen only prunes: a second visit finds nothing again.
WalkIfaces(list) ==
  LET found[i \in Iface] == IF Has(i) THEN i ELSE FirstFound(ifaces[i], found)
  IN FirstFound(list, found)

\* ResolveMethod and ResolveField: t and its superclasses, then t's interfaces.
Resolve(t) ==
  LET c == NearestIn({x \in Type : Has(x)}, t)
  IN IF c # None THEN c ELSE WalkIfaces(ifaces[t])

\* invokevirtual and invokeinterface resolve in the class of the receiver.
VirtualTarget(d) == Resolve(d)

\* ifaceExtends and the visit of implementsIface: i is target or extends it.
IfaceIsa(i, target) ==
  LET isa[j \in Iface] == \/ j = target
                          \/ \E n \in DOMAIN ifaces[j] : isa[ifaces[j][n]]
  IN isa[i]

ImplementsIface(t, target) ==
  \E x \in Chain(t) : \E n \in DOMAIN ifaces[x] : IfaceIsa(ifaces[x][n], target)

ClassIsa(t, target) == target \in Chain(t) \/ ImplementsIface(t, target)

\* Class.getMethod: the public methods of t and its superclasses, no interfaces.
GetMethod(t) == NearestIn({x \in Type : declares[x] \in {"public", "abstract"}}, t)

\* Method.invoke calls the method it holds, whatever the class of the receiver.
InvokeTarget(m, d) == m

----
(* The JVM specification, sections 5.4.3 and 5.4.6. *)

Supertypes(t) ==
  LET up[s \in Type] == {s} \cup (IF Super(s) = None THEN {} ELSE up[Super(s)])
                        \cup UNION {up[ifaces[s][n]] : n \in DOMAIN ifaces[s]}
  IN up[t]

\* The declarations among S that no other of them is more specific than.
MostSpecific(S) == {s \in S : \A r \in S : s \in Supertypes(r) => r = s}
IfacesWith(t) == {i \in Supertypes(t) \cap Iface : Has(i)}

\* The method of class d, or of interface d itself, that a call of m selects;
\* a private method is never overridden and never overrides.
Selected(m, d) ==
  LET c == NearestIn({x \in Class : declares[x] \in {"public", "abstract"}}, d)
      defaults == {i \in MostSpecific(IfacesWith(d)) : declares[i] = "public"}
  IN IF declares[m] = "private" THEN m
     ELSE IF c # None THEN c
     ELSE IF Cardinality(defaults) = 1 THEN CHOOSE i \in defaults : TRUE
     ELSE None

\* What a call on t resolves to: a class's method before any interface's.
Resolved(t) ==
  LET c == NearestIn({x \in Class : Has(x)}, t)
      all == MostSpecific(IfacesWith(t))
      defaults == {i \in all : declares[i] = "public"}
  IN IF c # None THEN c
     ELSE IF all = {} THEN None
     ELSE CHOOSE i \in all : Cardinality(defaults) = 1 => i \in defaults

----
\* An abstract method and no method at all both end the call in an error.
Executed(m) == IF m # None /\ declares[m] # "abstract" THEN m ELSE None

\* The entry n of x's interface list leads to a declaration, and a later entry m
\* to another one that the first does not override.
Hidden(x, n, m) ==
  \E i \in IfacesWith(ifaces[x][n]) : \E j \in IfacesWith(ifaces[x][m]) :
    i # j /\ j \notin Supertypes(i)

\* Where the code and the specification part, as a condition on the hierarchy.
Disagree(reason, d) ==
  CASE reason = "interface of a superclass" ->
         /\ NearestIn({x \in Class : Has(x)}, d) = None
         /\ \E c \in Chain(d) \ {d} : IfacesWith(c) # {}
    [] reason = "several interfaces" ->
         \E x \in Supertypes(d) : \E m \in DOMAIN ifaces[x] : \E n \in 1..m - 1 : Hidden(x, n, m)
    [] reason = "private" -> \E c \in Chain(d) : declares[c] = "private"
    [] reason = "reflection" ->
         \E t \in Chain(d) : GetMethod(t) # None /\ GetMethod(d) # GetMethod(t)

Clear(d) == \A reason \in Avoided : ~Disagree(reason, d)

\* A virtual, interface or super call on a receiver of type d runs the method
\* the specification selects, whatever supertype of d the call names.
CallsMatch(d) ==
  \A t \in Supertypes(d) : (Resolved(t) # None /\ (d \in Iface => t = d))
      => Executed(VirtualTarget(d)) = Executed(Selected(Resolved(t), d))

\* A method found by getMethod runs, invoked on a d, what a call would run.
ReflectedCallsMatch(d) ==
  \A t \in Chain(d) : LET m == GetMethod(t) IN
    m # None => Executed(InvokeTarget(m, d)) = Executed(Selected(m, d))

\* A field is found where it is declared, when one declaration is in sight.
FieldsMatch(t) == LET inSight == MostSpecific({s \in Supertypes(t) : Has(s)})
                  IN Cardinality(inSight) = 1 => Resolve(t) \in inSight

\* The code's comments claim sections 5.4.3.2 to 5.4.3.4 of the specification.
\* In every hierarchy, as its last type is loaded: calls run the right method,
\* fields are found, and a subtype test is reachability over superclasses and
\* superinterfaces.  What Avoided names is left out.
FollowsJVMS ==
  LET d == loaded
  IN d # None =>
       /\ Clear(d) => CallsMatch(d) /\ ReflectedCallsMatch(d) /\ FieldsMatch(d)
       /\ \A s \in Type : ClassIsa(d, s) <=> s \in Supertypes(d)
====
