---- MODULE SharedCaches ----
(***************************************************************************)
(* What threads create lazily and share without owning a Java monitor: the *)
(* monitor and the identity hash in an object's header (kernel/object.go), *)
(* the Class mirrors, the interned strings and the small Integer boxes of  *)
(* the kernel (kernel.go, reflect.go), and the inline cache through which  *)
(* emitted code dispatches virtual calls (genrt.go).  A step is one atomic *)
(* access, or what is done while k.mu is held.                             *)
(***************************************************************************)
EXTENDS Naturals, FiniteSets

CONSTANTS
  Thread, NoThread,
  Nil,           \* a nil entry of the inline cache, and nothing to be busy with
  Monitors,      \* headers whose Monitor() is asked for
  Mirrors,       \* classes whose Class object is asked for
  Primitives,    \* keywords whose Class object is asked for
  Literals,      \* string contents that are interned
  SmallInts,     \* numbers within [-128, 127] that are boxed
  Hashed,        \* headers whose IdentityHash() is asked for
  HashNumbers,   \* how many values the stored hash has (2^32 in the code)
  Site, Class,   \* virtual call sites, and the classes of their receivers
  IcSlot,        \* Site -> the index icHash computes
  Method,        \* Site -> Class -> what ResolveMethod finds
  Calls          \* bound: the calls one thread makes

Thing == Monitors \cup Mirrors \cup Primitives \cup Literals \cup SmallInts \cup Hashed

None == 0         \* a nil object, and the hash of an object that has none yet

ASSUME SharedAssumption ==
  /\ NoThread \notin Thread
  /\ None \notin Thread
  /\ (Literals \cup SmallInts) \cap (Monitors \cup Mirrors \cup Primitives \cup Hashed) = {}
  /\ HashNumbers \in Nat \ {0}
  /\ \A s \in Site : \A d \in Class : Method[s][d] \in Nat

VARIABLES
  slot,      \* Thing -> the object stored for it, or its hash; None at first
  mu,        \* the holder of k.mu
  hashCtr,   \* the counter of identity hashes
  filled,    \* the boxes whose Fields were written, as <<number, object>>
  icTable,   \* index -> the immutable entry it points to, or Nil
  pc, at,    \* thread -> its position, and the thing or call it is busy with
  mine,      \* thread -> the object it allocated, or the hash it drew
  calls,     \* thread -> the calls it made
  answers,   \* history: Thing -> the answers its callers got
  dispatched \* history: the last virtual call that was answered

cache == <<slot, mu, hashCtr, filled, icTable>>
local == <<pc, at, mine, calls>>
history == <<answers, dispatched>>
vars == <<cache, local, history>>

Init == /\ slot = [i \in Thing |-> None]
        /\ mu = NoThread
        /\ hashCtr = 0
        /\ filled = {}
        /\ icTable = [n \in {IcSlot[s] : s \in Site} |-> Nil]
        /\ pc = [t \in Thread |-> "idle"]
        /\ at = [t \in Thread |-> Nil]
        /\ mine = [t \in Thread |-> None]
        /\ calls = [t \in Thread |-> 0]
        /\ answers = [i \in Thing |-> {}]
        /\ dispatched = Nil

Goto(t, p) == pc' = [pc EXCEPT ![t] = p]
Keep(t, v) == mine' = [mine EXCEPT ![t] = v]

\* The call of t on i returns v.
Answer(t, i, v) == /\ answers' = [answers EXCEPT ![i] = @ \cup {v}]
                   /\ Goto(t, "idle")
                   /\ Keep(t, None)
                   /\ at' = [at EXCEPT ![t] = Nil]

Begin(t) == /\ pc[t] = "idle"
            /\ calls[t] < Calls
            /\ calls' = [calls EXCEPT ![t] = @ + 1]

\* The call of t on i found nothing at first sight and goes on at p.
Enter(t, i, p) == /\ at' = [at EXCEPT ![t] = i]
                  /\ Goto(t, p)
                  /\ UNCHANGED answers

\* The object t allocates for a thing is named t: the thing has an object
\* before t's call returns, so that t allocates for it only once.
Allocate(t) == Keep(t, t)

----
\* Monitor(), ClassObjectOf and primitiveClass: load; when it is nil, build
\* the object before anything is published.
Look(t, i) ==
  /\ i \in Monitors \cup Mirrors \cup Primitives
  /\ Begin(t)
  /\ \/ /\ slot[i] # None
        /\ Answer(t, i, slot[i])
     \/ /\ slot[i] = None
        /\ Allocate(t)
        /\ Enter(t, i, "swap")
  /\ UNCHANGED <<slot, mu, hashCtr, filled, icTable, dispatched>>

\* Mutant: a store in place of the compare-and-swap.
SwapBlindly(t) ==
  /\ pc[t] = "swap"
  /\ at[t] \in Monitors \cup Mirrors
  /\ slot' = [slot EXCEPT ![at[t]] = mine[t]]
  /\ Answer(t, at[t], mine[t])
  /\ UNCHANGED <<mu, hashCtr, filled, icTable, calls, dispatched>>

\* CompareAndSwap(nil, mine): the winner returns its own object.
Swap(t) ==
  /\ pc[t] = "swap"
  /\ at[t] \in Monitors \cup Mirrors
  /\ \/ /\ slot[at[t]] = None
        /\ slot' = [slot EXCEPT ![at[t]] = mine[t]]
        /\ Answer(t, at[t], mine[t])
     \/ /\ slot[at[t]] # None
        /\ Goto(t, "reload")
        /\ UNCHANGED <<slot, at, mine, answers>>
  /\ UNCHANGED <<mu, hashCtr, filled, icTable, calls, dispatched>>

\* The loser drops its object and loads the winner's.
Reload(t) ==
  /\ pc[t] = "reload"
  /\ Answer(t, at[t], slot[at[t]])
  /\ UNCHANGED <<cache, calls, dispatched>>

\* sync.Map.LoadOrStore of a primitive's mirror: one atomic step.
LoadOrStore(t) ==
  /\ pc[t] = "swap"
  /\ at[t] \in Primitives
  /\ LET actual == IF slot[at[t]] = None THEN mine[t] ELSE slot[at[t]]
     IN slot' = [slot EXCEPT ![at[t]] = actual] /\ Answer(t, at[t], actual)
  /\ UNCHANGED <<mu, hashCtr, filled, icTable, calls, dispatched>>

----
\* IdentityHash: a loop of load, draw and compare-and-swap from 0.
LookHash(t, i) ==
  /\ i \in Hashed
  /\ Begin(t)
  /\ \/ slot[i] # None /\ Answer(t, i, slot[i])
     \/ slot[i] = None /\ Enter(t, i, "draw") /\ UNCHANGED mine
  /\ UNCHANGED <<cache, dispatched>>

\* uint32(hashCtr.Add(1)): the counter has 64 bits, the hash keeps the low 32.
Draw(t) ==
  /\ pc[t] = "draw"
  /\ hashCtr' = hashCtr + 1
  /\ Keep(t, (hashCtr + 1) % HashNumbers)
  /\ Goto(t, "swapHash")
  /\ UNCHANGED <<slot, mu, filled, icTable, at, calls, history>>

SwapHash(t) ==
  /\ pc[t] = "swapHash"
  /\ \/ /\ slot[at[t]] = None
        /\ slot' = [slot EXCEPT ![at[t]] = mine[t]]
        /\ Answer(t, at[t], mine[t])
     \/ /\ slot[at[t]] # None
        /\ Goto(t, "lookHash")
        /\ UNCHANGED <<slot, at, mine, answers>>
  /\ UNCHANGED <<mu, hashCtr, filled, icTable, calls, dispatched>>

\* The next turn of the loop: a hash is never reset, so it ends here.
LookHashAgain(t) ==
  /\ pc[t] = "lookHash"
  /\ Answer(t, at[t], slot[at[t]])
  /\ UNCHANGED <<cache, calls, dispatched>>

----
\* Intern: the pool is read and written under k.mu only.
AskString(t, i) ==
  /\ i \in Literals
  /\ Begin(t)
  /\ Enter(t, i, "lock")
  /\ UNCHANGED <<cache, mine, dispatched>>

\* IntegerOf: the first look at the cache is not synchronized.
LookBox(t, i) ==
  /\ i \in SmallInts
  /\ Begin(t)
  /\ \/ slot[i] # None /\ Answer(t, i, slot[i])
     \/ slot[i] = None /\ Enter(t, i, "lock") /\ UNCHANGED mine
  /\ UNCHANGED <<cache, dispatched>>

\* Mutant: the box is made without a second look under the mutex.
LockAndMake(t) ==
  /\ pc[t] = "lock"
  /\ mu = NoThread
  /\ mu' = t
  /\ Allocate(t)
  /\ Goto(t, IF at[t] \in SmallInts THEN "fill" ELSE "publish")
  /\ UNCHANGED <<slot, hashCtr, filled, icTable, at, calls, history>>

\* k.mu.Lock(), and the look that counts; without an object one is allocated.
Lock(t) ==
  /\ pc[t] = "lock"
  /\ mu = NoThread
  /\ mu' = t
  /\ \/ /\ slot[at[t]] # None
        /\ Keep(t, slot[at[t]])
        /\ Goto(t, "unlock")
     \/ /\ slot[at[t]] = None
        /\ Allocate(t)
        /\ Goto(t, IF at[t] \in SmallInts THEN "fill" ELSE "publish")
  /\ UNCHANGED <<slot, hashCtr, filled, icTable, at, calls, history>>

\* Mutant: the box enters the cache before its number is written.
FillLate(t) ==
  /\ pc[t] = "fill"
  /\ slot' = [slot EXCEPT ![at[t]] = mine[t]]
  /\ Goto(t, "publish")
  /\ UNCHANGED <<mu, hashCtr, filled, icTable, at, mine, calls, history>>

\* newBoxedIntLocked writes the number into the new box ...
Fill(t) ==
  /\ pc[t] = "fill"
  /\ filled' = filled \cup {<<at[t], mine[t]>>}
  /\ Goto(t, "publish")
  /\ UNCHANGED <<slot, mu, hashCtr, icTable, at, mine, calls, history>>

\* ... and the caller stores it, where the unsynchronized look finds it.
Publish(t) ==
  /\ pc[t] = "publish"
  /\ slot' = [slot EXCEPT ![at[t]] = mine[t]]
  /\ Goto(t, "unlock")
  /\ UNCHANGED <<mu, hashCtr, filled, icTable, at, mine, calls, history>>

Unlock(t) ==
  /\ pc[t] = "unlock"
  /\ mu' = NoThread
  /\ Answer(t, at[t], mine[t])
  /\ UNCHANGED <<slot, hashCtr, filled, icTable, calls, dispatched>>

----
\* Mutant: the receiver's class is left out of the comparison.
HitBySite(e, s, d) == e # Nil /\ e.site = s

\* The test methodForDynCachedSlot makes of the entry it loaded.
Hit(e, s, d) == e # Nil /\ e.dyn = d /\ e.site = s

Dispatched(t, s, d, m) ==
  /\ dispatched' = [site |-> s, dyn |-> d, m |-> m]
  /\ Goto(t, "idle")

\* A virtual call at s on a receiver of class d loads the entry at the site's
\* index; call sites share an index when their hashes collide.
Dispatch(t, s, d) ==
  /\ Begin(t)
  /\ LET e == icTable[IcSlot[s]]
     IN \/ Hit(e, s, d) /\ Dispatched(t, s, d, e.m) /\ UNCHANGED at
        \/ /\ ~Hit(e, s, d)
           /\ at' = [at EXCEPT ![t] = [site |-> s, dyn |-> d]]
           /\ Goto(t, "resolve")
           /\ UNCHANGED dispatched
  /\ UNCHANGED <<cache, mine, answers>>

\* A miss resolves the method and stores a new entry over the old one.
Resolve(t) ==
  /\ pc[t] = "resolve"
  /\ LET s == at[t].site
         d == at[t].dyn
         m == Method[s][d]
     IN /\ icTable' = [icTable EXCEPT ![IcSlot[s]] = [site |-> s, dyn |-> d, m |-> m]]
        /\ Dispatched(t, s, d, m)
  /\ at' = [at EXCEPT ![t] = Nil]
  /\ UNCHANGED <<slot, mu, hashCtr, filled, mine, calls, answers>>

----
Rest == (\A t \in Thread : pc[t] = "idle" /\ calls[t] = Calls) /\ UNCHANGED vars

Next == \/ \E t \in Thread :
             \/ \E i \in Thing : \/ Look(t, i)
                                 \/ LookHash(t, i)
                                 \/ AskString(t, i)
                                 \/ LookBox(t, i)
             \/ Swap(t) \/ Reload(t) \/ LoadOrStore(t)
             \/ Draw(t) \/ SwapHash(t) \/ LookHashAgain(t)
             \/ Lock(t) \/ Fill(t) \/ Publish(t) \/ Unlock(t)
             \/ \E s \in Site, d \in Class : Dispatch(t, s, d)
             \/ Resolve(t)
        \/ Rest

Spec == Init /\ [][Next]_vars

----
\* Every caller that asks for one thing gets the same answer, whoever raced to
\* create it: two monitors for one object would exclude nobody, and two
\* mirrors or boxes would break ==; and a box that was handed out holds its
\* number, although the first look at the cache takes no lock.
OneIdentity == /\ \A i \in Thing : Cardinality(answers[i]) <= 1
               /\ \A i \in SmallInts : {i} \X answers[i] \subseteq filled

\* A virtual call runs the method that resolution finds for the receiver's own
\* class, whatever other threads and colliding call sites store in the slot
\* between the load and the call.
DispatchExact ==
  dispatched # Nil => dispatched.m = Method[dispatched.site][dispatched.dyn]
====
