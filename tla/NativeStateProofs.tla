---- MODULE NativeStateProofs ----
(***************************************************************************)
(* Theorems about the state the natives share: first SharedCaches, for any *)
(* threads that race for what is created lazily; then HashMaps, which      *)
(* implements JavaMap for every set of objects whose Go keys respect       *)
(* equals.                                                                 *)
(***************************************************************************)
EXTENDS SharedCaches, HashMaps, FiniteSetTheorems, FunctionTheorems, TLAPS

----
(***************************************************************************)
(* SharedCaches: what threads create lazily and share is one thing for all *)
(* of them, and an inline cache never dispatches to a method of another    *)
(* class.                                                                  *)
(***************************************************************************)

----
(* The inline cache.                                                       *)

\* An entry never changes and holds what resolution found.
EntriesExact ==
  \A n \in DOMAIN icTable :
    icTable[n] # Nil => icTable[n].m = Method[icTable[n].site][icTable[n].dyn]

LEMMA StoreKeepsEntries ==
  ASSUME EntriesExact, NEW n, NEW s, NEW d,
         icTable' = [icTable EXCEPT ![n] = [site |-> s, dyn |-> d, m |-> Method[s][d]]]
  PROVE  EntriesExact'
BY DEF EntriesExact

\* Whatever calls race and whatever sites collide, a virtual call runs the
\* method of its receiver's class (methodForDynCachedSlot).
THEOREM DispatchCorrect == Spec => []DispatchExact
<1> DEFINE I == /\ EntriesExact
                /\ DOMAIN icTable = {IcSlot[s] : s \in Site}
                /\ DispatchExact
<1>1. Init => I
  BY DEF Init, EntriesExact, DispatchExact
<1>2. I /\ [Next]_vars => I'
  <2> SUFFICES ASSUME I, [Next]_vars PROVE I'
    OBVIOUS
  <2>1. CASE UNCHANGED <<icTable, dispatched>>
    BY <2>1 DEF EntriesExact, DispatchExact
  <2>2. ASSUME NEW t \in Thread, NEW s \in Site, NEW d \in Class, Dispatch(t, s, d)
        PROVE  I'
    <3>1. icTable' = icTable
      BY <2>2 DEF Dispatch, cache
    <3>2. IcSlot[s] \in DOMAIN icTable
      OBVIOUS
    <3>3. dispatched' = dispatched
          \/ /\ Hit(icTable[IcSlot[s]], s, d)
             /\ dispatched' = [site |-> s, dyn |-> d, m |-> icTable[IcSlot[s]].m]
      BY <2>2 DEF Dispatch, Dispatched
    <3> QED BY <3>1, <3>2, <3>3 DEF EntriesExact, DispatchExact, Hit
  <2>3. ASSUME NEW t \in Thread, Resolve(t)
        PROVE  I'
    <3>1. PICK s, d : /\ icTable' = [icTable EXCEPT ![IcSlot[s]] =
                                       [site |-> s, dyn |-> d, m |-> Method[s][d]]]
                      /\ dispatched' = [site |-> s, dyn |-> d, m |-> Method[s][d]]
      BY <2>3 DEF Resolve, Dispatched
    <3>2. EntriesExact'
      BY <3>1, StoreKeepsEntries
    <3>3. DOMAIN icTable' = DOMAIN icTable
      BY <3>1
    <3>4. DispatchExact'
      BY <3>1 DEF DispatchExact
    <3> QED BY <3>2, <3>3, <3>4
  <2> QED
    BY <2>1, <2>2, <2>3
    DEF Next, vars, cache, history, local, Look, LookHash, AskString, LookBox, Swap,
        Reload, LoadOrStore, Draw, SwapHash, LookHashAgain, Lock, Fill, Publish,
        Unlock, Rest
<1> QED BY <1>1, <1>2, PTL DEF Spec

----
(* One identity.                                                           *)

Built == Monitors \cup Mirrors \cup Primitives
Pooled == Literals \cup SmallInts
Stored == Thread \cup Nat
Positions == {"idle", "swap", "reload", "draw", "swapHash", "lookHash", "lock", "fill",
              "publish", "unlock", "resolve"}

TypeOK ==
  /\ slot \in [Thing -> Stored]
  /\ mu \in Thread \cup {NoThread}
  /\ hashCtr \in Nat
  /\ pc \in [Thread -> Positions]
  /\ at \in [Thread -> Thing \cup {Nil} \cup [site : Site, dyn : Class]]
  /\ mine \in [Thread -> Stored]
  /\ answers \in [Thing -> SUBSET Stored]

\* A thread is busy with a thing that its position is about.
Busy ==
  \A t \in Thread :
    /\ pc[t] \in {"swap", "reload"} => at[t] \in Built
    /\ pc[t] \in {"draw", "swapHash", "lookHash"} => at[t] \in Hashed
    /\ pc[t] \in {"lock", "fill", "publish", "unlock"} => at[t] \in Pooled

\* k.mu is held by whoever is between Lock and Unlock.
Locked == \A t \in Thread : pc[t] \in {"fill", "publish", "unlock"} => mu = t

\* What a thread knows of the slot it is busy with, and that what it would
\* store there is something.
Progress ==
  \A t \in Thread :
    /\ pc[t] \in {"reload", "lookHash"} => slot[at[t]] # None
    /\ pc[t] \in {"swap", "swapHash", "fill", "publish", "unlock"} => mine[t] # None
    /\ pc[t] \in {"fill", "publish"} => slot[at[t]] = None
    /\ pc[t] = "unlock" => slot[at[t]] = mine[t]

\* Every answer is what the slot holds.
Settled == \A i \in Thing : \A v \in answers[i] : v = slot[i] /\ v # None

\* A box is filled before it can be found.
Filled ==
  /\ \A i \in SmallInts : slot[i] # None => <<i, slot[i]>> \in filled
  /\ \A t \in Thread : pc[t] = "publish" /\ at[t] \in SmallInts => <<at[t], mine[t]>> \in filled

IInv == TypeOK /\ Busy /\ Locked /\ Progress /\ Settled /\ Filled

LEMMA BuiltOrPooled ==
  /\ Built \cap Pooled = {} /\ Hashed \cap Pooled = {}
  /\ Built \subseteq Thing /\ Pooled \subseteq Thing /\ Hashed \subseteq Thing
  /\ SmallInts \subseteq Pooled
BY SharedAssumption DEF Built, Pooled, Thing

LEMMA InitIInv == Init => IInv
BY BuiltOrPooled DEF Init, IInv, TypeOK, Busy, Locked, Progress, Settled, Filled, Stored, Positions, None

\* A call that returns what the slot of its thing holds, the slot being set,
\* disturbs nothing.
LEMMA AnswerKeeps ==
  ASSUME IInv, NEW t \in Thread, NEW i \in Thing, slot[i] # None,
         Answer(t, i, slot[i]), UNCHANGED <<slot, hashCtr, filled>>,
         mu' = mu \/ (pc[t] = "unlock" /\ mu' = NoThread)
  PROVE  IInv'
<1> USE DEF IInv
<1>1. /\ pc' = [pc EXCEPT ![t] = "idle"]
      /\ mine' = [mine EXCEPT ![t] = None]
      /\ at' = [at EXCEPT ![t] = Nil]
      /\ answers' = [answers EXCEPT ![i] = @ \cup {slot[i]}]
  BY DEF Answer, Goto, Keep
<1>2. TypeOK'
  BY <1>1, Zenon DEF TypeOK, Positions, Stored, None
<1>3. Busy'
  BY <1>1 DEF TypeOK, Busy
<1>4. Locked'
  BY <1>1 DEF TypeOK, Locked
<1>5. Progress'
  BY <1>1 DEF TypeOK, Progress
<1>6. Settled'
  BY <1>1 DEF TypeOK, Settled
<1>7. Filled'
  BY <1>1 DEF TypeOK, Filled
<1> QED BY <1>2, <1>3, <1>4, <1>5, <1>6, <1>7

\* A thread that moves to p without touching what is shared, answers or mu.
LEMMA MoveKeeps ==
  ASSUME IInv, NEW t \in Thread, NEW i \in Thing, NEW p \in Positions, NEW v \in Stored,
         pc' = [pc EXCEPT ![t] = p], at' = [at EXCEPT ![t] = i],
         mine' = [mine EXCEPT ![t] = v],
         UNCHANGED <<slot, mu, filled, answers>>, hashCtr' \in Nat,
         \/ p = "swap" /\ i \in Built /\ v # None
         \/ p = "reload" /\ i \in Built /\ slot[i] # None
         \/ p = "draw" /\ i \in Hashed
         \/ p = "swapHash" /\ i \in Hashed /\ v # None
         \/ p = "lookHash" /\ i \in Hashed /\ slot[i] # None
         \/ p = "lock" /\ i \in Pooled
  PROVE  IInv'
<1> USE DEF IInv
<1>2. TypeOK'
  BY DEF TypeOK
<1>3. Busy'
  BY DEF TypeOK, Busy
<1>4. Locked'
  BY DEF TypeOK, Locked
<1>5. Progress'
  BY DEF TypeOK, Progress
<1>6. Settled'
  BY DEF TypeOK, Settled
<1>7. Filled'
  BY DEF TypeOK, Filled
<1> QED BY <1>2, <1>3, <1>4, <1>5, <1>6, <1>7

\* The compare-and-swap that succeeds, of a thing no mutex guards: the object
\* stored is the first, and it is the answer.
LEMMA StoreKeeps ==
  ASSUME IInv, NEW t \in Thread, NEW i \in Built \cup Hashed,
         slot[i] = None, mine[t] # None,
         slot' = [slot EXCEPT ![i] = mine[t]], Answer(t, i, mine[t]),
         UNCHANGED <<mu, hashCtr, filled>>
  PROVE  IInv'
<1> USE DEF IInv
<1>1. /\ pc' = [pc EXCEPT ![t] = "idle"]
      /\ mine' = [mine EXCEPT ![t] = None]
      /\ at' = [at EXCEPT ![t] = Nil]
      /\ answers' = [answers EXCEPT ![i] = @ \cup {mine[t]}]
  BY DEF Answer, Goto, Keep
<1>a. i \in Thing /\ i \notin Pooled
  BY BuiltOrPooled
<1>b. answers[i] = {}
  BY <1>a DEF Settled, TypeOK
<1>2. TypeOK'
  BY <1>1, <1>a DEF TypeOK, Positions, Stored, None
<1>3. Busy'
  BY <1>1 DEF TypeOK, Busy
<1>4. Locked'
  BY <1>1 DEF TypeOK, Locked
<1>5. Progress'
  BY <1>1, <1>a DEF TypeOK, Progress, Busy
<1>6. Settled'
  BY <1>1, <1>a, <1>b DEF TypeOK, Settled
<1>7. Filled'
  <2>1. \A j \in SmallInts : slot'[j] = slot[j]
    BY <1>a, BuiltOrPooled DEF TypeOK
  <2> QED BY <1>1, <2>1 DEF TypeOK, Filled
<1> QED BY <1>2, <1>3, <1>4, <1>5, <1>6, <1>7

\* Every step keeps the invariant, until the counter of hashes wraps around.
LEMMA NextKeeps == ASSUME IInv, [Next]_vars, hashCtr' < HashNumbers PROVE IInv'
<1> USE DEF IInv
<1>1. CASE UNCHANGED vars
  BY <1>1 DEF vars, cache, local, history, TypeOK, Busy, Locked, Progress, Settled, Filled
<1>2. ASSUME NEW t \in Thread, NEW i \in Thing, Look(t, i)
      PROVE  IInv'
  <2>1. i \in Built
    BY <1>2 DEF Look, Built
  <2>2. CASE slot[i] # None
    BY <1>2, <2>2, AnswerKeeps DEF Look
  <2>3. CASE slot[i] = None
    <3>1. /\ pc' = [pc EXCEPT ![t] = "swap"]
          /\ at' = [at EXCEPT ![t] = i]
          /\ mine' = [mine EXCEPT ![t] = t]
          /\ UNCHANGED <<slot, mu, filled, answers, hashCtr>>
      BY <1>2, <2>3 DEF Look, Allocate, Keep, Enter, Goto
    <3>2. t # None /\ t \in Stored /\ "swap" \in Positions /\ hashCtr' \in Nat
      BY <3>1, SharedAssumption DEF Stored, Positions, TypeOK
    <3> QED BY <2>1, <3>1, <3>2, MoveKeeps
  <2> QED BY <2>2, <2>3
<1>3. ASSUME NEW t \in Thread, NEW i \in Thing, LookHash(t, i)
      PROVE  IInv'
  <2>1. i \in Hashed
    BY <1>3 DEF LookHash
  <2>2. CASE slot[i] # None
    BY <1>3, <2>2, AnswerKeeps DEF LookHash, cache
  <2>3. CASE slot[i] = None
    <3>1. /\ pc' = [pc EXCEPT ![t] = "draw"]
          /\ at' = [at EXCEPT ![t] = i]
          /\ mine' = [mine EXCEPT ![t] = mine[t]]
          /\ UNCHANGED <<slot, mu, filled, answers, hashCtr>>
      BY <1>3, <2>3 DEF LookHash, Enter, Goto, cache, TypeOK
    <3>2. mine[t] \in Stored /\ "draw" \in Positions /\ hashCtr' \in Nat
      BY <3>1 DEF Positions, TypeOK
    <3> QED BY <2>1, <3>1, <3>2, MoveKeeps
  <2> QED BY <2>2, <2>3
<1>4. ASSUME NEW t \in Thread, NEW i \in Thing, AskString(t, i) \/ LookBox(t, i)
      PROVE  IInv'
  <2>1. i \in Pooled
    BY <1>4 DEF AskString, LookBox, Pooled
  <2>2. CASE LookBox(t, i) /\ slot[i] # None
    BY <2>2, AnswerKeeps DEF LookBox, cache
  <2>3. CASE AskString(t, i) \/ slot[i] = None
    <3>1. /\ pc' = [pc EXCEPT ![t] = "lock"]
          /\ at' = [at EXCEPT ![t] = i]
          /\ mine' = [mine EXCEPT ![t] = mine[t]]
          /\ UNCHANGED <<slot, mu, filled, answers, hashCtr>>
      BY <1>4, <2>3 DEF AskString, LookBox, Enter, Goto, cache, TypeOK
    <3>2. mine[t] \in Stored /\ "lock" \in Positions /\ hashCtr' \in Nat
      BY <3>1 DEF Positions, TypeOK
    <3> QED BY <2>1, <3>1, <3>2, MoveKeeps
  <2> QED BY <1>4, <2>2, <2>3
<1>5. ASSUME NEW t \in Thread, Swap(t) \/ SwapHash(t)
      PROVE  IInv'
  <2>1. /\ at[t] \in Built \cup Hashed /\ at[t] \in Thing /\ mine[t] # None
        /\ Swap(t) => at[t] \in Built
        /\ SwapHash(t) => at[t] \in Hashed
    BY <1>5, BuiltOrPooled DEF Swap, SwapHash, Busy, Progress
  <2>2. CASE slot[at[t]] = None
    BY <1>5, <2>1, <2>2, StoreKeeps DEF Swap, SwapHash
  <2>3. CASE slot[at[t]] # None
    <3>1. PICK p \in {"reload", "lookHash"} :
            /\ pc' = [pc EXCEPT ![t] = p]
            /\ p = "reload" => at[t] \in Built
            /\ p = "lookHash" => at[t] \in Hashed
      BY <1>5, <2>1, <2>3 DEF Swap, SwapHash, Goto
    <3>2. /\ at' = [at EXCEPT ![t] = at[t]]
          /\ mine' = [mine EXCEPT ![t] = mine[t]]
          /\ UNCHANGED <<slot, mu, filled, answers, hashCtr>>
      BY <1>5, <2>3 DEF Swap, SwapHash, TypeOK
    <3>3. mine[t] \in Stored /\ p \in Positions /\ hashCtr' \in Nat
      BY <3>2 DEF Positions, TypeOK
    <3> QED BY <2>1, <2>3, <3>1, <3>2, <3>3, MoveKeeps
  <2> QED BY <2>2, <2>3
<1>6. ASSUME NEW t \in Thread, Reload(t) \/ LookHashAgain(t)
      PROVE  IInv'
  <2>1. at[t] \in Thing /\ slot[at[t]] # None
    BY <1>6, BuiltOrPooled DEF Reload, LookHashAgain, Busy, Progress
  <2> QED BY <1>6, <2>1, AnswerKeeps DEF Reload, LookHashAgain, cache
<1>7. ASSUME NEW t \in Thread, LoadOrStore(t)
      PROVE  IInv'
  <2>1. /\ at[t] \in Built \cup Hashed /\ at[t] \in Thing /\ mine[t] # None
    BY <1>7, BuiltOrPooled DEF LoadOrStore, Busy, Progress
  <2>2. CASE slot[at[t]] = None
    BY <1>7, <2>1, <2>2, StoreKeeps DEF LoadOrStore
  <2>3. CASE slot[at[t]] # None
    <3>1. slot' = slot
      BY <1>7, <2>3 DEF LoadOrStore, TypeOK
    <3> QED BY <1>7, <2>1, <2>3, <3>1, AnswerKeeps DEF LoadOrStore
  <2> QED BY <2>2, <2>3
<1>8. ASSUME NEW t \in Thread, Draw(t)
      PROVE  IInv'
  <2>1. (hashCtr + 1) % HashNumbers = hashCtr + 1
    BY <1>8, SharedAssumption DEF Draw, TypeOK
  <2>2. at[t] \in Hashed /\ at[t] \in Thing
    BY <1>8, BuiltOrPooled DEF Draw, Busy
  <2>3. /\ pc' = [pc EXCEPT ![t] = "swapHash"]
        /\ at' = [at EXCEPT ![t] = at[t]]
        /\ mine' = [mine EXCEPT ![t] = hashCtr + 1]
        /\ UNCHANGED <<slot, mu, filled, answers>>
        /\ hashCtr' = hashCtr + 1
    BY <1>8, <2>1 DEF Draw, Goto, Keep, history, TypeOK
  <2>4. hashCtr + 1 \in Stored /\ hashCtr + 1 # None /\ hashCtr' \in Nat
        /\ "swapHash" \in Positions
    BY <2>3 DEF TypeOK, Stored, None, Positions
  <2> QED BY <2>2, <2>3, <2>4, MoveKeeps
<1>9. ASSUME NEW t \in Thread, Lock(t)
      PROVE  IInv'
  <2>1. at[t] \in Pooled /\ at[t] \in Thing
    BY <1>9, BuiltOrPooled DEF Lock, Busy
  <2>2. PICK p \in {"unlock", "fill", "publish"}, v \in Stored :
          /\ pc' = [pc EXCEPT ![t] = p]
          /\ mine' = [mine EXCEPT ![t] = v]
          /\ v # None
          /\ p = "unlock" => slot[at[t]] = v
          /\ p # "unlock" => slot[at[t]] = None
          /\ p = "publish" => at[t] \notin SmallInts
    <3>1. CASE slot[at[t]] # None
      <4>1. slot[at[t]] \in Stored
        BY <2>1 DEF TypeOK
      <4> QED BY <1>9, <3>1, <4>1 DEF Lock, Goto, Keep
    <3>2. CASE slot[at[t]] = None
      <4>1. t \in Stored /\ t # None
        BY SharedAssumption DEF Stored
      <4> QED BY <1>9, <3>2, <4>1 DEF Lock, Goto, Keep, Allocate
    <3> QED BY <3>1, <3>2
  <2>3. mu = NoThread /\ mu' = t /\ UNCHANGED <<slot, hashCtr, filled, at, answers>>
    BY <1>9 DEF Lock, history
  <2>4. TypeOK'
    BY <2>2, <2>3 DEF TypeOK, Positions
  <2>5. Busy'
    BY <2>1, <2>2, <2>3 DEF TypeOK, Busy
  <2>6. Locked'
    BY <2>2, <2>3, SharedAssumption DEF TypeOK, Locked
  <2>7. Progress'
    BY <2>2, <2>3 DEF TypeOK, Progress
  <2>8. Settled' /\ Filled'
    BY <2>2, <2>3 DEF TypeOK, Settled, Filled
  <2> QED BY <2>4, <2>5, <2>6, <2>7, <2>8
<1>10. ASSUME NEW t \in Thread, Fill(t)
       PROVE  IInv'
  <2>1. /\ pc' = [pc EXCEPT ![t] = "publish"]
        /\ filled' = filled \cup {<<at[t], mine[t]>>}
        /\ UNCHANGED <<slot, mu, hashCtr, at, mine, answers>>
        /\ pc[t] = "fill"
    BY <1>10 DEF Fill, Goto, history
  <2>2. TypeOK'
    BY <2>1 DEF TypeOK, Positions
  <2>3. Busy' /\ Locked' /\ Progress' /\ Settled'
    BY <2>1 DEF TypeOK, Busy, Locked, Progress, Settled
  <2>4. Filled'
    BY <2>1 DEF TypeOK, Filled
  <2> QED BY <2>2, <2>3, <2>4
<1>11. ASSUME NEW t \in Thread, Publish(t)
       PROVE  IInv'
  <2>1. /\ pc' = [pc EXCEPT ![t] = "unlock"]
        /\ slot' = [slot EXCEPT ![at[t]] = mine[t]]
        /\ UNCHANGED <<mu, hashCtr, filled, at, mine, answers>>
        /\ pc[t] = "publish"
    BY <1>11 DEF Publish, Goto, history
  <2>2. /\ at[t] \in Pooled /\ at[t] \in Thing /\ slot[at[t]] = None
        /\ mine[t] # None /\ mine[t] \in Stored
    BY <2>1, BuiltOrPooled DEF Busy, Progress, TypeOK
  <2>3. \A u \in Thread \ {t} : /\ pc[u] \notin {"fill", "publish", "unlock"}
                                /\ pc'[u] = pc[u]
    BY <2>1 DEF Locked, TypeOK
  <2>4. TypeOK'
    BY <2>1, <2>2 DEF TypeOK, Positions
  <2>5. Busy' /\ Locked'
    BY <2>1 DEF TypeOK, Busy, Locked
  <2>6. Progress'
    BY <2>1, <2>2, <2>3 DEF TypeOK, Progress
  <2>7. Settled'
    BY <2>1, <2>2 DEF TypeOK, Settled
  <2>8. Filled'
    BY <2>1, <2>2, <2>3, BuiltOrPooled DEF TypeOK, Filled
  <2> QED BY <2>4, <2>5, <2>6, <2>7, <2>8
<1>12. ASSUME NEW t \in Thread, Unlock(t)
       PROVE  IInv'
  <2>1. at[t] \in Thing /\ slot[at[t]] # None /\ slot[at[t]] = mine[t]
    BY <1>12, BuiltOrPooled DEF Unlock, Busy, Progress
  <2> QED BY <1>12, <2>1, AnswerKeeps DEF Unlock
<1>13. ASSUME NEW t \in Thread, NEW s \in Site, NEW d \in Class,
              Dispatch(t, s, d)
       PROVE  IInv'
  <2>1. /\ UNCHANGED <<slot, mu, hashCtr, filled, mine, answers>>
        /\ \E p \in {"idle", "resolve"} : pc' = [pc EXCEPT ![t] = p]
        /\ \/ at' = at
           \/ \E a \in {Nil} \cup [site : Site, dyn : Class] : at' = [at EXCEPT ![t] = a]
    BY <1>13 DEF Dispatch, Dispatched, Goto, cache
  <2>2. PICK p \in {"idle", "resolve"}, a \in Thing \cup {Nil} \cup [site : Site, dyn : Class] :
          pc' = [pc EXCEPT ![t] = p] /\ at' = [at EXCEPT ![t] = a]
    <3>1. at[t] \in Thing \cup {Nil} \cup [site : Site, dyn : Class]
          /\ at = [at EXCEPT ![t] = at[t]]
      BY DEF TypeOK
    <3> QED BY <2>1, <3>1
  <2>3. TypeOK'
    BY <2>1, <2>2 DEF TypeOK, Positions
  <2>4. Busy' /\ Locked'
    BY <2>1, <2>2 DEF TypeOK, Busy, Locked
  <2>5. Progress' /\ Settled' /\ Filled'
    BY <2>1, <2>2 DEF TypeOK, Progress, Settled, Filled
  <2> QED BY <2>3, <2>4, <2>5
<1>14. ASSUME NEW t \in Thread, Resolve(t)
       PROVE  IInv'
  <2>1. /\ UNCHANGED <<slot, mu, hashCtr, filled, mine, answers>>
        /\ pc' = [pc EXCEPT ![t] = "idle"]
        /\ at' = [at EXCEPT ![t] = Nil]
    BY <1>14 DEF Resolve, Dispatched, Goto
  <2>2. TypeOK'
    BY <2>1 DEF TypeOK, Positions
  <2>3. Busy' /\ Locked'
    BY <2>1 DEF TypeOK, Busy, Locked
  <2>4. Progress' /\ Settled' /\ Filled'
    BY <2>1 DEF TypeOK, Progress, Settled, Filled
  <2> QED BY <2>2, <2>3, <2>4
<1>15. CASE Rest
  BY <1>1, <1>15 DEF Rest
<1> QED
  BY <1>1, <1>2, <1>3, <1>4, <1>5, <1>6, <1>7, <1>8, <1>9, <1>10, <1>11, <1>12, <1>13,
     <1>14, <1>15 DEF Next

LEMMA SettledIsOneIdentity == IInv => OneIdentity
<1> SUFFICES ASSUME IInv, NEW i \in Thing
             PROVE  /\ Cardinality(answers[i]) <= 1
                    /\ i \in SmallInts => {i} \X answers[i] \subseteq filled
  BY BuiltOrPooled DEF OneIdentity
<1>1. answers[i] = {} \/ answers[i] = {slot[i]}
  BY DEF IInv, Settled
<1>2. Cardinality({}) = 0 /\ Cardinality({slot[i]}) = 1
  BY FS_EmptySet, FS_Singleton
<1>3. Cardinality(answers[i]) <= 1
  BY <1>1, <1>2
<1>4. ASSUME i \in SmallInts PROVE {i} \X answers[i] \subseteq filled
  BY <1>4 DEF IInv, Settled, Filled
<1> QED BY <1>3, <1>4

\* Until the counter of hashes has drawn as many as a header can hold, everyone
\* who asks for a monitor, mirror, hash, interned string or small box gets the
\* same one, and a box with its number in it (object.go, kernel.go, reflect.go).
THEOREM IdentityCorrect == Spec /\ [](hashCtr < HashNumbers) => []OneIdentity
<1>1. IInv /\ [Next]_vars /\ (hashCtr < HashNumbers)' => IInv'
  BY NextKeeps
<1> QED BY <1>1, InitIInv, SettledIsOneIdentity, PTL DEF Spec

----
(***************************************************************************)
(* HashMaps: the objects of the plain Java types respect equals, and for   *)
(* such objects HashMap and HashSet are the Java map and set.              *)
(***************************************************************************)

\* A program's objects when hashKey is right about them: no strings of unpaired
\* surrogates with one text, no class with a number first or with equals of its
\* own but the boxes, no boxes of two classes that say they are equal (a Short
\* and an Integer of one number), and no box made by reflection that holds an
\* int64 where the others of its class hold an int32 (boxViaWrapper).
PlainObjects ==
    /\ \A o, p \in Object : o.id = p.id => o = p
    /\ \A o, p \in Object : o.kind = "null" /\ p.kind = "null" => o = p
    /\ \A o, p \in Object : o.kind = "string" /\ p.kind = "string" /\ o.go = p.go
                             => o.content = p.content
    /\ \A o \in Object : o.kind = "instance" =>
           /\ Numeric(o) <=> o.class \in Wrappers \cup {IntegerClass}
           /\ o.class \notin OwnEquals
    /\ \A o, p \in Object : Numeric(o) /\ Numeric(p) =>
           /\ o.first = p.first => o.class = p.class
           /\ o.class = p.class => o.first.type = p.first.type

\* hashKey respects the equals natives on plain objects, whatever else they are
\* (natives_p7.go).
THEOREM PlainKeysRespectEquals == PlainObjects => KeysRespectEquals
<1> SUFFICES ASSUME PlainObjects, NEW o \in Object, NEW p \in Object
             PROVE  hashKey(o) = hashKey(p) <=> Equal(o, p)
  BY DEF KeysRespectEquals
<1>1. /\ o.kind \in {"null", "string", "instance", "array"}
      /\ p.kind \in {"null", "string", "instance", "array"}
  BY ObjectAssumption
<1>2. /\ o.id = p.id => o = p
      /\ o.kind = "null" /\ p.kind = "null" => o = p
  BY DEF PlainObjects
<1>3. CASE o.kind = "null"
  BY <1>1, <1>2, <1>3 DEF hashKey, Equal, Keyed, Numeric
<1>4. CASE o.kind = "string"
  <2>1. p.kind = "string" => (o.go = p.go <=> o.content = p.content)
    BY <1>4, ObjectAssumption DEF PlainObjects
  <2> QED BY <1>1, <1>4, <2>1 DEF hashKey, Equal, Keyed, Numeric
<1>5. CASE o.kind = "array"
  BY <1>1, <1>2, <1>5 DEF hashKey, Equal, Keyed, Numeric
<1>6. CASE o.kind = "instance" /\ ~Numeric(o)
  <2>1. o.class \notin Wrappers \cup {IntegerClass} \cup OwnEquals
    BY <1>6 DEF PlainObjects
  <2>2. Equal(o, p) <=> o = p
    BY <1>6, <2>1 DEF Equal
  <2>3. hashKey(o) = Keyed("R", "", "", 0, o.id)
    BY <1>6 DEF hashKey
  <2> QED BY <1>1, <1>2, <2>2, <2>3 DEF hashKey, Keyed
<1>7. CASE Numeric(o)
  <2>1. o.kind = "instance" /\ o.class \in Wrappers \cup {IntegerClass} /\ o.class \notin OwnEquals
    BY <1>7 DEF PlainObjects, Numeric
  <2>2. hashKey(o) = Keyed("N", "", o.class, o.first.num, "")
    BY <1>7, <2>1 DEF hashKey
  <2>3. CASE ~Numeric(p)
    <3>1. p.kind = "instance" => p.class # IntegerClass
      BY <2>3 DEF PlainObjects
    <3>2. ~Equal(o, p)
      BY <1>7, <2>1, <2>3, <3>1 DEF Equal
    <3>3. \/ hashKey(p) = Keyed("Z", "", "", 0, "")
          \/ hashKey(p) = Keyed("S", p.go, "", 0, "")
          \/ hashKey(p) = Keyed("R", "", "", 0, p.id)
      BY <2>3 DEF hashKey
    <3>4. hashKey(o) # hashKey(p)
      <4>1. /\ Keyed("N", "", o.class, o.first.num, "") # Keyed("Z", "", "", 0, "")
            /\ Keyed("N", "", o.class, o.first.num, "") # Keyed("S", p.go, "", 0, "")
            /\ Keyed("N", "", o.class, o.first.num, "") # Keyed("R", "", "", 0, p.id)
        BY DEF Keyed
      <4> QED BY <2>2, <3>3, <4>1
    <3> QED BY <3>2, <3>4
  <2>4. CASE Numeric(p)
    <3>1. /\ p.kind = "instance"
          /\ hashKey(p) = Keyed("N", "", p.class, p.first.num, "")
      BY <2>4 DEF hashKey, Numeric
    <3>2. /\ o.first = p.first => o.class = p.class
          /\ o.class = p.class => o.first.type = p.first.type
      BY <1>7, <2>4 DEF PlainObjects
    <3>3. hashKey(o) = hashKey(p) <=> o.class = p.class /\ o.first.num = p.first.num
      <4>1. Keyed("N", "", o.class, o.first.num, "") = Keyed("N", "", p.class, p.first.num, "")
              <=> o.class = p.class /\ o.first.num = p.first.num
        BY DEF Keyed
      <4> QED BY <2>2, <3>1, <4>1
    <3>4. o.first = p.first => o.first.num = p.first.num
      OBVIOUS
    <3>5. o.class = p.class /\ o.first.num = p.first.num => o.first = p.first
      <4>1. /\ o.first \in [type : {"int32", "int64", "other"}, num : Int]
            /\ p.first \in [type : {"int32", "int64", "other"}, num : Int]
        BY ObjectAssumption
      <4> QED BY <3>2, <4>1
    <3>6. Equal(o, p) <=> o.class = p.class /\ o.first.num = p.first.num
      BY <2>1, <2>4, <3>1, <3>2, <3>4, <3>5, ObjectAssumption DEF Equal
    <3> QED BY <3>3, <3>6
  <2> QED BY <2>3, <2>4
<1> QED BY <1>1, <1>3, <1>4, <1>5, <1>6, <1>7 DEF Numeric

-----------------------------------------------------------------------------
(* The inductive invariant: BuffersAgree, with finite maps whose key objects *)
(* are objects of the program.                                               *)
MapInv ==
    /\ BuffersAgree
    /\ IsFiniteSet(DOMAIN data) /\ IsFiniteSet(setData)
    /\ \A k \in DOMAIN keys : keys[k] \in Object
    /\ \A k \in DOMAIN setKeys : setKeys[k] \in Object

LEMMA InitInv == MapInit => MapInv
BY FS_EmptySet DEF MapInit, MapInv, BuffersAgree, Empty

LEMMA NextInv == MapInv /\ [MapNext]_mapVars => MapInv'
<1> SUFFICES ASSUME MapInv, [MapNext]_mapVars PROVE MapInv'
  OBVIOUS
<1> USE DEF MapInv, BuffersAgree
<1>1. ASSUME NEW o \in Object, NEW v \in Value, Put(o, v) PROVE MapInv'
  <2>1. DOMAIN data' = DOMAIN data \cup {hashKey(o)}
    BY <1>1 DEF Put, With
  <2>2. IsFiniteSet(DOMAIN data')
    BY <2>1, FS_AddElement
  <2>3. /\ DOMAIN keys' = DOMAIN data'
        /\ \A k \in DOMAIN keys' : hashKey(keys'[k]) = k /\ keys'[k] \in Object
    BY <1>1, <2>1 DEF Put, With
  <2> QED BY <1>1, <2>2, <2>3 DEF Put
<1>2. ASSUME NEW o \in Object, Remove(o) PROVE MapInv'
  <2>1. DOMAIN data' = DOMAIN data \ {hashKey(o)}
    BY <1>2 DEF Remove, Without
  <2>2. IsFiniteSet(DOMAIN data')
    BY <2>1, FS_RemoveElement
  <2>3. /\ DOMAIN keys' = DOMAIN data'
        /\ \A k \in DOMAIN keys' : hashKey(keys'[k]) = k /\ keys'[k] \in Object
    BY <1>2, <2>1 DEF Remove, Without
  <2> QED BY <1>2, <2>2, <2>3 DEF Remove
<1>3. ASSUME NEW o \in Object, Add(o) PROVE MapInv'
  <2>1. IsFiniteSet(setData')
    BY <1>3, FS_AddElement DEF Add
  <2>2. /\ DOMAIN setKeys' = setData'
        /\ \A k \in DOMAIN setKeys' : hashKey(setKeys'[k]) = k /\ setKeys'[k] \in Object
    BY <1>3 DEF Add, With
  <2> QED BY <1>3, <2>1, <2>2 DEF Add
<1>4. ASSUME NEW o \in Object, Delete(o) PROVE MapInv'
  <2>1. IsFiniteSet(setData')
    BY <1>4, FS_RemoveElement DEF Delete
  <2>2. /\ DOMAIN setKeys' = setData'
        /\ \A k \in DOMAIN setKeys' : hashKey(setKeys'[k]) = k /\ setKeys'[k] \in Object
    BY <1>4 DEF Delete, Without
  <2> QED BY <1>4, <2>1, <2>2 DEF Delete
<1>5. CASE Clear
  BY <1>5, FS_EmptySet DEF Clear, Empty
<1>6. ASSUME UNCHANGED <<data, keys, setData, setKeys>> PROVE MapInv'
  BY <1>6
<1> QED
  BY <1>1, <1>2, <1>3, <1>4, <1>5, <1>6
     DEF MapNext, mapVars, Get, ContainsKey, Contains, Size, IsEmpty, Count, NoMember

\* The two Go maps of a HashMap keep the same keys, and so do those of a
\* HashSet, whatever the objects are: no operation forgets one of the two.
THEOREM BuffersCorrect == MapSpec => []BuffersAgree
<1>1. MapSpec => []MapInv
  BY InitInv, NextInv, PTL DEF MapSpec
<1> QED BY <1>1, PTL DEF MapInv

-----------------------------------------------------------------------------
(* Equality classes and Go keys correspond one to one.                       *)
LEMMA ClassHasKey ==
    ASSUME KeysRespectEquals, NEW o \in Object
    PROVE  ClassOf(o) \in Key /\ KeyOf(ClassOf(o)) = hashKey(o)
<1>1. o \in ClassOf(o)
  BY DEF ClassOf, KeysRespectEquals
<1>2. \A p \in ClassOf(o) : hashKey(p) = hashKey(o)
  BY DEF ClassOf, KeysRespectEquals
<1> QED BY <1>1, <1>2 DEF KeyOf, Key

LEMMA OneClassPerKey ==
    ASSUME KeysRespectEquals, NEW c \in Key, NEW d \in Key, KeyOf(c) = KeyOf(d)
    PROVE  c = d
<1>1. PICK o \in Object : c = ClassOf(o)
  BY DEF Key
<1>2. PICK p \in Object : d = ClassOf(p)
  BY DEF Key
<1>3. hashKey(o) = hashKey(p)
  BY <1>1, <1>2, ClassHasKey
<1>4. \A q \in Object : hashKey(q) = hashKey(o) <=> Equal(o, q)
  BY DEF KeysRespectEquals
<1>5. \A q \in Object : hashKey(q) = hashKey(p) <=> Equal(p, q)
  BY DEF KeysRespectEquals
<1> QED BY <1>1, <1>2, <1>3, <1>4, <1>5 DEF ClassOf

LEMMA MemberByKey ==
    ASSUME KeysRespectEquals, NEW o \in Object, NEW s
    PROVE  /\ hashKey(o) \in s <=> ClassOf(o) \in Members(s)
           /\ Members(s \cup {hashKey(o)}) = Members(s) \cup {ClassOf(o)}
           /\ Members(s \ {hashKey(o)}) = Members(s) \ {ClassOf(o)}
<1>1. ClassOf(o) \in Key /\ KeyOf(ClassOf(o)) = hashKey(o)
  BY ClassHasKey
<1>2. \A c \in Key : KeyOf(c) = hashKey(o) => c = ClassOf(o)
  BY <1>1, OneClassPerKey
<1> QED BY <1>1, <1>2 DEF Members

LEMMA EntryByKey ==
    ASSUME KeysRespectEquals, NEW o \in Object, NEW f, NEW v
    PROVE  /\ DOMAIN Entries(f) = Members(DOMAIN f)
           /\ hashKey(o) \in DOMAIN f => Entries(f)[ClassOf(o)] = f[hashKey(o)]
           /\ Entries(With(f, hashKey(o), v)) = With(Entries(f), ClassOf(o), v)
           /\ Entries(Without(f, hashKey(o))) = Without(Entries(f), ClassOf(o))
<1>1. ClassOf(o) \in Key /\ KeyOf(ClassOf(o)) = hashKey(o)
  BY ClassHasKey
<1>2. \A c \in Key : KeyOf(c) = hashKey(o) => c = ClassOf(o)
  BY <1>1, OneClassPerKey
<1>3. /\ DOMAIN Entries(f) = Members(DOMAIN f)
      /\ \A c \in Members(DOMAIN f) : Entries(f)[c] = f[KeyOf(c)] /\ c \in Key
                                      /\ KeyOf(c) \in DOMAIN f
  BY DEF Entries, Members
<1>4. hashKey(o) \in DOMAIN f => Entries(f)[ClassOf(o)] = f[hashKey(o)]
  BY <1>1, <1>3, MemberByKey
<1>5. Entries(With(f, hashKey(o), v)) = With(Entries(f), ClassOf(o), v)
  <2> DEFINE g == With(f, hashKey(o), v)
  <2>1. /\ DOMAIN g = DOMAIN f \cup {hashKey(o)}
        /\ \A k \in DOMAIN g : g[k] = IF k = hashKey(o) THEN v ELSE f[k]
    BY DEF With
  <2>2. Members(DOMAIN g) = Members(DOMAIN f) \cup {ClassOf(o)}
    BY <2>1, MemberByKey
  <2> HIDE DEF g
  <2>3. Entries(g) = [c \in Members(DOMAIN g) |-> g[KeyOf(c)]]
    BY DEF Entries
  <2>4. \A c \in Members(DOMAIN g) : 
          g[KeyOf(c)] = IF c = ClassOf(o) THEN v ELSE Entries(f)[c]
    <3> SUFFICES ASSUME NEW c \in Members(DOMAIN g)
                 PROVE  g[KeyOf(c)] = IF c = ClassOf(o) THEN v ELSE Entries(f)[c]
      OBVIOUS
    <3>1. c \in Key /\ KeyOf(c) \in DOMAIN g
      BY DEF Members
    <3>2. CASE c = ClassOf(o)
      BY <1>1, <2>1, <3>1, <3>2
    <3>3. CASE c # ClassOf(o)
      BY <1>2, <1>3, <2>1, <2>2, <3>1, <3>3
    <3> QED BY <3>2, <3>3
  <2>5. Entries(g) = [c \in DOMAIN Entries(f) \cup {ClassOf(o)} |->
                        IF c = ClassOf(o) THEN v ELSE Entries(f)[c]]
    BY <1>3, <2>2, <2>3, <2>4
  <2> QED BY <2>5 DEF g, With
<1>6. Entries(Without(f, hashKey(o))) = Without(Entries(f), ClassOf(o))
  <2> DEFINE g == Without(f, hashKey(o))
  <2>1. /\ DOMAIN g = DOMAIN f \ {hashKey(o)}
        /\ \A k \in DOMAIN g : g[k] = f[k]
    BY DEF Without
  <2>2. Members(DOMAIN g) = Members(DOMAIN f) \ {ClassOf(o)}
    BY <2>1, MemberByKey
  <2> HIDE DEF g
  <2>3. Entries(g) = [c \in Members(DOMAIN g) |-> g[KeyOf(c)]]
    BY DEF Entries
  <2>4. \A c \in Members(DOMAIN g) : KeyOf(c) \in DOMAIN g
    BY DEF Members
  <2>5. Entries(g) = [c \in DOMAIN Entries(f) \ {ClassOf(o)} |-> Entries(f)[c]]
    BY <1>3, <2>1, <2>2, <2>3, <2>4
  <2> QED BY <2>5 DEF g, Without
<1> QED BY <1>3, <1>4, <1>5, <1>6

(* A set of Go keys of objects and its classes are equally many.             *)
LEMMA AsManyClasses ==
    ASSUME KeysRespectEquals, NEW s, IsFiniteSet(s),
           \A k \in s : \E o \in Object : hashKey(o) = k
    PROVE  Cardinality(Members(s)) = Cardinality(s) /\ (Members(s) = {} <=> s = {})
<1> DEFINE f == [c \in Members(s) |-> KeyOf(c)]
<1>1. f \in [Members(s) -> s]
  BY DEF Members
<1>2. \A c, d \in Members(s) : f[c] = f[d] => c = d
  BY OneClassPerKey DEF Members
<1>3. \A k \in s : \E c \in Members(s) : f[c] = k
  <2> SUFFICES ASSUME NEW k \in s PROVE \E c \in Members(s) : f[c] = k
    OBVIOUS
  <2>1. PICK o \in Object : hashKey(o) = k
    OBVIOUS
  <2>2. ClassOf(o) \in Members(s) /\ KeyOf(ClassOf(o)) = k
    BY <2>1, ClassHasKey DEF Members
  <2> QED BY <2>2
<1> HIDE DEF f
<1>4. f \in Injection(Members(s), s) /\ f \in Surjection(Members(s), s)
  BY <1>1, <1>2, <1>3 DEF Injection, Surjection, IsInjective
<1>5. Cardinality(Members(s)) = Cardinality(s)
  BY <1>4, FS_Injection
<1> QED BY <1>1, <1>3, <1>5

-----------------------------------------------------------------------------
(* The steps, one call at a time.                                            *)
LEMMA LookupCorrect ==
    ASSUME KeysRespectEquals, NEW o \in Object
    PROVE  Abstract!Lookup(ClassOf(o)) = Lookup(hashKey(o))
BY EntryByKey, MemberByKey DEF Abstract!Lookup, Lookup

LEMMA SameCardinality == \A s : Abstract!Cardinality(s) = Cardinality(s)
BY Zenon DEF Abstract!Cardinality, Cardinality

LEMMA ToldAlike ==
    ASSUME KeysRespectEquals, NEW o \in Object, NEW s
    PROVE  /\ Abstract!Told(ClassOf(o) \in Members(s)) = Told(hashKey(o) \in s)
           /\ Abstract!Told(ClassOf(o) \notin Members(s)) = Told(hashKey(o) \notin s)
<1>0. hashKey(o) \in s <=> ClassOf(o) \in Members(s)
  BY MemberByKey
<1>1. (ClassOf(o) \in Members(s)) = (hashKey(o) \in s)
  BY <1>0
<1>2. (ClassOf(o) \notin Members(s)) = (hashKey(o) \notin s)
  BY <1>0
<1> QED BY <1>1, <1>2, Zenon DEF Told, Abstract!Told

LEMMA StepCorrect ==
    ASSUME KeysRespectEquals, MapInv, [MapNext]_mapVars
    PROVE  [Abstract!Next]_Abstract!vars
<1> USE DEF Was, Abstract!Was
<1>1. ASSUME NEW o \in Object, Get(o) PROVE Abstract!Get(ClassOf(o))
  BY <1>1, LookupCorrect DEF Get, Abstract!Get
<1>2. ASSUME NEW o \in Object, ContainsKey(o) PROVE Abstract!ContainsKey(ClassOf(o))
  BY <1>2, EntryByKey, ToldAlike DEF ContainsKey, Abstract!ContainsKey
<1>3. ASSUME NEW o \in Object, Remove(o) PROVE Abstract!Remove(ClassOf(o))
  <2>1. data' = Without(data, hashKey(o))
    BY <1>3 DEF Remove
  <2>2. Entries(Without(data, hashKey(o))) = Without(Entries(data), ClassOf(o))
    BY EntryByKey
  <2> QED BY <1>3, <2>1, <2>2, LookupCorrect DEF Remove, Abstract!Remove, Without
<1>4. ASSUME NEW o \in Object, Add(o) PROVE Abstract!Add(ClassOf(o))
  BY <1>4, MemberByKey, ToldAlike DEF Add, Abstract!Add
<1>5. ASSUME NEW o \in Object, Delete(o) PROVE Abstract!Delete(ClassOf(o))
  BY <1>5, MemberByKey, ToldAlike DEF Delete, Abstract!Delete
<1>6. ASSUME NEW o \in Object, Contains(o) PROVE Abstract!Contains(ClassOf(o))
  BY <1>6, MemberByKey, ToldAlike DEF Contains, Abstract!Contains
<1>7. ASSUME NEW o \in Object, NEW v \in Value, Put(o, v) PROVE Abstract!Put(ClassOf(o), v)
  <2>1. Entries(data') = [c \in DOMAIN Entries(data) \cup {ClassOf(o)} |->
                            IF c = ClassOf(o) THEN v ELSE Entries(data)[c]]
    <3>1. data' = With(data, hashKey(o), v)
      BY <1>7 DEF Put
    <3>2. Entries(With(data, hashKey(o), v)) = With(Entries(data), ClassOf(o), v)
      BY EntryByKey
    <3> QED BY <3>1, <3>2 DEF With
  <2> QED BY <1>7, <2>1, LookupCorrect DEF Put, Abstract!Put
<1>8. DOMAIN Entries(data) = Members(DOMAIN data)
  BY DEF Entries
<1>9. /\ \A k \in DOMAIN data : \E o \in Object : hashKey(o) = k
      /\ \A k \in setData : \E o \in Object : hashKey(o) = k
  BY DEF MapInv, BuffersAgree
<1>10. /\ Cardinality(DOMAIN Entries(data)) = Cardinality(DOMAIN data)
       /\ DOMAIN Entries(data) = {} <=> DOMAIN data = {}
       /\ Cardinality(Members(setData)) = Cardinality(setData)
       /\ Members(setData) = {} <=> setData = {}
  BY <1>8, <1>9, AsManyClasses DEF MapInv
<1>11. ASSUME Clear PROVE Abstract!Clear
  <2>1. Entries(data') = [k \in {} |-> Null]
    BY <1>11 DEF Clear, Entries, Members, Empty
  <2> QED BY <1>11, <2>1 DEF Clear, Abstract!Clear
<1>12. ASSUME Size PROVE Abstract!Size
  BY <1>10, <1>12, SameCardinality DEF Size, Abstract!Size, Counted, Abstract!Counted
<1>13. ASSUME IsEmpty PROVE Abstract!IsEmpty
  BY <1>10, <1>13 DEF Told, Abstract!Told, IsEmpty, Abstract!IsEmpty
<1>14. ASSUME Count PROVE Abstract!Count
  BY <1>10, <1>14, SameCardinality DEF Count, Abstract!Count, Counted, Abstract!Counted
<1>15. ASSUME NoMember PROVE Abstract!NoMember
  BY <1>10, <1>15 DEF Told, Abstract!Told, NoMember, Abstract!NoMember
<1>16. CASE UNCHANGED mapVars
  BY <1>16 DEF mapVars, Abstract!vars
<1>17. \A o \in Object : ClassOf(o) \in Key
  BY DEF Key
<1> QED
  BY <1>1, <1>2, <1>3, <1>4, <1>5, <1>6, <1>7, <1>11, <1>12, <1>13, <1>14, <1>15,
     <1>16, <1>17 DEF MapNext, Abstract!Next

LEMMA InitCorrect == MapInit => Abstract!Init
BY DEF MapInit, Abstract!Init, Entries, Members, Empty, Was, Abstract!Was

LEMMA RespectfulKeysImplement == KeysRespectEquals => (MapSpec => ImplementsJavaMap)
<1> SUFFICES ASSUME KeysRespectEquals PROVE MapSpec => ImplementsJavaMap
  OBVIOUS
<1>1. MapSpec => []MapInv
  BY InitInv, NextInv, PTL DEF MapSpec
<1>2. MapInv /\ [MapNext]_mapVars => [Abstract!Next]_Abstract!vars
  BY StepCorrect
<1> QED BY <1>1, <1>2, InitCorrect, PTL DEF MapSpec, ImplementsJavaMap, Abstract!Spec

\* HashMap is a map and HashSet a set by the equals natives, for plain objects
\* (natHashMapPut, natHashMapRemove, natHashSetAdd, ...).
THEOREM HashMapsImplementJavaMap == PlainObjects => (MapSpec => ImplementsJavaMap)
BY PlainKeysRespectEquals, RespectfulKeysImplement
====
