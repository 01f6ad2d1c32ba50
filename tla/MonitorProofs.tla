---- MODULE MonitorProofs ----
(***************************************************************************)
(* Theorems about Monitor, and about WaitInterrupt which extends it, for   *)
(* every set of threads and every depth bound: first the monitor and that  *)
(* it implements JavaMonitor, then the monitor under notifiers, deadlines  *)
(* and interrupts that race through two mutexes.                           *)
(***************************************************************************)
EXTENDS WaitInterrupt, SequenceTheorems, TLAPS

(* Dropping position i of a queue without repetitions drops exactly one    *)
(* element.  monitor.go: append(m.waits[:i], m.waits[i+1:]...).            *)
LEMMA RemoveAtFacts ==
  ASSUME NEW S, NEW s \in Seq(S), IsInjective(s), NEW i \in 1..Len(s)
  PROVE  /\ RemoveAt(s, i) \in Seq(S)
         /\ IsInjective(RemoveAt(s, i))
         /\ \A x : Contains(RemoveAt(s, i), x) <=> (Contains(s, x) /\ x # s[i])
<1> DEFINE a == SubSeq(s, 1, i - 1)
           b == SubSeq(s, i + 1, Len(s))
           r == RemoveAt(s, i)
<1>1. /\ a \in Seq(S)
      /\ Len(a) = i - 1
      /\ \A j \in 1..(i - 1) : a[j] = s[j]
  <2>1. \A j \in 1..(i - 1) : s[j] \in S
    BY ElementOfSeq
  <2>2. i - 1 \in Int /\ 1 \in Int
    OBVIOUS
  <2> QED BY <2>1, <2>2, SubSeqProperties, i - 1 \in Nat
<1>2. /\ b \in Seq(S)
      /\ Len(b) = Len(s) - i
      /\ \A j \in 1..(Len(s) - i) : b[j] = s[i + j]
  <2>1. \A j \in (i + 1)..Len(s) : s[j] \in S
    BY ElementOfSeq
  <2>2. i + 1 \in Int /\ Len(s) \in Int
    BY LenProperties
  <2>3. /\ b \in Seq(S)
        /\ Len(b) = IF i + 1 <= Len(s) THEN Len(s) - (i + 1) + 1 ELSE 0
        /\ \A j \in 1..(Len(s) - (i + 1) + 1) : b[j] = s[(i + 1) + j - 1]
    BY <2>1, <2>2, SubSeqProperties
  <2> QED BY <2>2, <2>3
<1>3. r = a \o b
  BY DEF RemoveAt
<1> HIDE DEF a, b, r
<1>4. /\ r \in Seq(S)
      /\ Len(r) = Len(s) - 1
      /\ \A j \in 1..(Len(s) - 1) : r[j] = IF j < i THEN s[j] ELSE s[j + 1]
  <2>1. /\ r \in Seq(S)
        /\ Len(r) = Len(a) + Len(b)
        /\ \A j \in 1..(Len(a) + Len(b)) :
             r[j] = IF j <= Len(a) THEN a[j] ELSE b[j - Len(a)]
    BY <1>1, <1>2, <1>3, ConcatProperties
  <2>2. Len(s) \in Nat
    BY LenProperties
  <2>3. Len(a) + Len(b) = Len(s) - 1
    BY <1>1, <1>2, <2>2
  <2>4. ASSUME NEW j \in 1..(Len(s) - 1)
        PROVE  r[j] = IF j < i THEN s[j] ELSE s[j + 1]
    <3>1. CASE j < i
      BY <3>1, <2>1, <2>2, <2>3, <1>1
    <3>2. CASE ~(j < i)
      <4>1. r[j] = b[j - (i - 1)]
        BY <3>2, <2>1, <2>2, <2>3, <1>1
      <4>2. j - (i - 1) \in 1..(Len(s) - i) /\ i + (j - (i - 1)) = j + 1
        BY <3>2, <2>2
      <4> QED BY <3>2, <4>1, <4>2, <1>2
    <3> QED BY <3>1, <3>2
  <2> QED BY <2>1, <2>3, <2>4
<1>5. Len(s) \in Nat /\ DOMAIN s = 1..Len(s) /\ DOMAIN r = 1..Len(r)
  BY <1>4, LenProperties
<1>6. IsInjective(r)
  <2>1. ASSUME NEW j \in 1..Len(r), NEW k \in 1..Len(r), r[j] = r[k]
        PROVE  j = k
    <3>1. \A m, n \in 1..Len(s) : s[m] = s[n] => m = n
      BY <1>5 DEF IsInjective
    <3> DEFINE at(m) == IF m < i THEN m ELSE m + 1
    <3>2. /\ at(j) \in 1..Len(s) /\ r[j] = s[at(j)]
          /\ at(k) \in 1..Len(s) /\ r[k] = s[at(k)]
      BY <1>4, <1>5
    <3>3. at(j) = at(k)
      BY <2>1, <3>1, <3>2
    <3> QED BY <3>3, <1>5, <1>4
  <2> QED BY <2>1, <1>5 DEF IsInjective
<1>7. ASSUME NEW x
      PROVE  Contains(r, x) <=> (Contains(s, x) /\ x # s[i])
  <2>1. ASSUME Contains(r, x) PROVE Contains(s, x) /\ x # s[i]
    BY <2>1, <1>4, <1>5, SMTT(30) DEF Contains, IsInjective
  <2>2. ASSUME Contains(s, x), x # s[i] PROVE Contains(r, x)
    <3>1. PICK j \in 1..Len(s) : s[j] = x
      BY <2>2 DEF Contains
    <3>2. CASE j < i
      BY <3>1, <3>2, <1>4, <1>5 DEF Contains
    <3>3. CASE j > i
      <4>1. j - 1 \in 1..Len(r) /\ r[j - 1] = x
        BY <3>1, <3>3, <1>4, <1>5
      <4> QED BY <4>1 DEF Contains
    <3> QED BY <2>2, <3>1, <3>2, <3>3, <1>5
  <2> QED BY <2>1, <2>2
<1> QED BY <1>4, <1>6, <1>7 DEF r

(* Dropping the only record of x drops x and nothing else; a list without   *)
(* one is left alone.  monitor.go: removeWait and removeWaitLocked.         *)
LEMMA RemoveFirstFacts ==
  ASSUME NEW S, NEW s \in Seq(S), IsInjective(s), NEW x
  PROVE  /\ RemoveFirst(s, x) \in Seq(S)
         /\ IsInjective(RemoveFirst(s, x))
         /\ \A y : Contains(RemoveFirst(s, x), y) <=> (Contains(s, y) /\ y # x)
<1> USE LenProperties
<1>1. CASE ~Contains(s, x)
  <2>1. RemoveFirst(s, x) = s
    BY <1>1 DEF RemoveFirst, Contains
  <2> QED BY <1>1, <2>1
<1>2. CASE Contains(s, x)
  <2>1. PICK i \in 1..Len(s) : s[i] = x
    BY <1>2 DEF Contains
  <2>2. {j \in 1..Len(s) : s[j] = x} = {i}
    BY <2>1 DEF IsInjective
  <2>3. Min({i}) = i
    BY <2>1 DEF Min
  <2>4. SelectInSeq(s, LAMBDA v : v = x) = i
    BY <2>2, <2>3 DEF SelectInSeq
  <2>5. RemoveFirst(s, x) = RemoveAt(s, i)
    BY <2>1, <2>4 DEF RemoveFirst
  <2> QED BY <2>1, <2>5, RemoveAtFacts
<1> QED BY <1>1, <1>2

(* A new element at the tail of a queue.  monitor.go: append(m.parked, ch). *)
LEMMA AppendFacts ==
  ASSUME NEW S, NEW s \in Seq(S), IsInjective(s), NEW x \in S, ~Contains(s, x)
  PROVE  /\ Append(s, x) \in Seq(S)
         /\ IsInjective(Append(s, x))
         /\ \A y : Contains(Append(s, x), y) <=> (Contains(s, y) \/ y = x)
<1> DEFINE r == Append(s, x)
<1>1. /\ r \in Seq(S)
      /\ Len(r) = Len(s) + 1
      /\ \A i \in 1..Len(s) : r[i] = s[i]
      /\ r[Len(s) + 1] = x
  BY AppendProperties
<1>2. Len(s) \in Nat /\ DOMAIN s = 1..Len(s) /\ DOMAIN r = 1..Len(r)
  BY <1>1, LenProperties
<1> HIDE DEF r
<1>3. \A i \in 1..Len(r) : i \in 1..Len(s) \/ i = Len(s) + 1
  BY <1>1, <1>2
<1>4. IsInjective(r)
  BY <1>1, <1>2, <1>3 DEF IsInjective, Contains
<1>5. \A y : Contains(r, y) <=> (Contains(s, y) \/ y = x)
  BY <1>1, <1>2, <1>3 DEF Contains
<1> QED BY <1>1, <1>4, <1>5 DEF r

(* The head of a queue leaves it.  monitor.go: m.parked = m.parked[1:].     *)
LEMMA TailFacts ==
  ASSUME NEW S, NEW s \in Seq(S), IsInjective(s), s # <<>>
  PROVE  /\ Tail(s) \in Seq(S)
         /\ Head(s) \in S
         /\ Contains(s, Head(s))
         /\ IsInjective(Tail(s))
         /\ \A y : Contains(Tail(s), y) <=> (Contains(s, y) /\ y # Head(s))
<1> DEFINE r == Tail(s)
<1>1. /\ r \in Seq(S)
      /\ Head(s) \in S
      /\ Len(r) = Len(s) - 1
      /\ \A i \in 1..Len(r) : r[i] = s[i + 1]
  BY HeadTailProperties
<1>2. /\ Len(s) \in Nat \ {0}
      /\ DOMAIN s = 1..Len(s)
      /\ DOMAIN r = 1..Len(r)
  BY <1>1, LenProperties, EmptySeq
<1>3. Head(s) = s[1]
  OBVIOUS
<1> HIDE DEF r
<1>4. Contains(s, Head(s))
  BY <1>2, <1>3 DEF Contains
<1>5. \A i, j \in 1..Len(s) : s[i] = s[j] => i = j
  BY <1>2 DEF IsInjective
<1>6. \A i \in 1..Len(r) : i + 1 \in 1..Len(s) /\ i + 1 # 1
  BY <1>1, <1>2
<1>7. IsInjective(r)
  <2>1. ASSUME NEW i \in 1..Len(r), NEW j \in 1..Len(r), r[i] = r[j]
        PROVE  i = j
    BY <2>1, <1>1, <1>5, <1>6
  <2> QED BY <2>1, <1>2 DEF IsInjective
<1>8. ASSUME NEW y
      PROVE  Contains(r, y) <=> (Contains(s, y) /\ y # Head(s))
  <2>1. ASSUME Contains(r, y) PROVE Contains(s, y) /\ y # Head(s)
    <3>1. PICK i \in 1..Len(r) : r[i] = y
      BY <2>1 DEF Contains
    <3>2. s[i + 1] = y /\ i + 1 \in 1..Len(s) /\ i + 1 # 1 /\ 1 \in 1..Len(s)
      BY <3>1, <1>1, <1>2, <1>6
    <3> QED BY <3>2, <1>3, <1>5 DEF Contains
  <2>2. ASSUME Contains(s, y), y # Head(s) PROVE Contains(r, y)
    <3>1. PICK i \in 1..Len(s) : s[i] = y
      BY <2>2 DEF Contains
    <3>2. i - 1 \in 1..Len(r) /\ r[i - 1] = y
      BY <2>2, <3>1, <1>1, <1>2, <1>3
    <3> QED BY <3>2 DEF Contains
  <2> QED BY <2>1, <2>2
<1> QED BY <1>1, <1>4, <1>7, <1>8 DEF r

----
(* The inductive invariant: the five state invariants together. Each needs  *)
(* the others: the handoff relies on the queue holding blocked threads only, *)
(* the depths on the owner not being one of the threads on their way back.   *)
IInv == /\ TypeOK
        /\ DepthAgreement
        /\ HandoffInFlight
        /\ WaitListExact
        /\ ParkedExact

USE NoThreadAssumption, MaxDepthAssumption

LEMMA InitIInv == Init => IInv
<1> SUFFICES ASSUME Init PROVE IInv
  OBVIOUS
<1>1. TypeOK
  BY DEF Init, TypeOK, Outcomes, Positions
<1>2. DepthAgreement /\ HandoffInFlight
  BY DEF Init, DepthAgreement, HandoffInFlight
<1>3. WaitListExact /\ ParkedExact
  BY DEF Init, WaitListExact, ParkedExact, Contains, IsInjective
<1> QED BY <1>1, <1>2, <1>3 DEF IInv

(* A pass of the acquisition loop by a thread that is not queued, and the   *)
(* release of the lock by its owner, seen by the queue of contenders.       *)
LEMMA QueueAfterTryAcquire ==
  ASSUME IInv, NEW t \in Thread, NEW d, TryAcquire(t, d), pc[t] # "parked"
  PROVE  /\ parked' \in Seq(Thread)
         /\ pc' \in [Thread -> Positions]
         /\ ParkedExact'
         /\ HandoffInFlight'
<1>1. /\ parked \in Seq(Thread) /\ pc \in [Thread -> Positions]
      /\ IsInjective(parked)
      /\ \A u \in Thread : Contains(parked, u) <=> pc[u] = "parked"
  BY DEF IInv, TypeOK, ParkedExact
<1>2. CASE UNCHANGED parked /\ pc' = [pc EXCEPT ![t] = "idle"] /\ owner' # NoThread
  BY <1>1, <1>2 DEF ParkedExact, HandoffInFlight, Positions
<1>3. CASE /\ parked' = Append(parked, t)
           /\ pc' = [pc EXCEPT ![t] = "parked"]
           /\ owner \notin {t, NoThread} /\ UNCHANGED owner
  <2>1. /\ Append(parked, t) \in Seq(Thread)
        /\ IsInjective(Append(parked, t))
        /\ \A y : Contains(Append(parked, t), y) <=> (Contains(parked, y) \/ y = t)
    BY <1>1, AppendFacts
  <2> QED BY <1>1, <1>3, <2>1 DEF ParkedExact, HandoffInFlight, Positions
<1> QED BY <1>2, <1>3 DEF TryAcquire

LEMMA QueueAfterRelease ==
  ASSUME IInv, NEW t \in Thread, NEW at \in [Thread -> Positions],
         \A u \in Thread : at[u] = "parked" <=> pc[u] = "parked",
         ReleaseLocked(at)
  PROVE  /\ parked' \in Seq(Thread)
         /\ pc' \in [Thread -> Positions]
         /\ ParkedExact'
         /\ HandoffInFlight'
         /\ \A u \in Thread : pc'[u] = at[u] \/ (pc[u] = "parked" /\ pc'[u] = "woken")
<1>1. /\ parked \in Seq(Thread)
      /\ IsInjective(parked)
      /\ \A u \in Thread : Contains(parked, u) <=> at[u] = "parked"
  BY DEF IInv, TypeOK, ParkedExact
<1>2. CASE parked = <<>>
  BY <1>1, <1>2 DEF ReleaseLocked, ParkedExact, HandoffInFlight
<1>3. CASE parked # <<>>
  <2>1. /\ Tail(parked) \in Seq(Thread)
        /\ Head(parked) \in Thread
        /\ Contains(parked, Head(parked))
        /\ IsInjective(Tail(parked))
        /\ \A y : Contains(Tail(parked), y) <=> (Contains(parked, y) /\ y # Head(parked))
    BY <1>1, <1>3, TailFacts
  <2>2. parked' = Tail(parked) /\ pc' = [at EXCEPT ![Head(parked)] = "woken"]
    BY <1>3 DEF ReleaseLocked
  <2> QED BY <1>1, <2>1, <2>2 DEF ParkedExact, HandoffInFlight, Positions
<1> QED BY <1>2, <1>3

LEMMA EnterIInv == ASSUME IInv, NEW t \in Thread, Enter(t) PROVE IInv'
<1>1. TryAcquire(t, 1) /\ pc[t] = "idle"
  BY DEF Enter
<1>2. /\ parked' \in Seq(Thread) /\ pc' \in [Thread -> Positions]
      /\ ParkedExact' /\ HandoffInFlight'
  BY <1>1, QueueAfterTryAcquire
<1>3. /\ held[t] = IF owner = t THEN count ELSE 0
      /\ owner = t => count < MaxDepth
      /\ held \in [Thread -> 0..MaxDepth] /\ count \in 0..MaxDepth
      /\ held' = [held EXCEPT ![t] = held[t] + 1]
      /\ due' = [due EXCEPT ![t] = 1]
  BY <1>1 DEF IInv, TypeOK, DepthAgreement, Enter
<1>4. /\ held' \in [Thread -> 0..MaxDepth]
      /\ due' \in [Thread -> 1..MaxDepth]
      /\ count' \in 0..MaxDepth
      /\ owner' \in Thread \cup {NoThread}
  BY <1>1, <1>3 DEF IInv, TypeOK, TryAcquire
<1>5. TypeOK'
  BY <1>2, <1>4 DEF IInv, TypeOK, Enter, waitVars
<1>6. DepthAgreement'
  BY <1>1, <1>3 DEF IInv, TypeOK, DepthAgreement, TryAcquire
<1>7. WaitListExact'
  BY <1>1 DEF IInv, TypeOK, WaitListExact, Enter, TryAcquire, waitVars
<1> QED BY <1>2, <1>5, <1>6, <1>7 DEF IInv

(* Retry and Reenter: the acquisition loop by a thread that is coming back. *)
LEMMA ComeBackIInv ==
  ASSUME IInv, NEW t \in Thread, pc[t] \in {"woken", "reenter"},
         TryAcquire(t, due[t]), UNCHANGED <<waitVars, due, held>>
  PROVE  IInv'
<1>1. /\ parked' \in Seq(Thread) /\ pc' \in [Thread -> Positions]
      /\ ParkedExact' /\ HandoffInFlight'
  BY QueueAfterTryAcquire
<1>2. TypeOK' /\ DepthAgreement'
  <2>1. TypeOK'
    BY <1>1, SMTT(30) DEF IInv, TypeOK, DepthAgreement, TryAcquire, waitVars
  <2>2. DepthAgreement'
    BY <1>1, SMTT(30) DEF IInv, TypeOK, DepthAgreement, TryAcquire
  <2> QED BY <2>1, <2>2
<1>3. WaitListExact'
  BY DEF IInv, TypeOK, WaitListExact, TryAcquire, waitVars
<1> QED BY <1>1, <1>2, <1>3 DEF IInv

LEMMA ExitIInv == ASSUME IInv, NEW t \in Thread, Exit(t) PROVE IInv'
<1>1. CASE count - 1 > 0
  <2>1. TypeOK' /\ DepthAgreement'
    BY <1>1 DEF IInv, TypeOK, DepthAgreement, Exit, waitVars
  <2>2. HandoffInFlight' /\ ParkedExact' /\ WaitListExact'
    BY <1>1 DEF IInv, HandoffInFlight, ParkedExact, WaitListExact, Exit, waitVars
  <2> QED BY <2>1, <2>2 DEF IInv
<1>2. CASE ~(count - 1 > 0)
  <2>1. ReleaseLocked(pc) /\ pc \in [Thread -> Positions]
    BY <1>2 DEF Exit, IInv, TypeOK
  <2>2. /\ parked' \in Seq(Thread) /\ pc' \in [Thread -> Positions]
        /\ ParkedExact' /\ HandoffInFlight'
        /\ \A u \in Thread : pc'[u] = pc[u] \/ (pc[u] = "parked" /\ pc'[u] = "woken")
    BY <2>1, QueueAfterRelease
  <2>3. owner' = NoThread /\ count' = 0
    BY <2>1 DEF ReleaseLocked
  <2>4. /\ held[t] = count /\ count = 1
        /\ held' = [held EXCEPT ![t] = 0]
    <3>1. held[t] = count /\ count # 0 /\ count \in 0..MaxDepth
      BY DEF IInv, TypeOK, DepthAgreement, Exit
    <3>2. held' = [held EXCEPT ![t] = held[t] - 1]
      BY DEF Exit
    <3>3. count = 1
      BY <1>2, <3>1
    <3> QED BY <3>1, <3>2, <3>3
  <2>6. TypeOK'
    <3>1. held' \in [Thread -> 0..MaxDepth]
      BY <2>4 DEF IInv, TypeOK
    <3>2. UNCHANGED <<waits, outcome, timed, due>>
      BY DEF Exit, waitVars
    <3> QED BY <2>2, <2>3, <3>1, <3>2 DEF IInv, TypeOK
  <2>7. DepthAgreement'
    BY <2>2, <2>3, <2>4 DEF IInv, TypeOK, DepthAgreement, Exit
  <2>5. WaitListExact'
    BY <2>2 DEF IInv, WaitListExact, Exit, waitVars
  <2> QED BY <2>2, <2>5, <2>6, <2>7 DEF IInv
<1> QED BY <1>1, <1>2

LEMMA WaitIInv == ASSUME IInv, NEW t \in Thread, Wait(t) PROVE IInv'
<1> DEFINE at == [pc EXCEPT ![t] = "waiting"]
<1>1. /\ at \in [Thread -> Positions]
      /\ \A u \in Thread : at[u] = "parked" <=> pc[u] = "parked"
      /\ \A u \in Thread : at[u] = IF u = t THEN "waiting" ELSE pc[u]
      /\ ReleaseLocked(at)
  BY DEF Wait, IInv, TypeOK, Positions
<1> HIDE DEF at
<1>2. /\ parked' \in Seq(Thread) /\ pc' \in [Thread -> Positions]
      /\ ParkedExact' /\ HandoffInFlight'
      /\ \A u \in Thread : pc'[u] = at[u] \/ (pc[u] = "parked" /\ pc'[u] = "woken")
  BY <1>1, QueueAfterRelease
<1>3. owner' = NoThread /\ count' = 0
  BY <1>1 DEF ReleaseLocked
<1>4. /\ waits \in Seq(Thread) /\ IsInjective(waits) /\ ~Contains(waits, t)
  BY DEF IInv, TypeOK, WaitListExact, Wait
<1>5. /\ waits' \in Seq(Thread)
      /\ IsInjective(waits')
      /\ \A y : Contains(waits', y) <=> (Contains(waits, y) \/ y = t)
  BY <1>4, AppendFacts DEF Wait
<1>6. TypeOK'
  <2>1. count \in 1..MaxDepth
    BY DEF IInv, TypeOK, DepthAgreement, Wait
  <2>2. /\ due' \in [Thread -> 1..MaxDepth]
        /\ outcome' \in [Thread -> Outcomes]
        /\ timed' \in [Thread -> BOOLEAN]
        /\ held' \in [Thread -> 0..MaxDepth]
    BY <2>1 DEF IInv, TypeOK, Wait, Outcomes
  <2> QED BY <1>2, <1>3, <1>5, <2>2 DEF TypeOK
<1>7. DepthAgreement'
  BY <1>1, <1>2, <1>3 DEF IInv, TypeOK, DepthAgreement, Wait
<1>8. WaitListExact'
  BY <1>1, <1>2, <1>5 DEF IInv, TypeOK, WaitListExact, Wait
<1> QED BY <1>2, <1>6, <1>7, <1>8 DEF IInv

(* Deadline, Notify and InterruptWaiters decide one record and drop it.     *)
LEMMA DecideOneIInv ==
  ASSUME IInv, NEW t \in Thread, NEW why \in Outcomes \ {"stillWaiting"},
         outcome' = [outcome EXCEPT ![t] = why],
         waits' \in Seq(Thread), IsInjective(waits'),
         \A y : Contains(waits', y) <=> (Contains(waits, y) /\ y # t),
         UNCHANGED <<lockVars, pc, due, timed, held>>
  PROVE  IInv'
<1>1. TypeOK'
  BY DEF IInv, TypeOK, lockVars
<1>2. DepthAgreement' /\ HandoffInFlight' /\ ParkedExact'
  BY DEF IInv, DepthAgreement, HandoffInFlight, ParkedExact, lockVars
<1>3. WaitListExact'
  BY DEF IInv, TypeOK, WaitListExact
<1> QED BY <1>1, <1>2, <1>3 DEF IInv

LEMMA DeadlineIInv == ASSUME IInv, NEW t \in Thread, Deadline(t) PROVE IInv'
<1>1. /\ waits' \in Seq(Thread) /\ IsInjective(waits')
      /\ \A y : Contains(waits', y) <=> (Contains(waits, y) /\ y # t)
  BY RemoveFirstFacts DEF Deadline, IInv, TypeOK, WaitListExact
<1> QED BY <1>1, DecideOneIInv DEF Deadline, Outcomes

LEMMA InterruptWaitersIInv ==
  ASSUME IInv, NEW t \in Thread, InterruptWaiters(t) PROVE IInv'
<1>1. /\ waits' \in Seq(Thread) /\ IsInjective(waits')
      /\ \A y : Contains(waits', y) <=> (Contains(waits, y) /\ y # t)
  BY RemoveFirstFacts DEF InterruptWaiters, IInv, TypeOK, WaitListExact
<1> QED BY <1>1, DecideOneIInv DEF InterruptWaiters, Outcomes

LEMMA NotifyIInv == ASSUME IInv, NEW t \in Thread, Notify(t) PROVE IInv'
<1>1. PICK i \in 1..Len(waits) : /\ outcome' = [outcome EXCEPT ![waits[i]] = "gotNotify"]
                                 /\ waits' = RemoveAt(waits, i)
  BY DEF Notify
<1>2. /\ waits' \in Seq(Thread) /\ IsInjective(waits')
      /\ \A y : Contains(waits', y) <=> (Contains(waits, y) /\ y # waits[i])
  BY <1>1, RemoveAtFacts DEF IInv, TypeOK, WaitListExact
<1>3. waits[i] \in Thread
  BY ElementOfSeq DEF IInv, TypeOK
<1> QED BY <1>1, <1>2, <1>3, DecideOneIInv DEF Notify, Outcomes

LEMMA NotifyAllIInv == ASSUME IInv, NEW t \in Thread, NotifyAll(t) PROVE IInv'
<1>1. TypeOK'
  BY DEF IInv, TypeOK, NotifyAll, lockVars, Outcomes
<1>2. DepthAgreement' /\ HandoffInFlight' /\ ParkedExact'
  BY DEF IInv, DepthAgreement, HandoffInFlight, ParkedExact, NotifyAll, lockVars
<1>3. WaitListExact'
  <2>1. IsInjective(<<>>) /\ \A y : ~Contains(<<>>, y)
    BY DEF IsInjective, Contains
  <2>2. \A u \in Thread : ~(pc'[u] = "waiting" /\ outcome'[u] = "stillWaiting")
    BY DEF IInv, WaitListExact, NotifyAll
  <2> QED BY <2>1, <2>2 DEF WaitListExact, NotifyAll
<1> QED BY <1>1, <1>2, <1>3 DEF IInv

LEMMA RemoveWaitIInv == ASSUME IInv, NEW t \in Thread, RemoveWait(t) PROVE IInv'
<1>1. /\ waits' \in Seq(Thread) /\ IsInjective(waits')
      /\ \A y : Contains(waits', y) <=> (Contains(waits, y) /\ y # t)
  BY RemoveFirstFacts DEF RemoveWait, IInv, TypeOK, WaitListExact
<1>2. TypeOK'
  BY <1>1 DEF IInv, TypeOK, RemoveWait, lockVars, Positions
<1>3. DepthAgreement' /\ HandoffInFlight' /\ ParkedExact'
  BY DEF IInv, TypeOK, DepthAgreement, HandoffInFlight, ParkedExact, RemoveWait, lockVars
<1>4. WaitListExact'
  BY <1>1 DEF IInv, TypeOK, WaitListExact, RemoveWait
<1> QED BY <1>2, <1>3, <1>4 DEF IInv

LEMMA NextIInv == IInv /\ [Next]_vars => IInv'
<1> SUFFICES ASSUME IInv, [Next]_vars PROVE IInv'
  OBVIOUS
<1>1. ASSUME NEW t \in Thread, Enter(t) PROVE IInv'
  BY <1>1, EnterIInv
<1>2. ASSUME NEW t \in Thread, Retry(t) PROVE IInv'
  BY <1>2, ComeBackIInv DEF Retry
<1>3. ASSUME NEW t \in Thread, Reenter(t) PROVE IInv'
  BY <1>3, ComeBackIInv DEF Reenter
<1>4. ASSUME NEW t \in Thread, Exit(t) PROVE IInv'
  BY <1>4, ExitIInv
<1>5. ASSUME NEW t \in Thread, Wait(t) PROVE IInv'
  BY <1>5, WaitIInv
<1>6. ASSUME NEW t \in Thread, Deadline(t) PROVE IInv'
  BY <1>6, DeadlineIInv
<1>7. ASSUME NEW t \in Thread, RemoveWait(t) PROVE IInv'
  BY <1>7, RemoveWaitIInv
<1>8. ASSUME NEW t \in Thread, Notify(t) PROVE IInv'
  BY <1>8, NotifyIInv
<1>9. ASSUME NEW t \in Thread, NotifyAll(t) PROVE IInv'
  BY <1>9, NotifyAllIInv
<1>10. ASSUME NEW t \in Thread, InterruptWaiters(t) PROVE IInv'
  BY <1>10, InterruptWaitersIInv
<1>11. CASE UNCHANGED vars
  BY <1>11 DEF IInv, TypeOK, DepthAgreement, HandoffInFlight, WaitListExact,
               ParkedExact, vars
<1> QED BY <1>1, <1>2, <1>3, <1>4, <1>5, <1>6, <1>7, <1>8, <1>9, <1>10, <1>11 DEF Next

THEOREM InductiveInvariant == Spec => []IInv
<1>1. Init => IInv
  BY InitIInv
<1>2. IInv /\ [Next]_vars => IInv'
  BY NextIInv
<1> QED BY <1>1, <1>2, PTL DEF Spec

(* Types and bounds hold for every number of threads and every depth.       *)
THEOREM TypeCorrect == Spec => []TypeOK
BY InductiveInvariant, PTL DEF IInv

(* Mutual exclusion with exact depths: what a thread's code believes it     *)
(* holds is what the monitor records, across Enter, Exit, and every way a    *)
(* wait can end.                                                            *)
THEOREM DepthCorrect == Spec => []DepthAgreement
BY InductiveInvariant, PTL DEF IInv

(* No wake-up of a contender is lost, whatever barges in between.           *)
THEOREM HandoffCorrect == Spec => []HandoffInFlight
BY InductiveInvariant, PTL DEF IInv

(* A parked contender is recorded and a thread that is not parked is not:    *)
(* no wake-up is sent to a thread that has gone, and none is needed by one   *)
(* that nobody records.                                                      *)
THEOREM ParkedCorrect == Spec => []ParkedExact
BY InductiveInvariant, PTL DEF IInv

(* The wait list is exactly the set of undecided waiters.                   *)
THEOREM WaitListCorrect == Spec => []WaitListExact
BY InductiveInvariant, PTL DEF IInv

(***************************************************************************)
(* Monitor implements JavaMonitor: the queue, the channels and the walk of  *)
(* a woken waiter back to the lock are invisible to the Java program.       *)
(***************************************************************************)
(* What the program can see of one thread.                                  *)
LEMMA StatusOf ==
  /\ AbstractStatus = [t \in Thread |-> AbstractStatus[t]]
  /\ \A t \in Thread :
       /\ pc[t] = "idle" => AbstractStatus[t] = "idle"
       /\ (pc[t] = "waiting" /\ outcome[t] = "stillWaiting") => AbstractStatus[t] = "waiting"
       /\ (pc[t] # "idle" /\ ~(pc[t] = "waiting" /\ outcome[t] = "stillWaiting"))
            => AbstractStatus[t] = "blocked"
BY DEF AbstractStatus

LEMMA StatusOfPrime ==
  /\ AbstractStatus' = [t \in Thread |-> AbstractStatus'[t]]
  /\ \A t \in Thread :
       /\ pc'[t] = "idle" => AbstractStatus'[t] = "idle"
       /\ (pc'[t] = "waiting" /\ outcome'[t] = "stillWaiting") => AbstractStatus'[t] = "waiting"
       /\ (pc'[t] # "idle" /\ ~(pc'[t] = "waiting" /\ outcome'[t] = "stillWaiting"))
            => AbstractStatus'[t] = "blocked"
BY DEF AbstractStatus

(* Two pictures of all the threads are equal when they agree on each.       *)
LEMMA SameStatus ==
  ASSUME \A t \in Thread : AbstractStatus'[t] = AbstractStatus[t]
  PROVE  AbstractStatus' = AbstractStatus
BY StatusOf, StatusOfPrime

(* Only t's picture changes.                                                *)
LEMMA StatusExcept ==
  ASSUME NEW t \in Thread, NEW v,
         AbstractStatus'[t] = v,
         \A u \in Thread \ {t} : AbstractStatus'[u] = AbstractStatus[u]
  PROVE  AbstractStatus' = [AbstractStatus EXCEPT ![t] = v]
BY StatusOf, StatusOfPrime

LEMMA InitRefines == Init => Abstract!Init
BY DEF Init, Abstract!Init, AbstractStatus

LEMMA EnterRefines ==
  ASSUME IInv, NEW t \in Thread, Enter(t)
  PROVE  Abstract!Acquire(t) \/ Abstract!Nest(t) \/ Abstract!Block(t)
<1>1. /\ pc \in [Thread -> Positions] /\ pc[t] = "idle"
      /\ outcome' = outcome
      /\ due' = [due EXCEPT ![t] = 1]
      /\ AbstractStatus[t] = "idle"
  BY StatusOf DEF IInv, TypeOK, Enter, waitVars
<1>2. CASE owner = NoThread /\ owner' = t /\ count' = 1 /\ pc' = [pc EXCEPT ![t] = "idle"]
  <2>1. AbstractStatus' = AbstractStatus
    BY <1>1, <1>2, StatusOf, StatusOfPrime, SameStatus
  <2> QED BY <1>1, <1>2, <2>1 DEF Abstract!Acquire
<1>3. CASE /\ owner = t /\ count' = count + 1
           /\ pc' = [pc EXCEPT ![t] = "idle"] /\ UNCHANGED owner
  <2>1. AbstractStatus' = AbstractStatus
    BY <1>1, <1>3, StatusOf, StatusOfPrime, SameStatus
  <2> QED BY <1>1, <1>3, <2>1 DEF Abstract!Nest
<1>4. CASE /\ owner \notin {t, NoThread}
           /\ pc' = [pc EXCEPT ![t] = "parked"] /\ UNCHANGED <<owner, count>>
  <2>1. AbstractStatus'[t] = "blocked"
    BY <1>1, <1>4, StatusOfPrime
  <2>2. \A u \in Thread \ {t} : AbstractStatus'[u] = AbstractStatus[u]
    BY <1>1, <1>4 DEF AbstractStatus
  <2>3. AbstractStatus' = [AbstractStatus EXCEPT ![t] = "blocked"]
    BY <2>1, <2>2, StatusExcept
  <2> QED BY <1>1, <1>4, <2>3 DEF Abstract!Block
<1> QED BY <1>2, <1>3, <1>4 DEF Enter, TryAcquire

(* Retry and Reenter take the lock at the depth that is due, or go back to  *)
(* the queue unseen.                                                        *)
LEMMA ComeBackRefines ==
  ASSUME IInv, NEW t \in Thread, pc[t] \in {"woken", "reenter"},
         TryAcquire(t, due[t]), UNCHANGED <<waitVars, due, held>>
  PROVE  Abstract!Acquire(t) \/ UNCHANGED Abstract!vars
<1>1. /\ pc \in [Thread -> Positions]
      /\ outcome' = outcome /\ due' = due /\ owner # t
      /\ AbstractStatus[t] = "blocked"
  BY StatusOf DEF IInv, TypeOK, DepthAgreement, waitVars
<1>2. CASE owner = NoThread /\ owner' = t /\ count' = due[t] /\ pc' = [pc EXCEPT ![t] = "idle"]
  <2>1. AbstractStatus'[t] = "idle"
    BY <1>1, <1>2, StatusOfPrime
  <2>2. \A u \in Thread \ {t} : AbstractStatus'[u] = AbstractStatus[u]
    BY <1>1, <1>2 DEF AbstractStatus
  <2>3. AbstractStatus' = [AbstractStatus EXCEPT ![t] = "idle"]
    BY <2>1, <2>2, StatusExcept
  <2> QED BY <1>1, <1>2, <2>3 DEF Abstract!Acquire
<1>3. CASE pc' = [pc EXCEPT ![t] = "parked"] /\ UNCHANGED <<owner, count>>
  <2>1. AbstractStatus'[t] = "blocked"
    BY <1>1, <1>3, StatusOfPrime
  <2>2. \A u \in Thread \ {t} : AbstractStatus'[u] = AbstractStatus[u]
    BY <1>1, <1>3 DEF AbstractStatus
  <2>3. AbstractStatus' = AbstractStatus
    BY <1>1, <2>1, <2>2, SameStatus
  <2> QED BY <1>1, <1>3, <2>3 DEF Abstract!vars
<1> QED BY <1>1, <1>2, <1>3 DEF TryAcquire

LEMMA ExitRefines ==
  ASSUME IInv, NEW t \in Thread, Exit(t)
  PROVE  Abstract!Exit(t)
<1>1. /\ pc \in [Thread -> Positions] /\ pc[t] = "idle" /\ owner = t
      /\ outcome' = outcome /\ due' = due
      /\ count \in Nat \ {0}
      /\ AbstractStatus[t] = "idle"
  <2>1. count \in 0..MaxDepth /\ count # 0 /\ pc \in [Thread -> Positions]
    BY NoThreadAssumption DEF IInv, TypeOK, DepthAgreement, Exit
  <2>2. pc[t] = "idle" /\ owner = t /\ outcome' = outcome /\ due' = due
    BY DEF Exit, waitVars
  <2> QED BY <2>1, <2>2, StatusOf
<1>2. CASE count - 1 > 0
  <2>1. count' = count - 1 /\ UNCHANGED <<owner, pc>>
    BY <1>2 DEF Exit
  <2>2. AbstractStatus' = AbstractStatus
    BY <1>1, <2>1, SameStatus DEF AbstractStatus
  <2> QED BY <1>1, <1>2, <2>1, <2>2 DEF Abstract!Exit
<1>3. CASE ~(count - 1 > 0)
  <2>1. ReleaseLocked(pc)
    BY <1>3 DEF Exit
  <2>2. \A u \in Thread : pc'[u] = pc[u] \/ (pc[u] = "parked" /\ pc'[u] = "woken")
    BY <1>1, <2>1, QueueAfterRelease
  <2>3. \A u \in Thread : AbstractStatus'[u] = AbstractStatus[u]
    BY <1>1, <2>2 DEF AbstractStatus
  <2>4. AbstractStatus' = AbstractStatus
    BY <2>3, SameStatus
  <2>5. count = 1 /\ count' = count - 1 /\ owner' = NoThread
    BY <1>1, <1>3, <2>1 DEF ReleaseLocked
  <2> QED BY <1>1, <2>4, <2>5 DEF Abstract!Exit
<1> QED BY <1>2, <1>3

LEMMA WaitRefines ==
  ASSUME IInv, NEW t \in Thread, Wait(t)
  PROVE  Abstract!Wait(t)
<1> DEFINE at == [pc EXCEPT ![t] = "waiting"]
<1>1. /\ pc \in [Thread -> Positions] /\ pc[t] = "idle" /\ owner = t
      /\ outcome \in [Thread -> Outcomes]
      /\ outcome' = [outcome EXCEPT ![t] = "stillWaiting"]
      /\ due' = [due EXCEPT ![t] = count]
      /\ AbstractStatus[t] = "idle"
      /\ ReleaseLocked(at)
  BY StatusOf DEF IInv, TypeOK, Wait
<1>2. /\ at \in [Thread -> Positions]
      /\ \A u \in Thread : at[u] = IF u = t THEN "waiting" ELSE pc[u]
  BY <1>1 DEF Positions
<1> HIDE DEF at
<1>3. \A u \in Thread : at[u] = "parked" <=> pc[u] = "parked"
  BY <1>1, <1>2
<1>4. \A u \in Thread : pc'[u] = at[u] \/ (pc[u] = "parked" /\ pc'[u] = "woken")
  BY <1>1, <1>2, <1>3, QueueAfterRelease
<1>5. AbstractStatus'[t] = "waiting"
  BY <1>1, <1>2, <1>4, StatusOfPrime
<1>6. \A u \in Thread \ {t} : AbstractStatus'[u] = AbstractStatus[u]
  BY <1>1, <1>2, <1>4 DEF AbstractStatus
<1>7. AbstractStatus' = [AbstractStatus EXCEPT ![t] = "waiting"]
  BY <1>5, <1>6, StatusExcept
<1> QED BY <1>1, <1>7 DEF Abstract!Wait, ReleaseLocked

(* Deciding the records of a set of waiters is the abstract wake-up.        *)
LEMMA DecideRefines ==
  ASSUME IInv, NEW S \in SUBSET Thread, S # {}, NEW why \in Outcomes \ {"stillWaiting"},
         \A u \in S : pc[u] = "waiting" /\ outcome[u] = "stillWaiting",
         outcome' = [u \in Thread |-> IF u \in S THEN why ELSE outcome[u]],
         UNCHANGED <<lockVars, pc, due, timed, held>>
  PROVE  Abstract!Wake(S, why)
<1>1. S \subseteq Abstract!Waiters
  BY StatusOf DEF Abstract!Waiters
<1>2. \A u \in Thread : AbstractStatus'[u] = IF u \in S THEN "blocked" ELSE AbstractStatus[u]
  BY DEF AbstractStatus
<1>3. AbstractStatus' = [u \in Thread |-> IF u \in S THEN "blocked" ELSE AbstractStatus[u]]
  BY <1>2, StatusOfPrime
<1> QED BY <1>1, <1>3 DEF Abstract!Wake, lockVars

LEMMA DecideOneRefines ==
  ASSUME IInv, NEW t \in Thread, NEW why \in Outcomes \ {"stillWaiting"},
         pc[t] = "waiting", outcome[t] = "stillWaiting",
         outcome' = [u \in Thread |-> IF u \in {t} THEN why ELSE outcome[u]],
         UNCHANGED <<lockVars, pc, due, timed, held>>
  PROVE  Abstract!Wake({t}, why)
<1> DEFINE S == {t}
<1>1. /\ S \in SUBSET Thread /\ S # {}
      /\ \A u \in S : pc[u] = "waiting" /\ outcome[u] = "stillWaiting"
      /\ outcome' = [u \in Thread |-> IF u \in S THEN why ELSE outcome[u]]
  OBVIOUS
<1> HIDE DEF S
<1>2. Abstract!Wake(S, why)
  BY <1>1, DecideRefines
<1> QED BY <1>2 DEF S

LEMMA NotifyRefines ==
  ASSUME IInv, NEW t \in Thread, Notify(t)
  PROVE  Abstract!Notify(t)
<1>1. PICK i \in 1..Len(waits) : outcome' = [outcome EXCEPT ![waits[i]] = "gotNotify"]
  BY DEF Notify
<1>2. /\ waits[i] \in Thread
      /\ pc[waits[i]] = "waiting" /\ outcome[waits[i]] = "stillWaiting"
  BY ElementOfSeq DEF IInv, TypeOK, WaitListExact, Contains
<1>3. outcome' = [u \in Thread |-> IF u \in {waits[i]} THEN "gotNotify" ELSE outcome[u]]
  BY <1>1 DEF IInv, TypeOK
<1>4. UNCHANGED <<lockVars, pc, due, timed, held>>
  BY DEF Notify
<1>5. Abstract!Wake({waits[i]}, "gotNotify")
  BY <1>2, <1>3, <1>4, DecideOneRefines DEF Outcomes
<1>6. waits[i] \in Abstract!Waiters
  BY <1>2, StatusOf DEF Abstract!Waiters
<1>7. AbstractStatus[t] = "idle" /\ owner = t
  BY StatusOf DEF Notify
<1> QED BY <1>5, <1>6, <1>7 DEF Abstract!Notify

LEMMA NotifyAllRefines ==
  ASSUME IInv, NEW t \in Thread, NotifyAll(t)
  PROVE  Abstract!Notify(t)
<1> DEFINE W == {u \in Thread : pc[u] = "waiting" /\ outcome[u] = "stillWaiting"}
<1>1. W = Abstract!Waiters
  BY StatusOf DEF Abstract!Waiters
<1>2. \A u \in Thread : u \in W <=> (Contains(waits, u) /\ outcome[u] = "stillWaiting")
  BY DEF IInv, WaitListExact
<1>3. W # {}
  <2>1. waits \in Seq(Thread) /\ waits # <<>>
    BY DEF IInv, TypeOK, NotifyAll
  <2>2. 1 \in 1..Len(waits)
    BY <2>1, LenProperties, EmptySeq
  <2>3. waits[1] \in Thread /\ Contains(waits, waits[1])
    BY <2>1, <2>2, ElementOfSeq DEF Contains
  <2> QED BY <2>3 DEF IInv, WaitListExact
<1>4. outcome' = [u \in Thread |-> IF u \in W THEN "gotNotify" ELSE outcome[u]]
  BY <1>2 DEF NotifyAll
<1>5. UNCHANGED <<lockVars, pc, due, timed, held>>
  BY DEF NotifyAll
<1>6. Abstract!Wake(W, "gotNotify")
  BY <1>3, <1>4, <1>5, DecideRefines DEF Outcomes
<1>7. AbstractStatus[t] = "idle" /\ owner = t
  BY StatusOf DEF NotifyAll
<1> QED BY <1>1, <1>6, <1>7 DEF Abstract!Notify

LEMMA DeadlineRefines ==
  ASSUME IInv, NEW t \in Thread, Deadline(t)
  PROVE  Abstract!Wake({t}, "hitDeadline")
<1>1. outcome' = [u \in Thread |-> IF u \in {t} THEN "hitDeadline" ELSE outcome[u]]
  BY DEF Deadline, IInv, TypeOK
<1> QED BY <1>1, DecideOneRefines DEF Deadline, Outcomes

LEMMA InterruptWaitersRefines ==
  ASSUME IInv, NEW t \in Thread, InterruptWaiters(t)
  PROVE  Abstract!Wake({t}, "gotInterrupt")
<1>1. outcome' = [u \in Thread |-> IF u \in {t} THEN "gotInterrupt" ELSE outcome[u]]
  BY DEF InterruptWaiters, IInv, TypeOK
<1>2. pc[t] = "waiting"
  BY DEF InterruptWaiters, IInv, WaitListExact
<1> QED BY <1>1, <1>2, DecideOneRefines DEF InterruptWaiters, Outcomes

(* A decided waiter that leaves the loop was already out of the wait set.   *)
LEMMA RemoveWaitRefines ==
  ASSUME IInv, NEW t \in Thread, RemoveWait(t)
  PROVE  UNCHANGED Abstract!vars
<1>1. \A u \in Thread : AbstractStatus'[u] = AbstractStatus[u]
  BY DEF RemoveWait, AbstractStatus, IInv, TypeOK
<1>2. AbstractStatus' = AbstractStatus
  BY <1>1, SameStatus
<1> QED BY <1>2 DEF RemoveWait, lockVars, Abstract!vars

LEMMA StepRefines ==
  ASSUME IInv, [Next]_vars
  PROVE  [Abstract!Next]_(Abstract!vars)
<1>1. ASSUME NEW t \in Thread, Enter(t) PROVE Abstract!Next
  BY <1>1, EnterRefines DEF Abstract!Next
<1>2. ASSUME NEW t \in Thread, Retry(t) \/ Reenter(t)
      PROVE  [Abstract!Next]_(Abstract!vars)
  <2>1. Abstract!Acquire(t) \/ UNCHANGED Abstract!vars
    BY <1>2, ComeBackRefines DEF Retry, Reenter
  <2> QED BY <2>1 DEF Abstract!Next
<1>3. ASSUME NEW t \in Thread, Exit(t) PROVE Abstract!Next
  BY <1>3, ExitRefines DEF Abstract!Next
<1>4. ASSUME NEW t \in Thread, Wait(t) PROVE Abstract!Next
  BY <1>4, WaitRefines DEF Abstract!Next
<1>5. ASSUME NEW t \in Thread, Deadline(t) PROVE Abstract!Next
  BY <1>5, DeadlineRefines DEF Abstract!Next
<1>6. ASSUME NEW t \in Thread, RemoveWait(t) PROVE UNCHANGED Abstract!vars
  BY <1>6, RemoveWaitRefines
<1>7. ASSUME NEW t \in Thread, Notify(t) \/ NotifyAll(t) PROVE Abstract!Next
  BY <1>7, NotifyRefines, NotifyAllRefines DEF Abstract!Next
<1>8. ASSUME NEW t \in Thread, InterruptWaiters(t) PROVE Abstract!Next
  BY <1>8, InterruptWaitersRefines DEF Abstract!Next
<1>9. CASE UNCHANGED vars
  BY <1>9 DEF vars, Abstract!vars, AbstractStatus
<1> QED BY <1>1, <1>2, <1>3, <1>4, <1>5, <1>6, <1>7, <1>8, <1>9 DEF Next

(* Whatever the number of threads, every behaviour of the monitor is one of *)
(* the Java monitor.                                                        *)
THEOREM MonitorImplementsJavaMonitor == Spec => ImplementsJavaMonitor
<1>1. Init => Abstract!Init
  BY InitRefines
<1>2. IInv /\ [Next]_vars => [Abstract!Next]_(Abstract!vars)
  BY StepRefines
<1> QED BY <1>1, <1>2, InductiveInvariant, PTL
        DEF Spec, ImplementsJavaMonitor, Abstract!Spec

----
(* The queue of contenders, and what the lock's actions leave alone.        *)

Queue == /\ parked \in Seq(Thread)
         /\ pc \in [Thread -> Positions]
         /\ ParkedExact

LEMMA AcquireKeepsQueue ==
  ASSUME Queue, NEW t \in Thread, NEW d, TryAcquire(t, d), pc[t] \notin {"parked", "waiting"}
  PROVE  /\ Queue'
         /\ \A u \in Thread : pc'[u] = "waiting" <=> pc[u] = "waiting"
<1>1. /\ parked \in Seq(Thread) /\ pc \in [Thread -> Positions]
      /\ IsInjective(parked)
      /\ \A u \in Thread : Contains(parked, u) <=> pc[u] = "parked"
  BY DEF Queue, ParkedExact
<1>2. CASE UNCHANGED parked /\ pc' = [pc EXCEPT ![t] = "idle"]
  BY <1>1, <1>2 DEF Queue, ParkedExact, Positions
<1>3. CASE /\ parked' = Append(parked, t)
           /\ pc' = [pc EXCEPT ![t] = "parked"]
  <2>1. /\ Append(parked, t) \in Seq(Thread)
        /\ IsInjective(Append(parked, t))
        /\ \A y : Contains(Append(parked, t), y) <=> (Contains(parked, y) \/ y = t)
    BY <1>1, AppendFacts
  <2> QED BY <1>1, <1>3, <2>1 DEF Queue, ParkedExact, Positions
<1> QED BY <1>2, <1>3 DEF TryAcquire

LEMMA ReleaseKeepsQueue ==
  ASSUME Queue, NEW at \in [Thread -> Positions],
         \A u \in Thread : at[u] = "parked" <=> pc[u] = "parked",
         ReleaseLocked(at)
  PROVE  /\ Queue'
         /\ \A u \in Thread : pc'[u] = "waiting" <=> at[u] = "waiting"
<1>1. /\ parked \in Seq(Thread)
      /\ IsInjective(parked)
      /\ \A u \in Thread : Contains(parked, u) <=> at[u] = "parked"
  BY DEF Queue, ParkedExact
<1>2. CASE parked = <<>>
  BY <1>1, <1>2 DEF ReleaseLocked, Queue, ParkedExact
<1>3. CASE parked # <<>>
  <2>1. /\ Tail(parked) \in Seq(Thread)
        /\ Head(parked) \in Thread
        /\ Contains(parked, Head(parked))
        /\ IsInjective(Tail(parked))
        /\ \A y : Contains(Tail(parked), y) <=> (Contains(parked, y) /\ y # Head(parked))
    BY <1>1, <1>3, TailFacts
  <2>2. parked' = Tail(parked) /\ pc' = [at EXCEPT ![Head(parked)] = "woken"]
    BY <1>3 DEF ReleaseLocked
  <2> QED BY <1>1, <2>1, <2>2 DEF Queue, ParkedExact, Positions
<1> QED BY <1>2, <1>3

----
(* The inductive invariant.                                                 *)

RegTypes == /\ waits \in Seq(Thread)
            /\ outcome \in [Thread -> Outcomes]
            /\ published \subseteq Thread
            /\ closed \in [Thread -> BOOLEAN]
            /\ step \in [Thread -> Steps]
            /\ target \in [Thread -> Thread \cup {NoThread}]

\* The native's position tells where the monitor has the thread.
Staged == \A t \in Thread :
            pc[t] = "waiting" <=> step[t] \in {"publish", "loop", "asleep", "dlStore"}

\* Wait returns with a reason.
Decided == \A t \in Thread : step[t] = "return" => outcome[t] # "stillWaiting"

\* An interrupter between its look and its close has the registry, in which the
\* record stays meanwhile.
Deciding == \A u \in Thread :
  /\ step[u] \in {"iStore", "iClose"} => rmu = u /\ target[u] \in published
  /\ step[u] = "iClose" => outcome[target[u]] # "stillWaiting"

RInv == /\ Queue
        /\ RegTypes
        /\ Staged
        /\ Decided
        /\ Deciding
        /\ NoStaleRecord
        /\ WakeComing
        /\ WaitListSound

LEMMA InitRInv == InitI => RInv
<1> SUFFICES ASSUME InitI PROVE RInv
  OBVIOUS
<1>1. Queue
  BY DEF InitI, Init, Queue, ParkedExact, Positions, Contains, IsInjective
<1>2. RegTypes
  BY DEF InitI, Init, RegTypes, Outcomes, Steps
<1>3. Staged /\ Decided /\ Deciding /\ NoStaleRecord /\ WakeComing
  BY DEF InitI, Init, Staged, Decided, Deciding, NoStaleRecord, WakeComing
<1>4. WaitListSound
  BY DEF InitI, Init, WaitListSound, IsInjective
<1> QED BY <1>1, <1>2, <1>3, <1>4 DEF RInv

\* Taking or leaving the lock disturbs nothing of a wait.
LEMMA LockStepKeeps ==
  ASSUME RInv, Queue', UNCHANGED <<waitVars, regVars>>,
         \A u \in Thread : pc'[u] = "waiting" <=> pc[u] = "waiting"
  PROVE  RInv'
<1> USE DEF RInv, waitVars, regVars
<1>1. RegTypes'
  BY DEF RegTypes
<1>2. Staged' /\ Decided' /\ Deciding' /\ NoStaleRecord' /\ WakeComing'
  BY DEF Staged, Decided, Deciding, NoStaleRecord, WakeComing
<1>3. WaitListSound'
  <2>1. \A i \in 1..Len(waits) : waits[i] \in Thread
    BY DEF RegTypes
  <2> QED BY <2>1 DEF WaitListSound
<1> QED BY <1>1, <1>2, <1>3

\* A step of the native or the registry that leaves the monitor, the outcomes
\* and the channels alone.
LEMMA RegistryStepKeeps ==
  ASSUME RInv, UNCHANGED <<vars, closed>>,
         RegTypes', Staged', Decided', Deciding', NoStaleRecord', WakeComing'
  PROVE  RInv'
<1>1. Queue' /\ WaitListSound'
  BY DEF RInv, vars, Queue, ParkedExact, WaitListSound
<1> QED BY <1>1 DEF RInv

LEMMA LockIRInv ==
  ASSUME RInv, NEW t \in Thread, EnterI(t) \/ RetryI(t) \/ ExitI(t) \/ ReenterI(t)
  PROVE  RInv'
<1>1. UNCHANGED <<waitVars, regVars>>
  BY DEF EnterI, RetryI, ExitI, ReenterI, Enter, Retry, Exit, Reenter
<1>2. Queue /\ pc \in [Thread -> Positions]
  BY DEF RInv, Queue
<1>3. CASE EnterI(t) \/ RetryI(t) \/ ReenterI(t)
  <2>1. \E d : TryAcquire(t, d)
    BY <1>3 DEF EnterI, RetryI, ReenterI, Enter, Retry, Reenter
  <2>2. pc[t] \notin {"parked", "waiting"}
    BY <1>3 DEF EnterI, RetryI, ReenterI, Enter, Retry, Reenter
  <2> QED BY <1>1, <1>2, <2>1, <2>2, AcquireKeepsQueue, LockStepKeeps
<1>4. CASE ExitI(t)
  <2>1. CASE UNCHANGED <<parked, pc>>
    BY <1>1, <1>2, <2>1, LockStepKeeps DEF Queue, ParkedExact
  <2>2. CASE ReleaseLocked(pc)
    BY <1>1, <1>2, <2>2, ReleaseKeepsQueue, LockStepKeeps
  <2> QED BY <1>4, <2>1, <2>2 DEF ExitI, Exit
<1> QED BY <1>3, <1>4

\* The steps of the native, of a notifier's scan and of an interrupter's scan.
LEMMA WalkRInv ==
  ASSUME RInv, NEW t \in Thread,
         \/ Interrupted(t) \/ NativeWait(t) \/ PublishWait(t) \/ Block(t)
         \/ DeadlineI(t) \/ RetractWait(t) \/ NotifyScan(t)
         \/ \E k \in Thread : Interrupt(t, k)
         \/ InterruptScan(t)
         \/ NotifyAllScan(t) /\ Pick(t, "allStore") /\ UNCHANGED vars
  PROVE  RInv'
<1>1. UNCHANGED <<vars, closed>>
  BY DEF Interrupted, NativeWait, PublishWait, Block, DeadlineI, RetractWait, NotifyScan,
         Interrupt, InterruptScan, NotifyAllScan
<1>2. UNCHANGED <<pc, outcome>>
  BY <1>1 DEF vars
<1>3. RegTypes'
  BY <1>1
  DEF RInv, RegTypes, vars, Interrupted, NativeWait, PublishWait, Block, DeadlineI, RetractWait,
      NotifyScan, Interrupt, InterruptScan, NotifyAllScan, Pick, Goto, Forget, Steps,
      WaitSteps, NotifySteps, InterruptSteps
<1>4. Staged'
  BY <1>2
  DEF RInv, RegTypes, Staged, Interrupted, NativeWait, PublishWait, Block, DeadlineI, RetractWait,
      NotifyScan, Interrupt, InterruptScan, NotifyAllScan, Pick, Goto, Forget, Idle
<1>5. Decided'
  BY <1>2
  DEF RInv, RegTypes, Decided, Interrupted, NativeWait, PublishWait, Block, DeadlineI, RetractWait,
      NotifyScan, Interrupt, InterruptScan, NotifyAllScan, Pick, Goto, Forget, Idle
<1>6. Deciding'
  BY <1>2, NoThreadAssumption
  DEF RInv, RegTypes, Deciding, Interrupted, NativeWait, PublishWait, Block, DeadlineI, RetractWait,
      NotifyScan, Interrupt, InterruptScan, NotifyAllScan, Pick, Goto, Forget, Idle
<1>7. NoStaleRecord'
  BY <1>2
  DEF RInv, RegTypes, NoStaleRecord, Interrupted, NativeWait, PublishWait, Block, DeadlineI,
      RetractWait, NotifyScan, Interrupt, InterruptScan, NotifyAllScan, Pick, Goto, Forget, Idle,
      WaitSteps
<1>8. WakeComing'
  BY <1>1, <1>2
  DEF RInv, RegTypes, WakeComing, Interrupted, NativeWait, PublishWait, Block, DeadlineI,
      RetractWait, NotifyScan, Interrupt, InterruptScan, NotifyAllScan, Pick, Goto, Forget, Idle
<1> QED BY <1>1, <1>3, <1>4, <1>5, <1>6, <1>7, <1>8, RegistryStepKeeps

LEMMA BeginWaitRInv == ASSUME RInv, NEW t \in Thread, BeginWait(t) PROVE RInv'
<1> USE DEF RInv
<1>1. CASE UNCHANGED <<vars, closed>> /\ Goto(t, "unownedWait")
  <2>1. UNCHANGED <<pc, outcome, published, rmu, target>> /\ step[t] = "cleared"
    BY <1>1 DEF BeginWait, vars
  <2>2. RegTypes' /\ Staged' /\ Decided' /\ Deciding' /\ NoStaleRecord' /\ WakeComing'
    BY <1>1, <2>1 DEF RegTypes, Staged, Decided, Deciding, NoStaleRecord, WakeComing, Goto,
                      vars, Steps, Panics, WaitSteps
  <2> QED BY <1>1, <2>2, RegistryStepKeeps
<1>2. CASE Wait(t) /\ Goto(t, "publish") /\ closed' = [closed EXCEPT ![t] = FALSE]
  <2>1. /\ pc \in [Thread -> Positions] /\ pc[t] = "idle"
        /\ step[t] = "cleared"
        /\ step' = [step EXCEPT ![t] = "publish"]
        /\ closed' = [closed EXCEPT ![t] = FALSE]
        /\ outcome' = [outcome EXCEPT ![t] = "stillWaiting"]
        /\ waits' = Append(waits, t)
        /\ UNCHANGED <<rmu, published, target>>
    BY <1>2 DEF BeginWait, Wait, Goto, Queue
  <2>2. /\ Queue'
        /\ \A u \in Thread : pc'[u] = "waiting" <=> (pc[u] = "waiting" \/ u = t)
    <3> DEFINE at == [pc EXCEPT ![t] = "waiting"]
    <3>1. /\ at \in [Thread -> Positions]
          /\ \A u \in Thread : at[u] = "parked" <=> pc[u] = "parked"
          /\ \A u \in Thread : at[u] = "waiting" <=> (pc[u] = "waiting" \/ u = t)
      BY <2>1 DEF Positions
    <3>2. ReleaseLocked(at)
      BY <1>2 DEF Wait
    <3> HIDE DEF at
    <3> QED BY <3>1, <3>2, ReleaseKeepsQueue
  <2>3. t \notin published
    BY <2>1 DEF NoStaleRecord
  <2>4. ~Contains(waits, t)
    BY <2>1 DEF WaitListSound, Contains, RegTypes
  <2>5. /\ Append(waits, t) \in Seq(Thread)
        /\ IsInjective(Append(waits, t))
        /\ \A y : Contains(Append(waits, t), y) <=> (Contains(waits, y) \/ y = t)
    BY <2>4, AppendFacts DEF WaitListSound, RegTypes
  <2>6. RegTypes'
    BY <2>1, <2>5 DEF RegTypes, Outcomes, Steps, WaitSteps
  <2>7. Staged' /\ Decided'
    BY <2>1, <2>2 DEF RegTypes, Staged, Decided
  <2>8. Deciding'
    BY <2>1, <2>3, NoThreadAssumption DEF RegTypes, Deciding
  <2>9. NoStaleRecord' /\ WakeComing'
    BY <2>1, <2>3 DEF RegTypes, NoStaleRecord, WakeComing
  <2>10. WaitListSound'
    <3>1. \A i \in 1..Len(waits') : waits'[i] \in Thread /\ Contains(waits', waits'[i])
      BY <2>1, <2>5 DEF Contains
    <3>2. \A y \in Thread : Contains(waits, y) => pc[y] = "waiting"
      BY DEF WaitListSound, Contains
    <3> QED BY <2>1, <2>2, <2>5, <3>1, <3>2 DEF RegTypes, WaitListSound
  <2> QED BY <2>2, <2>6, <2>7, <2>8, <2>9, <2>10
<1> QED BY <1>1, <1>2 DEF BeginWait

\* Dropping the first record of x from a sound list leaves the records of the
\* others in it.
LEMMA DropFacts ==
  ASSUME RegTypes, WaitListSound, NEW x
  PROVE  /\ RemoveFirst(waits, x) \in Seq(Thread)
         /\ IsInjective(RemoveFirst(waits, x))
         /\ \A i \in 1..Len(RemoveFirst(waits, x)) :
              /\ RemoveFirst(waits, x)[i] \in Thread
              /\ RemoveFirst(waits, x)[i] # x
              /\ pc[RemoveFirst(waits, x)[i]] = "waiting"
         /\ \A u \in Thread : pc[u] = "waiting" /\ outcome[u] = "stillWaiting" /\ u # x
                                => Contains(RemoveFirst(waits, x), u)
<1> DEFINE r == RemoveFirst(waits, x)
<1>1. /\ r \in Seq(Thread)
      /\ IsInjective(r)
      /\ \A y : Contains(r, y) <=> (Contains(waits, y) /\ y # x)
  BY RemoveFirstFacts DEF RegTypes, WaitListSound
<1> HIDE DEF r
<1>2. \A i \in 1..Len(r) : r[i] \in Thread /\ Contains(r, r[i])
  BY <1>1 DEF Contains
<1>3. \A y \in Thread : Contains(waits, y) => pc[y] = "waiting"
  BY DEF WaitListSound, Contains
<1> QED BY <1>1, <1>2, <1>3 DEF r, WaitListSound

\* The waiter's own removal of its record, at the deadline and on the way out.
LEMMA OwnRemovalRInv ==
  ASSUME RInv, NEW t \in Thread, DeadlineStore(t) \/ LeaveLoop(t)
  PROVE  RInv'
<1> USE DEF RInv
<1>1. /\ waits' = RemoveFirst(waits, t)
      /\ UNCHANGED <<lockVars, rmu, published, closed, target>>
  BY DEF DeadlineStore, LeaveLoop, RemoveWait
<1>2. \/ /\ step[t] = "dlStore" /\ step' = [step EXCEPT ![t] = "loop"]
         /\ outcome' = [outcome EXCEPT ![t] = "hitDeadline"]
         /\ UNCHANGED pc
      \/ /\ step[t] \in {"loop", "asleep"} /\ step' = [step EXCEPT ![t] = "return"]
         /\ outcome[t] # "stillWaiting" /\ UNCHANGED outcome
         /\ pc[t] = "waiting" /\ pc' = [pc EXCEPT ![t] = "reenter"]
  BY DEF DeadlineStore, LeaveLoop, RemoveWait, Goto
<1>3. Queue'
  BY <1>1, <1>2 DEF Queue, ParkedExact, lockVars, Positions
<1>4. RegTypes'
  <2>1. step' \in [Thread -> Steps]
    BY <1>2 DEF RegTypes, Steps, WaitSteps
  <2>2. outcome' \in [Thread -> Outcomes]
    BY <1>2 DEF RegTypes, Outcomes
  <2>3. waits' \in Seq(Thread)
    BY <1>1, DropFacts
  <2> QED BY <1>1, <2>1, <2>2, <2>3 DEF RegTypes
<1>5. Staged' /\ Decided'
  BY <1>2 DEF Queue, RegTypes, Staged, Decided
<1>6. Deciding'
  BY <1>1, <1>2, NoThreadAssumption DEF RegTypes, Deciding
<1>7. NoStaleRecord' /\ WakeComing'
  BY <1>1, <1>2 DEF RegTypes, NoStaleRecord, WakeComing, WaitSteps
<1>8. WaitListSound'
  <2> DEFINE r == RemoveFirst(waits, t)
  <2>1. /\ IsInjective(r)
        /\ \A i \in 1..Len(r) : r[i] \in Thread /\ r[i] # t /\ pc[r[i]] = "waiting"
        /\ \A u \in Thread : pc[u] = "waiting" /\ outcome[u] = "stillWaiting" /\ u # t
                               => Contains(r, u)
    BY DropFacts
  <2>2. \A u \in Thread \ {t} : pc'[u] = pc[u] /\ outcome'[u] = outcome[u]
    BY <1>2 DEF Queue, RegTypes
  <2>3. ~(pc'[t] = "waiting" /\ outcome'[t] = "stillWaiting")
    BY <1>2 DEF Queue, RegTypes
  <2>4. waits' = r
    BY <1>1
  <2> HIDE DEF r
  <2>5. \A i \in 1..Len(r) : pc'[r[i]] = "waiting"
    BY <2>1, <2>2
  <2>6. \A u \in Thread : pc'[u] = "waiting" /\ outcome'[u] = "stillWaiting" => Contains(r, u)
    BY <2>1, <2>2, <2>3
  <2> QED BY <2>1, <2>4, <2>5, <2>6 DEF WaitListSound
<1> QED BY <1>3, <1>4, <1>5, <1>6, <1>7, <1>8

\* A notifier or interrupter decides the record it picked.
LEMMA StoreRInv ==
  ASSUME RInv, NEW t \in Thread, NotifyStore(t) \/ NotifyAllStore(t) \/ InterruptStore(t)
  PROVE  RInv'
<1> USE DEF RInv
<1>1. /\ UNCHANGED <<lockVars, pc, rmu, published, closed, target>>
      /\ waits' = waits \/ waits' = RemoveFirst(waits, target[t])
      /\ \E o \in {"gotNotify", "gotInterrupt"} : outcome' = [outcome EXCEPT ![target[t]] = o]
      /\ \/ step[t] = "nStore" /\ step' = [step EXCEPT ![t] = "nClose"]
         \/ step[t] = "allStore" /\ step' = [step EXCEPT ![t] = "allClose"]
         \/ step[t] = "iStore" /\ step' = [step EXCEPT ![t] = "iClose"]
  BY DEF NotifyStore, NotifyAllStore, InterruptStore, Goto
<1>2. \A u \in Thread : outcome'[u] = outcome[u] \/ (u = target[t] /\ outcome'[u] # "stillWaiting")
  BY <1>1 DEF RegTypes
<1>3. target[t] \in Thread => outcome'[target[t]] # "stillWaiting"
  BY <1>1 DEF RegTypes
<1>4. Queue'
  BY <1>1 DEF Queue, ParkedExact, lockVars
<1>5. RegTypes'
  <2>1. step' \in [Thread -> Steps]
    BY <1>1 DEF RegTypes, Steps, NotifySteps, InterruptSteps
  <2>2. waits' \in Seq(Thread)
    BY <1>1, DropFacts DEF RegTypes
  <2>3. outcome' \in [Thread -> Outcomes]
    BY <1>1 DEF RegTypes, Outcomes
  <2> QED BY <1>1, <2>1, <2>2, <2>3 DEF RegTypes
<1>6. Staged' /\ Decided'
  BY <1>1, <1>2 DEF RegTypes, Staged, Decided
<1>7. Deciding'
  BY <1>1, <1>2, <1>3 DEF RegTypes, Deciding
<1>8. NoStaleRecord'
  BY <1>1 DEF RegTypes, NoStaleRecord, WaitSteps
<1>9. WakeComing'
  BY <1>1, <1>2 DEF RegTypes, WakeComing
<1>10. WaitListSound'
  <2>1. \A i \in 1..Len(waits) : waits[i] \in Thread
    BY DEF RegTypes
  <2>2. CASE waits' = waits
    BY <1>1, <1>2, <2>1, <2>2 DEF WaitListSound
  <2>3. CASE waits' = RemoveFirst(waits, target[t])
    <3> DEFINE r == RemoveFirst(waits, target[t])
    <3>1. /\ IsInjective(r)
          /\ \A i \in 1..Len(r) : pc[r[i]] = "waiting"
          /\ \A u \in Thread : /\ pc[u] = "waiting" /\ outcome[u] = "stillWaiting"
                                /\ u # target[t]
                                => Contains(r, u)
      BY DropFacts
    <3>2. pc' = pc /\ waits' = r
      BY <1>1, <2>3
    <3>3. \A u \in Thread : outcome'[u] = "stillWaiting"
                               => u # target[t] /\ outcome[u] = "stillWaiting"
      BY <1>2, <1>3
    <3> HIDE DEF r
    <3> QED BY <3>1, <3>2, <3>3 DEF WaitListSound
  <2> QED BY <1>1, <2>2, <2>3
<1> QED BY <1>4, <1>5, <1>6, <1>7, <1>8, <1>9, <1>10

\* ... and closes its channel, or panics.
LEMMA CloseRInv ==
  ASSUME RInv, NEW t \in Thread, NotifyClose(t) \/ NotifyAllClose(t) \/ InterruptClose(t)
  PROVE  RInv'
<1> USE DEF RInv
<1>1. /\ UNCHANGED vars
      /\ target' = [target EXCEPT ![t] = NoThread]
      /\ step[t] \in {"nClose", "allClose", "iClose"}
      /\ \E s \in {"closedTwice", "none", "allScan"} : step' = [step EXCEPT ![t] = s]
      /\ \/ closed[target[t]] /\ UNCHANGED closed
         \/ closed' = [closed EXCEPT ![target[t]] = TRUE]
      /\ \/ UNCHANGED <<rmu, published>>
         \/ step[t] = "iClose" /\ rmu' = NoThread /\ published' = published \ {target[t]}
  BY DEF NotifyClose, NotifyAllClose, InterruptClose, Goto, Forget
<1>2. UNCHANGED <<pc, outcome, waits, parked>>
  BY <1>1 DEF vars
<1>3. Queue' /\ WaitListSound'
  BY <1>2 DEF Queue, ParkedExact, WaitListSound
<1>4. RegTypes'
  <2>1. step' \in [Thread -> Steps]
    BY <1>1 DEF RegTypes, Steps, NotifySteps, Panics
  <2>2. closed' \in [Thread -> BOOLEAN]
    BY <1>1 DEF RegTypes
  <2>3. target' \in [Thread -> Thread \cup {NoThread}]
    BY <1>1 DEF RegTypes
  <2> QED BY <1>1, <1>2, <2>1, <2>2, <2>3 DEF RegTypes
<1>5. Staged' /\ Decided'
  BY <1>1, <1>2 DEF RegTypes, Staged, Decided
<1>6. Deciding'
  BY <1>1, <1>2, NoThreadAssumption DEF RegTypes, Deciding
<1>7. NoStaleRecord'
  BY <1>1 DEF RegTypes, NoStaleRecord, WaitSteps
<1>8. WakeComing'
  BY <1>1, <1>2 DEF RegTypes, WakeComing
<1> QED BY <1>3, <1>4, <1>5, <1>6, <1>7, <1>8

\* NotifyAll has come through: nobody in the list still waits.
LEMMA ClearRInv ==
  ASSUME RInv, NEW t \in Thread, NotifyAllScan(t), ~UNCHANGED vars
  PROVE  RInv'
<1> USE DEF RInv
<1>1. /\ \A i \in 1..Len(waits) : outcome[waits[i]] # "stillWaiting"
      /\ waits' = <<>>
      /\ step[t] \in {"none", "allScan"}
      /\ step' = [step EXCEPT ![t] = "none"]
      /\ UNCHANGED <<lockVars, outcome, pc, target, rmu, published, closed>>
  BY DEF NotifyAllScan, Idle, Goto
<1>2. Queue'
  BY <1>1 DEF Queue, ParkedExact, lockVars
<1>3. RegTypes' /\ Staged' /\ Decided' /\ Deciding' /\ NoStaleRecord' /\ WakeComing'
  BY <1>1 DEF RegTypes, Staged, Decided, Deciding, NoStaleRecord, WakeComing, Steps, WaitSteps
<1>4. WaitListSound'
  <2>1. \A u \in Thread : ~(pc[u] = "waiting" /\ outcome[u] = "stillWaiting")
    BY <1>1 DEF WaitListSound, Contains
  <2> QED BY <1>1, <2>1 DEF WaitListSound, IsInjective
<1> QED BY <1>2, <1>3, <1>4

LEMMA NextRInv == RInv /\ [NextI]_allVars => RInv'
<1> SUFFICES ASSUME RInv, [NextI]_allVars PROVE RInv'
  OBVIOUS
<1>1. CASE UNCHANGED allVars
  <2>1. UNCHANGED <<vars, regVars>>
    BY <1>1 DEF allVars
  <2>2. Queue' /\ UNCHANGED waitVars /\ UNCHANGED pc
    BY <2>1 DEF vars, RInv, Queue, ParkedExact, waitVars
  <2> QED BY <2>1, <2>2, LockStepKeeps
<1>2. ASSUME NEW t \in Thread, NotifyAllScan(t)
      PROVE  RInv'
  <2>1. CASE ~UNCHANGED vars
    BY <1>2, <2>1, ClearRInv
  <2>2. CASE UNCHANGED vars /\ Pick(t, "allStore")
    BY <1>2, <2>2, WalkRInv
  <2>3. CASE UNCHANGED vars /\ ~Pick(t, "allStore")
    <3>1. /\ step[t] \in {"none", "allScan"}
          /\ step' = [step EXCEPT ![t] = "none"]
          /\ UNCHANGED <<target, rmu, published, closed>>
      BY <1>2, <2>3 DEF NotifyAllScan, Idle, Goto
    <3>2. UNCHANGED <<pc, outcome, waits>>
      BY <2>3 DEF vars
    <3>3. RegTypes' /\ Staged' /\ Decided' /\ Deciding' /\ NoStaleRecord' /\ WakeComing'
      BY <3>1, <3>2 DEF RInv, RegTypes, Staged, Decided, Deciding, NoStaleRecord, WakeComing,
                        Steps, WaitSteps
    <3> QED BY <2>3, <3>1, <3>3, RegistryStepKeeps
  <2> QED BY <2>1, <2>2, <2>3
<1> QED
  BY <1>1, <1>2, LockIRInv, WalkRInv, BeginWaitRInv, OwnRemovalRInv, StoreRInv, CloseRInv
  DEF NextI

THEOREM RaceInvariant == SpecI => []RInv
BY InitRInv, NextRInv, PTL DEF SpecI

\* The record of a wait that returned can be decided or closed by no interrupt
\* (publishWait, retractWait, Interrupt).
THEOREM RegistryCorrect == SpecI => []NoStaleRecord
<1>1. RInv => NoStaleRecord
  BY DEF RInv
<1> QED BY <1>1, RaceInvariant, PTL

\* Between the store of an outcome and the close of its channel somebody is on
\* the way to the close, whichever of notify, deadline and interrupt was first.
THEOREM WakeCorrect == SpecI => []WakeComing
<1>1. RInv => WakeComing
  BY DEF RInv
<1> QED BY <1>1, RaceInvariant, PTL

\* Interrupts leave decided records in the wait list, and yet notify finds
\* every undecided waiter in it, once (removeWaitLocked, Notify, NotifyAll).
THEOREM RacedListCorrect == SpecI => []WaitListSound
<1>1. RInv => WaitListSound
  BY DEF RInv
<1> QED BY <1>1, RaceInvariant, PTL

\* The registry forgets no waiter that still sleeps (Interrupt, retractWait).
THEOREM ForgetsNobody == SpecI => InterruptDecides
<1> DEFINE Kept == \A t \in Thread : (t \in published /\ t \notin published')
                                        => outcome'[t] # "stillWaiting"
<1>1. RInv /\ [NextI]_allVars => [Kept]_allVars
  <2> SUFFICES ASSUME RInv, NextI, NEW t \in Thread, t \in published, t \notin published'
               PROVE  outcome'[t] # "stillWaiting"
    OBVIOUS
  <2>1. PICK u \in Thread : RetractWait(u) \/ InterruptScan(u) \/ InterruptClose(u)
    BY DEF NextI, EnterI, RetryI, ExitI, ReenterI, Interrupted, NativeWait, BeginWait,
           PublishWait, Block, DeadlineI, DeadlineStore, LeaveLoop, NotifyScan, NotifyStore,
           NotifyClose, NotifyAllScan, NotifyAllStore, NotifyAllClose, Interrupt,
           InterruptStore, regVars
  <2>2. UNCHANGED outcome
    BY <2>1 DEF RetractWait, InterruptScan, InterruptClose, vars
  <2>3. CASE RetractWait(u)
    BY <2>2, <2>3 DEF RetractWait, RInv, Decided
  <2>4. CASE InterruptScan(u)
    BY <2>2, <2>4 DEF InterruptScan
  <2>5. CASE InterruptClose(u)
    BY <2>2, <2>5 DEF InterruptClose, RInv, Deciding
  <2> QED BY <2>1, <2>3, <2>4, <2>5
<1> QED BY <1>1, RaceInvariant, PTL DEF SpecI, InterruptDecides

----
(* m.mu from the look at an outcome to its store.                           *)

\* Who is between the look and the store, or the close, has the monitor's mutex;
\* what it looked at is still undecided, or decided by an interrupt meanwhile.
HoldsMu == \A u \in Thread :
  /\ step[u] \in {"dlStore"} \cup NotifySteps => mu = u
  /\ step[u] = "dlStore" => outcome[u] \in {"stillWaiting", "gotInterrupt"}
  /\ step[u] \in {"nStore", "allStore"} =>
       target[u] \in Thread /\ outcome[target[u]] \in {"stillWaiting", "gotInterrupt"}

\* Nobody's outcome is stored: the steps move their own thread only.
LEMMA LookKeepsMu ==
  ASSUME RInv, HoldsMu, NEW t \in Thread,
         \/ EnterI(t) \/ RetryI(t) \/ ExitI(t) \/ ReenterI(t) \/ Interrupted(t)
         \/ NativeWait(t) \/ PublishWait(t) \/ Block(t) \/ DeadlineI(t)
         \/ LeaveLoop(t) \/ RetractWait(t) \/ (\E k \in Thread : Interrupt(t, k))
         \/ InterruptScan(t) \/ InterruptClose(t) \/ NotifyClose(t) \/ NotifyAllClose(t)
  PROVE  HoldsMu' /\ UNCHANGED outcome
<1>1. UNCHANGED outcome
  BY DEF EnterI, RetryI, ExitI, ReenterI, Interrupted, NativeWait, PublishWait, Block,
         DeadlineI, LeaveLoop, RetractWait, Interrupt, InterruptScan, InterruptClose,
         NotifyClose, NotifyAllClose, vars, waitVars, Enter, Retry, Exit, Reenter, RemoveWait
<1>2. CASE EnterI(t) \/ RetryI(t) \/ ExitI(t) \/ ReenterI(t)
  BY <1>1, <1>2 DEF HoldsMu, EnterI, RetryI, ExitI, ReenterI, regVars
<1>3. CASE \/ Interrupted(t) \/ NativeWait(t) \/ PublishWait(t) \/ Block(t) \/ LeaveLoop(t)
           \/ RetractWait(t) \/ (\E k \in Thread : Interrupt(t, k)) \/ InterruptScan(t)
           \/ InterruptClose(t)
  <2>1. /\ UNCHANGED mu
        /\ \A u \in Thread \ {t} : step'[u] = step[u] /\ target'[u] = target[u]
        /\ \/ step'[t] = step[t] /\ target'[t] = target[t]
           \/ step'[t] \notin {"dlStore"} \cup NotifySteps
    BY <1>3 DEF RInv, RegTypes, Interrupted, NativeWait, PublishWait, Block, LeaveLoop,
                RetractWait, Interrupt, InterruptScan, InterruptClose, Goto, Forget, NotifySteps
  <2> QED BY <1>1, <2>1 DEF HoldsMu, NotifySteps
<1>4. CASE DeadlineI(t)
  BY <1>1, <1>4, NoThreadAssumption DEF HoldsMu, RInv, RegTypes, DeadlineI, Goto, NotifySteps
<1>5. CASE NotifyClose(t) \/ NotifyAllClose(t)
  BY <1>1, <1>5, NoThreadAssumption
  DEF HoldsMu, RInv, RegTypes, NotifyClose, NotifyAllClose, Goto, Forget, NotifySteps
<1> QED BY <1>1, <1>2, <1>3, <1>4, <1>5

\* The looks of Notify and NotifyAll.
LEMMA ScanKeepsMu ==
  ASSUME RInv, HoldsMu, NEW t \in Thread, NotifyScan(t) \/ NotifyAllScan(t)
  PROVE  HoldsMu' /\ UNCHANGED outcome
<1>1. UNCHANGED outcome
  BY DEF NotifyScan, NotifyAllScan, vars
<1>2. /\ mu \in {NoThread, t}
      /\ \A u \in Thread \ {t} : step'[u] = step[u] /\ target'[u] = target[u]
      /\ \/ step'[t] = "none"
         \/ /\ step'[t] \in {"nStore", "allStore"} /\ mu' = t
            /\ target'[t] \in Thread /\ outcome[target'[t]] = "stillWaiting"
  <2>1. mu \in {NoThread, t}
    BY DEF NotifyScan, NotifyAllScan, HoldsMu, NotifySteps
  <2>2. ASSUME NEW s \in {"nStore", "allStore"}, Pick(t, s)
        PROVE  /\ \A u \in Thread \ {t} : step'[u] = step[u] /\ target'[u] = target[u]
               /\ step'[t] = s
               /\ target'[t] \in Thread /\ outcome[target'[t]] = "stillWaiting"
    <3>1. PICK i \in 1..Len(waits) : /\ outcome[waits[i]] = "stillWaiting"
                                     /\ target' = [target EXCEPT ![t] = waits[i]]
                                     /\ step' = [step EXCEPT ![t] = s]
      BY <2>2 DEF Pick, FirstWaiting, Goto
    <3>2. waits[i] \in Thread
      BY DEF RInv, RegTypes
    <3> QED BY <3>1, <3>2 DEF RInv, RegTypes
  <2>3. CASE NotifyScan(t)
    BY <2>1, <2>2, <2>3 DEF NotifyScan
  <2>4. CASE NotifyAllScan(t) /\ Pick(t, "allStore") /\ mu' = t
    BY <2>1, <2>2, <2>4
  <2>5. CASE NotifyAllScan(t) /\ ~(Pick(t, "allStore") /\ mu' = t)
    <3>1. UNCHANGED target /\ step' = [step EXCEPT ![t] = "none"]
      BY <2>5 DEF NotifyAllScan, Goto
    <3> QED BY <2>1, <3>1 DEF RInv, RegTypes
  <2> QED BY <2>3, <2>4, <2>5
<1> QED BY <1>1, <1>2, NoThreadAssumption DEF HoldsMu, NotifySteps

\* A store by whoever has m.mu, by an interrupter, or by a new wait.
LEMMA StoreKeepsMu ==
  ASSUME RInv, HoldsMu, NEW t \in Thread,
         \/ DeadlineStore(t) \/ NotifyStore(t) \/ NotifyAllStore(t) \/ InterruptStore(t)
         \/ BeginWait(t)
  PROVE  /\ HoldsMu'
         /\ \A u \in Thread : (pc[u] # "idle" /\ outcome[u] \in {"gotNotify", "hitDeadline"})
                                => outcome'[u] \in {outcome[u], "gotInterrupt"}
<1> USE DEF HoldsMu, RInv, RegTypes, Goto, NotifySteps
<1>1. CASE DeadlineStore(t)
  BY <1>1, NoThreadAssumption DEF DeadlineStore
<1>2. CASE NotifyStore(t)
  BY <1>2, NoThreadAssumption DEF NotifyStore
<1>3. CASE NotifyAllStore(t)
  BY <1>3, NoThreadAssumption DEF NotifyAllStore
<1>4. CASE InterruptStore(t)
  BY <1>4, NoThreadAssumption DEF InterruptStore
<1>5. CASE BeginWait(t)
  <2>1. UNCHANGED <<mu, target>>
    BY <1>5 DEF BeginWait
  <2>2. \/ outcome' = outcome
        \/ pc[t] = "idle" /\ outcome' = [outcome EXCEPT ![t] = "stillWaiting"]
    BY <1>5 DEF BeginWait, Wait, vars
  <2>3. \E s \in {"publish", "unownedWait"} : step' = [step EXCEPT ![t] = s]
    BY <1>5 DEF BeginWait
  <2> QED BY <2>1, <2>2, <2>3
<1> QED BY <1>1, <1>2, <1>3, <1>4, <1>5

\* A notify and the deadline never decide the same wait both (Wait's deadline
\* arm, Notify, NotifyAll); interrupts, which may come over either, are the
\* registry's.
THEOREM DecidedUnderMuOnce == SpecI => MonitorDecidesOnce
<1> DEFINE Once == \A t \in Thread :
                     (pc[t] # "idle" /\ outcome[t] \in {"gotNotify", "hitDeadline"})
                       => outcome'[t] \in {outcome[t], "gotInterrupt"}
<1>1. InitI => HoldsMu
  BY DEF InitI, HoldsMu, NotifySteps
<1>2. RInv /\ HoldsMu /\ [NextI]_allVars => HoldsMu' /\ [Once]_allVars
  <2> SUFFICES ASSUME RInv, HoldsMu, [NextI]_allVars PROVE HoldsMu' /\ [Once]_allVars
    OBVIOUS
  <2>1. CASE UNCHANGED allVars
    BY <2>1 DEF HoldsMu, allVars, vars, regVars
  <2>2. CASE NextI
    BY <2>2, LookKeepsMu, ScanKeepsMu, StoreKeepsMu DEF NextI
  <2> QED BY <2>1, <2>2
<1> QED BY <1>1, <1>2, RaceInvariant, PTL DEF SpecI, MonitorDecidesOnce
====
