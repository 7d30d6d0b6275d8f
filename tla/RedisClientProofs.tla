------------------------- MODULE RedisClientProofs --------------------------
(***************************************************************************)
(* Proofs about RedisClient, for any pool size and any finite set of       *)
(* threads.  The inductive invariant has four parts: a thread holds a slot *)
(* exactly between acquire and release, borrowed_ counts the holders,      *)
(* stopping_ and the destructor go together, and the free slots are spoken *)
(* for while anybody waits.                                                *)
(***************************************************************************)
EXTENDS RedisClient, FiniteSetTheorems, SequenceTheorems, TLAPS

Holding == {"connect", "run", "release"}

\* A lease is held from acquire to release, and only a thread in acquire waits.
Leases ==
  /\ \A t \in Thread : lease[t] # 0 <=> pc[t] \in Holding
  /\ \A t \in waiting \cap Thread : pc[t] = "acquire"

Counting == borrowed = Cardinality(Borrower)

Stopping ==
  /\ stopping <=> destructor # "none"
  /\ "destructor" \in waiting => stopping
  /\ FreedWhenReturned

OnTheWay == {t \in Thread : pc[t] \in {"notify", "acquire"}} \ waiting

\* While anybody waits, every free slot has a thread of its own that will take
\* it or hand it on.  NoLostWakeup alone is not preserved: a thread that takes
\* a slot must leave one on the way for each slot that is still free.
SlotsSpokenFor ==
  ~stopping /\ waiting # {} => Len(available) <= Cardinality(OnTheWay)

IInv ==
  TypeOK /\ Leases /\ SlotLentOnce /\ Counting /\ Stopping /\ SlotsSpokenFor

-----------------------------------------------------------------------------
LEMMA SlotFacts ==
  /\ Slot \subseteq Nat \ {0} /\ IsFiniteSet(Thread) /\ "destructor" \notin Thread
  /\ Cardinality(Slot) \in Nat /\ Slot = 1..Cardinality(Slot)
<1>1. PICK n \in Nat : n > 0 /\ Slot = 1..n
  BY PoolSizeAssumption DEF Slot
<1>2. Cardinality(Slot) = n
  BY <1>1, FS_Interval
<1> QED BY <1>1, <1>2, PoolSizeAssumption

\* The sets that are counted are finite.
LEMMA Finite ==
  /\ IsFiniteSet(Borrower) /\ Cardinality(Borrower) \in Nat
  /\ IsFiniteSet(OnTheWay) /\ Cardinality(OnTheWay) \in Nat
BY SlotFacts, FS_Subset, FS_CardinalityType DEF Borrower, OnTheWay

\* The constructor establishes the invariant.
LEMMA PoolInit == Init => IInv
<1> SUFFICES ASSUME Init PROVE IInv
  OBVIOUS
<1>1. available \in Seq(Slot) /\ Len(available) = Cardinality(Slot)
  <2> DEFINE n == Cardinality(Slot)
  <2>1. n \in Nat /\ available = [i \in 1..n |-> n - i + 1] /\ Slot = 1..n
    BY SlotFacts DEF Init, FreeSlots
  <2>2. \A i \in 1..n : n - i + 1 \in Slot
    BY <2>1
  <2>3. available \in [1..n -> Slot]
    BY <2>1, <2>2
  <2> HIDE DEF n
  <2>4. available \in Seq(Slot)
    BY <2>1, <2>3, SeqDef
  <2> QED BY <2>1, <2>4, LenProperties DEF n
<1>2. TypeOK
  BY <1>1 DEF Init, TypeOK
<1>3. Borrower = {}
  BY DEF Init, Borrower
<1>4. SlotLentOnce
  BY <1>3, SlotFacts DEF Init, SlotLentOnce, FreeSlots
<1>5. Counting
  BY <1>3, FS_EmptySet DEF Init, Counting
<1>6. Leases /\ Stopping /\ SlotsSpokenFor
  BY <1>3 DEF Init, Leases, Holding, Stopping, FreedWhenReturned, SlotsSpokenFor
<1> QED BY <1>2, <1>4, <1>5, <1>6 DEF IInv

\* acquire() keeps the invariant.
LEMMA PoolAcquire ==
  ASSUME IInv, NEW t \in Thread, Acquire(t)
  PROVE  IInv'
<1> USE DEF IInv
<1>1. CASE available = <<>> /\ ~stopping
  <2>1. /\ waiting' = waiting \cup {t} /\ pc[t] = "acquire"
        /\ UNCHANGED <<available, borrowed, stopping, pc, lease, context, destructor>>
    BY <1>1 DEF Acquire
  <2>2. Borrower' = Borrower
    BY <2>1 DEF Borrower
  <2>3. TypeOK' /\ Leases' /\ SlotLentOnce' /\ Counting' /\ Stopping'
    BY <2>1, <2>2, SlotFacts
    DEF TypeOK, Leases, SlotLentOnce, Counting, Stopping, FreedWhenReturned
  <2>4. Len(available') = 0
    BY <1>1, <2>1
  <2>5. Cardinality(OnTheWay)' >= 0
    <3>1. IsFiniteSet(OnTheWay')
      BY SlotFacts, FS_Subset DEF OnTheWay
    <3> QED BY <3>1, FS_CardinalityType
  <2> QED BY <2>3, <2>4, <2>5 DEF SlotsSpokenFor
<1>2. CASE stopping
  <2>1. /\ pc' = [pc EXCEPT ![t] = "idle"] /\ pc[t] = "acquire" /\ t \notin waiting
        /\ UNCHANGED <<available, borrowed, stopping, waiting, lease, context, destructor>>
    BY <1>2 DEF Acquire, Goto
  <2>2. Borrower' = Borrower
    BY <2>1 DEF Borrower
  <2> QED BY <1>2, <2>1, <2>2
      DEF TypeOK, Leases, Holding, SlotLentOnce, Counting, Stopping, FreedWhenReturned,
          SlotsSpokenFor
<1>3. CASE available # <<>> /\ ~stopping
  <2> DEFINE n == Len(available)
  <2>1. /\ pc' = [pc EXCEPT ![t] = "connect"] /\ pc[t] = "acquire" /\ t \notin waiting
        /\ lease' = [lease EXCEPT ![t] = available[n]]
        /\ available' = SubSeq(available, 1, n - 1)
        /\ borrowed' = borrowed + 1
        /\ UNCHANGED <<stopping, waiting, context, destructor>>
    BY <1>3 DEF Acquire, Pop, Goto
  <2>2. /\ n \in Nat \ {0} /\ available \in [1..n -> Slot] /\ available[n] \in Slot
        /\ available' \in Seq(Slot) /\ Len(available') = n - 1
        /\ \A i \in 1..(n-1) : available'[i] = available[i]
        /\ DOMAIN available = 1..n /\ DOMAIN available' = 1..(n-1)
    <3>1. n \in Nat \ {0} /\ available \in [1..n -> Slot] /\ DOMAIN available = 1..n
      BY <1>3, LenProperties, EmptySeq DEF TypeOK
    <3>2. n - 1 \in Nat /\ \A i \in 1..(n-1) : available[i] \in Slot
      BY <3>1
    <3> HIDE DEF n
    <3>3. /\ available' \in Seq(Slot)
          /\ Len(available') = IF 1 <= n - 1 THEN n - 1 - 1 + 1 ELSE 0
          /\ \A i \in 1..(n - 1 - 1 + 1) : available'[i] = available[1 + i - 1]
      BY <2>1, <3>1, <3>2, SubSeqProperties
    <3>4. Len(available') = n - 1
      BY <3>1, <3>3
    <3>5. \A i \in 1..(n-1) : available'[i] = available[i]
      <4>1. 1..(n - 1 - 1 + 1) = 1..(n-1)
        BY <3>1
      <4>2. \A i \in 1..(n-1) : 1 + i - 1 = i
        BY <3>1
      <4> QED BY <3>3, <4>1, <4>2
    <3>6. available[n] \in Slot
      BY <3>1
    <3>7. DOMAIN available' = 1..(n-1)
      BY <3>3, <3>4, LenProperties
    <3> QED BY <3>1, <3>3, <3>4, <3>5, <3>6, <3>7
  <2>3. lease[t] = 0 /\ available[n] # 0 /\ t \notin Borrower /\ t \in OnTheWay
    BY <2>1, <2>2, SlotFacts DEF Leases, Holding, Borrower, OnTheWay
  <2>4. Borrower' = Borrower \cup {t}
    BY <2>1, <2>3 DEF Borrower, TypeOK
  <2>5. OnTheWay' = OnTheWay \ {t}
    BY <2>1 DEF OnTheWay, TypeOK
  <2>6. TypeOK' /\ Leases'
    BY <2>1, <2>2, <2>3 DEF TypeOK, Leases, Holding
  <2>7. SlotLentOnce'
    <3>1. \A u \in Borrower : lease'[u] = lease[u] /\ lease[u] # available[n]
      BY <2>1, <2>2, <2>3 DEF SlotLentOnce, Borrower, TypeOK
    <3>2. lease'[t] = available[n]
      BY <2>1 DEF TypeOK
    <3> QED BY <2>2, <2>4, <3>1, <3>2 DEF SlotLentOnce
  <2>8. Counting'
    BY <2>1, <2>3, <2>4, Finite, FS_AddElement DEF Counting
  <2>9. Stopping'
    BY <1>3, <2>1 DEF Stopping, FreedWhenReturned
  <2>10. SlotsSpokenFor'
    <3>1. Cardinality(OnTheWay') = Cardinality(OnTheWay) - 1
      BY <2>3, <2>5, Finite, FS_RemoveElement
    <3> QED BY <1>3, <2>1, <2>2, <3>1, Finite DEF SlotsSpokenFor
  <2> QED BY <2>6, <2>7, <2>8, <2>9, <2>10
<1> QED BY <1>1, <1>2, <1>3

\* Call, ensureConnected() and the command change neither leases nor slots.
LEMMA PoolCommand ==
  ASSUME IInv, NEW t \in Thread, Call(t) \/ EnsureConnected(t) \/ Run(t)
  PROVE  IInv'
<1> USE DEF IInv
<1>1. /\ UNCHANGED <<available, borrowed, stopping, lease, waiting, destructor>>
      /\ \E to \in {"acquire", "run", "release"} :
           pc' = [pc EXCEPT ![t] = to] /\ (to \in Holding <=> pc[t] \in Holding)
      /\ pc[t] \in {"idle", "connect", "run"}
  BY DEF Call, EnsureConnected, Run, Goto, poolVars, Holding
<1>2. context' \in [Slot -> {"none", "up", "down"}]
  BY DEF TypeOK, Call, EnsureConnected, Run, ConnectRedis, closeSlot
<1>3. Borrower' = Borrower
  BY <1>1 DEF Borrower
<1>4. TypeOK'
  BY <1>1, <1>2 DEF TypeOK
<1>5. Leases'
  BY <1>1 DEF Leases, TypeOK
<1>6. SlotLentOnce' /\ Counting' /\ Stopping'
  BY <1>1, <1>3 DEF SlotLentOnce, Counting, Stopping, FreedWhenReturned
<1>7. Cardinality(OnTheWay) <= Cardinality(OnTheWay')
  <2>1. OnTheWay \subseteq OnTheWay'
    BY <1>1 DEF OnTheWay, TypeOK
  <2>2. IsFiniteSet(OnTheWay')
    BY SlotFacts, FS_Subset DEF OnTheWay
  <2> QED BY <2>1, <2>2, FS_Subset
<1>8. SlotsSpokenFor'
  <2>1. Len(available) \in Nat /\ Cardinality(OnTheWay) \in Nat /\ Cardinality(OnTheWay') \in Nat
    <3>1. IsFiniteSet(OnTheWay')
      BY SlotFacts, FS_Subset DEF OnTheWay
    <3> QED BY <3>1, Finite, FS_CardinalityType, LenProperties DEF TypeOK
  <2> QED BY <1>1, <1>7, <2>1 DEF SlotsSpokenFor
<1> QED BY <1>4, <1>5, <1>6, <1>8

\* releaseSlot() up to its notification.
LEMMA PoolRelease ==
  ASSUME IInv, NEW t \in Thread, Release(t)
  PROVE  IInv'
<1> USE DEF IInv
<1>1. /\ pc[t] = "release" /\ pc' = [pc EXCEPT ![t] = "notify"]
      /\ borrowed' = borrowed - 1
      /\ lease' = [lease EXCEPT ![t] = 0]
      /\ available' = IF stopping THEN available ELSE Append(available, lease[t])
      /\ UNCHANGED <<stopping, context, waiting, destructor>>
  BY DEF Release, Goto
<1>2. lease[t] \in Slot /\ t \in Borrower /\ t \notin waiting /\ t \notin OnTheWay
  BY <1>1 DEF Leases, Holding, Borrower, TypeOK, OnTheWay
<1>3. Borrower' = Borrower \ {t} /\ OnTheWay' = OnTheWay \cup {t}
  BY <1>1, <1>2 DEF Borrower, OnTheWay, TypeOK
<1>4. borrowed' = Cardinality(Borrower') /\ borrowed' \in Nat
  <2>1. IsFiniteSet(Borrower') /\ Cardinality(Borrower') = Cardinality(Borrower) - 1
    BY <1>2, <1>3, Finite, FS_RemoveElement
  <2>2. Cardinality(Borrower') \in Nat
    BY <2>1, FS_CardinalityType
  <2> QED BY <1>1, <2>1, <2>2 DEF Counting
<1>5. Cardinality(OnTheWay') = Cardinality(OnTheWay) + 1
  BY <1>2, <1>3, Finite, FS_AddElement
<1>6. Leases'
  BY <1>1, <1>2 DEF Leases, Holding, TypeOK
<1>7. Stopping'
  BY <1>1, <1>3 DEF Stopping, FreedWhenReturned
<1>8. CASE stopping
  BY <1>1, <1>2, <1>3, <1>4, <1>6, <1>7, <1>8
  DEF TypeOK, SlotLentOnce, Borrower, Counting, SlotsSpokenFor
<1>9. CASE ~stopping
  <2> DEFINE n == Len(available)
  <2>1. n \in Nat /\ DOMAIN available = 1..n
    BY LenProperties DEF TypeOK
  <2>2. /\ available' \in Seq(Slot) /\ Len(available') = n + 1
        /\ DOMAIN available' = 1..(n+1)
        /\ \A i \in 1..n : available'[i] = available[i]
        /\ available'[n+1] = lease[t]
    BY <1>1, <1>2, <1>9, AppendProperties, LenProperties DEF TypeOK
  <2>3. TypeOK'
    BY <1>1, <1>4, <2>2 DEF TypeOK
  <2>4. SlotLentOnce'
    <3>1. \A u \in Borrower' : u \in Borrower /\ lease'[u] = lease[u] /\ lease[u] # lease[t]
      BY <1>1, <1>2, <1>3 DEF SlotLentOnce, Borrower, TypeOK
    <3> HIDE DEF n
    <3>2. \A i \in 1..n : available[i] # lease[t]
      BY <1>2, <2>1 DEF SlotLentOnce
    <3>3. \A u \in Borrower' : \A i \in DOMAIN available' : available'[i] # lease'[u]
      BY <2>1, <2>2, <3>1 DEF SlotLentOnce
    <3>4. \A i, j \in DOMAIN available' : available'[i] = available'[j] => i = j
      BY <2>1, <2>2, <3>2 DEF SlotLentOnce
    <3> QED BY <3>1, <3>3, <3>4 DEF SlotLentOnce
  <2>5. SlotsSpokenFor'
    BY <1>1, <1>5, <1>9, <2>1, <2>2, Finite DEF SlotsSpokenFor
  <2> QED BY <1>4, <1>6, <1>7, <2>3, <2>4, <2>5 DEF Counting
<1> QED BY <1>8, <1>9

\* A notification wakes a thread that is on its way from then on.
LEMMA PoolWake ==
  ASSUME IInv, NEW x \in waiting, waiting' = waiting \ {x}, ~stopping
  PROVE  x \in Thread /\ pc[x] = "acquire" /\ x \notin OnTheWay
BY DEF IInv, TypeOK, Leases, Stopping, OnTheWay

\* notify_one of releaseSlot(): the thread that leaves is replaced by the one
\* it wakes.
LEMMA PoolNotify ==
  ASSUME IInv, NEW t \in Thread, Notify(t)
  PROVE  IInv'
<1> USE DEF IInv
<1>1. /\ pc[t] = "notify" /\ pc' = [pc EXCEPT ![t] = "idle"]
      /\ waiting' \subseteq waiting
      /\ UNCHANGED <<available, borrowed, stopping, context, lease, destructor>>
  BY DEF Notify, WakeOne, Goto, poolVars
<1>2. Borrower' = Borrower
  BY <1>1 DEF Borrower
<1>3. TypeOK' /\ Leases'
  BY <1>1 DEF TypeOK, Leases, Holding
<1>4. SlotLentOnce' /\ Counting' /\ Stopping'
  BY <1>1, <1>2 DEF SlotLentOnce, Counting, Stopping, FreedWhenReturned
<1>5. SlotsSpokenFor'
  <2> SUFFICES ASSUME ~stopping, waiting' # {}
               PROVE  Len(available) <= Cardinality(OnTheWay')
    BY <1>1 DEF SlotsSpokenFor
  <2>1. PICK x \in waiting : waiting' = waiting \ {x}
    BY <1>1 DEF Notify, WakeOne
  <2>2. x \in Thread /\ pc[x] = "acquire" /\ x \notin OnTheWay
    BY <2>1, PoolWake
  <2>3. t \in OnTheWay /\ t # x
    BY <1>1, <2>2 DEF Leases, OnTheWay
  <2>4. OnTheWay' = (OnTheWay \ {t}) \cup {x}
    BY <1>1, <2>1, <2>2, <2>3 DEF OnTheWay, TypeOK
  <2>5. /\ IsFiniteSet(OnTheWay \ {t})
        /\ Cardinality(OnTheWay \ {t}) = Cardinality(OnTheWay) - 1
    BY <2>3, Finite, FS_RemoveElement
  <2>6. Cardinality(OnTheWay') = Cardinality(OnTheWay) - 1 + 1
    BY <2>2, <2>4, <2>5, FS_AddElement
  <2>7. Len(available) <= Cardinality(OnTheWay)
    BY <2>1 DEF SlotsSpokenFor
  <2> QED BY <2>6, <2>7, Finite
<1> QED BY <1>3, <1>4, <1>5

\* A wait that ends by itself.
LEMMA PoolSpurious ==
  ASSUME IInv, SpuriousWakeup
  PROVE  IInv'
<1> USE DEF IInv
<1>1. PICK x \in waiting : waiting' = waiting \ {x}
  BY DEF SpuriousWakeup
<1>2. UNCHANGED <<available, borrowed, stopping, context, pc, lease, destructor>>
  BY DEF SpuriousWakeup, poolVars
<1>3. Borrower' = Borrower
  BY <1>2 DEF Borrower
<1>4. TypeOK' /\ Leases' /\ SlotLentOnce' /\ Counting' /\ Stopping'
  BY <1>1, <1>2, <1>3
  DEF TypeOK, Leases, SlotLentOnce, Counting, Stopping, FreedWhenReturned
<1>5. SlotsSpokenFor'
  <2> SUFFICES ASSUME ~stopping
               PROVE  Len(available) <= Cardinality(OnTheWay')
    BY <1>2 DEF SlotsSpokenFor
  <2>1. OnTheWay' = OnTheWay \cup {x} /\ x \notin OnTheWay
    BY <1>1, <1>2, PoolWake DEF OnTheWay
  <2>2. Cardinality(OnTheWay') = Cardinality(OnTheWay) + 1
    BY <2>1, Finite, FS_AddElement
  <2>3. Len(available) <= Cardinality(OnTheWay) /\ Len(available) \in Nat
    BY <1>1, LenProperties DEF SlotsSpokenFor, TypeOK
  <2> QED BY <2>2, <2>3, Finite
<1> QED BY <1>4, <1>5

\* The destructor, and Redis closing a connection that nobody uses.
LEMMA PoolOthers ==
  ASSUME IInv, DestructorStops \/ DestructorWaits \/ \E s \in Slot : ConnectionDrops(s)
  PROVE  IInv'
<1> USE DEF IInv
<1>1. CASE DestructorStops
  BY <1>1, SlotFacts DEF DestructorStops, WakeAll, TypeOK, Leases, SlotLentOnce, Counting,
    Borrower, Stopping, FreedWhenReturned, SlotsSpokenFor
<1>2. CASE DestructorWaits
  <2>1. UNCHANGED <<available, borrowed, stopping, pc, lease>> /\ Borrower' = Borrower
    BY <1>2 DEF DestructorWaits, poolVars, Borrower
  <2>2. stopping /\ stopping'
    BY <1>2, <2>1 DEF DestructorWaits, Stopping
  <2>3. TypeOK' /\ Leases'
    BY <1>2, <2>1, SlotFacts DEF DestructorWaits, TypeOK, Leases
  <2>4. SlotLentOnce' /\ Counting' /\ SlotsSpokenFor'
    BY <2>1, <2>2 DEF SlotLentOnce, Counting, SlotsSpokenFor
  <2>5. Stopping'
    <3>1. MayDestroy => Borrower = {}
      BY Finite, FS_EmptySet DEF MayDestroy, Counting
    <3> QED BY <1>2, <2>1, <2>2, <3>1
        DEF DestructorWaits, Stopping, FreedWhenReturned
  <2> QED BY <2>3, <2>4, <2>5
<1>3. CASE \E s \in Slot : ConnectionDrops(s)
  <2>1. /\ UNCHANGED <<available, borrowed, stopping, pc, lease, waiting, destructor>>
        /\ context' \in [Slot -> {"none", "up", "down"}]
    BY <1>3 DEF ConnectionDrops, poolVars, TypeOK
  <2> QED BY <2>1 DEF TypeOK, Leases, SlotLentOnce, Counting, Borrower, Stopping,
        FreedWhenReturned, SlotsSpokenFor, OnTheWay
<1> QED BY <1>1, <1>2, <1>3

\* Every step of the pool keeps the invariant.
LEMMA PoolStep == IInv /\ [Next]_vars => IInv'
<1> SUFFICES ASSUME IInv, [Next]_vars PROVE IInv'
  OBVIOUS
<1>1. CASE UNCHANGED vars
  BY <1>1 DEF vars, IInv, TypeOK, Leases, SlotLentOnce, Counting, Borrower, Stopping,
    FreedWhenReturned, SlotsSpokenFor, OnTheWay
<1>2. CASE Next
  BY <1>2, PoolAcquire, PoolCommand, PoolRelease, PoolNotify, PoolSpurious, PoolOthers
  DEF Next, ThreadStep
<1> QED BY <1>1, <1>2

LEMMA PoolInductive == Spec => []IInv
BY PoolInit, PoolStep, PTL DEF Spec

-----------------------------------------------------------------------------
\* The pool's variables keep their types: in particular borrowed_ never drops
\* below 0 and only numbers of slots are lent.
THEOREM RedisTypeCorrect == Spec => []TypeOK
BY PoolInductive, PTL DEF IInv

\* A hiredis connection is never used by two threads at once, nor lent while it
\* is free, whatever acquire, releaseSlot, failures and the destructor do.
THEOREM RedisLendsOnce == Spec => []SlotLentOnce
BY PoolInductive, PTL DEF IInv

\* ~RedisClient frees the slots only after every borrower has returned its own.
THEOREM RedisFreesReturned == Spec => []FreedWhenReturned
BY PoolInductive, PTL DEF IInv, Stopping

\* One notify_one per returned slot, sent after the mutex is released, is enough:
\* no thread sleeps on beside a free slot that nobody is about to take or announce.
THEOREM RedisLosesNoWakeup == Spec => []NoLostWakeup
<1>1. IInv => NoLostWakeup
  <2> SUFFICES ASSUME IInv, ~stopping
               PROVE  LET fewest == IF Len(available) < Cardinality(waiting \ {"destructor"})
                                    THEN Len(available)
                                    ELSE Cardinality(waiting \ {"destructor"})
                      IN  Cardinality(OnTheWay) >= fewest
    BY DEF NoLostWakeup, OnTheWay
  <2>1. Len(available) \in Nat
    BY LenProperties DEF IInv, TypeOK
  <2>2. waiting \ {"destructor"} = waiting /\ IsFiniteSet(waiting)
    BY SlotFacts, FS_Subset DEF IInv, TypeOK, Stopping
  <2>3. CASE waiting = {}
    BY <2>1, <2>2, <2>3, Finite, FS_EmptySet
  <2>4. CASE waiting # {}
    <3>1. Cardinality(waiting) \in Nat
      BY <2>2, FS_CardinalityType
    <3>2. Len(available) <= Cardinality(OnTheWay)
      BY <2>4 DEF IInv, SlotsSpokenFor
    <3> QED BY <2>1, <2>2, <3>1, <3>2, Finite
  <2> QED BY <2>3, <2>4
<1> QED BY <1>1, PoolInductive, PTL

=============================================================================
