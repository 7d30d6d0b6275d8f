----------------------------- MODULE RedisClient ----------------------------
(***************************************************************************)
(* server/src/RedisClient.cpp: the pool of synchronous Redis connections   *)
(* that every store operation borrows from.  command() borrows a slot,     *)
(* (re)connects it if need be, runs one command and returns the slot; the  *)
(* destructor waits for the borrowers.  One mutex and one condition        *)
(* variable, on which borrowers and the destructor wait; a critical        *)
(* section is one step, and waiting may end without a notification.        *)
(***************************************************************************)
EXTENDS Integers, Sequences, FiniteSets

CONSTANTS
  Thread,     \* threads that call command()
  PoolSize    \* pool_size; 0 is taken as 1

ASSUME PoolSizeAssumption ==
  PoolSize \in Nat /\ IsFiniteSet(Thread) /\ "destructor" \notin Thread

Slot == 1..(IF PoolSize = 0 THEN 1 ELSE PoolSize)

VARIABLES
  available,   \* free slots, the last one is lent first
  borrowed,
  stopping,
  context,     \* slot -> "none", "up" or "down" (a connection with an error)
  pc,          \* thread -> where it is in command()
  lease,       \* thread -> the slot it has borrowed, or 0
  waiting,     \* who waits on available_cv_
  destructor   \* "none", "wait" or "done"

vars == <<available, borrowed, stopping, context, pc, lease, waiting, destructor>>
poolVars == <<available, borrowed, stopping>>

\* The constructor's stack: slot 1 (index 0 of slots_) is on top.
FreeSlots == [i \in Slot |-> Cardinality(Slot) - i + 1]

Init ==
  /\ available = FreeSlots
  /\ borrowed = 0
  /\ stopping = FALSE
  /\ context = [s \in Slot |-> "none"]
  /\ pc = [t \in Thread |-> "idle"]
  /\ lease = [t \in Thread |-> 0]
  /\ waiting = {}
  /\ destructor = "none"

Goto(t, where) == pc' = [pc EXCEPT ![t] = where]

-----------------------------------------------------------------------------
(* command() *)

Call(t) ==
  /\ pc[t] = "idle" /\ destructor = "none"
  /\ Goto(t, "acquire")
  /\ UNCHANGED <<poolVars, context, lease, waiting, destructor>>

\* A slip of Pop: the slot stays on the stack.
Pop_Peeks == UNCHANGED available

Pop == available' = SubSeq(available, 1, Len(available) - 1)

\* acquire(): wait, give up because the pool is stopping, or take the last
\* free slot.
Acquire(t) ==
  /\ pc[t] = "acquire" /\ t \notin waiting
  /\ \/ /\ available = <<>> /\ ~stopping
        /\ waiting' = waiting \cup {t}
        /\ UNCHANGED <<available, borrowed, pc, lease>>
     \/ /\ stopping
        /\ Goto(t, "idle")
        /\ UNCHANGED <<available, borrowed, lease, waiting>>
     \/ /\ available # <<>> /\ ~stopping
        /\ lease' = [lease EXCEPT ![t] = available[Len(available)]]
        /\ Pop
        /\ borrowed' = borrowed + 1
        /\ Goto(t, "connect")
        /\ UNCHANGED waiting
  /\ UNCHANGED <<stopping, context, destructor>>

closeSlot(s) == context' = [context EXCEPT ![s] = "none"]

\* ConnectRedis: a connection, or none after the timeout or an error.
ConnectRedis(s, result) == context' = [context EXCEPT ![s] = result]

\* ensureConnected(), outside the mutex; without a connection command()
\* returns at once.
EnsureConnected(t) ==
  /\ pc[t] = "connect"
  /\ \/ context[lease[t]] = "up" /\ Goto(t, "run") /\ UNCHANGED context
     \/ /\ context[lease[t]] # "up"
        /\ \/ ConnectRedis(lease[t], "up") /\ Goto(t, "run")
           \/ ConnectRedis(lease[t], "none") /\ Goto(t, "release")
  /\ UNCHANGED <<poolVars, lease, waiting, destructor>>

\* redisCommandArgv: an answer, or a broken connection that is closed.
Run(t) ==
  /\ pc[t] = "run"
  /\ UNCHANGED context \/ closeSlot(lease[t])
  /\ Goto(t, "release")
  /\ UNCHANGED <<poolVars, lease, waiting, destructor>>

\* releaseSlot(): the locked part, then notify_one without the mutex.
Release(t) ==
  /\ pc[t] = "release"
  /\ borrowed' = borrowed - 1
  /\ available' = IF stopping THEN available ELSE Append(available, lease[t])
  /\ lease' = [lease EXCEPT ![t] = 0]
  /\ Goto(t, "notify")
  /\ UNCHANGED <<stopping, context, waiting, destructor>>

\* A slip of WakeOne: the notification is forgotten.
WakeOne_Never == UNCHANGED waiting

WakeOne ==
  \/ waiting = {} /\ UNCHANGED waiting
  \/ \E x \in waiting : waiting' = waiting \ {x}

Notify(t) ==
  /\ pc[t] = "notify"
  /\ WakeOne
  /\ Goto(t, "idle")
  /\ UNCHANGED <<poolVars, context, lease, destructor>>

-----------------------------------------------------------------------------
(* ~RedisClient() *)

\* A slip of WakeAll: the borrowers that wait are not told.
WakeAll_Nobody == UNCHANGED waiting

WakeAll == waiting' = {}

DestructorStops ==
  /\ destructor = "none"
  /\ stopping' = TRUE
  /\ WakeAll
  /\ destructor' = "wait"
  /\ UNCHANGED <<available, borrowed, context, pc, lease>>

\* A slip of MayDestroy: the destructor counts waiters, not borrowers.
MayDestroy_NoWaiters == waiting = {}

MayDestroy == borrowed = 0

\* The wait loop; past it the slots and their connections are freed.
DestructorWaits ==
  /\ destructor = "wait" /\ "destructor" \notin waiting
  /\ \/ /\ ~MayDestroy
        /\ waiting' = waiting \cup {"destructor"}
        /\ UNCHANGED <<context, destructor>>
     \/ /\ MayDestroy
        /\ destructor' = "done"
        /\ context' = [s \in Slot |-> "none"]
        /\ UNCHANGED waiting
  /\ UNCHANGED <<poolVars, pc, lease>>

-----------------------------------------------------------------------------
\* Redis goes away under a connection that nobody uses at the moment.
ConnectionDrops(s) ==
  /\ context[s] = "up" /\ \A t \in Thread : lease[t] # s
  /\ context' = [context EXCEPT ![s] = "down"]
  /\ UNCHANGED <<poolVars, pc, lease, waiting, destructor>>

SpuriousWakeup ==
  /\ \E x \in waiting : waiting' = waiting \ {x}
  /\ UNCHANGED <<poolVars, context, pc, lease, destructor>>

ThreadStep(t) ==
  Acquire(t) \/ EnsureConnected(t) \/ Run(t) \/ Release(t) \/ Notify(t)

Next ==
  \/ \E t \in Thread : Call(t) \/ ThreadStep(t)
  \/ DestructorStops \/ DestructorWaits
  \/ \E s \in Slot : ConnectionDrops(s)
  \/ SpuriousWakeup

Spec == Init /\ [][Next]_vars

\* A thread inside command() and the destructor run on; nobody has to call
\* command() or to destroy the pool, and no wait ends by itself.
FairSpec ==
  /\ Spec
  /\ \A t \in Thread : WF_vars(ThreadStep(t))
  /\ WF_vars(DestructorWaits)

-----------------------------------------------------------------------------
TypeOK ==
  /\ available \in Seq(Slot)
  /\ borrowed \in Nat
  /\ stopping \in BOOLEAN
  /\ context \in [Slot -> {"none", "up", "down"}]
  /\ pc \in [Thread -> {"idle", "acquire", "connect", "run", "release", "notify"}]
  /\ lease \in [Thread -> Slot \cup {0}]
  /\ waiting \subseteq Thread \cup {"destructor"}
  /\ destructor \in {"none", "wait", "done"}

Borrower == {t \in Thread : lease[t] # 0}

\* A hiredis context is not safe for two threads: a slot is lent to at most
\* one thread at a time, and a lent slot is not on the stack of free ones,
\* however many commands fail and reconnect.
SlotLentOnce ==
  /\ \A t, u \in Borrower : lease[t] = lease[u] => t = u
  /\ \A t \in Borrower : \A i \in DOMAIN available : available[i] # lease[t]
  /\ \A i, j \in DOMAIN available : available[i] = available[j] => i = j

\* "The destructor waits until the borrowed connections are returned": no
\* thread is between acquire and release when the slots are freed.
FreedWhenReturned == destructor = "done" => Borrower = {}

\* No wakeup is lost: whenever slots are free while threads wait for one,
\* enough threads are on their way to wake them or to take the slots.
NoLostWakeup ==
  LET onTheWay == {t \in Thread : pc[t] \in {"notify", "acquire"}} \ waiting
      asleep   == waiting \ {"destructor"}
      fewest   == IF Len(available) < Cardinality(asleep)
                  THEN Len(available) ELSE Cardinality(asleep)
  IN  ~stopping => Cardinality(onTheWay) >= fewest

\* The destructor returns and every thread that is in command() gets out of
\* it, also when they wait for a slot as the destructor starts.
DestructorReturns ==
  destructor = "wait" ~> destructor = "done" /\ \A t \in Thread : t \notin waiting

=============================================================================
