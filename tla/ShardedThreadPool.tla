-------------------------- MODULE ShardedThreadPool -------------------------
(***************************************************************************)
(* server/include/ShardedThreadPool.h: worker threads with one queue,      *)
(* mutex and condition variable each; a task goes to the worker its key    *)
(* hashes to.  Workers, the I/O threads that call submit() and the owner   *)
(* that calls start() and stop() interleave.  stopped_ is an atomic used   *)
(* outside the mutexes, so each access to it is a step of its own; waiting *)
(* on the condition variable unlocks and blocks in one step, and may end   *)
(* without a notification.                                                 *)
(***************************************************************************)
EXTENDS Integers, Sequences

CONSTANTS
  WorkerCount,   \* worker_count
  Task,          \* tasks, each submitted once
  Key,           \* shard keys (connections)
  KeyOf,         \* task -> key
  Shard,         \* key  -> worker, the hash of submit()
  Io,            \* I/O threads
  Script         \* I/O thread -> the tasks it submits, in order

Worker == 1..WorkerCount

ASSUME PoolAssumption ==
  /\ WorkerCount \in Nat
  /\ KeyOf \in [Task -> Key]
  /\ Shard \in [Key -> Worker]
  /\ Script \in [Io -> Seq(Task)]
  /\ \A i, j \in Io : \A m \in DOMAIN Script[i], n \in DOMAIN Script[j] :
       Script[i][m] = Script[j][n] => i = j /\ m = n
  /\ {"free", "worker"} \cap Io = {}

VARIABLES
  stopped,   \* stopped_
  tasks,     \* worker -> its queue
  mutex,     \* worker -> who holds its mutex: "free", "worker" or an I/O thread
  pc,        \* worker -> where its thread is
  todo,      \* I/O thread -> the tasks it has still to submit
  sub,       \* I/O thread -> where it is in submit()
  owner,     \* the owner: "idle", "running", or in the loops "notify", "join"
  at,        \* the worker that the owner's loop has reached
  taken      \* the tasks in the order in which they were started (history)

vars == <<stopped, tasks, mutex, pc, todo, sub, owner, at, taken>>
ioVars == <<todo, sub>>
ownerVars == <<stopped, owner, at>>

Init ==
  /\ stopped = TRUE
  /\ tasks = [w \in Worker |-> <<>>]
  /\ mutex = [w \in Worker |-> "free"]
  /\ pc = [w \in Worker |-> "none"]
  /\ todo = Script
  /\ sub = [i \in Io |-> "idle"]
  /\ owner = "idle"
  /\ at = 1
  /\ taken = <<>>

-----------------------------------------------------------------------------
(* The worker thread. *)

\* A slip of WaitIsOver: wait() without a predicate.
WaitIsOver_Always(w) == TRUE

\* The predicate of cv.wait.
WaitIsOver(w) == tasks[w] # <<>> \/ stopped

\* Lock, at the head of the loop or on waking up, and evaluate the predicate.
Lock(w) ==
  /\ pc[w] = "lock" /\ mutex[w] = "free"
  /\ mutex' = [mutex EXCEPT ![w] = "worker"]
  /\ pc' = [pc EXCEPT ![w] = IF WaitIsOver(w) THEN "check" ELSE "block"]
  /\ UNCHANGED <<tasks, ioVars, ownerVars, taken>>

Unlock(w) == [mutex EXCEPT ![w] = "free"]

Block(w) ==
  /\ pc[w] = "block"
  /\ mutex' = Unlock(w)
  /\ pc' = [pc EXCEPT ![w] = "waiting"]
  /\ UNCHANGED <<tasks, ioVars, ownerVars, taken>>

SpuriousWakeup(w) ==
  /\ pc[w] = "waiting"
  /\ pc' = [pc EXCEPT ![w] = "lock"]
  /\ UNCHANGED <<tasks, mutex, ioVars, ownerVars, taken>>

\* The condition on which the thread returns.
MayExit(w) == stopped /\ tasks[w] = <<>>

Exit(w) ==
  /\ pc[w] = "check" /\ MayExit(w)
  /\ mutex' = Unlock(w)
  /\ pc' = [pc EXCEPT ![w] = "exited"]
  /\ UNCHANGED <<tasks, ioVars, ownerVars, taken>>

\* front(), pop(), unlock and task(); the task touches nothing of the pool.
Take(w) ==
  /\ pc[w] = "check" /\ ~MayExit(w)
  /\ taken' = Append(taken, Head(tasks[w]))
  /\ tasks' = [tasks EXCEPT ![w] = Tail(@)]
  /\ mutex' = Unlock(w)
  /\ pc' = [pc EXCEPT ![w] = "lock"]
  /\ UNCHANGED <<ioVars, ownerVars>>

WorkerStep(w) == Lock(w) \/ Block(w) \/ Exit(w) \/ Take(w)

\* A slip of Notified: nobody is woken.
Notified_Nobody(w) == pc

\* notify_one or notify_all, to the one thread that can wait.
Notified(w) == IF pc[w] = "waiting" THEN [pc EXCEPT ![w] = "lock"] ELSE pc

-----------------------------------------------------------------------------
(* submit(), called by an I/O thread for its next task. *)

\* A slip of WorkerOf: tasks are dealt out in turn.
WorkerOf_InTurn(t) == 1 + (t % WorkerCount)

WorkerOf(t) == Shard[KeyOf[t]]

Target(i) == WorkerOf(Head(todo[i]))

\* submit() returns, true or false.
Return(i) ==
  /\ todo' = [todo EXCEPT ![i] = Tail(@)]
  /\ sub' = [sub EXCEPT ![i] = "idle"]

\* The first look at stopped_, without the mutex.
SubmitCheck(i) ==
  /\ sub[i] = "idle" /\ todo[i] # <<>>
  /\ \/ stopped /\ Return(i)
     \/ ~stopped /\ sub' = [sub EXCEPT ![i] = "lock"] /\ UNCHANGED todo
  /\ UNCHANGED <<tasks, mutex, pc, ownerVars, taken>>

\* A slip of LockedCheck: stopped_ is not looked at again under the mutex.
LockedCheck_Skipped == FALSE

LockedCheck == stopped

\* Lock, and look at stopped_ again.
SubmitLock(i) ==
  /\ sub[i] = "lock" /\ mutex[Target(i)] = "free"
  /\ \/ LockedCheck /\ Return(i) /\ UNCHANGED mutex
     \/ /\ ~LockedCheck
        /\ mutex' = [mutex EXCEPT ![Target(i)] = i]
        /\ sub' = [sub EXCEPT ![i] = "push"]
        /\ UNCHANGED todo
  /\ UNCHANGED <<tasks, pc, ownerVars, taken>>

SubmitPush(i) ==
  /\ sub[i] = "push"
  /\ tasks' = [tasks EXCEPT ![Target(i)] = Append(@, Head(todo[i]))]
  /\ mutex' = Unlock(Target(i))
  /\ sub' = [sub EXCEPT ![i] = "notify"]
  /\ UNCHANGED <<pc, todo, ownerVars, taken>>

SubmitNotify(i) ==
  /\ sub[i] = "notify"
  /\ pc' = Notified(Target(i))
  /\ Return(i)
  /\ UNCHANGED <<tasks, mutex, ownerVars, taken>>

SubmitStep(i) == SubmitCheck(i) \/ SubmitLock(i) \/ SubmitPush(i) \/ SubmitNotify(i)

-----------------------------------------------------------------------------
(* The owner.  A thread that is created but has not run yet looks to the   *)
(* others like one that is not created yet, so start() is one step.        *)

Start ==
  /\ owner = "idle"
  /\ stopped' = FALSE
  /\ pc' = [w \in Worker |-> "lock"]
  /\ owner' = "running"
  /\ UNCHANGED <<tasks, mutex, ioVars, at, taken>>

\* stop() sets stopped_ without holding any mutex.
Stop ==
  /\ owner = "running"
  /\ stopped' = TRUE
  /\ owner' = "notify" /\ at' = 1
  /\ UNCHANGED <<tasks, mutex, pc, ioVars, taken>>

StopNotify ==
  /\ owner = "notify" /\ at \in Worker
  /\ pc' = Notified(at)
  /\ at' = at + 1
  /\ UNCHANGED <<stopped, tasks, mutex, ioVars, owner, taken>>

\* join() returns once the thread has exited.
Join ==
  /\ owner = "join" /\ at \in Worker /\ pc[at] = "exited"
  /\ pc' = [pc EXCEPT ![at] = "none"]
  /\ at' = at + 1
  /\ UNCHANGED <<stopped, tasks, mutex, ioVars, owner, taken>>

LoopEnds ==
  /\ at \notin Worker
  /\ \/ owner = "notify" /\ owner' = "join" /\ at' = 1
     \/ owner = "join" /\ owner' = "idle" /\ UNCHANGED at
  /\ UNCHANGED <<stopped, tasks, mutex, pc, ioVars, taken>>

StopStep == StopNotify \/ Join \/ LoopEnds

Next ==
  \/ \E w \in Worker : WorkerStep(w) \/ SpuriousWakeup(w)
  \/ \E i \in Io : SubmitStep(i)
  \/ Start \/ Stop \/ StopStep

Spec == Init /\ [][Next]_vars

\* Threads that can run do run.  Nobody has to call start() or stop(), and a
\* wait has no spurious end on which to rely.
Fairness ==
  /\ \A w \in Worker : WF_vars(WorkerStep(w))
  /\ \A i \in Io : WF_vars(SubmitStep(i))
  /\ WF_vars(StopStep)

FairSpec == Spec /\ Fairness

-----------------------------------------------------------------------------
TypeOK ==
  /\ stopped \in BOOLEAN
  /\ tasks \in [Worker -> Seq(Task)]
  /\ mutex \in [Worker -> {"free", "worker"} \cup Io]
  /\ pc \in [Worker -> {"none", "lock", "check", "block", "waiting", "exited"}]
  /\ todo \in [Io -> Seq(Task)]
  /\ sub \in [Io -> {"idle", "lock", "push", "notify"}]
  /\ owner \in {"idle", "running", "notify", "join"}
  /\ at \in 1..(WorkerCount + 1)
  /\ taken \in Seq(Task)

\* A worker never takes from an empty queue (front() on an empty std::queue is
\* undefined), although wait() may end spuriously and the queue is looked at
\* again after the predicate.
TakesFromNonEmpty ==
  \A w \in Worker : pc[w] = "check" /\ ~MayExit(w) => tasks[w] # <<>>

\* No accepted task is left in a queue that nobody serves: once a worker has
\* exited its queue is empty, and no submit() that read stopped_ before stop()
\* is about to push into it.  This is what the second look at stopped_, under
\* the mutex, is for.
ExitedWorkerHasNoTasks ==
  \A w \in Worker :
    pc[w] = "exited" \/ owner = "idle" =>
      /\ tasks[w] = <<>>
      /\ \A i \in Io : sub[i] = "push" => Target(i) # w

\* The tasks of one key start in the order in which they were submitted: the
\* events of a connection (login, chat, close) are handled in order, although
\* workers run concurrently and some submissions are refused around a restart.
KeyOrder ==
  \A i \in Io : \A m, n \in DOMAIN Script[i] :
    m < n /\ KeyOf[Script[i][m]] = KeyOf[Script[i][n]] =>
      ~ \E p, q \in DOMAIN taken :
          p < q /\ taken[p] = Script[i][n] /\ taken[q] = Script[i][m]

Queued(t) == \E w \in Worker : \E p \in DOMAIN tasks[w] : tasks[w][p] = t

\* Every task that submit() accepted is started: the wakeup of a worker is
\* never lost on the way from submit(), not even while the pool is stopped.
AcceptedTaskStarts ==
  \A t \in Task : Queued(t) ~> \E p \in DOMAIN taken : taken[p] = t

\* "stop() ... waits until the submitted tasks are handled and then returns":
\* a stop() that began returns.
StopReturns == (owner \in {"notify", "join"}) ~> (owner = "idle")

=============================================================================
