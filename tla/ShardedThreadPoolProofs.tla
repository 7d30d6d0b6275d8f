----------------------- MODULE ShardedThreadPoolProofs ----------------------
(***************************************************************************)
(* Proofs about ShardedThreadPool for any number of workers, I/O threads,  *)
(* keys and tasks.                                                         *)
(***************************************************************************)
EXTENDS ShardedThreadPool, SequenceTheorems, TLAPS

\* Who holds a mutex is where the code says it is.
Locking ==
  /\ \A w \in Worker : pc[w] \in {"check", "block"} <=> mutex[w] = "worker"
  /\ \A i \in Io : sub[i] # "idle" => todo[i] # <<>>
  /\ \A i \in Io : sub[i] = "push" => mutex[Target(i)] = i

\* What the owner's progress says about the threads.
Lifecycle ==
  /\ stopped <=> owner # "running"
  /\ \A w \in Worker : pc[w] \in {"none", "exited"} => stopped
  /\ owner = "idle" => \A w \in Worker : pc[w] = "none"
  /\ owner = "join" => \A w \in Worker : w < at => pc[w] = "none"

\* A worker past its wait has work or may leave; a worker that left, joined or
\* not, leaves nothing and gets nothing.
Service ==
  /\ \A w \in Worker : pc[w] = "check" => tasks[w] # <<>> \/ stopped
  /\ \A w \in Worker : pc[w] \in {"none", "exited"} =>
       /\ tasks[w] = <<>>
       /\ \A i \in Io : sub[i] = "push" => Target(i) # w

IInv == TypeOK /\ Locking /\ Lifecycle /\ Service

\* The invariant holds before the first start().
LEMMA PoolInit == Init => IInv
<1> SUFFICES ASSUME Init PROVE IInv
  OBVIOUS
<1>1. TypeOK
  BY PoolAssumption DEF Init, TypeOK, Worker
<1>2. Locking /\ Lifecycle /\ Service
  BY PoolAssumption DEF Init, Locking, Lifecycle, Service, Worker
<1> QED BY <1>1, <1>2 DEF IInv

\* The worker that a submission in progress is for.
LEMMA TargetIsWorker ==
  ASSUME TypeOK, NEW i \in Io, todo[i] # <<>>
  PROVE  Head(todo[i]) \in Task /\ Target(i) \in Worker
<1>1. todo[i] \in Seq(Task)
  BY DEF TypeOK
<1>2. Head(todo[i]) \in Task
  BY <1>1
<1> QED BY <1>2, PoolAssumption DEF Target, WorkerOf

\* The steps of a worker keep the invariant.
LEMMA PoolWorker == ASSUME IInv, NEW w \in Worker, WorkerStep(w) \/ SpuriousWakeup(w)
                    PROVE  IInv'
<1> USE DEF IInv
<1>t. \A i \in Io : Target(i)' = Target(i) /\ todo'[i] = todo[i] /\ sub'[i] = sub[i]
  BY DEF WorkerStep, SpuriousWakeup, Lock, Block, Exit, Take, ioVars, Target
<1>o. UNCHANGED <<stopped, owner, at, todo, sub>>
  BY DEF WorkerStep, SpuriousWakeup, Lock, Block, Exit, Take, ioVars, ownerVars
<1>1. CASE Lock(w)
  <2>1. TypeOK'
    BY <1>1, <1>o DEF Lock, TypeOK
  <2>2. /\ mutex' = [mutex EXCEPT ![w] = "worker"] /\ mutex[w] = "free" /\ tasks' = tasks
        /\ pc' = [pc EXCEPT ![w] = IF WaitIsOver(w) THEN "check" ELSE "block"]
        /\ pc[w] = "lock"
    BY <1>1 DEF Lock
  <2>3. Locking'
    BY <2>2, <1>t, PoolAssumption DEF Locking, TypeOK
  <2>4. Lifecycle'
    BY <2>2, <1>o DEF Lifecycle, TypeOK
  <2>5. Service'
    BY <2>2, <1>o, <1>t DEF Service, TypeOK, WaitIsOver
  <2> QED BY <2>1, <2>3, <2>4, <2>5
<1>2. CASE Block(w)
  <2>1. TypeOK'
    BY <1>2, <1>o DEF Block, TypeOK, Unlock
  <2>2. /\ mutex' = [mutex EXCEPT ![w] = "free"] /\ tasks' = tasks
        /\ pc' = [pc EXCEPT ![w] = "waiting"] /\ pc[w] = "block"
    BY <1>2 DEF Block, Unlock
  <2>3. Locking'
    BY <2>2, <1>t, PoolAssumption DEF Locking, TypeOK
  <2>4. Lifecycle'
    BY <2>2, <1>o DEF Lifecycle, TypeOK
  <2>5. Service'
    BY <2>2, <1>o, <1>t DEF Service, TypeOK
  <2> QED BY <2>1, <2>3, <2>4, <2>5
<1>3. CASE Exit(w)
  <2>1. TypeOK'
    BY <1>3, <1>o DEF Exit, TypeOK, Unlock
  <2>2. /\ mutex' = [mutex EXCEPT ![w] = "free"] /\ tasks' = tasks
        /\ pc' = [pc EXCEPT ![w] = "exited"] /\ pc[w] = "check"
        /\ stopped /\ tasks[w] = <<>>
    BY <1>3 DEF Exit, Unlock, MayExit
  <2>3. Locking'
    BY <2>2, <1>t, PoolAssumption DEF Locking, TypeOK
  <2>4. Lifecycle'
    BY <2>2, <1>o DEF Lifecycle, TypeOK
  <2>5. \A i \in Io : sub[i] = "push" => Target(i) # w
    BY <2>2, PoolAssumption DEF Locking
  <2>6. Service'
    BY <2>2, <2>5, <1>o, <1>t DEF Service, TypeOK
  <2> QED BY <2>1, <2>3, <2>4, <2>6
<1>4. CASE Take(w)
  <2>2. /\ mutex' = [mutex EXCEPT ![w] = "free"]
        /\ tasks' = [tasks EXCEPT ![w] = Tail(tasks[w])]
        /\ pc' = [pc EXCEPT ![w] = "lock"] /\ pc[w] = "check"
        /\ taken' = Append(taken, Head(tasks[w]))
        /\ ~MayExit(w)
    BY <1>4 DEF Take, Unlock
  <2>0. tasks[w] \in Seq(Task) /\ tasks[w] # <<>>
    BY <2>2 DEF TypeOK, Service, MayExit
  <2>a. Tail(tasks[w]) \in Seq(Task) /\ Head(tasks[w]) \in Task
    BY <2>0
  <2>1. TypeOK'
    BY <2>2, <2>a, <1>o DEF TypeOK
  <2>3. Locking'
    BY <2>2, <1>t, PoolAssumption DEF Locking, TypeOK
  <2>4. Lifecycle'
    BY <2>2, <1>o DEF Lifecycle, TypeOK
  <2>5. Service'
    BY <2>2, <1>o, <1>t DEF Service, TypeOK
  <2> QED BY <2>1, <2>3, <2>4, <2>5
<1>5. CASE SpuriousWakeup(w)
  <2>1. TypeOK'
    BY <1>5, <1>o DEF SpuriousWakeup, TypeOK
  <2>2. /\ mutex' = mutex /\ tasks' = tasks
        /\ pc' = [pc EXCEPT ![w] = "lock"] /\ pc[w] = "waiting"
    BY <1>5 DEF SpuriousWakeup
  <2>3. Locking'
    BY <2>2, <1>t, PoolAssumption DEF Locking, TypeOK
  <2>4. Lifecycle'
    BY <2>2, <1>o DEF Lifecycle, TypeOK
  <2>5. Service'
    BY <2>2, <1>o, <1>t DEF Service, TypeOK
  <2> QED BY <2>1, <2>3, <2>4, <2>5
<1> QED BY <1>1, <1>2, <1>3, <1>4, <1>5 DEF WorkerStep

\* A notification can only turn a wait into a wakeup.
LEMMA NotifiedIs ==
  ASSUME TypeOK, NEW w \in Worker
  PROVE  /\ Notified(w) \in [Worker -> {"none", "lock", "check", "block", "waiting", "exited"}]
         /\ \A v \in Worker : \/ Notified(w)[v] = pc[v]
                              \/ pc[v] = "waiting" /\ Notified(w)[v] = "lock"
BY DEF Notified, TypeOK

\* The steps of submit() keep the invariant.
LEMMA PoolSubmit == ASSUME IInv, NEW i \in Io, SubmitStep(i) PROVE IInv'
<1> USE DEF IInv
<1>o. UNCHANGED <<stopped, owner, at, taken>>
  BY DEF SubmitStep, SubmitCheck, SubmitLock, SubmitPush, SubmitNotify, ownerVars
<1>s. todo[i] # <<>> /\ todo[i] \in Seq(Task)
  BY DEF SubmitStep, SubmitCheck, SubmitLock, SubmitPush, SubmitNotify, Locking, TypeOK
<1>g. Head(todo[i]) \in Task /\ Target(i) \in Worker /\ Tail(todo[i]) \in Seq(Task)
  BY <1>s, TargetIsWorker
<1>r. ASSUME Return(i)
      PROVE  /\ todo' = [todo EXCEPT ![i] = Tail(todo[i])] /\ todo' \in [Io -> Seq(Task)]
             /\ sub' = [sub EXCEPT ![i] = "idle"]
             /\ \A j \in Io \ {i} : Target(j)' = Target(j) /\ todo'[j] = todo[j] /\ sub'[j] = sub[j]
             /\ sub'[i] = "idle"
  BY <1>r, <1>g DEF Return, TypeOK, Target
<1>1. CASE SubmitCheck(i) /\ stopped
  <2>1. Return(i) /\ UNCHANGED <<tasks, mutex, pc>>
    BY <1>1 DEF SubmitCheck
  <2>2. TypeOK'
    BY <2>1, <1>r, <1>o DEF TypeOK
  <2>3. Locking'
    BY <2>1, <1>r DEF Locking
  <2>4. Lifecycle' /\ Service'
    BY <2>1, <1>r, <1>o DEF Lifecycle, Service
  <2> QED BY <2>2, <2>3, <2>4
<1>2. CASE SubmitCheck(i) /\ ~stopped
  <2>1. sub' = [sub EXCEPT ![i] = "lock"] /\ UNCHANGED <<tasks, mutex, pc, todo>>
    BY <1>2 DEF SubmitCheck
  <2>t. \A j \in Io : Target(j)' = Target(j)
    BY <2>1 DEF Target
  <2>2. TypeOK'
    BY <2>1, <1>o DEF TypeOK
  <2>3. Locking'
    BY <2>1, <2>t, <1>s DEF Locking, TypeOK
  <2>4. Lifecycle' /\ Service'
    BY <2>1, <2>t, <1>o DEF Lifecycle, Service, TypeOK
  <2> QED BY <2>2, <2>3, <2>4
<1>3. CASE SubmitLock(i) /\ stopped
  <2>1. Return(i) /\ UNCHANGED <<tasks, mutex, pc>>
    BY <1>3 DEF SubmitLock, LockedCheck
  <2>2. TypeOK'
    BY <2>1, <1>r, <1>o DEF TypeOK
  <2>3. Locking'
    BY <2>1, <1>r DEF Locking
  <2>4. Lifecycle' /\ Service'
    BY <2>1, <1>r, <1>o DEF Lifecycle, Service
  <2> QED BY <2>2, <2>3, <2>4
<1>4. CASE SubmitLock(i) /\ ~stopped
  <2>1. /\ mutex[Target(i)] = "free" /\ mutex' = [mutex EXCEPT ![Target(i)] = i]
        /\ sub' = [sub EXCEPT ![i] = "push"] /\ UNCHANGED <<tasks, pc, todo>>
    BY <1>4 DEF SubmitLock, LockedCheck
  <2>t. \A j \in Io : Target(j)' = Target(j)
    BY <2>1 DEF Target
  <2>2. TypeOK'
    BY <2>1, <1>g, <1>o DEF TypeOK
  <2>3. Locking'
    <3>1. \A w \in Worker : pc'[w] \in {"check", "block"} <=> mutex'[w] = "worker"
      BY <2>1, <1>g, PoolAssumption DEF Locking, TypeOK
    <3>2. \A j \in Io : sub'[j] # "idle" => todo'[j] # <<>>
      BY <2>1, <1>s DEF Locking, TypeOK
    <3>3. \A j \in Io : sub'[j] = "push" => mutex'[Target(j)'] = j
      BY <2>1, <2>t, <1>g, PoolAssumption DEF Locking, TypeOK
    <3> QED BY <3>1, <3>2, <3>3 DEF Locking
  <2>4. Lifecycle'
    BY <2>1, <1>o DEF Lifecycle
  <2>5. Service'
    <3>1. \A v \in Worker : pc[v] \notin {"none", "exited"}
      BY <1>4 DEF Lifecycle
    <3> QED BY <3>1, <2>1, <1>o DEF Service
  <2> QED BY <2>2, <2>3, <2>4, <2>5
<1>5. CASE SubmitPush(i)
  <2> DEFINE w == Target(i)
  <2>1. /\ sub[i] = "push" /\ sub' = [sub EXCEPT ![i] = "notify"]
        /\ tasks' = [tasks EXCEPT ![w] = Append(tasks[w], Head(todo[i]))]
        /\ mutex' = [mutex EXCEPT ![w] = "free"] /\ UNCHANGED <<pc, todo>>
    BY <1>5 DEF SubmitPush, Unlock
  <2>t. \A j \in Io : Target(j)' = Target(j)
    BY <2>1 DEF Target
  <2>w. w \in Worker /\ mutex[w] = i /\ pc[w] \notin {"none", "exited"}
    BY <2>1, <1>g DEF Locking, Service
  <2> HIDE DEF w
  <2>a. Append(tasks[w], Head(todo[i])) \in Seq(Task) /\ Append(tasks[w], Head(todo[i])) # <<>>
    <3>1. tasks[w] \in Seq(Task) /\ Head(todo[i]) \in Task
      BY <2>w, <1>g DEF TypeOK
    <3>2. /\ Append(tasks[w], Head(todo[i])) \in Seq(Task)
          /\ Len(Append(tasks[w], Head(todo[i]))) = Len(tasks[w]) + 1
          /\ Len(tasks[w]) \in Nat
      BY <3>1
    <3> QED BY <3>2
  <2>2. TypeOK'
    BY <2>1, <2>w, <2>a, <1>o DEF TypeOK
  <2>3. Locking'
    <3>1. \A v \in Worker : pc'[v] \in {"check", "block"} <=> mutex'[v] = "worker"
      BY <2>1, <2>w, PoolAssumption DEF Locking, TypeOK
    <3>2. \A j \in Io : sub'[j] # "idle" => todo'[j] # <<>>
      BY <2>1, <1>s DEF Locking, TypeOK
    <3>3. ASSUME NEW j \in Io, sub'[j] = "push" PROVE mutex'[Target(j)'] = j
      <4>1. j # i /\ sub[j] = "push"
        BY <2>1, <3>3 DEF TypeOK
      <4>2. mutex[Target(j)] = j /\ Target(j) # w /\ Target(j) \in Worker
        BY <4>1, <2>w, TargetIsWorker DEF Locking
      <4> QED BY <4>2, <2>1, <2>t DEF TypeOK
    <3> QED BY <3>1, <3>2, <3>3 DEF Locking
  <2>4. Lifecycle'
    BY <2>1, <1>o DEF Lifecycle
  <2>5. Service'
    <3>1. ASSUME NEW v \in Worker, pc'[v] = "check" PROVE tasks'[v] # <<>> \/ stopped'
      BY <3>1, <2>1, <2>w, <2>a, <1>o DEF Service, TypeOK
    <3>2. ASSUME NEW v \in Worker, pc'[v] \in {"none", "exited"}
          PROVE  /\ tasks'[v] = <<>>
                 /\ \A j \in Io : sub'[j] = "push" => Target(j)' # v
      <4>1. v # w /\ tasks'[v] = tasks[v] /\ pc[v] \in {"none", "exited"}
        BY <3>2, <2>1, <2>w DEF TypeOK
      <4>2. \A j \in Io : sub'[j] = "push" => sub[j] = "push"
        BY <2>1 DEF TypeOK
      <4> QED BY <4>1, <4>2, <2>t DEF Service
    <3> QED BY <3>1, <3>2 DEF Service
  <2> QED BY <2>2, <2>3, <2>4, <2>5
<1>6. CASE SubmitNotify(i)
  <2>1. pc' = Notified(Target(i)) /\ Return(i) /\ UNCHANGED <<tasks, mutex>>
    BY <1>6 DEF SubmitNotify
  <2>n. /\ pc' \in [Worker -> {"none", "lock", "check", "block", "waiting", "exited"}]
        /\ \A v \in Worker : pc'[v] = pc[v] \/ (pc[v] = "waiting" /\ pc'[v] = "lock")
    BY <2>1, <1>g, NotifiedIs
  <2>2. TypeOK'
    BY <2>1, <2>n, <1>r, <1>o DEF TypeOK
  <2>3. Locking'
    <3>1. \A v \in Worker : pc'[v] \in {"check", "block"} <=> pc[v] \in {"check", "block"}
      BY <2>n
    <3>2. \A j \in Io : sub'[j] # "idle" => j # i
      BY <2>1, <1>r
    <3> QED BY <3>1, <3>2, <2>1, <1>r DEF Locking
  <2>4. Lifecycle'
    BY <2>1, <2>n, <1>o DEF Lifecycle
  <2>5. Service'
    <3>1. \A v \in Worker :
            /\ pc'[v] = "check" => pc[v] = "check"
            /\ pc'[v] \in {"none", "exited"} => pc[v] \in {"none", "exited"}
      BY <2>n
    <3>2. \A j \in Io : sub'[j] = "push" => j # i
      BY <2>1, <1>r
    <3>3. \A j \in Io : sub'[j] = "push" => sub[j] = "push" /\ Target(j)' = Target(j)
      BY <3>2, <2>1, <1>r
    <3> QED BY <3>1, <3>3, <2>1, <1>o DEF Service
  <2> QED BY <2>2, <2>3, <2>4, <2>5
<1> QED BY <1>1, <1>2, <1>3, <1>4, <1>5, <1>6 DEF SubmitStep

\* The steps of start() and stop() keep the invariant.
LEMMA PoolOwner == ASSUME IInv, Start \/ Stop \/ StopStep PROVE IInv'
<1> USE DEF IInv
<1>u. UNCHANGED <<tasks, mutex, todo, sub, taken>>
  BY DEF Start, Stop, StopStep, StopNotify, Join, LoopEnds, ioVars
<1>t. \A j \in Io : Target(j)' = Target(j)
  BY <1>u DEF Target
<1>a. at \in 1..(WorkerCount + 1) /\ WorkerCount \in Nat
  BY PoolAssumption DEF TypeOK
<1>1. CASE Start
  <2>1. /\ stopped' = FALSE /\ owner' = "running" /\ owner = "idle" /\ at' = at
        /\ pc' = [w \in Worker |-> "lock"]
    BY <1>1 DEF Start
  <2>2. TypeOK'
    BY <2>1, <1>u DEF TypeOK
  <2>3. Locking'
    <3>1. \A w \in Worker : mutex[w] # "worker"
      BY <2>1 DEF Locking, Lifecycle
    <3> QED BY <3>1, <2>1, <1>u, <1>t DEF Locking
  <2>4. Lifecycle'
    BY <2>1 DEF Lifecycle
  <2>5. Service'
    BY <2>1 DEF Service
  <2> QED BY <2>2, <2>3, <2>4, <2>5
<1>2. CASE Stop
  <2>1. stopped' = TRUE /\ owner' = "notify" /\ pc' = pc /\ at' = 1
    BY <1>2 DEF Stop
  <2>2. TypeOK'
    BY <2>1, <1>u, <1>a DEF TypeOK
  <2>3. Locking'
    BY <2>1, <1>u, <1>t DEF Locking
  <2>4. Lifecycle'
    BY <2>1 DEF Lifecycle
  <2>5. Service'
    BY <2>1, <1>u, <1>t DEF Service
  <2> QED BY <2>2, <2>3, <2>4, <2>5
<1>3. CASE StopNotify
  <2>1. pc' = Notified(at)
    BY <1>3 DEF StopNotify
  <2>2. /\ owner = "notify" /\ owner' = owner /\ stopped' = stopped /\ at' = at + 1
        /\ at \in Worker
    BY <1>3 DEF StopNotify
  <2>n. /\ pc' \in [Worker -> {"none", "lock", "check", "block", "waiting", "exited"}]
        /\ \A v \in Worker : pc'[v] = pc[v] \/ (pc[v] = "waiting" /\ pc'[v] = "lock")
    BY <2>1, <2>2, NotifiedIs
  <2>3. TypeOK'
    <3>1. at' \in 1..(WorkerCount + 1)
      BY <2>2, <1>a DEF Worker
    <3> QED BY <3>1, <2>2, <2>n, <1>u DEF TypeOK
  <2>4. Locking'
    BY <2>n, <1>u, <1>t DEF Locking
  <2>5. Lifecycle'
    BY <2>2, <2>n DEF Lifecycle
  <2>6. Service'
    BY <2>2, <2>n, <1>u, <1>t DEF Service
  <2> QED BY <2>3, <2>4, <2>5, <2>6
<1>4. CASE Join
  <2>1. /\ owner = "join" /\ owner' = owner /\ stopped' = stopped /\ at' = at + 1
        /\ at \in Worker /\ pc[at] = "exited" /\ pc' = [pc EXCEPT ![at] = "none"]
    BY <1>4 DEF Join
  <2>2. TypeOK'
    <3>1. at' \in 1..(WorkerCount + 1)
      BY <2>1, <1>a DEF Worker
    <3> QED BY <3>1, <2>1, <1>u DEF TypeOK
  <2>3. Locking'
    BY <2>1, <1>u, <1>t DEF Locking, TypeOK
  <2>4. Lifecycle'
    <3>1. \A w \in Worker : w < at' => pc'[w] = "none"
      BY <2>1, <1>a DEF Lifecycle, TypeOK, Worker
    <3>2. \A w \in Worker : pc'[w] \in {"none", "exited"} => stopped'
      BY <2>1 DEF Lifecycle, TypeOK
    <3> QED BY <3>1, <3>2, <2>1 DEF Lifecycle
  <2>5. Service'
    BY <2>1, <1>u, <1>t DEF Service, TypeOK
  <2> QED BY <2>2, <2>3, <2>4, <2>5
<1>5. CASE LoopEnds
  <2>1. /\ stopped' = stopped /\ pc' = pc /\ at \notin Worker
        /\ \/ owner = "notify" /\ owner' = "join" /\ at' = 1
           \/ owner = "join" /\ owner' = "idle" /\ at' = at
    BY <1>5 DEF LoopEnds
  <2>2. TypeOK'
    BY <2>1, <1>u, <1>a DEF TypeOK
  <2>3. Locking'
    BY <2>1, <1>u, <1>t DEF Locking
  <2>4. Lifecycle'
    <3>1. at = WorkerCount + 1 /\ \A w \in Worker : w < at /\ ~(w < 1)
      BY <2>1, <1>a DEF Worker
    <3> QED BY <3>1, <2>1 DEF Lifecycle
  <2>5. Service'
    BY <2>1, <1>u, <1>t DEF Service
  <2> QED BY <2>2, <2>3, <2>4, <2>5
<1> QED BY <1>1, <1>2, <1>3, <1>4, <1>5 DEF StopStep

\* Every step keeps the invariant.
LEMMA PoolInductive == IInv /\ [Next]_vars => IInv'
<1>1. ASSUME IInv, UNCHANGED vars PROVE IInv'
  BY <1>1 DEF vars, IInv, TypeOK, Locking, Lifecycle, Service, Target, WorkerOf
<1> QED BY <1>1, PoolWorker, PoolSubmit, PoolOwner DEF Next

\* The variables always have their types.
THEOREM PoolTypeCorrect == Spec => []TypeOK
<1> QED BY PoolInit, PoolInductive, PTL DEF Spec, IInv

\* No worker ever takes from an empty queue.
THEOREM PoolTakesFromNonEmpty == Spec => []TakesFromNonEmpty
<1>1. IInv => TakesFromNonEmpty
  BY DEF IInv, Service, TakesFromNonEmpty, MayExit
<1> QED BY <1>1, PoolInit, PoolInductive, PTL DEF Spec

\* No accepted task is stranded in the queue of a worker that has exited, nor
\* in any queue once stop() has returned.
THEOREM PoolStrandsNothing == Spec => []ExitedWorkerHasNoTasks
<1>1. IInv => ExitedWorkerHasNoTasks
  BY DEF IInv, Service, Lifecycle, ExitedWorkerHasNoTasks
<1> QED BY <1>1, PoolInit, PoolInductive, PTL DEF Spec

-----------------------------------------------------------------------------
(* The order of tasks.  A thread's tasks enter a worker's queue in the     *)
(* order of its script, and the queue keeps their order; the worker takes  *)
(* from the front, so what it took comes before what it has queued.        *)

\* t comes before u in the script of a thread that submits both.
Before(t, u) ==
  \A i \in Io : \A m, n \in DOMAIN Script[i] :
    t = Script[i][m] /\ u = Script[i][n] => m < n

\* Tasks of thread i for which submit() has returned, and those it has pushed.
Returned(i) == Len(Script[i]) - Len(todo[i])
Pushed(i) == IF sub[i] = "notify" THEN Returned(i) + 1 ELSE Returned(i)

Entered(t) == \A i \in Io : \A n \in DOMAIN Script[i] : t = Script[i][n] => n <= Pushed(i)

\* What is left to submit is the rest of the script.
Rest ==
  \A i \in Io : /\ Returned(i) \in Nat
                /\ \A k \in 1..Len(todo[i]) : todo[i][k] = Script[i][Returned(i) + k]

Queues ==
  \A w \in Worker : \A q \in DOMAIN tasks[w] :
    /\ WorkerOf(tasks[w][q]) = w /\ Entered(tasks[w][q])
    /\ \A p \in DOMAIN tasks[w] : p < q => Before(tasks[w][p], tasks[w][q])
    /\ \A p \in DOMAIN taken : WorkerOf(taken[p]) = w => Before(taken[p], tasks[w][q])

Taken ==
  \A q \in DOMAIN taken :
    /\ Entered(taken[q])
    /\ \A p \in DOMAIN taken :
         p < q /\ WorkerOf(taken[p]) = WorkerOf(taken[q]) => Before(taken[p], taken[q])

OInv == Rest /\ Queues /\ Taken

LEMMA OrderInit == Init => OInv
<1> SUFFICES ASSUME Init PROVE OInv
  OBVIOUS
<1>1. Rest
  BY PoolAssumption DEF Init, Rest, Returned
<1>2. Queues /\ Taken
  BY DEF Init, Queues, Taken
<1> QED BY <1>1, <1>2 DEF OInv

\* Every task is submitted once.
LEMMA SubmittedOnce ==
  ASSUME NEW i \in Io, NEW j \in Io, NEW m \in DOMAIN Script[i], NEW n \in DOMAIN Script[j],
         Script[i][m] = Script[j][n]
  PROVE  i = j /\ m = n
BY PoolAssumption

\* The task that submit() is working on is the next one of the script.
LEMMA NextTask ==
  ASSUME IInv, OInv, NEW i \in Io, sub[i] # "idle"
  PROVE  /\ Returned(i) \in Nat /\ Returned(i) + 1 \in DOMAIN Script[i]
         /\ Head(todo[i]) = Script[i][Returned(i) + 1]
<1>1. todo[i] \in Seq(Task) /\ todo[i] # <<>> /\ Script[i] \in Seq(Task)
  BY PoolAssumption DEF IInv, TypeOK, Locking
<1>2. /\ Len(todo[i]) \in Nat \ {0} /\ Head(todo[i]) = todo[i][1]
      /\ Len(Script[i]) \in Nat /\ DOMAIN Script[i] = 1..Len(Script[i])
  BY <1>1, EmptySeq, LenProperties, HeadTailProperties
<1>3. Returned(i) \in Nat /\ Head(todo[i]) = Script[i][Returned(i) + 1]
  BY <1>2 DEF OInv, Rest
<1>4. \A a \in Nat \ {0}, b, c \in Nat : c = b - a => c + 1 \in 1..b
  OBVIOUS
<1>5. Returned(i) = Len(Script[i]) - Len(todo[i])
  BY DEF Returned
<1> QED BY <1>2, <1>3, <1>4, <1>5

\* What a thread pushes next comes after all of its tasks that have entered.
LEMMA PushedLast ==
  ASSUME IInv, OInv, NEW i \in Io, sub[i] = "push", NEW t, Entered(t)
  PROVE  Before(t, Head(todo[i]))
<1> SUFFICES ASSUME NEW j \in Io, NEW m \in DOMAIN Script[j], NEW n \in DOMAIN Script[j],
                    t = Script[j][m], Head(todo[i]) = Script[j][n]
             PROVE  m < n
  BY DEF Before
<1>1. j = i /\ n = Returned(i) + 1
  BY NextTask, SubmittedOnce
<1>2. m <= Returned(i)
  BY <1>1 DEF Entered, Pushed
<1>3. m \in Nat /\ Returned(i) \in Nat
  BY NextTask, PoolAssumption, LenProperties
<1> QED BY <1>1, <1>2, <1>3

\* Steps that leave the queues and submissions alone.
LEMMA OrderKept ==
  ASSUME OInv, UNCHANGED <<tasks, taken, todo, sub>>
  PROVE  OInv'
<1>1. \A i \in Io : Returned(i)' = Returned(i) /\ Pushed(i)' = Pushed(i)
  BY DEF Returned, Pushed
<1>2. Rest'
  BY <1>1 DEF OInv, Rest
<1>3. ASSUME NEW t, Entered(t) PROVE Entered(t)'
  BY <1>1, <1>3 DEF Entered
<1>4. Queues' /\ Taken'
  BY <1>3 DEF OInv, Queues, Taken, Before, WorkerOf
<1> QED BY <1>2, <1>4 DEF OInv

\* A worker takes the front of its queue, which comes after all it took before
\* and before all that is left.
LEMMA OrderTake ==
  ASSUME IInv, OInv, NEW w \in Worker, Take(w)
  PROVE  OInv'
<1>1. PICK t : t = Head(tasks[w])
  OBVIOUS
<1>2. /\ tasks' = [tasks EXCEPT ![w] = Tail(@)] /\ taken' = Append(taken, t)
      /\ UNCHANGED <<todo, sub>>
  BY <1>1 DEF Take, ioVars
<1>3. tasks \in [Worker -> Seq(Task)] /\ tasks[w] # <<>> /\ taken \in Seq(Task)
  BY DEF IInv, TypeOK, Service, Take, MayExit
<1>4. \A i \in Io : Returned(i)' = Returned(i) /\ Pushed(i)' = Pushed(i)
  BY <1>2 DEF Returned, Pushed
<1>5. ASSUME NEW u, Entered(u) PROVE Entered(u)'
  BY <1>4, <1>5 DEF Entered
<1>6. Rest'
  BY <1>2, <1>4 DEF OInv, Rest
<1>7. /\ t = tasks[w][1] /\ 1 \in DOMAIN tasks[w] /\ t \in Task
      /\ \A q \in DOMAIN Tail(tasks[w]) :
           q \in Nat /\ q + 1 \in DOMAIN tasks[w] /\ Tail(tasks[w])[q] = tasks[w][q + 1] /\ 1 < q + 1
  BY <1>1, <1>3, HeadTailProperties, LenProperties
<1>8. /\ DOMAIN taken' = DOMAIN taken \cup {Len(taken) + 1} /\ taken'[Len(taken) + 1] = t
      /\ \A p \in DOMAIN taken : taken'[p] = taken[p] /\ p < Len(taken) + 1 /\ p \in Nat
      /\ Len(taken) \in Nat
  BY <1>2, <1>3, <1>7, AppendProperties, LenProperties
<1>9. Queues'
  <2> SUFFICES ASSUME NEW v \in Worker, NEW q \in DOMAIN tasks'[v]
               PROVE  /\ WorkerOf(tasks'[v][q]) = v /\ Entered(tasks[v][q])'
                      /\ \A p \in DOMAIN tasks'[v] : p < q => Before(tasks'[v][p], tasks'[v][q])
                      /\ \A p \in DOMAIN taken' :
                           WorkerOf(taken'[p]) = v => Before(taken'[p], tasks'[v][q])
    BY DEF Queues, WorkerOf, Before
  <2>1. PICK k \in DOMAIN tasks[v] :
          /\ tasks'[v][q] = tasks[v][k]
          /\ \A p \in DOMAIN tasks'[v] : p < q =>
               \E l \in DOMAIN tasks[v] : l < k /\ tasks'[v][p] = tasks[v][l]
          /\ v = w => 1 < k
    <3>1. CASE v = w
      BY <1>2, <1>3, <1>7, <3>1
    <3>2. CASE v # w
      BY <1>2, <1>3, <3>2
    <3> QED BY <3>1, <3>2
  <2>2. WorkerOf(tasks'[v][q]) = v /\ Entered(tasks[v][q])'
    <3>1. WorkerOf(tasks[v][k]) = v /\ Entered(tasks[v][k])
      BY DEF OInv, Queues
    <3>2. PICK u : u = tasks[v][k]
      OBVIOUS
    <3>3. Entered(u)'
      BY <1>5, <3>1, <3>2
    <3> QED BY <2>1, <3>1, <3>2, <3>3 DEF Entered
  <2>3. \A p \in DOMAIN tasks'[v] : p < q => Before(tasks'[v][p], tasks'[v][q])
    BY <2>1 DEF OInv, Queues
  <2>4. ASSUME NEW p \in DOMAIN taken', WorkerOf(taken'[p]) = v
        PROVE  Before(taken'[p], tasks'[v][q])
    <3>1. CASE p \in DOMAIN taken
      BY <1>8, <2>1, <2>4, <3>1 DEF OInv, Queues
    <3>2. CASE taken'[p] = t
      <4>1. v = w
        BY <1>7, <2>4, <3>2 DEF OInv, Queues
      <4> QED BY <1>7, <2>1, <3>2, <4>1 DEF OInv, Queues
    <3> QED BY <1>8, <3>1, <3>2
  <2> QED BY <2>2, <2>3, <2>4
<1>10. Taken'
  <2> SUFFICES ASSUME NEW q \in DOMAIN taken'
               PROVE  /\ Entered(taken[q])'
                      /\ \A p \in DOMAIN taken' : p < q /\ WorkerOf(taken'[p]) = WorkerOf(taken'[q])
                           => Before(taken'[p], taken'[q])
    BY DEF Taken, WorkerOf, Before
  <2>1. Entered(taken[q])'
    <3>1. Entered(taken'[q])
      BY <1>7, <1>8 DEF OInv, Queues, Taken
    <3>2. PICK u : u = taken'[q]
      OBVIOUS
    <3>3. Entered(u)'
      BY <1>5, <3>1, <3>2
    <3> QED BY <3>2, <3>3 DEF Entered
  <2>2. ASSUME NEW p \in DOMAIN taken', p < q, WorkerOf(taken'[p]) = WorkerOf(taken'[q])
        PROVE  Before(taken'[p], taken'[q])
    <3>1. p \in DOMAIN taken /\ taken'[p] = taken[p]
      BY <1>8, <2>2
    <3>2. CASE q \in DOMAIN taken
      BY <1>8, <2>2, <3>1, <3>2 DEF OInv, Taken
    <3>3. CASE taken'[q] = t
      BY <1>7, <2>2, <3>1, <3>3 DEF OInv, Queues
    <3> QED BY <1>8, <3>2, <3>3
  <2> QED BY <2>1, <2>2
<1> QED BY <1>6, <1>9, <1>10 DEF OInv

\* submit() returns: one task of the script is done with.
LEMMA OrderReturn ==
  ASSUME IInv, OInv, NEW i \in Io, todo[i] # <<>>, Return(i), UNCHANGED <<tasks, taken>>
  PROVE  OInv'
<1>1. todo' = [todo EXCEPT ![i] = Tail(@)] /\ sub' = [sub EXCEPT ![i] = "idle"]
  BY DEF Return
<1>2. todo \in [Io -> Seq(Task)] /\ sub \in [Io -> {"idle", "lock", "push", "notify"}]
  BY DEF IInv, TypeOK
<1>3. /\ Len(todo[i]) \in Nat \ {0} /\ Len(todo'[i]) = Len(todo[i]) - 1
      /\ \A k \in 1..(Len(todo[i]) - 1) : todo'[i][k] = todo[i][k + 1]
  BY <1>1, <1>2, HeadTailProperties, LenProperties, EmptySeq
<1>4. Len(Script[i]) \in Nat
  BY PoolAssumption, LenProperties
<1>5. Returned(i)' = Returned(i) + 1 /\ Returned(i) \in Nat
  BY <1>3, <1>4 DEF Returned, OInv, Rest
<1>6. \A j \in Io \ {i} : todo'[j] = todo[j] /\ sub'[j] = sub[j]
  BY <1>1, <1>2
<1>7. \A j \in Io \ {i} : Returned(j)' = Returned(j) /\ Pushed(j)' = Pushed(j)
  BY <1>6 DEF Returned, Pushed
<1>8. Rest'
  <2> SUFFICES ASSUME NEW j \in Io
               PROVE  /\ Returned(j)' \in Nat
                      /\ \A k \in 1..Len(todo'[j]) : todo'[j][k] = Script[j][Returned(j)' + k]
    BY DEF Rest
  <2>1. CASE j # i
    BY <1>6, <1>7, <2>1 DEF OInv, Rest
  <2>2. CASE j = i
    <3>1. \A k \in 1..(Len(todo[i]) - 1) :
            k + 1 \in 1..Len(todo[i]) /\ Returned(i) + (k + 1) = Returned(i) + 1 + k
      <4>1. \A l \in Nat \ {0}, r \in Nat : \A k \in 1..(l - 1) :
              k + 1 \in 1..l /\ r + (k + 1) = r + 1 + k
        OBVIOUS
      <4> QED BY <1>3, <1>5, <4>1
    <3>2. \A k \in 1..(Len(todo[i]) - 1) : todo[i][k + 1] = Script[i][Returned(i) + 1 + k]
      BY <3>1 DEF OInv, Rest
    <3> QED BY <1>3, <1>5, <2>2, <3>2
  <2> QED BY <2>1, <2>2
<1>9. Pushed(i) <= Pushed(i)' /\ Pushed(i) \in Nat /\ Pushed(i)' \in Nat
  BY <1>1, <1>2, <1>5 DEF Pushed
<1>10. ASSUME NEW t, Entered(t) PROVE Entered(t)'
  <2> SUFFICES ASSUME NEW j \in Io, NEW n \in DOMAIN Script[j], t = Script[j][n]
               PROVE  n <= Pushed(j)'
    BY DEF Entered
  <2>1. n <= Pushed(j) /\ n \in Nat
    BY <1>10, PoolAssumption, LenProperties DEF Entered
  <2> QED BY <1>7, <1>9, <2>1
<1>11. Queues' /\ Taken'
  BY <1>10 DEF OInv, Queues, Taken, Before, WorkerOf
<1> QED BY <1>8, <1>11 DEF OInv

\* A push appends the next task of the script to the queue of its worker.
LEMMA OrderPush ==
  ASSUME IInv, OInv, NEW i \in Io, SubmitPush(i)
  PROVE  OInv'
<1>1. PICK w \in Worker, t \in Task : w = Target(i) /\ t = Head(todo[i]) /\ WorkerOf(t) = w
  BY TargetIsWorker DEF IInv, Locking, SubmitPush, Target
<1>2. /\ sub[i] = "push" /\ sub' = [sub EXCEPT ![i] = "notify"]
      /\ tasks' = [tasks EXCEPT ![w] = Append(@, t)] /\ UNCHANGED <<todo, taken>>
  BY <1>1 DEF SubmitPush
<1>3. /\ tasks \in [Worker -> Seq(Task)]
      /\ sub \in [Io -> {"idle", "lock", "push", "notify"}]
  BY DEF IInv, TypeOK
<1>4. \A j \in Io : Returned(j)' = Returned(j) /\ Returned(j) \in Nat
  BY <1>2 DEF Returned, OInv, Rest
<1>5. /\ Pushed(i) = Returned(i) /\ Pushed(i)' = Returned(i) + 1
      /\ \A j \in Io \ {i} : Pushed(j)' = Pushed(j)
  BY <1>2, <1>3, <1>4 DEF Pushed
<1>6. Rest'
  BY <1>2, <1>4 DEF OInv, Rest
<1>7. ASSUME NEW u, Entered(u) PROVE Entered(u)'
  <2> SUFFICES ASSUME NEW j \in Io, NEW n \in DOMAIN Script[j], u = Script[j][n]
               PROVE  n <= Pushed(j)'
    BY DEF Entered
  <2>1. n <= Pushed(j) /\ n \in Nat
    BY <1>7, PoolAssumption, LenProperties DEF Entered
  <2> QED BY <1>4, <1>5, <2>1
<1>8. Entered(t)'
  <2>1. PICK m \in DOMAIN Script[i] : m = Returned(i) + 1 /\ t = Script[i][m]
    BY <1>1, <1>2, NextTask
  <2> SUFFICES ASSUME NEW j \in Io, NEW n \in DOMAIN Script[j], t = Script[j][n]
               PROVE  n <= Pushed(j)'
    BY DEF Entered
  <2>2. j = i /\ n = m
    <3>1. Script[i][m] = Script[j][n]
      BY <2>1
    <3> QED BY <3>1, SubmittedOnce
  <2> QED BY <1>4, <1>5, <2>1, <2>2
<1>9. ASSUME NEW u, Entered(u) PROVE Before(u, t)
  BY <1>1, <1>2, <1>9, PushedLast
<1>10. /\ DOMAIN tasks'[w] = DOMAIN tasks[w] \cup {Len(tasks[w]) + 1}
       /\ tasks'[w][Len(tasks[w]) + 1] = t /\ Len(tasks[w]) \in Nat
       /\ \A p \in DOMAIN tasks[w] :
            tasks'[w][p] = tasks[w][p] /\ p < Len(tasks[w]) + 1 /\ p \in Nat
  BY <1>2, <1>3, AppendProperties, LenProperties
<1>11. Taken'
  BY <1>2, <1>7 DEF OInv, Taken, Before, WorkerOf
<1>12. Queues'
  <2> SUFFICES ASSUME NEW v \in Worker, NEW q \in DOMAIN tasks'[v]
               PROVE  /\ WorkerOf(tasks'[v][q]) = v /\ Entered(tasks[v][q])'
                      /\ \A p \in DOMAIN tasks'[v] : p < q => Before(tasks'[v][p], tasks'[v][q])
                      /\ \A p \in DOMAIN taken' :
                           WorkerOf(taken'[p]) = v => Before(taken'[p], tasks'[v][q])
    BY DEF Queues, WorkerOf, Before
  <2>1. CASE v # w
    <3>1. tasks'[v] = tasks[v]
      BY <1>2, <1>3, <2>1
    <3>2. PICK u : u = tasks[v][q] /\ Entered(u)
      BY <3>1 DEF OInv, Queues
    <3>3. Entered(u)'
      BY <1>7, <3>2
    <3>4. Entered(tasks[v][q])'
      BY <3>1, <3>2, <3>3 DEF Entered
    <3> QED BY <1>2, <3>1, <3>4 DEF OInv, Queues
  <2>2. CASE v = w /\ q \in DOMAIN tasks[w]
    <3>1. PICK u : u = tasks[w][q] /\ Entered(u)
      BY <2>2 DEF OInv, Queues
    <3>2. tasks'[w][q] = u
      BY <1>10, <2>2, <3>1
    <3>3. Entered(u)'
      BY <1>7, <3>1
    <3>4. Entered(tasks[v][q])'
      BY <2>2, <3>2, <3>3 DEF Entered
    <3>5. \A p \in DOMAIN tasks'[w] : p < q => p \in DOMAIN tasks[w] /\ tasks'[w][p] = tasks[w][p]
      BY <1>10, <2>2
    <3> QED BY <1>2, <2>2, <3>1, <3>2, <3>4, <3>5 DEF OInv, Queues
  <2>3. CASE v = w /\ q = Len(tasks[w]) + 1
    <3>1. tasks'[w][q] = t
      BY <1>10, <2>3
    <3>2. Entered(tasks[v][q])'
      BY <1>8, <2>3, <3>1 DEF Entered
    <3>3. \A p \in DOMAIN tasks'[w] : p < q => p \in DOMAIN tasks[w] /\ tasks'[w][p] = tasks[w][p]
      BY <1>10, <2>3
    <3>4. \A p \in DOMAIN tasks[w] : Before(tasks[w][p], t)
      BY <1>9 DEF OInv, Queues
    <3>5. \A p \in DOMAIN taken : Before(taken[p], t)
      BY <1>9 DEF OInv, Taken
    <3> QED BY <1>1, <1>2, <2>3, <3>1, <3>2, <3>3, <3>4, <3>5
  <2> QED BY <1>10, <2>1, <2>2, <2>3
<1> QED BY <1>6, <1>11, <1>12 DEF OInv

\* Every step keeps the order of tasks.
LEMMA OrderInductive == IInv /\ OInv /\ [Next]_vars => OInv'
<1> SUFFICES ASSUME IInv, OInv, [Next]_vars PROVE OInv'
  OBVIOUS
<1>1. CASE UNCHANGED vars
  BY <1>1, OrderKept DEF vars
<1>2. ASSUME NEW w \in Worker, WorkerStep(w) \/ SpuriousWakeup(w) PROVE OInv'
  BY <1>2, OrderTake, OrderKept DEF WorkerStep, Lock, Block, Exit, SpuriousWakeup, ioVars
<1>3. ASSUME NEW i \in Io, SubmitStep(i) PROVE OInv'
  <2>1. CASE SubmitPush(i)
    BY <2>1, OrderPush
  <2>2. CASE ~SubmitPush(i)
    <3>1. UNCHANGED <<tasks, taken>> /\ todo[i] # <<>>
      BY <1>3, <2>2 DEF SubmitStep, SubmitCheck, SubmitLock, SubmitNotify, IInv, Locking
    <3>2. CASE Return(i)
      BY <3>1, <3>2, OrderReturn
    <3>3. CASE ~Return(i)
      <4>1. /\ todo' = todo /\ sub[i] \in {"idle", "lock"}
            /\ \E where \in {"lock", "push"} : sub' = [sub EXCEPT ![i] = where]
        BY <1>3, <2>2, <3>3 DEF SubmitStep, SubmitCheck, SubmitLock, SubmitNotify
      <4>2. \A j \in Io : Returned(j)' = Returned(j) /\ Pushed(j)' = Pushed(j)
        BY <4>1 DEF IInv, TypeOK, Returned, Pushed
      <4>3. ASSUME NEW t, Entered(t) PROVE Entered(t)'
        BY <4>2, <4>3 DEF Entered
      <4>4. Rest'
        BY <4>1, <4>2 DEF OInv, Rest
      <4>5. Queues' /\ Taken'
        BY <3>1, <4>3 DEF OInv, Queues, Taken, Before, WorkerOf
      <4> QED BY <4>4, <4>5 DEF OInv
    <3> QED BY <3>2, <3>3
  <2> QED BY <2>1, <2>2
<1>4. ASSUME Start \/ Stop \/ StopStep PROVE OInv'
  BY <1>4, OrderKept DEF Start, Stop, StopStep, StopNotify, Join, LoopEnds, ioVars
<1> QED BY <1>1, <1>2, <1>3, <1>4 DEF Next

\* The tasks of one key are started in the order in which a thread submitted
\* them, for any number of workers and whatever start() and stop() interleave.
THEOREM PoolKeepsKeyOrder == Spec => []KeyOrder
<1>1. OInv /\ IInv => KeyOrder
  <2> SUFFICES ASSUME OInv, IInv, NEW i \in Io, NEW m \in DOMAIN Script[i],
                      NEW n \in DOMAIN Script[i], m < n,
                      KeyOf[Script[i][m]] = KeyOf[Script[i][n]],
                      NEW p \in DOMAIN taken, NEW q \in DOMAIN taken, p < q,
                      taken[p] = Script[i][n], taken[q] = Script[i][m]
               PROVE  FALSE
    BY DEF KeyOrder
  <2>1. WorkerOf(taken[p]) = WorkerOf(taken[q])
    BY DEF WorkerOf
  <2>2. n < m
    BY <2>1 DEF OInv, Taken, Before
  <2>3. m \in Nat /\ n \in Nat
    BY PoolAssumption, LenProperties
  <2> QED BY <2>2, <2>3
<1> QED BY <1>1, PoolInit, PoolInductive, OrderInit, OrderInductive, PTL DEF Spec

=============================================================================
