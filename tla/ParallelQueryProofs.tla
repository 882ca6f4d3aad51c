------------------------- MODULE ParallelQueryProofs -------------------------
(***************************************************************************)
(* Safety of ThreadPool, for any finite number of workers and any tasks,   *)
(* and of ParallelQuery, for every number of clusters, every answer of a   *)
(* cluster and every result of its test.                                   *)
(*                                                                         *)
(* The invariants of the pool are proved in layers, each using those       *)
(* before it: types, then what a thread's program counter says of its      *)
(* local variables, of the mutex and of `stop`, then where a task can be.  *)
(* Nothing in that part is about query().                                  *)
(*                                                                         *)
(* A step of query() is a step of its thread pool or leaves the pool       *)
(* alone, so the invariant of the pool holds without another proof; it     *)
(* says that the future of a finished task keeps its state and that a      *)
(* destroyed pool has drained.  What is added is where query() stands: the *)
(* futures before `next` hold values, and a phase says how far `next` got. *)
(***************************************************************************)
EXTENDS ParallelQuery, FiniteSetTheorems, TLAPS

(* Who holds the mutex is who stands where the mutex is held. *)
MutexControl ==
    \A p \in Threads : mutex = p <=> pc[p] \in {"check", "enqPush", "setStop"}

(* A worker holds a task from taking it until it has run, calls of enqueue *)
(* by its body included; a thread holds an argument until enqueue has      *)
(* pushed or refused it.                                                   *)
LocalControl ==
    /\ \A w \in Workers :
          task[w] # NoTask <=> pc[w] \in {"run", "enqLock", "enqPush", "enqNotify"}
    /\ \A p \in Threads : arg[p] # NoTask <=> pc[p] \in {"enqLock", "enqPush"}

(* `stop` is set from the critical section of the destructor on, workers   *)
(* exit only then, and the destructor returns only when all have.          *)
StopControl ==
    /\ stop <=> pc[Owner] \in {"notifyAll", "join", "destroyed"}
    /\ \A w \in Workers : pc[w] = "exited" => stop /\ tasks = <<>>
    /\ pc[Owner] = "destroyed" => \A w \in Workers : pc[w] = "exited"

(* A task that is being enqueued is in the hands of one thread.            *)
ArgPlacement ==
    /\ \A p, q \in Threads : arg[p] # NoTask /\ arg[p] = arg[q] => p = q
    /\ \A t \in Tasks : future[t] = "created" <=> \E p \in Threads : arg[p] = t

-----------------------------------------------------------------------------
(* Types, and what a thread has in its local variables. *)

(* Before the constructor has started a thread, every variable has its     *)
(* type and every local variable is empty.                                 *)
LEMMA TypeInit == Init => TypeOK /\ LocalControl
<1> SUFFICES ASSUME Init PROVE TypeOK /\ LocalControl
    OBVIOUS
<1> USE ThreadsAssumption DEF Init, Threads
<1>1. /\ pc \in [Threads -> OwnerPCs \cup WorkerPCs]
      /\ pc[Owner] = "construct"
      /\ \A w \in Workers : pc[w] = "new"
    BY DEF OwnerPCs, WorkerPCs
<1>2. future \in [Tasks -> FutureStates]
    BY DEF FutureStates
<1>3. tasks \in Seq(Tasks)
    OBVIOUS
<1>4. /\ task \in [Threads -> Tasks \cup {NoTask}]
      /\ arg \in [Threads -> Tasks \cup {NoTask}]
    OBVIOUS
<1>5. TypeOK
    BY <1>1, <1>2, <1>3, <1>4 DEF TypeOK, OwnerPCs, WorkerPCs
<1>6. LocalControl
    BY <1>1 DEF LocalControl
<1>7. QED BY <1>5, <1>6

(* A step leaves a task in the local variable of a worker exactly while it *)
(* runs one or enqueues from one, and an argument exactly during a call of *)
(* enqueue.                                                                *)
LEMMA LocalStep == TypeOK /\ LocalControl /\ [Next]_vars => LocalControl'
<1> SUFFICES ASSUME TypeOK, LocalControl, [Next]_vars PROVE LocalControl'
    OBVIOUS
<1> USE ThreadsAssumption, TasksAssumption
<1> USE DEF TypeOK, LocalControl, Threads, OwnerPCs, WorkerPCs
<1>1. CASE OwnerStep
    BY <1>1 DEF OwnerStep, FinishConstruction, SetStop, NotifyAll, JoinWorkers, Asleep
<1>2. CASE CallDestructor
    BY <1>2 DEF CallDestructor
<1>3. ASSUME NEW w \in Workers, LaunchWorker(w) \/ WorkerStep(w) \/ SpuriousWakeup(w)
      PROVE  LocalControl'
    <2>1. CASE LaunchWorker(w) \/ SpuriousWakeup(w)
        BY <2>1 DEF LaunchWorker, SpuriousWakeup
    <2>2. CASE WaitForWork(w) \/ ExitWorker(w)
        BY <2>2 DEF WaitForWork, ExitWorker
    <2>3. CASE TakeTask(w)
        <3>1. Head(tasks) # NoTask
            BY <2>3 DEF TakeTask
        <3>2. QED BY <2>3, <3>1 DEF TakeTask
    <2>4. CASE CompleteTask(w)
        BY <2>4 DEF CompleteTask
    <2>5. QED BY <1>3, <2>1, <2>2, <2>3, <2>4 DEF WorkerStep
<1>4. ASSUME NEW p \in Threads, Acquire(p) \/ EnqueueStep(p)
      PROVE  LocalControl'
    <2>1. CASE Acquire(p)
        <3>1. /\ pc[p] \in {"lock", "enqLock", "stopLock"}
              /\ Granted["lock"] = "check"
              /\ Granted["enqLock"] = "enqPush"
              /\ Granted["stopLock"] = "setStop"
            BY <2>1 DEF Acquire, Granted
        <3>2. QED BY <2>1, <3>1 DEF Acquire
    <2>2. CASE PushTask(p)
        BY <2>2 DEF PushTask
    <2>3. CASE RefuseTask(p)
        BY <2>3 DEF RefuseTask, Caller
    <2>4. CASE NotifyOne(p)
        BY <2>4 DEF NotifyOne, Caller, Asleep
    <2>5. QED BY <1>4, <2>1, <2>2, <2>3, <2>4 DEF EnqueueStep
<1>5. ASSUME NEW p \in Threads, NEW t \in Tasks, CallEnqueue(p, t)
      PROVE  LocalControl'
    BY <1>5 DEF CallEnqueue, Caller
<1>6. CASE UNCHANGED vars
    BY <1>6 DEF vars
<1>7. QED
    BY <1>1, <1>2, <1>3, <1>4, <1>5, <1>6 DEF Next, Terminated

(* A step keeps the types; the task that a worker stores in a future and   *)
(* the one a caller pushes are tasks because of LocalControl.              *)
LEMMA TypeStep == TypeOK /\ LocalControl /\ [Next]_vars => TypeOK'
<1> SUFFICES ASSUME TypeOK, LocalControl, [Next]_vars PROVE TypeOK'
    OBVIOUS
<1> USE ThreadsAssumption, TasksAssumption
<1> USE DEF TypeOK, Threads, OwnerPCs, WorkerPCs, FutureStates
<1>1. CASE OwnerStep
    BY <1>1 DEF OwnerStep, FinishConstruction, SetStop, NotifyAll, JoinWorkers, Asleep
<1>2. CASE CallDestructor
    BY <1>2 DEF CallDestructor
<1>3. ASSUME NEW w \in Workers, LaunchWorker(w) \/ WorkerStep(w) \/ SpuriousWakeup(w)
      PROVE  TypeOK'
    <2>1. CASE LaunchWorker(w) \/ SpuriousWakeup(w)
        BY <2>1 DEF LaunchWorker, SpuriousWakeup
    <2>2. CASE WaitForWork(w) \/ ExitWorker(w)
        BY <2>2 DEF WaitForWork, ExitWorker
    <2>3. CASE TakeTask(w)
        <3>1. Head(tasks) \in Tasks /\ Tail(tasks) \in Seq(Tasks)
            BY <2>3 DEF TakeTask
        <3>2. QED BY <2>3, <3>1 DEF TakeTask
    <2>4. CASE CompleteTask(w)
        BY <2>4 DEF CompleteTask
    <2>5. QED BY <1>3, <2>1, <2>2, <2>3, <2>4 DEF WorkerStep
<1>4. ASSUME NEW p \in Threads, Acquire(p) \/ EnqueueStep(p)
      PROVE  TypeOK'
    <2>1. CASE Acquire(p)
        <3>1. /\ p = Owner => pc[p] # "lock"
              /\ p # Owner => pc[p] # "stopLock"
            BY <2>1 DEF Acquire
        <3>2. /\ pc[p] \in {"lock", "enqLock", "stopLock"}
              /\ Granted["lock"] = "check"
              /\ Granted["enqLock"] = "enqPush"
              /\ Granted["stopLock"] = "setStop"
            BY <2>1 DEF Acquire, Granted
        <3>3. QED BY <2>1, <3>1, <3>2 DEF Acquire
    <2>2. CASE PushTask(p)
        <3>1. arg[p] \in Tasks
            BY <2>2 DEF PushTask, LocalControl
        <3>2. QED BY <2>2, <3>1 DEF PushTask
    <2>3. CASE RefuseTask(p)
        BY <2>3 DEF RefuseTask, Caller
    <2>4. CASE NotifyOne(p)
        BY <2>4 DEF NotifyOne, Caller, Asleep
    <2>5. QED BY <1>4, <2>1, <2>2, <2>3, <2>4 DEF EnqueueStep
<1>5. ASSUME NEW p \in Threads, NEW t \in Tasks, CallEnqueue(p, t)
      PROVE  TypeOK'
    BY <1>5 DEF CallEnqueue, Caller
<1>6. CASE UNCHANGED vars
    BY <1>6 DEF vars
<1>7. QED
    BY <1>1, <1>2, <1>3, <1>4, <1>5, <1>6 DEF Next, Terminated

(* Every variable keeps its type. *)
THEOREM TypeCorrect == Spec => []TypeOK
<1>1. Spec => [](TypeOK /\ LocalControl)
    BY TypeInit, LocalStep, TypeStep, PTL DEF Spec
<1>2. QED BY <1>1, PTL

-----------------------------------------------------------------------------
(* The mutex and `stop`. *)

(* The pool starts with a free mutex, a lowered stop and no worker asleep. *)
LEMMA ControlInit == Init => MutexControl /\ StopControl /\ StopWakesAll
BY ThreadsAssumption
   DEF Init, MutexControl, StopControl, StopWakesAll, Asleep, Threads

(* A thread enters a critical section only by taking a free mutex and      *)
(* leaves it only by releasing it, so the holder stays the only one        *)
(* inside.                                                                 *)
LEMMA MutexStep ==
    TypeOK /\ MutexControl /\ [Next]_vars => MutexControl'
<1> SUFFICES ASSUME TypeOK, MutexControl, [Next]_vars PROVE MutexControl'
    OBVIOUS
<1> USE ThreadsAssumption, TasksAssumption
<1> USE DEF TypeOK, MutexControl, Threads, OwnerPCs, WorkerPCs
<1>1. CASE OwnerStep
    BY <1>1 DEF OwnerStep, FinishConstruction, SetStop, NotifyAll, JoinWorkers, Asleep
<1>2. CASE CallDestructor
    BY <1>2 DEF CallDestructor
<1>3. ASSUME NEW w \in Workers, LaunchWorker(w) \/ WorkerStep(w) \/ SpuriousWakeup(w)
      PROVE  MutexControl'
    <2>1. CASE LaunchWorker(w) \/ SpuriousWakeup(w)
        BY <2>1 DEF LaunchWorker, SpuriousWakeup
    <2>2. CASE WaitForWork(w) \/ ExitWorker(w)
        BY <2>2 DEF WaitForWork, ExitWorker
    <2>3. CASE TakeTask(w)
        BY <2>3 DEF TakeTask
    <2>4. CASE CompleteTask(w)
        BY <2>4 DEF CompleteTask
    <2>5. QED BY <1>3, <2>1, <2>2, <2>3, <2>4 DEF WorkerStep
<1>4. ASSUME NEW p \in Threads, Acquire(p) \/ EnqueueStep(p)
      PROVE  MutexControl'
    <2>1. CASE Acquire(p)
        <3>1. /\ pc[p] \in {"lock", "enqLock", "stopLock"}
              /\ Granted["lock"] = "check"
              /\ Granted["enqLock"] = "enqPush"
              /\ Granted["stopLock"] = "setStop"
            BY <2>1 DEF Acquire, Granted
        <3>2. QED BY <2>1, <3>1 DEF Acquire
    <2>2. CASE PushTask(p)
        BY <2>2 DEF PushTask
    <2>3. CASE RefuseTask(p)
        BY <2>3 DEF RefuseTask, Caller
    <2>4. CASE NotifyOne(p)
        BY <2>4 DEF NotifyOne, Caller, Asleep
    <2>5. QED BY <1>4, <2>1, <2>2, <2>3, <2>4 DEF EnqueueStep
<1>5. ASSUME NEW p \in Threads, NEW t \in Tasks, CallEnqueue(p, t)
      PROVE  MutexControl'
    BY <1>5 DEF CallEnqueue, Caller
<1>6. CASE UNCHANGED vars
    BY <1>6 DEF vars
<1>7. QED
    BY <1>1, <1>2, <1>3, <1>4, <1>5, <1>6 DEF Next, Terminated

(* stop is raised by the owner alone, on its way through the destructor.   *)
LEMMA StopStep ==
    TypeOK /\ StopControl /\ [Next]_vars => StopControl'
<1> SUFFICES ASSUME TypeOK, StopControl, [Next]_vars PROVE StopControl'
    OBVIOUS
<1> USE ThreadsAssumption, TasksAssumption
<1> USE DEF TypeOK, StopControl, Threads, OwnerPCs, WorkerPCs
<1>1. CASE OwnerStep
    BY <1>1 DEF OwnerStep, FinishConstruction, SetStop, NotifyAll, JoinWorkers, Asleep
<1>2. CASE CallDestructor
    BY <1>2 DEF CallDestructor
<1>3. ASSUME NEW w \in Workers, LaunchWorker(w) \/ WorkerStep(w) \/ SpuriousWakeup(w)
      PROVE  StopControl'
    <2>1. CASE LaunchWorker(w) \/ SpuriousWakeup(w)
        BY <2>1 DEF LaunchWorker, SpuriousWakeup
    <2>2. CASE WaitForWork(w) \/ ExitWorker(w)
        BY <2>2 DEF WaitForWork, ExitWorker
    <2>3. CASE TakeTask(w)
        BY <2>3 DEF TakeTask
    <2>4. CASE CompleteTask(w)
        BY <2>4 DEF CompleteTask
    <2>5. QED BY <1>3, <2>1, <2>2, <2>3, <2>4 DEF WorkerStep
<1>4. ASSUME NEW p \in Threads, Acquire(p) \/ EnqueueStep(p)
      PROVE  StopControl'
    <2>1. CASE Acquire(p)
        <3>1. /\ pc[p] \in {"lock", "enqLock", "stopLock"}
              /\ Granted["lock"] = "check"
              /\ Granted["enqLock"] = "enqPush"
              /\ Granted["stopLock"] = "setStop"
            BY <2>1 DEF Acquire, Granted
        <3>2. QED BY <2>1, <3>1 DEF Acquire
    <2>2. CASE PushTask(p)
        BY <2>2 DEF PushTask
    <2>3. CASE RefuseTask(p)
        BY <2>3 DEF RefuseTask, Caller
    <2>4. CASE NotifyOne(p)
        BY <2>4 DEF NotifyOne, Caller, Asleep
    <2>5. QED BY <1>4, <2>1, <2>2, <2>3, <2>4 DEF EnqueueStep
<1>5. ASSUME NEW p \in Threads, NEW t \in Tasks, CallEnqueue(p, t)
      PROVE  StopControl'
    BY <1>5 DEF CallEnqueue, Caller
<1>6. CASE UNCHANGED vars
    BY <1>6 DEF vars
<1>7. QED
    BY <1>1, <1>2, <1>3, <1>4, <1>5, <1>6 DEF Next, Terminated

(* No worker goes to sleep once stop is raised, and those asleep before    *)
(* are woken by the notification that follows it.                          *)
LEMMA WakeStep ==
    TypeOK /\ StopControl /\ StopWakesAll /\ [Next]_vars => StopWakesAll'
<1> SUFFICES ASSUME TypeOK, StopControl, StopWakesAll, [Next]_vars PROVE StopWakesAll'
    OBVIOUS
<1> USE ThreadsAssumption, TasksAssumption
<1> USE DEF TypeOK, StopControl, StopWakesAll, Asleep, Threads, OwnerPCs, WorkerPCs
<1>1. CASE OwnerStep
    BY <1>1 DEF OwnerStep, FinishConstruction, SetStop, NotifyAll, JoinWorkers, Asleep
<1>2. CASE CallDestructor
    BY <1>2 DEF CallDestructor
<1>3. ASSUME NEW w \in Workers, LaunchWorker(w) \/ WorkerStep(w) \/ SpuriousWakeup(w)
      PROVE  StopWakesAll'
    <2>1. CASE LaunchWorker(w) \/ SpuriousWakeup(w)
        BY <2>1 DEF LaunchWorker, SpuriousWakeup
    <2>2. CASE WaitForWork(w) \/ ExitWorker(w)
        BY <2>2 DEF WaitForWork, ExitWorker
    <2>3. CASE TakeTask(w)
        BY <2>3 DEF TakeTask
    <2>4. CASE CompleteTask(w)
        BY <2>4 DEF CompleteTask
    <2>5. QED BY <1>3, <2>1, <2>2, <2>3, <2>4 DEF WorkerStep
<1>4. ASSUME NEW p \in Threads, Acquire(p) \/ EnqueueStep(p)
      PROVE  StopWakesAll'
    <2>1. CASE Acquire(p)
        <3>1. /\ pc[p] \in {"lock", "enqLock", "stopLock"}
              /\ Granted["lock"] = "check"
              /\ Granted["enqLock"] = "enqPush"
              /\ Granted["stopLock"] = "setStop"
            BY <2>1 DEF Acquire, Granted
        <3>2. QED BY <2>1, <3>1 DEF Acquire
    <2>2. CASE PushTask(p)
        BY <2>2 DEF PushTask
    <2>3. CASE RefuseTask(p)
        BY <2>3 DEF RefuseTask, Caller
    <2>4. CASE NotifyOne(p)
        BY <2>4 DEF NotifyOne, Caller, Asleep
    <2>5. QED BY <1>4, <2>1, <2>2, <2>3, <2>4 DEF EnqueueStep
<1>5. ASSUME NEW p \in Threads, NEW t \in Tasks, CallEnqueue(p, t)
      PROVE  StopWakesAll'
    BY <1>5 DEF CallEnqueue, Caller
<1>6. CASE UNCHANGED vars
    BY <1>6 DEF vars
<1>7. QED
    BY <1>1, <1>2, <1>3, <1>4, <1>5, <1>6 DEF Next, Terminated

-----------------------------------------------------------------------------
(* Where a task can be. *)

(* At first no task is anywhere and no future is pending.                  *)
LEMMA PlacementInit == Init => ArgPlacement /\ TaskPlacement
BY ThreadsAssumption, TasksAssumption
   DEF Init, ArgPlacement, TaskPlacement, Threads

(* A task that is being enqueued is not pending, and no two threads        *)
(* enqueue the same one.                                                   *)
LEMMA ArgStep ==
    TypeOK /\ LocalControl /\ ArgPlacement /\ TaskPlacement /\ [Next]_vars => ArgPlacement'
<1> SUFFICES ASSUME TypeOK, LocalControl, ArgPlacement, TaskPlacement, [Next]_vars PROVE ArgPlacement'
    OBVIOUS
<1> USE ThreadsAssumption, TasksAssumption
<1> USE DEF TypeOK, LocalControl, ArgPlacement, Threads, OwnerPCs, WorkerPCs, TaskPlacement, FutureStates
<1>1. CASE OwnerStep
    BY <1>1 DEF OwnerStep, FinishConstruction, SetStop, NotifyAll, JoinWorkers, Asleep
<1>2. CASE CallDestructor
    BY <1>2 DEF CallDestructor
<1>3. ASSUME NEW w \in Workers, LaunchWorker(w) \/ WorkerStep(w) \/ SpuriousWakeup(w)
      PROVE  ArgPlacement'
    <2>1. CASE LaunchWorker(w) \/ SpuriousWakeup(w)
        BY <2>1 DEF LaunchWorker, SpuriousWakeup
    <2>2. CASE WaitForWork(w) \/ ExitWorker(w)
        BY <2>2 DEF WaitForWork, ExitWorker
    <2>3. CASE TakeTask(w)
        BY <2>3 DEF TakeTask
    <2>4. CASE CompleteTask(w)
        BY <2>4 DEF CompleteTask
    <2>5. QED BY <1>3, <2>1, <2>2, <2>3, <2>4 DEF WorkerStep
<1>4. ASSUME NEW p \in Threads, Acquire(p) \/ EnqueueStep(p)
      PROVE  ArgPlacement'
    <2>1. CASE Acquire(p)
        <3>1. /\ pc[p] \in {"lock", "enqLock", "stopLock"}
              /\ Granted["lock"] = "check"
              /\ Granted["enqLock"] = "enqPush"
              /\ Granted["stopLock"] = "setStop"
            BY <2>1 DEF Acquire, Granted
        <3>2. QED BY <2>1, <3>1 DEF Acquire
    <2>2. CASE PushTask(p)
        BY <2>2 DEF PushTask
    <2>3. CASE RefuseTask(p)
        BY <2>3 DEF RefuseTask, Caller
    <2>4. CASE NotifyOne(p)
        BY <2>4 DEF NotifyOne, Caller, Asleep
    <2>5. QED BY <1>4, <2>1, <2>2, <2>3, <2>4 DEF EnqueueStep
<1>5. ASSUME NEW p \in Threads, NEW t \in Tasks, CallEnqueue(p, t)
      PROVE  ArgPlacement'
    BY <1>5 DEF CallEnqueue, Caller
<1>6. CASE UNCHANGED vars
    BY <1>6 DEF vars
<1>7. QED
    BY <1>1, <1>2, <1>3, <1>4, <1>5, <1>6 DEF Next, Terminated

(* Pushing, taking and completing a task move it from one place to exactly *)
(* one other, or away for good.                                            *)
LEMMA PlacementStep ==
    TypeOK /\ LocalControl /\ ArgPlacement /\ TaskPlacement /\ [Next]_vars => TaskPlacement'
<1> SUFFICES ASSUME TypeOK, LocalControl, ArgPlacement, TaskPlacement, [Next]_vars PROVE TaskPlacement'
    OBVIOUS
<1> USE ThreadsAssumption, TasksAssumption
<1> USE DEF TypeOK, LocalControl, ArgPlacement, Threads, OwnerPCs, WorkerPCs, TaskPlacement, FutureStates
<1>1. CASE OwnerStep
    BY <1>1 DEF OwnerStep, FinishConstruction, SetStop, NotifyAll, JoinWorkers, Asleep
<1>2. CASE CallDestructor
    BY <1>2 DEF CallDestructor
<1>3. ASSUME NEW w \in Workers, LaunchWorker(w) \/ WorkerStep(w) \/ SpuriousWakeup(w)
      PROVE  TaskPlacement'
    <2>1. CASE LaunchWorker(w) \/ SpuriousWakeup(w)
        BY <2>1 DEF LaunchWorker, SpuriousWakeup
    <2>2. CASE WaitForWork(w) \/ ExitWorker(w)
        BY <2>2 DEF WaitForWork, ExitWorker
    <2>3. CASE TakeTask(w)
        <3> DEFINE rest == Tail(tasks)
        <3>1. /\ Len(tasks) \in Nat \ {0} /\ DOMAIN tasks = 1 .. Len(tasks)
              /\ DOMAIN rest = 1 .. Len(tasks) - 1
              /\ \A i \in DOMAIN rest : rest[i] = tasks[i + 1] /\ i + 1 \in DOMAIN tasks
              /\ \A i \in DOMAIN tasks : i = 1 \/ (i - 1 \in DOMAIN rest /\ rest[i - 1] = tasks[i])
              /\ Head(tasks) = tasks[1] /\ tasks[1] \in Tasks
            BY <2>3 DEF TakeTask
        <3>2. /\ task'[w] = tasks[1] /\ \A v \in Workers \ {w} : task'[v] = task[v]
              /\ tasks' = rest /\ future' = future
              /\ task[w] = NoTask
            BY <2>3, <3>1 DEF TakeTask
        <3> HIDE DEF rest
        <3>3. QED BY <3>1, <3>2
    <2>4. CASE CompleteTask(w)
        BY <2>4 DEF CompleteTask
    <2>5. QED BY <1>3, <2>1, <2>2, <2>3, <2>4 DEF WorkerStep
<1>4. ASSUME NEW p \in Threads, Acquire(p) \/ EnqueueStep(p)
      PROVE  TaskPlacement'
    <2>1. CASE Acquire(p)
        <3>1. /\ pc[p] \in {"lock", "enqLock", "stopLock"}
              /\ Granted["lock"] = "check"
              /\ Granted["enqLock"] = "enqPush"
              /\ Granted["stopLock"] = "setStop"
            BY <2>1 DEF Acquire, Granted
        <3>2. QED BY <2>1, <3>1 DEF Acquire
    <2>2. CASE PushTask(p)
        <3> DEFINE longer == Append(tasks, arg[p])
        <3>1. /\ arg[p] \in Tasks /\ future[arg[p]] = "created"
              /\ tasks' = longer /\ task' = task
              /\ future' = [future EXCEPT ![arg[p]] = "pending"]
            BY <2>2 DEF PushTask
        <3>2. /\ Len(tasks) \in Nat /\ DOMAIN tasks = 1 .. Len(tasks)
              /\ DOMAIN longer = 1 .. Len(tasks) + 1
              /\ \A i \in DOMAIN tasks : longer[i] = tasks[i] /\ i # Len(tasks) + 1
              /\ longer[Len(tasks) + 1] = arg[p]
            BY <3>1
        <3>3. /\ \A i \in DOMAIN tasks : tasks[i] \in Tasks /\ tasks[i] # arg[p]
              /\ \A w \in Workers : task[w] # arg[p]
            BY <3>1
        <3> HIDE DEF longer
        <3>4. \A i, j \in DOMAIN longer : longer[i] = longer[j] => i = j
            BY <3>2, <3>3
        <3>5. \A i \in DOMAIN longer, w \in Workers : longer[i] # task[w]
            BY <3>2, <3>3
        <3>6. ASSUME NEW t \in Tasks
              PROVE  future'[t] = "pending" <=> \/ \E i \in DOMAIN longer : longer[i] = t
                                               \/ \E w \in Workers : task[w] = t
            <4>1. CASE t = arg[p]
                <5>1. \E i \in DOMAIN longer : longer[i] = t
                    BY <3>2, <4>1
                <5>2. QED BY <3>1, <4>1, <5>1
            <4>2. CASE t # arg[p]
                <5>1. future'[t] = future[t]
                    BY <3>1, <4>2
                <5>2. (\E i \in DOMAIN longer : longer[i] = t)
                          <=> (\E i \in DOMAIN tasks : tasks[i] = t)
                    BY <3>2, <4>2
                <5>3. QED BY <5>1, <5>2
            <4>3. QED BY <4>1, <4>2
        <3>7. QED BY <3>1, <3>4, <3>5, <3>6
    <2>3. CASE RefuseTask(p)
        BY <2>3 DEF RefuseTask, Caller
    <2>4. CASE NotifyOne(p)
        BY <2>4 DEF NotifyOne, Caller, Asleep
    <2>5. QED BY <1>4, <2>1, <2>2, <2>3, <2>4 DEF EnqueueStep
<1>5. ASSUME NEW p \in Threads, NEW t \in Tasks, CallEnqueue(p, t)
      PROVE  TaskPlacement'
    BY <1>5 DEF CallEnqueue, Caller
<1>6. CASE UNCHANGED vars
    BY <1>6 DEF vars
<1>7. QED
    BY <1>1, <1>2, <1>3, <1>4, <1>5, <1>6 DEF Next, Terminated

-----------------------------------------------------------------------------
(* Work conservation. *)

(* The two sets that work conservation counts are finite.                  *)
LEMMA CountsAreNumbers ==
    /\ IsFiniteSet(OnTheirWay) /\ Cardinality(OnTheirWay) \in Nat
    /\ IsFiniteSet(Notifying) /\ Cardinality(Notifying) \in Nat
    /\ IsFiniteSet(OnTheirWay') /\ Cardinality(OnTheirWay') \in Nat
    /\ IsFiniteSet(Notifying') /\ Cardinality(Notifying') \in Nat
<1>1. IsFiniteSet(Workers) /\ IsFiniteSet(Threads)
    BY WorkersAssumption, FS_AddElement DEF Threads
<1>2. /\ OnTheirWay \in SUBSET Workers /\ OnTheirWay' \in SUBSET Workers
      /\ Notifying \in SUBSET Threads /\ Notifying' \in SUBSET Threads
    BY DEF OnTheirWay, Notifying
<1>3. QED BY <1>1, <1>2, FS_Subset, FS_CardinalityType

(* A step that leaves the queue alone, puts nobody to sleep and takes      *)
(* nobody off the way to the queue or from notifying conserves work.       *)
LEMMA WorkConservedByArrivals ==
    ASSUME WorkConserving, tasks \in Seq(Tasks), UNCHANGED tasks,
           Asleep' \subseteq Asleep,
           OnTheirWay \subseteq OnTheirWay', Notifying \subseteq Notifying'
    PROVE  WorkConserving'
<1>1. /\ Cardinality(OnTheirWay) <= Cardinality(OnTheirWay')
      /\ Cardinality(Notifying) <= Cardinality(Notifying')
    BY CountsAreNumbers, FS_Subset
<1>2. Len(tasks) \in Nat /\ Len(tasks') = Len(tasks)
    OBVIOUS
<1>3. Asleep' # {} => Asleep # {}
    OBVIOUS
<1>4. QED BY <1>1, <1>2, <1>3, CountsAreNumbers DEF WorkConserving

(* With an empty queue there is no work to conserve.                       *)
LEMMA WorkConservedWhenEmpty ==
    ASSUME tasks' = <<>>
    PROVE  WorkConserving'
<1>1. Len(tasks') = 0
    OBVIOUS
<1>2. QED BY <1>1, CountsAreNumbers DEF WorkConserving

(* The queue of a new pool is empty.                                       *)
LEMMA WorkInit == Init => WorkConserving
<1> SUFFICES ASSUME Init PROVE WorkConserving
    OBVIOUS
<1>1. Len(tasks) = 0
    BY DEF Init
<1>2. QED BY <1>1, CountsAreNumbers DEF WorkConserving

(* A push adds a task and a notification still to be sent; a notification  *)
(* turns a sleeper into a worker on its way; a worker that leaves the way  *)
(* takes a task or has found none.                                         *)
LEMMA WorkStep ==
    TypeOK /\ WorkConserving /\ [Next]_vars => WorkConserving'
<1> SUFFICES ASSUME TypeOK, WorkConserving, [Next]_vars PROVE WorkConserving'
    OBVIOUS
<1> USE ThreadsAssumption
<1> DEFINE Arrivals ==
        /\ UNCHANGED tasks /\ Asleep' \subseteq Asleep
        /\ OnTheirWay \subseteq OnTheirWay' /\ Notifying \subseteq Notifying'
<1>1. Arrivals => WorkConserving'
    BY WorkConservedByArrivals DEF TypeOK
<1>2. CASE OwnerStep \/ CallDestructor
    <2>1. CASE FinishConstruction \/ SetStop \/ NotifyAll \/ JoinWorkers
        <3>1. Arrivals
            BY <2>1 DEF FinishConstruction, SetStop, NotifyAll, JoinWorkers,
                        TypeOK, Threads, Asleep, OnTheirWay, Notifying
        <3>2. QED BY <1>1, <3>1
    <2>2. CASE CallDestructor
        <3>1. Arrivals
            BY <2>2 DEF CallDestructor, TypeOK, Threads, Asleep, OnTheirWay, Notifying
        <3>2. QED BY <1>1, <3>1
    <2>3. QED BY <1>2, <2>1, <2>2 DEF OwnerStep
<1>3. ASSUME NEW w \in Workers, LaunchWorker(w) \/ WorkerStep(w) \/ SpuriousWakeup(w)
      PROVE  WorkConserving'
    <2>1. CASE LaunchWorker(w) \/ SpuriousWakeup(w) \/ CompleteTask(w)
        <3>1. Arrivals
            BY <2>1 DEF LaunchWorker, SpuriousWakeup, CompleteTask,
                        TypeOK, Threads, Asleep, OnTheirWay, Notifying
        <3>2. QED BY <1>1, <3>1
    <2>2. CASE WaitForWork(w) \/ ExitWorker(w)
        BY <2>2, WorkConservedWhenEmpty DEF WaitForWork, ExitWorker
    <2>3. CASE TakeTask(w)
        <3>1. /\ w \in OnTheirWay /\ OnTheirWay' = OnTheirWay \ {w}
              /\ Notifying' = Notifying /\ Asleep' = Asleep
            BY <2>3 DEF TakeTask, TypeOK, Threads, Asleep, OnTheirWay, Notifying
        <3>2. Cardinality(OnTheirWay') = Cardinality(OnTheirWay) - 1
            BY <3>1, CountsAreNumbers, FS_RemoveElement
        <3>3. Len(tasks) \in Nat /\ Len(tasks') = Len(tasks) - 1
            BY <2>3 DEF TakeTask, TypeOK
        <3>4. QED BY <3>1, <3>2, <3>3, CountsAreNumbers DEF WorkConserving
    <2>4. QED BY <1>3, <2>1, <2>2, <2>3 DEF WorkerStep
<1>4. ASSUME NEW p \in Threads, Acquire(p) \/ EnqueueStep(p)
      PROVE  WorkConserving'
    <2>1. CASE Acquire(p)
        <3>1. /\ pc[p] \in {"lock", "enqLock", "stopLock"}
              /\ Granted["lock"] = "check"
              /\ Granted["enqLock"] = "enqPush"
              /\ Granted["stopLock"] = "setStop"
            BY <2>1 DEF Acquire, Granted
        <3>2. Arrivals
            BY <2>1, <3>1 DEF Acquire, TypeOK, Threads, Asleep, OnTheirWay, Notifying
        <3>3. QED BY <1>1, <3>2
    <2>2. CASE PushTask(p)
        <3>1. /\ OnTheirWay' = OnTheirWay /\ Asleep' = Asleep
              /\ p \notin Notifying /\ Notifying' = Notifying \cup {p}
            BY <2>2 DEF PushTask, TypeOK, Threads, Asleep, OnTheirWay, Notifying
        <3>2. Cardinality(Notifying') = Cardinality(Notifying) + 1
            BY <3>1, CountsAreNumbers, FS_AddElement
        <3>3. Len(tasks) \in Nat /\ Len(tasks') = Len(tasks) + 1
            BY <2>2 DEF PushTask, TypeOK
        <3>4. QED BY <3>1, <3>2, <3>3, CountsAreNumbers DEF WorkConserving
    <2>3. CASE RefuseTask(p)
        <3>1. Arrivals
            BY <2>3 DEF RefuseTask, Caller, TypeOK, Threads, Asleep, OnTheirWay, Notifying
        <3>2. QED BY <1>1, <3>1
    <2>4. CASE NotifyOne(p)
        <3>1. CASE Asleep = {}
            <4>1. Asleep' = {}
                BY <2>4, <3>1 DEF NotifyOne, Caller, TypeOK, Threads, Asleep
            <4>2. QED BY <4>1 DEF WorkConserving
        <3>2. ASSUME NEW w \in Asleep,
                     pc' = [pc EXCEPT ![p] = Caller(p), ![w] = "lock"]
              PROVE  WorkConserving'
            <4>1. /\ w \notin OnTheirWay /\ OnTheirWay' = OnTheirWay \cup {w}
                  /\ p \in Notifying /\ Notifying' = Notifying \ {p}
                BY <2>4, <3>2
                   DEF NotifyOne, Caller, TypeOK, Threads, Asleep, OnTheirWay, Notifying
            <4>2. /\ Cardinality(OnTheirWay') = Cardinality(OnTheirWay) + 1
                  /\ Cardinality(Notifying') = Cardinality(Notifying) - 1
                BY <4>1, CountsAreNumbers, FS_AddElement, FS_RemoveElement
            <4>3. Len(tasks) \in Nat /\ tasks' = tasks
                BY <2>4 DEF NotifyOne, TypeOK
            <4>4. Asleep # {}
                OBVIOUS
            <4>5. QED BY <4>2, <4>3, <4>4, CountsAreNumbers DEF WorkConserving
        <3>3. QED BY <2>4, <3>1, <3>2 DEF NotifyOne
    <2>5. QED BY <1>4, <2>1, <2>2, <2>3, <2>4 DEF EnqueueStep
<1>5. ASSUME NEW p \in Threads, NEW t \in Tasks, CallEnqueue(p, t)
      PROVE  WorkConserving'
    <2>1. Arrivals
        BY <1>5 DEF CallEnqueue, Caller, TypeOK, Threads, Asleep, OnTheirWay, Notifying
    <2>2. QED BY <1>1, <2>1
<1>6. CASE UNCHANGED vars
    <2>1. Arrivals
        BY <1>6 DEF vars, Asleep, OnTheirWay, Notifying
    <2>2. QED BY <1>1, <2>1
<1>7. QED
    BY <1>2, <1>3, <1>4, <1>5, <1>6 DEF Next, Terminated

-----------------------------------------------------------------------------
(* The theorems. *)

(* Together the invariants of the layers are inductive.                    *)
Safety ==
    /\ TypeOK /\ LocalControl /\ MutexControl /\ StopControl
    /\ StopWakesAll /\ ArgPlacement /\ TaskPlacement /\ WorkConserving

(* The inductive invariant holds at first.                                 *)
LEMMA SafetyInit == Init => Safety
BY TypeInit, ControlInit, PlacementInit, WorkInit DEF Safety

(* Every step of the pool keeps the inductive invariant.                   *)
LEMMA SafetyStep == Safety /\ [Next]_vars => Safety'
BY TypeStep, LocalStep, MutexStep, StopStep, WakeStep, ArgStep,
   PlacementStep, WorkStep
   DEF Safety

(* The inductive invariant holds in every reachable state.                 *)
LEMMA SafetyInvariant == Spec => []Safety
BY SafetyInit, SafetyStep, PTL DEF Spec

(* At most one thread is in a critical section of queue_mutex.             *)
THEOREM MutualExclusion ==
    Spec => [](\A p, q \in Threads :
                  /\ pc[p] \in {"check", "enqPush", "setStop"}
                  /\ pc[q] \in {"check", "enqPush", "setStop"}
                  => p = q)
<1>1. Safety => \A p, q \in Threads :
                  /\ pc[p] \in {"check", "enqPush", "setStop"}
                  /\ pc[q] \in {"check", "enqPush", "setStop"}
                  => p = q
    BY DEF Safety, MutexControl
<1>2. QED BY <1>1, SafetyInvariant, PTL

(* No task is lost and none is run twice: a pending task is in the queue   *)
(* once, or in the hands of one worker.                                    *)
THEOREM TasksArePlaced == Spec => []TaskPlacement
<1>1. Safety => TaskPlacement
    BY DEF Safety
<1>2. QED BY <1>1, SafetyInvariant, PTL

(* The destructor leaves no worker asleep: stop is raised under the mutex, *)
(* so no worker can sleep after it without the notification to come.       *)
THEOREM StopWakesAllWorkers == Spec => []StopWakesAll
<1>1. Safety => StopWakesAll
    BY DEF Safety
<1>2. QED BY <1>1, SafetyInvariant, PTL

(* A pool that has been destroyed has drained: a step of the invariant that *)
(* modules which use the pool rely on, too.                                *)
LEMMA SafetyDrains == Safety => DestructorDrains
<1> SUFFICES ASSUME Safety, pc[Owner] = "destroyed"
             PROVE  /\ \A w \in Workers : pc[w] = "exited"
                    /\ tasks = <<>>
                    /\ \A t \in Tasks : future[t] \notin {"created", "pending"}
    BY DEF DestructorDrains
<1>1. /\ \A w \in Workers : pc[w] = "exited"
      /\ tasks = <<>>
    BY WorkersAssumption DEF Safety, StopControl
<1>2. /\ \A w \in Workers : task[w] = NoTask
      /\ \A p \in Threads : arg[p] = NoTask
    BY <1>1 DEF Safety, LocalControl, Threads
<1>3. \A t \in Tasks : future[t] \notin {"created", "pending"}
    BY <1>1, <1>2, TasksAssumption DEF Safety, ArgPlacement, TaskPlacement
<1>4. QED BY <1>1, <1>3

(* When the destructor has returned, all workers have exited and all that  *)
(* was accepted has run.                                                   *)
THEOREM DestructorHasDrained == Spec => []DestructorDrains
BY SafetyInvariant, SafetyDrains, PTL

(* The pool is as parallel as it can be, and so no wakeup is lost.         *)
THEOREM WorkIsConserved == Spec => []WorkConserving
<1>1. Safety => WorkConserving
    BY DEF Safety
<1>2. QED BY <1>1, SafetyInvariant, PTL

(* While a task is queued and all workers sleep, somebody is about to      *)
(* notify them: a consequence of work conservation.                        *)
THEOREM NoWakeupIsLost == Spec => []NoLostWakeup
<1>1. Safety => NoLostWakeup
    <2> SUFFICES ASSUME Safety, tasks # <<>>, Asleep = Workers
                 PROVE  Notifying # {}
        BY DEF NoLostWakeup
    <2>1. OnTheirWay = {}
        BY DEF Asleep, OnTheirWay
    <2>2. Len(tasks) \in Nat /\ Len(tasks) > 0
        BY DEF Safety, TypeOK
    <2>3. Len(tasks) <= Cardinality(Notifying)
        BY <2>1, <2>2, CountsAreNumbers, FS_EmptySet, WorkersAssumption
           DEF Safety, WorkConserving
    <2>4. QED BY <2>2, <2>3, FS_EmptySet
<1>2. QED BY <1>1, SafetyInvariant, PTL

-----------------------------------------------------------------------------
(* The pool of threads implements the task pool without threads. *)

Running == {task[w] : w \in Workers} \ {NoTask}

(* The task pool counts as this module does.                               *)
LEMMA SameCardinality == \A S : Service!Cardinality(S) = Cardinality(S)
BY Zenon DEF Cardinality, Service!Cardinality

(* A worker without a task leaves room for another running one.            *)
LEMMA RoomToRun ==
    ASSUME NEW w \in Workers, task[w] = NoTask
    PROVE  Cardinality(Running) < Cardinality(Workers)
<1> DEFINE busy == {v \in Workers : task[v] # NoTask}
           tasksOf == [v \in busy |-> task[v]]
<1>1. IsFiniteSet(busy) /\ Cardinality(busy) <= Cardinality(Workers \ {w})
    <2>1. IsFiniteSet(Workers \ {w}) /\ busy \in SUBSET (Workers \ {w})
        BY WorkersAssumption, FS_RemoveElement
    <2>2. QED BY <2>1, FS_Subset
<1>2. Cardinality(Workers \ {w}) = Cardinality(Workers) - 1 /\ Cardinality(Workers) \in Nat
    BY WorkersAssumption, FS_RemoveElement, FS_CardinalityType
<1>3. tasksOf \in Surjection(busy, Running)
    BY DEF Running, Surjection
<1>4. IsFiniteSet(Running) /\ Cardinality(Running) <= Cardinality(busy)
    BY <1>1, <1>3, FS_Surjection
<1>5. Cardinality(Running) \in Nat /\ Cardinality(busy) \in Nat
    BY <1>1, <1>4, FS_CardinalityType
<1>6. QED BY <1>1, <1>2, <1>4, <1>5

(* A new pool of threads is a new task pool.                               *)
LEMMA RefinementInit == Init => Service!PoolInit
<1> SUFFICES ASSUME Init PROVE Service!PoolInit
    OBVIOUS
<1>1. Running = {}
    BY DEF Init, Running, Threads
<1>2. pc[Owner] = "construct" /\ stop = FALSE
    BY DEF Init, Threads
<1>3. QED BY <1>1, <1>2 DEF Init, Running, Service!PoolInit

(* Every step of a thread is a step of the task pool or changes nothing of *)
(* it: a push accepts the task or refuses it, taking a task starts it,     *)
(* storing its result finishes it, and the pool closes when the destructor *)
(* raises stop and is closed when it has joined all workers.               *)
LEMMA RefinementStep ==
    Safety /\ [Next]_vars => [Service!PoolNext]_(Service!poolVars)
<1> DEFINE Outcome == [t \in Tasks |-> IF future[t] = "created" THEN "none" ELSE future[t]]
           Mode == IF pc[Owner] = "destroyed" THEN "closed"
                   ELSE IF stop THEN "closing" ELSE "open"
           Stutter == UNCHANGED <<tasks, Running, Outcome, Mode>>
<1> SUFFICES ASSUME Safety, [Next]_vars
             PROVE  Service!PoolNext \/ Stutter
    BY DEF Service!poolVars, Running
<1> USE ThreadsAssumption, TasksAssumption
<1> USE DEF Safety, Threads
<1>1. CASE OwnerStep
    <2>1. CASE FinishConstruction
        BY <2>1 DEF FinishConstruction, Running, TypeOK
    <2>2. CASE SetStop
        <3>1. ~stop /\ stop' /\ pc[Owner] = "setStop" /\ pc'[Owner] = "notifyAll"
            BY <2>2 DEF SetStop, TypeOK, StopControl
        <3>2. Service!StartClosing
            BY <2>2, <3>1 DEF SetStop, Service!StartClosing
        <3>3. QED BY <3>2 DEF Service!PoolNext
    <2>3. CASE NotifyAll
        <3>1. pc[Owner] = "notifyAll" /\ pc'[Owner] = "join"
            BY <2>3 DEF NotifyAll, TypeOK
        <3>2. QED BY <2>3, <3>1 DEF NotifyAll, Running
    <2>4. CASE JoinWorkers
        <3>1. /\ pc[Owner] = "join" /\ pc'[Owner] = "destroyed" /\ stop
              /\ tasks = <<>> /\ \A w \in Workers : task[w] = NoTask
            BY <2>4, WorkersAssumption DEF JoinWorkers, TypeOK, StopControl, LocalControl
        <3>2. Running = {}
            BY <3>1 DEF Running
        <3>3. Service!FinishClosing
            BY <2>4, <3>1, <3>2 DEF JoinWorkers, Running, Service!FinishClosing
        <3>4. QED BY <3>3 DEF Service!PoolNext
    <2>5. QED BY <1>1, <2>1, <2>2, <2>3, <2>4 DEF OwnerStep
<1>2. CASE CallDestructor
    BY <1>2 DEF CallDestructor, Running, TypeOK
<1>3. ASSUME NEW w \in Workers, LaunchWorker(w) \/ WorkerStep(w) \/ SpuriousWakeup(w)
      PROVE  Service!PoolNext \/ Stutter
    <2>1. CASE LaunchWorker(w) \/ SpuriousWakeup(w)
        BY <2>1 DEF LaunchWorker, SpuriousWakeup, Running, TypeOK
    <2>2. CASE WaitForWork(w) \/ ExitWorker(w)
        BY <2>2 DEF WaitForWork, ExitWorker, Running, TypeOK
    <2>3. CASE TakeTask(w)
        <3>1. task[w] = NoTask /\ Head(tasks) \in Tasks
            BY <2>3 DEF TakeTask, TypeOK, LocalControl
        <3>2. /\ pc'[Owner] = pc[Owner] /\ task' = [task EXCEPT ![w] = Head(tasks)]
              /\ UNCHANGED <<future, stop>> /\ tasks' = Tail(tasks) /\ tasks # <<>>
            BY <2>3 DEF TakeTask, TypeOK
        <3>3. Running' = Running \cup {Head(tasks)}
            BY <3>1, <3>2 DEF Running, TypeOK
        <3>4. Cardinality(Running) < Cardinality(Workers)
            BY <3>1, RoomToRun
        <3>5. Service!Start
            <4>1. Outcome' = Outcome /\ Mode' = Mode
                BY <3>2
            <4>2. QED BY <3>2, <3>3, <3>4, <4>1, SameCardinality
                      DEF Service!Start, Running
        <3>6. QED BY <3>5 DEF Service!PoolNext
    <2>4. CASE CompleteTask(w)
        <3>0. PICK t \in Tasks : t = task[w] /\ t # NoTask
            BY <2>4 DEF CompleteTask, TypeOK, LocalControl
        <3>1. PICK r \in {"value", "exception"} : future' = [future EXCEPT ![t] = r]
            BY <2>4, <3>0 DEF CompleteTask
        <3>2. /\ pc'[Owner] = pc[Owner] /\ task' = [task EXCEPT ![w] = NoTask]
              /\ UNCHANGED <<tasks, stop>>
            BY <2>4 DEF CompleteTask, TypeOK
        <3>4. t \in Running /\ Running' = Running \ {t}
            BY <3>0, <3>2 DEF Running, TypeOK, TaskPlacement
        <3>5. Outcome' = [Outcome EXCEPT ![t] = r]
            BY <3>1 DEF TypeOK
        <3>6. Service!Finish(t)
            BY <3>2, <3>4, <3>5 DEF Service!Finish, Running
        <3>7. QED BY <3>6 DEF Service!PoolNext
    <2>5. QED BY <1>3, <2>1, <2>2, <2>3, <2>4 DEF WorkerStep
<1>4. ASSUME NEW p \in Threads, Acquire(p) \/ EnqueueStep(p)
      PROVE  Service!PoolNext \/ Stutter
    <2>1. CASE Acquire(p)
        <3>1. /\ pc[p] \in {"lock", "enqLock", "stopLock"}
              /\ Granted["lock"] = "check"
              /\ Granted["enqLock"] = "enqPush"
              /\ Granted["stopLock"] = "setStop"
            BY <2>1 DEF Acquire, Granted
        <3>2. pc[Owner] = "destroyed" <=> pc'[Owner] = "destroyed"
            BY <2>1, <3>1 DEF Acquire, TypeOK
        <3>3. QED BY <2>1, <3>2 DEF Acquire, Running
    <2>2. CASE PushTask(p)
        <3>1. PICK t \in Tasks : t = arg[p] /\ future[t] = "created" /\ ~stop
            BY <2>2 DEF PushTask, TypeOK, LocalControl, ArgPlacement
        <3>2. /\ pc[Owner] # "destroyed" /\ pc'[Owner] # "destroyed"
              /\ UNCHANGED <<task, stop>> /\ tasks' = Append(tasks, t)
              /\ future' = [future EXCEPT ![t] = "pending"]
            BY <2>2, <3>1 DEF PushTask, TypeOK, StopControl
        <3>3. Outcome[t] = "none" /\ Outcome' = [Outcome EXCEPT ![t] = "pending"]
            BY <3>1, <3>2 DEF TypeOK
        <3>4. Service!Accept(t)
            BY <3>1, <3>2, <3>3 DEF Service!Accept, Running
        <3>5. QED BY <3>4 DEF Service!PoolNext
    <2>3. CASE RefuseTask(p)
        <3>1. PICK t \in Tasks : t = arg[p] /\ future[t] = "created" /\ stop
            BY <2>3 DEF RefuseTask, TypeOK, LocalControl, ArgPlacement
        <3>2. p # Owner /\ pc[Owner] # "destroyed" /\ pc'[Owner] = pc[Owner]
            BY <2>3, <3>1 DEF RefuseTask, TypeOK, StopControl
        <3>3. /\ UNCHANGED <<task, stop, tasks>>
              /\ future' = [future EXCEPT ![t] = "refused"]
            BY <2>3, <3>1 DEF RefuseTask
        <3>4. Outcome[t] = "none" /\ Outcome' = [Outcome EXCEPT ![t] = "refused"]
            BY <3>1, <3>3 DEF TypeOK
        <3>5. Service!Refuse(t)
            BY <3>1, <3>2, <3>3, <3>4 DEF Service!Refuse, Running
        <3>6. QED BY <3>5 DEF Service!PoolNext
    <2>4. CASE NotifyOne(p)
        <3>1. pc[Owner] # "destroyed" \/ p # Owner
            BY <2>4 DEF NotifyOne
        <3>2. pc[Owner] = "destroyed" <=> pc'[Owner] = "destroyed"
            BY <2>4 DEF NotifyOne, Caller, Asleep, TypeOK
        <3>3. QED BY <2>4, <3>2 DEF NotifyOne, Running
    <2>5. QED BY <1>4, <2>1, <2>2, <2>3, <2>4 DEF EnqueueStep
<1>5. ASSUME NEW p \in Threads, NEW t \in Tasks, CallEnqueue(p, t)
      PROVE  Service!PoolNext \/ Stutter
    <2>1. /\ pc[Owner] = "destroyed" <=> pc'[Owner] = "destroyed"
          /\ UNCHANGED <<task, stop, tasks>>
          /\ future[t] = "none" /\ future' = [future EXCEPT ![t] = "created"]
        BY <1>5 DEF CallEnqueue, Caller, TypeOK
    <2>2. Outcome' = Outcome
        BY <2>1 DEF TypeOK
    <2>3. QED BY <2>1, <2>2 DEF Running
<1>6. CASE UNCHANGED vars
    BY <1>6 DEF vars, Running
<1>7. QED
    BY <1>1, <1>2, <1>3, <1>4, <1>5, <1>6 DEF Next, Terminated

(* Seen from outside, the workers, the mutex and the condition variable    *)
(* are a task pool: tasks start in the order of their acceptance, at most  *)
(* as many at a time as there are workers, each once, none is accepted     *)
(* after the pool has begun to close, and it is closed only when all that  *)
(* it had accepted have finished.                                          *)
THEOREM RefinesTaskPool == Spec => Service!PoolSafeSpec
<1>1. Spec => [][Service!PoolNext]_(Service!poolVars)
    BY SafetyInvariant, RefinementStep, PTL DEF Spec
<1>2. QED BY <1>1, RefinementInit, PTL DEF Spec, Service!PoolSafeSpec

-----------------------------------------------------------------------------
(* The query. *)

QueryControl ==
    /\ phase = "submit" => next = 1
    /\ \A c \in Tasks : c < next => future[c] = "value"
    /\ phase \in {"leave", "returned"} => next = NumClusters + 1
    /\ phase \in {"unwind", "thrown"} =>
          \/ next = 1
          \/ next \in Tasks /\ future[next] = "exception"
    /\ phase \in {"returned", "thrown"} => pc[Owner] = "destroyed"

QuerySafety == Safety /\ QueryTypeOK /\ QueryControl

-----------------------------------------------------------------------------

(* The future of a task that has finished never changes again: no step     *)
(* enqueues, pushes, refuses or runs the task a second time.               *)
LEMMA FutureIsFinal ==
    ASSUME Safety, [Next]_vars, NEW t \in Tasks,
           future[t] \in {"value", "exception"}
    PROVE  future'[t] = future[t]
<1> USE DEF Safety
<1>1. ASSUME NEW w \in Workers, CompleteTask(w)
      PROVE  future'[t] = future[t]
    <2>1. task[w] \in Tasks /\ future[task[w]] = "pending"
        BY <1>1, TasksAssumption
           DEF CompleteTask, LocalControl, TaskPlacement, TypeOK, Threads
    <2>2. QED BY <1>1, <2>1 DEF CompleteTask, TypeOK
<1>2. ASSUME NEW p \in Threads, PushTask(p) \/ RefuseTask(p)
      PROVE  future'[t] = future[t]
    <2>1. arg[p] \in Tasks /\ future[arg[p]] = "created"
        BY <1>2, TasksAssumption
           DEF PushTask, RefuseTask, LocalControl, ArgPlacement, TypeOK
    <2>2. QED BY <1>2, <2>1 DEF PushTask, RefuseTask, TypeOK
<1>3. ASSUME NEW p \in Threads, NEW u \in Tasks, CallEnqueue(p, u)
      PROVE  future'[t] = future[t]
    BY <1>3 DEF CallEnqueue, TypeOK
<1>4. CASE UNCHANGED future
    BY <1>4
<1>5. QED
    BY <1>1, <1>2, <1>3, <1>4
       DEF Next, vars, OwnerStep, FinishConstruction, SetStop, NotifyAll, JoinWorkers,
           CallDestructor, LaunchWorker, WorkerStep, WaitForWork, ExitWorker,
           TakeTask, SpuriousWakeup, Acquire, EnqueueStep, NotifyOne, Terminated

(* A destroyed pool stays destroyed.                                       *)
LEMMA DestroyedForGood ==
    ASSUME Safety, [Next]_vars, pc[Owner] = "destroyed"
    PROVE  pc'[Owner] = "destroyed"
<1>1. /\ \A w \in Workers : pc[w] = "exited"
      /\ pc \in [Threads -> OwnerPCs \cup WorkerPCs]
    BY SafetyDrains DEF Safety, TypeOK, DestructorDrains
<1>2. \A p \in Threads : pc[p] \in {"exited", "destroyed"}
    BY <1>1 DEF Threads
<1>3. QED
    BY <1>1, <1>2
       DEF Next, vars, OwnerStep, FinishConstruction, SetStop, NotifyAll, JoinWorkers,
           CallDestructor, LaunchWorker, WorkerStep, WaitForWork, ExitWorker,
           TakeTask, CompleteTask, SpuriousWakeup, Acquire, Granted, EnqueueStep,
           PushTask, RefuseTask, NotifyOne, CallEnqueue, Caller, Terminated, Threads

(* Every step of query() is a step of its pool or leaves the pool alone.   *)
LEMMA PoolSteps == QueryTypeOK /\ [QueryNext]_allVars => [Next]_vars
<1> SUFFICES ASSUME QueryTypeOK, [QueryNext]_allVars
             PROVE  [Next]_vars
    OBVIOUS
<1>1. CASE Submit
    <2>1. Owner \in Threads /\ submitted + 1 \in Tasks
        BY <1>1, ClustersAssumption DEF Submit, QueryTypeOK, Threads
    <2>2. QED BY <1>1, <2>1 DEF Submit, Next
<1>2. CASE DestroyPool
    BY <1>2 DEF DestroyPool, Next
<1>3. CASE PoolStep
    BY <1>3 DEF PoolStep, Next
<1>4. CASE UNCHANGED vars
    BY <1>4
<1>5. QED
    BY <1>1, <1>2, <1>3, <1>4
       DEF QueryNext, QueryStep, SubmitFails, StartCollecting, Collect,
           CollectThrows, FinishCollecting, EndQuery, Ended, allVars

(* A query starts with an empty pool.                                      *)
LEMMA QuerySafetyInit == QueryInit => QuerySafety
<1> SUFFICES ASSUME QueryInit PROVE QuerySafety
    OBVIOUS
<1>1. Safety /\ TypeOK
    BY SafetyInit DEF QueryInit, Safety
<1>2. QueryTypeOK
    BY <1>1, ClustersAssumption DEF QueryInit, QueryTypeOK, Phases
<1>3. QueryControl
    BY ClustersAssumption DEF QueryInit, QueryControl
<1>4. QED BY <1>1, <1>2, <1>3 DEF QuerySafety

(* The steps that consume futures are the only ones that can disturb the   *)
(* control of query(); those of the pool cannot take a value back.         *)
LEMMA QuerySafetyStep == QuerySafety /\ [QueryNext]_allVars => QuerySafety'
<1> SUFFICES ASSUME QuerySafety, [QueryNext]_allVars
             PROVE  QuerySafety'
    OBVIOUS
<1> USE ClustersAssumption DEF QuerySafety
<1>1. [Next]_vars
    BY PoolSteps
<1>2. Safety' /\ TypeOK'
    BY <1>1, SafetyStep DEF Safety
<1>3. \A c \in Tasks : future[c] \in {"value", "exception"} => future'[c] = future[c]
    BY <1>1, FutureIsFinal
<1>4. pc[Owner] = "destroyed" => pc'[Owner] = "destroyed"
    BY <1>1, DestroyedForGood
<1>5. CASE Submit
    BY <1>2, <1>3, <1>5 DEF Submit, CallEnqueue, Caller, QueryTypeOK, QueryControl, Phases
<1>6. CASE Collect
    <2>1. next \in Tasks /\ results' = Answer[next] \o results /\ next' = next + 1
        BY <1>6 DEF Collect, QueryTypeOK
    <2>2. results' \in Seq(Entities)
        BY <2>1, AnswersAssumption DEF QueryTypeOK
    <2>3. QueryTypeOK'
        BY <1>2, <1>6, <2>1, <2>2 DEF Collect, QueryTypeOK
    <2>4. QueryControl'
        BY <1>6, <2>1 DEF Collect, vars, QueryTypeOK, QueryControl
    <2>5. QED BY <1>2, <2>3, <2>4
<1>7. CASE CollectThrows
    BY <1>2, <1>7 DEF CollectThrows, vars, QueryTypeOK, QueryControl, Phases
<1>8. CASE StartCollecting \/ SubmitFails \/ FinishCollecting \/ EndQuery
    BY <1>2, <1>8
       DEF StartCollecting, SubmitFails, FinishCollecting, EndQuery, vars,
           QueryTypeOK, QueryControl, Phases
<1>9. CASE UNCHANGED queryVars
    BY <1>2, <1>3, <1>4, <1>9 DEF queryVars, QueryTypeOK, QueryControl
<1>10. QED
    BY <1>5, <1>6, <1>7, <1>8, <1>9
       DEF QueryNext, QueryStep, PoolStep, DestroyPool, Ended, allVars

(* The inductive invariant holds in every reachable state.                 *)
LEMMA QuerySafetyInvariant == QuerySpec => []QuerySafety
BY QuerySafetyInit, QuerySafetyStep, PTL DEF QuerySpec

-----------------------------------------------------------------------------

(* Type correctness of query() and of its pool.                            *)
THEOREM QueryTypeCorrect == QuerySpec => []QueryTypeOK
<1>1. QuerySafety => QueryTypeOK
    BY DEF QuerySafety
<1>2. QED BY <1>1, QuerySafetyInvariant, PTL

(* When query() has returned or thrown, no worker is left and no task is   *)
(* queued or running that could touch what the call has destroyed.         *)
THEOREM NothingOutlivesQuery == QuerySpec => []NoTaskOutlivesQuery
<1>1. QuerySafety => NoTaskOutlivesQuery
    BY SafetyDrains
       DEF QuerySafety, QueryControl, DestructorDrains, NoTaskOutlivesQuery
<1>2. QED BY <1>1, QuerySafetyInvariant, PTL

(* An answer is complete: query() returns only when every cluster has      *)
(* answered, and throws only for the first that failed, or because         *)
(* submitting did.                                                         *)
THEOREM FailuresAreNotHidden == QuerySpec => []NoFailureHidden
<1>1. QuerySafety => NoFailureHidden
    BY ClustersAssumption DEF QuerySafety, QueryControl, NoFailureHidden
<1>2. QED BY <1>1, QuerySafetyInvariant, PTL

-----------------------------------------------------------------------------

(* Consuming a future is a round of the serial loop, which skips a cluster *)
(* that its test rules out: such a cluster has nothing to answer.          *)
LEMMA SerialStep ==
    QuerySafety /\ [QueryNext]_allVars => [Serial!SerialNext]_(Serial!serialVars)
<1> SUFFICES ASSUME QuerySafety, [QueryNext]_allVars
             PROVE  [Serial!SerialNext]_(Serial!serialVars)
    OBVIOUS
<1> USE ClustersAssumption DEF QuerySafety
<1>1. CASE Collect
    <2>1. /\ phase = "collect" /\ phase' = "collect"
          /\ next \in Tasks /\ next <= NumClusters
          /\ next' = next + 1 /\ results' = Answer[next] \o results
        BY <1>1 DEF Collect, QueryTypeOK
    <2>2. CASE Test[next]
        <3>1. Serial!QueryCluster
            BY <2>1, <2>2 DEF Serial!QueryCluster
        <3>2. QED BY <3>1 DEF Serial!SerialNext
    <2>3. CASE ~Test[next]
        <3>1. results' = results
            BY <2>1, <2>3, TestAssumption DEF QueryTypeOK
        <3>2. Serial!SkipCluster
            BY <2>1, <2>3, <3>1 DEF Serial!SkipCluster
        <3>3. QED BY <3>2 DEF Serial!SerialNext
    <2>4. QED BY <2>2, <2>3
<1>2. CASE EndQuery
    <2>1. UNCHANGED <<next, results>>
        BY <1>2 DEF EndQuery
    <2>2. CASE phase = "leave"
        <3>1. next > NumClusters /\ phase' = "returned"
            BY <1>2, <2>2 DEF EndQuery, QueryControl
        <3>2. Serial!Return
            BY <2>1, <2>2, <3>1 DEF Serial!Return
        <3>3. QED BY <3>2 DEF Serial!SerialNext
    <2>3. CASE phase = "unwind"
        <3>1. phase' = "thrown"
            BY <1>2, <2>3 DEF EndQuery
        <3>2. Serial!Throw
            BY <2>1, <2>3, <3>1 DEF Serial!Throw
        <3>3. QED BY <3>2 DEF Serial!SerialNext
    <2>4. QED BY <1>2, <2>2, <2>3 DEF EndQuery
<1>3. CASE Submit \/ StartCollecting \/ SubmitFails \/ CollectThrows \/ FinishCollecting
    BY <1>3 DEF Submit, StartCollecting, SubmitFails, CollectThrows, FinishCollecting,
                Serial!serialVars
<1>4. CASE UNCHANGED queryVars
    BY <1>4 DEF queryVars, Serial!serialVars
<1>5. QED
    BY <1>1, <1>2, <1>3, <1>4
       DEF QueryNext, QueryStep, PoolStep, DestroyPool, Ended, allVars

(* The parallel repository answers what the serial one does: the same      *)
(* entities in the same order, whatever the order in which the workers     *)
(* finish, or an exception.                                                *)
THEOREM RefinesSerialQuery == QuerySpec => Serial!SerialSafeSpec
<1>1. QueryInit => Serial!SerialInit
    BY DEF QueryInit, Serial!SerialInit
<1>2. QuerySpec => [][Serial!SerialNext]_(Serial!serialVars)
    BY QuerySafetyInvariant, SerialStep, PTL DEF QuerySpec
<1>3. QED BY <1>1, <1>2, PTL DEF QuerySpec, Serial!SerialSafeSpec
=============================================================================
