----------------------------- MODULE ThreadPool -----------------------------
(***************************************************************************)
(* clustering/mcl-clustering/ThreadPool.h: worker threads that wait on one *)
(* condition variable for tasks of one queue under one mutex.              *)
(*                                                                         *)
(* One thread, Owner, runs the constructor, calls enqueue and in the end   *)
(* runs the destructor; a task may call enqueue on the pool that runs it,  *)
(* the only caller that can meet a stopped pool.  A step is what a thread  *)
(* does between two points where another thread can interfere: taking the  *)
(* mutex, the critical section it protects, and each notification.         *)
(***************************************************************************)
EXTENDS Naturals, Sequences, FiniteSets

CONSTANTS Workers,   \* the threads of the vector `workers`
          Owner,     \* the thread that constructs and destroys the pool
          Tasks,     \* the tasks that are ever handed to enqueue
          NoTask,    \* an empty std::function
          NoThread   \* the mutex is free

ASSUME WorkersAssumption == Workers # {} /\ IsFiniteSet(Workers)
ASSUME ThreadsAssumption ==
    /\ Owner \notin Workers
    /\ NoThread \notin Workers \cup {Owner}
ASSUME TasksAssumption == NoTask \notin Tasks

VARIABLES pc,      \* pc[p]: where thread p is
          mutex,   \* queue_mutex: the thread that holds it, or NoThread
          tasks,   \* the queue
          stop,    \* the flag the destructor raises
          task,    \* task[p]: a worker's local variable `task`
          arg,     \* arg[p]: the task that p is enqueueing
          future   \* future[t]: the state of the future of task t

vars == <<pc, mutex, tasks, stop, task, arg, future>>

Threads == Workers \cup {Owner}

\* The workers asleep in condition.wait.
Asleep == {w \in Workers : pc[w] = "wait"}

\* The workers that will look at the queue before they sleep again, and the
\* threads that will notify a sleeper.
OnTheirWay == {w \in Workers : pc[w] \in {"lock", "check"}}
Notifying == {p \in Threads : pc[p] = "enqNotify"}

\* The program counter of a thread that asks for the mutex, and the one it
\* has once it holds it.
Granted == [lock |-> "check", enqLock |-> "enqPush", stopLock |-> "setStop"]

OwnerPCs == {"construct", "idle", "enqLock", "enqPush", "enqNotify",
             "stopLock", "setStop", "notifyAll", "join", "destroyed"}
WorkerPCs == {"new", "lock", "check", "wait", "run",
              "enqLock", "enqPush", "enqNotify", "exited"}

Init ==
    /\ pc = [p \in Threads |-> IF p = Owner THEN "construct" ELSE "new"]
    /\ mutex = NoThread
    /\ tasks = <<>>
    /\ stop = FALSE
    /\ task = [p \in Threads |-> NoTask]
    /\ arg = [p \in Threads |-> NoTask]
    /\ future = [t \in Tasks |-> "none"]

-----------------------------------------------------------------------------
(* The constructor. *)

LaunchWorker(w) ==
    /\ pc[Owner] = "construct"
    /\ pc[w] = "new"
    /\ pc' = [pc EXCEPT ![w] = "lock"]
    /\ UNCHANGED <<mutex, tasks, stop, task, arg, future>>

FinishConstruction ==
    /\ pc[Owner] = "construct"
    /\ \A w \in Workers : pc[w] # "new"
    /\ pc' = [pc EXCEPT ![Owner] = "idle"]
    /\ UNCHANGED <<mutex, tasks, stop, task, arg, future>>

-----------------------------------------------------------------------------
(* The mutex: a thread that asks for it gets it when it is free. *)

Acquire(p) ==
    /\ pc[p] \in DOMAIN Granted
    /\ mutex = NoThread
    /\ mutex' = p
    /\ pc' = [pc EXCEPT ![p] = Granted[pc[p]]]
    /\ UNCHANGED <<tasks, stop, task, arg, future>>

-----------------------------------------------------------------------------
(* The loop of a worker. *)

\* Faulty: the predicate of condition.wait forgets `stop`.
WaitIgnoringStop(w) ==
    /\ pc[w] = "check"
    /\ tasks = <<>>
    /\ pc' = [pc EXCEPT ![w] = "wait"]
    /\ mutex' = NoThread
    /\ UNCHANGED <<tasks, stop, task, arg, future>>

\* The predicate of condition.wait is false: release the mutex and sleep.
WaitForWork(w) ==
    /\ pc[w] = "check"
    /\ ~stop /\ tasks = <<>>
    /\ pc' = [pc EXCEPT ![w] = "wait"]
    /\ mutex' = NoThread
    /\ UNCHANGED <<tasks, stop, task, arg, future>>

\* condition.wait may return to its predicate without a notification.
SpuriousWakeup(w) ==
    /\ pc[w] = "wait"
    /\ pc' = [pc EXCEPT ![w] = "lock"]
    /\ UNCHANGED <<mutex, tasks, stop, task, arg, future>>

\* Faulty: a worker leaves on `stop` without draining the queue.
ExitOnStop(w) ==
    /\ pc[w] = "check"
    /\ stop
    /\ pc' = [pc EXCEPT ![w] = "exited"]
    /\ mutex' = NoThread
    /\ UNCHANGED <<tasks, stop, task, arg, future>>

ExitWorker(w) ==
    /\ pc[w] = "check"
    /\ stop /\ tasks = <<>>
    /\ pc' = [pc EXCEPT ![w] = "exited"]
    /\ mutex' = NoThread
    /\ UNCHANGED <<tasks, stop, task, arg, future>>

\* Faulty: the front is moved out but not popped, which leaves an empty
\* function behind.
TakeTaskLeavingHole(w) ==
    /\ pc[w] = "check"
    /\ tasks # <<>>
    /\ task' = [task EXCEPT ![w] = Head(tasks)]
    /\ tasks' = <<NoTask>> \o Tail(tasks)
    /\ pc' = [pc EXCEPT ![w] = "run"]
    /\ mutex' = NoThread
    /\ UNCHANGED <<stop, arg, future>>

\* Faulty: the front is copied out and not popped.
TakeTaskWithoutPop(w) ==
    /\ pc[w] = "check"
    /\ tasks # <<>>
    /\ task' = [task EXCEPT ![w] = Head(tasks)]
    /\ pc' = [pc EXCEPT ![w] = "run"]
    /\ mutex' = NoThread
    /\ UNCHANGED <<tasks, stop, arg, future>>

TakeTask(w) ==
    /\ pc[w] = "check"
    /\ tasks # <<>>
    /\ task' = [task EXCEPT ![w] = Head(tasks)]
    /\ tasks' = Tail(tasks)
    /\ pc' = [pc EXCEPT ![w] = "run"]
    /\ mutex' = NoThread
    /\ UNCHANGED <<stop, arg, future>>

\* The packaged_task stores what the body returns or throws in its future;
\* nothing escapes into the worker, which goes round its loop.
CompleteTask(w) ==
    /\ pc[w] = "run"
    /\ \E r \in {"value", "exception"} : future' = [future EXCEPT ![task[w]] = r]
    /\ task' = [task EXCEPT ![w] = NoTask]
    /\ pc' = [pc EXCEPT ![w] = "lock"]
    /\ UNCHANGED <<mutex, tasks, stop, arg>>

-----------------------------------------------------------------------------
(* enqueue, called by the owner or by the body of a running task. *)

Caller(p) == IF p = Owner THEN "idle" ELSE "run"

CallEnqueue(p, t) ==
    /\ pc[p] = Caller(p)
    /\ future[t] = "none"
    /\ arg' = [arg EXCEPT ![p] = t]
    /\ future' = [future EXCEPT ![t] = "created"]
    /\ pc' = [pc EXCEPT ![p] = "enqLock"]
    /\ UNCHANGED <<mutex, tasks, stop, task>>

\* Faulty: enqueue does not look at `stop`.
PushEvenIfStopped(p) ==
    /\ pc[p] = "enqPush"
    /\ tasks' = Append(tasks, arg[p])
    /\ future' = [future EXCEPT ![arg[p]] = "pending"]
    /\ arg' = [arg EXCEPT ![p] = NoTask]
    /\ pc' = [pc EXCEPT ![p] = "enqNotify"]
    /\ mutex' = NoThread
    /\ UNCHANGED <<stop, task>>

PushTask(p) ==
    /\ pc[p] = "enqPush"
    /\ ~stop
    /\ tasks' = Append(tasks, arg[p])
    /\ future' = [future EXCEPT ![arg[p]] = "pending"]
    /\ arg' = [arg EXCEPT ![p] = NoTask]
    /\ pc' = [pc EXCEPT ![p] = "enqNotify"]
    /\ mutex' = NoThread
    /\ UNCHANGED <<stop, task>>

\* "enqueue on stopped ThreadPool": the exception unwinds into the caller.
RefuseTask(p) ==
    /\ pc[p] = "enqPush"
    /\ stop
    /\ future' = [future EXCEPT ![arg[p]] = "refused"]
    /\ arg' = [arg EXCEPT ![p] = NoTask]
    /\ pc' = [pc EXCEPT ![p] = Caller(p)]
    /\ mutex' = NoThread
    /\ UNCHANGED <<tasks, stop, task>>

\* Faulty: enqueue notifies nobody.
NotifyNobody(p) ==
    /\ pc[p] = "enqNotify"
    /\ pc' = [pc EXCEPT ![p] = Caller(p)]
    /\ UNCHANGED <<mutex, tasks, stop, task, arg, future>>

\* condition.notify_one: wakes one sleeper, if there is one.
NotifyOne(p) ==
    /\ pc[p] = "enqNotify"
    /\ \/ /\ Asleep = {}
          /\ pc' = [pc EXCEPT ![p] = Caller(p)]
       \/ \E w \in Asleep :
             pc' = [pc EXCEPT ![p] = Caller(p), ![w] = "lock"]
    /\ UNCHANGED <<mutex, tasks, stop, task, arg, future>>

-----------------------------------------------------------------------------
(* The destructor. *)

CallDestructor ==
    /\ pc[Owner] = "idle"
    /\ pc' = [pc EXCEPT ![Owner] = "stopLock"]
    /\ UNCHANGED <<mutex, tasks, stop, task, arg, future>>

SetStop ==
    /\ pc[Owner] = "setStop"
    /\ stop' = TRUE
    /\ pc' = [pc EXCEPT ![Owner] = "notifyAll"]
    /\ mutex' = NoThread
    /\ UNCHANGED <<tasks, task, arg, future>>

\* Faulty: the destructor wakes one worker only.
NotifyOneOfAll ==
    /\ pc[Owner] = "notifyAll"
    /\ \/ Asleep = {} /\ pc' = [pc EXCEPT ![Owner] = "join"]
       \/ \E w \in Asleep : pc' = [pc EXCEPT ![Owner] = "join", ![w] = "lock"]
    /\ UNCHANGED <<mutex, tasks, stop, task, arg, future>>

NotifyAll ==
    /\ pc[Owner] = "notifyAll"
    /\ pc' = [p \in Threads |->
                IF p = Owner THEN "join"
                ELSE IF p \in Asleep THEN "lock" ELSE pc[p]]
    /\ UNCHANGED <<mutex, tasks, stop, task, arg, future>>

\* Faulty: the destructor detaches the workers instead of joining them.
DetachWorkers ==
    /\ pc[Owner] = "join"
    /\ pc' = [pc EXCEPT ![Owner] = "destroyed"]
    /\ UNCHANGED <<mutex, tasks, stop, task, arg, future>>

JoinWorkers ==
    /\ pc[Owner] = "join"
    /\ \A w \in Workers : pc[w] = "exited"
    /\ pc' = [pc EXCEPT ![Owner] = "destroyed"]
    /\ UNCHANGED <<mutex, tasks, stop, task, arg, future>>

-----------------------------------------------------------------------------

WorkerStep(w) ==
    \/ WaitForWork(w) \/ ExitWorker(w) \/ TakeTask(w) \/ CompleteTask(w)

EnqueueStep(p) == PushTask(p) \/ RefuseTask(p) \/ NotifyOne(p)

OwnerStep == FinishConstruction \/ SetStop \/ NotifyAll \/ JoinWorkers

\* Nothing happens after the destructor has returned.
Terminated == pc[Owner] = "destroyed" /\ UNCHANGED vars

Next ==
    \/ OwnerStep
    \/ CallDestructor
    \/ \E w \in Workers : LaunchWorker(w) \/ WorkerStep(w) \/ SpuriousWakeup(w)
    \/ \E p \in Threads : Acquire(p) \/ EnqueueStep(p)
    \/ \E p \in Threads, t \in Tasks : CallEnqueue(p, t)
    \/ Terminated

Spec == Init /\ [][Next]_vars

(***************************************************************************)
(* Fairness: the operating system runs every thread that can run, and the  *)
(* bodies of tasks end.  Nothing obliges the owner to enqueue or to        *)
(* destroy, and a worker is woken spuriously only finitely often.          *)
(***************************************************************************)
Fairness ==
    /\ \A w \in Workers : WF_vars(LaunchWorker(w)) /\ WF_vars(WorkerStep(w))
    /\ \A p \in Threads : WF_vars(Acquire(p)) /\ WF_vars(EnqueueStep(p))
    /\ WF_vars(OwnerStep)
    /\ <>[][~\E w \in Workers : SpuriousWakeup(w)]_vars

FairSpec == Spec /\ Fairness

-----------------------------------------------------------------------------
(* Invariants. *)

FutureStates == {"none", "created", "pending", "refused", "value", "exception"}

TypeOK ==
    /\ pc \in [Threads -> OwnerPCs \cup WorkerPCs]
    /\ pc[Owner] \in OwnerPCs
    /\ \A w \in Workers : pc[w] \in WorkerPCs
    /\ mutex \in Threads \cup {NoThread}
    /\ tasks \in Seq(Tasks)
    /\ stop \in BOOLEAN
    /\ task \in [Threads -> Tasks \cup {NoTask}]
    /\ arg \in [Threads -> Tasks \cup {NoTask}]
    /\ future \in [Tasks -> FutureStates]

(* A task whose future is pending is in the queue once, or in the hands of *)
(* exactly one worker; any other task is nowhere.  Pushing, popping and    *)
(* running are steps of different threads, so a task could get lost or run *)
(* twice between them.                                                     *)
TaskPlacement ==
    /\ \A i, j \in DOMAIN tasks : tasks[i] = tasks[j] => i = j
    /\ \A v, w \in Workers : task[v] # NoTask /\ task[v] = task[w] => v = w
    /\ \A i \in DOMAIN tasks, w \in Workers : tasks[i] # task[w]
    /\ \A t \in Tasks :
          future[t] = "pending" <=> \/ \E i \in DOMAIN tasks : tasks[i] = t
                                    \/ \E w \in Workers : task[w] = t

(* When the destructor has returned, no worker is left, everything that    *)
(* enqueue accepted has run, tasks that other tasks enqueued meanwhile     *)
(* included, and no call of enqueue is under way.                          *)
DestructorDrains ==
    pc[Owner] = "destroyed" =>
        /\ \A w \in Workers : pc[w] = "exited"
        /\ tasks = <<>>
        /\ \A t \in Tasks : future[t] \notin {"created", "pending"}

(* No wakeup by the destructor is lost: a worker still asleep when the     *)
(* pool is stopped will be notified.                                       *)
StopWakesAll == \A w \in Asleep : stop => pc[Owner] = "notifyAll"

(* The pool is as parallel as it can be: while a worker sleeps, for every  *)
(* queued task there is a worker on its way to the queue, or a             *)
(* notification still to be sent.                                          *)
WorkConserving ==
    Asleep # {} => Len(tasks) <= Cardinality(OnTheirWay) + Cardinality(Notifying)

(* It follows that no wakeup is lost: all workers sleep while a task is    *)
(* queued only if some thread is about to notify them.                     *)
NoLostWakeup == tasks # <<>> /\ Asleep = Workers => Notifying # {}

-----------------------------------------------------------------------------
(* Liveness and refinement. *)

(* The destructor returns: every worker wakes up and leaves its loop.      *)
DestructorReturns == pc[Owner] = "stopLock" ~> pc[Owner] = "destroyed"

(* The pool of threads implements the task pool without threads.           *)
Service == INSTANCE TaskPool WITH
    Width   <- Cardinality(Workers),
    queue   <- tasks,
    running <- {task[w] : w \in Workers} \ {NoTask},
    outcome <- [t \in Tasks |->
                  IF future[t] = "created" THEN "none" ELSE future[t]],
    mode    <- IF pc[Owner] = "destroyed" THEN "closed"
               ELSE IF stop THEN "closing" ELSE "open"

ImplementsTaskPool == Service!PoolSpec
=============================================================================
