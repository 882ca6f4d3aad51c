---------------------------- MODULE ParallelQuery ----------------------------
(***************************************************************************)
(* ParallelRegexClusterRepository::query (librereuse/db/                   *)
(* parallel_regex_cluster_repository.cc): a ThreadPool of its own for each *)
(* call, one task per cluster, and the answers gathered from the futures   *)
(* in the order of the clusters.  The tasks hold references to the query   *)
(* and to the clusters, which live only as long as the call.               *)
(*                                                                         *)
(* The pool is that of module ThreadPool: Owner is the thread that runs    *)
(* query(), task c is the one that queries cluster c.                      *)
(***************************************************************************)
EXTENDS ThreadPool

CONSTANTS NumClusters,
          Entities, \* the entities of the clusters
          Answer,   \* Answer[c]: what query->query returns for cluster c
          Test      \* Test[c]: what query->test would return for cluster c

ASSUME ClustersAssumption ==
    /\ NumClusters \in Nat
    /\ Tasks = 1 .. NumClusters

ASSUME AnswersAssumption == Answer \in [Tasks -> Seq(Entities)]

\* A cluster that test() rules out has nothing to answer.
ASSUME TestAssumption == \A c \in Tasks : ~Test[c] => Answer[c] = <<>>

VARIABLES phase,      \* where query() is, beside what it does in the pool
          submitted,  \* how many clusters have been handed to enqueue
          next,       \* the cluster whose future is consumed next
          results     \* the vector that is returned

queryVars == <<phase, submitted, next, results>>
allVars == <<vars, queryVars>>

Phases == {"submit", "collect", "leave", "unwind", "returned", "thrown"}

QueryInit ==
    /\ Init
    /\ phase = "submit"
    /\ submitted = 0
    /\ next = 1
    /\ results = <<>>

-----------------------------------------------------------------------------

Submit ==
    /\ phase = "submit" /\ submitted < NumClusters
    /\ CallEnqueue(Owner, submitted + 1)
    /\ submitted' = submitted + 1
    /\ UNCHANGED <<phase, next, results>>

\* Memory runs out while a task or its place in the vector is allocated.
SubmitFails ==
    /\ phase = "submit" /\ pc[Owner] = "idle"
    /\ phase' = "unwind"
    /\ UNCHANGED <<vars, submitted, next, results>>

StartCollecting ==
    /\ phase = "submit" /\ pc[Owner] = "idle"
    /\ submitted = NumClusters
    /\ phase' = "collect"
    /\ UNCHANGED <<vars, submitted, next, results>>

\* Faulty: an answer is put after those of the clusters that precede it.
CollectAtEnd ==
    /\ phase = "collect" /\ next <= NumClusters
    /\ future[next] = "value"
    /\ results' = results \o Answer[next]
    /\ next' = next + 1
    /\ UNCHANGED <<vars, phase, submitted>>

\* Faulty: a future that holds an exception counts as an empty answer.
CollectSwallowing ==
    /\ phase = "collect" /\ next <= NumClusters
    /\ future[next] \in {"value", "exception"}
    /\ results' = IF future[next] = "value" THEN Answer[next] \o results ELSE results
    /\ next' = next + 1
    /\ UNCHANGED <<vars, phase, submitted>>

\* Faulty: one future too many is waited for and consumed.
CollectPastEnd ==
    /\ phase = "collect" /\ next <= NumClusters + 1
    /\ next <= NumClusters => future[next] = "value"
    /\ results' = IF next <= NumClusters THEN Answer[next] \o results ELSE results
    /\ next' = next + 1
    /\ UNCHANGED <<vars, phase, submitted>>

\* task.get() blocks until the future is ready; the answer is inserted
\* before those of the clusters that precede it.
Collect ==
    /\ phase = "collect" /\ next <= NumClusters
    /\ future[next] = "value"
    /\ results' = Answer[next] \o results
    /\ next' = next + 1
    /\ UNCHANGED <<vars, phase, submitted>>

\* task.get() rethrows: results are lost, and the pool is still destroyed.
CollectThrows ==
    /\ phase = "collect" /\ next <= NumClusters
    /\ future[next] = "exception"
    /\ phase' = "unwind"
    /\ UNCHANGED <<vars, submitted, next, results>>

FinishCollecting ==
    /\ phase = "collect" /\ next > NumClusters
    /\ phase' = "leave"
    /\ UNCHANGED <<vars, submitted, next, results>>

\* Leaving the function, either way, runs the destructor of the pool.
DestroyPool ==
    /\ phase \in {"leave", "unwind"}
    /\ CallDestructor
    /\ UNCHANGED queryVars

EndQuery ==
    /\ pc[Owner] = "destroyed"
    /\ phase \in {"leave", "unwind"}
    /\ phase' = IF phase = "leave" THEN "returned" ELSE "thrown"
    /\ UNCHANGED <<vars, submitted, next, results>>

-----------------------------------------------------------------------------

QueryStep ==
    \/ Submit \/ StartCollecting
    \/ Collect \/ CollectThrows \/ FinishCollecting
    \/ DestroyPool \/ EndQuery

PoolStep ==
    /\ \/ OwnerStep
       \/ \E w \in Workers : LaunchWorker(w) \/ WorkerStep(w) \/ SpuriousWakeup(w)
       \/ \E p \in Threads : Acquire(p) \/ EnqueueStep(p)
    /\ UNCHANGED queryVars

Ended == phase \in {"returned", "thrown"} /\ UNCHANGED allVars

QueryNext == QueryStep \/ SubmitFails \/ PoolStep \/ Ended

QuerySpec == QueryInit /\ [][QueryNext]_allVars

\* The threads of the pool run as in ThreadPool, and so does query() itself.
QueryFairSpec == QuerySpec /\ Fairness /\ WF_allVars(QueryStep)

-----------------------------------------------------------------------------

QueryTypeOK ==
    /\ TypeOK
    /\ phase \in Phases
    /\ submitted \in 0 .. NumClusters
    /\ next \in 1 .. NumClusters + 1
    /\ results \in Seq(Entities)

(* No task runs, or can still start, once query() has returned or thrown:  *)
(* the references it captured would dangle.  After an exception most tasks *)
(* are still queued or running when the unwinding starts.                  *)
NoTaskOutlivesQuery ==
    phase \in {"returned", "thrown"} =>
        /\ \A w \in Workers : pc[w] = "exited"
        /\ \A c \in Tasks : future[c] \notin {"created", "pending"}

(* An answer accounts for every cluster: query() returns only if the tasks *)
(* of all clusters succeeded, and it throws only if the one it waited for  *)
(* failed while all before it succeeded, or if submitting failed.          *)
NoFailureHidden ==
    /\ phase = "returned" => \A c \in Tasks : future[c] = "value"
    /\ phase = "thrown" =>
          /\ \A c \in Tasks : c < next => future[c] = "value"
          /\ next = 1 \/ future[next] = "exception"

(* The parallel repository answers what the serial one does, entities in   *)
(* the same order, and it always answers or throws.                        *)
Serial == INSTANCE SerialQuery WITH
    outcome <- IF phase \in {"returned", "thrown"} THEN phase ELSE "running"

ImplementsSerialQuery == Serial!SerialSpec
=============================================================================
