# Verification of regextools-api in TLA+

regextools-api answers the question "which regexes of a large corpus match these
positive examples and none of these negative ones?". This directory holds a formal
model of the parts of it where concurrency, failure and shared state decide what an
answer is: TLA+ modules, the TLC configurations that check them on small instances,
and theorems about them proved for every instance with TLAPS.

Source paths below are relative to the repository; line numbers are those of the
commit the modules were written from. `PROJECT.json` maps every definition to the
lines it stands for.

## 1. The system

A `POST /query` travels like this:

    client --HTTP--> server/ (Go, gin: one handler per request, all at once)
                       |  shared ResultTable: hash of the examples -> answer, 5 min
                       +--gRPC--> regexdb/ ExecQuery (C++)
                       |            ParallelRegexClusterRepository::query
                       |              one ThreadPool per query, one task per cluster
                       |                ClusterMatchQuery on an RE2::Set per cluster
                       +--------> DynamoDB: ids -> full entities, 100 a request
                       +--gRPC--> dfacover/ (Java): coverage score of each entity
                       +--------> DynamoDB: participant tracking, if asked for

The corpus behind regexdb comes from the offline programs in `clustering/`, which know each
other only by the files they read and write:

    corpus --filter--> corpus --cluster-tool--> clusters.json --at start--> regexdb
    corpus --rex-string-generator--> strings.json --similarity-table--> graph (.abc)
    pairs  --mcl-clustering (Rex or egret, mcl; temporary files in /tmp)--> clusters
    entities.json --server/db/migrator--> DynamoDB

The string generator, the similarity table and mcl-clustering use the same thread pool as
regexdb does.

| Component | Source | State it keeps | Operations | What is hard |
|---|---|---|---|---|
| Thread pool | `clustering/mcl-clustering/ThreadPool.h` | queue, `stop`, mutex, condition variable, threads | constructor, `enqueue`, destructor, worker loop | interleaving, lost wakeups, shutdown with work queued, exceptions in tasks |
| Parallel repository | `librereuse/db/parallel_regex_cluster_repository.cc` | futures and results of one query | `query` | tasks hold references to locals; failures half-way; order of results |
| Serial repository | `librereuse/db/regex_cluster_repository.cc` | list of clusters | `deep_query`, `add_cluster`, packing constructor | the `test` shortcut must not change the answer |
| Cluster, match query, bitmap | `librereuse/db/cluster.cc`, `librereuse/query/cluster_match_query.cc`, `librereuse/util/bitmap.cc` | RE2 set, entities, compiled flag | `add_entity`, `compile`, `query`, `test` | index of the set = index of the entity; failures of the automaton |
| Regex database service | `regexdb/query_service.cc` | one repository, filled at start | `ExecQuery` | concurrent queries, a pool each |
| Query handler | `server/query_handler.go` | local to a request | `POST /query` | table read, invalidated and re-read between calls of three services |
| Result table, paging | `server/paging.go` | table of answers | `CacheResults`, `FetchResultsWithPage`, `InvalidateResults`, expiry | shared by all handlers; hash collisions; unsigned arithmetic |
| Entity store client | `server/regex_db.go`, `server/chunk.go` | none | `GetRegexesById` | partial answers, chunking, empty requests |
| Coverage client and service | `server/dfa_cover_client.go`, `dfacover/` | none | `SortByCoverage`, `POST /coverage` | comparator, entities that fail |
| Participant tracking | `server/participant_tracking.go` | none | `StoreQuery` | fails after the answer is cached |
| Pattern filter, cluster tool | `clustering/filter/`, `clustering/cluster-tool/main.cc` | regexes left to cluster | filter, `create_clusters` | junk lines, bounds, leftovers, files cut short |
| Similarity scorers and graph | `clustering/mcl-clustering/similarity_table/` | scorers, matrix | two rounds of tasks over one pool, half matrix, prune, output | positions against ids, scorers that are not made |
| MCL clustering program | `clustering/mcl-clustering/` | temporary files in `/tmp` | from the corpus to the clusters of mcl | names that other runs draw too, files left by failed runs |
| String generator, similarity table | `clustering/rex-string-generator/`, `clustering/similarity-table/` | map of strings, matrix | chunk, generate, merge; compute, average, write | remainders, failing regexes, zero processors |
| Migrator | `server/db/migrator.go` | none | batches of writes | failure between batches, running it again |
| Memory measurements | `performance/memory/` | none | build a repository of each kind, query it | lost regexes |
| Statistics, measurements | `librereuse/util/{csv,stats}`, `performance/`, `misc/`, `reports/` | none | measure and report | nothing of their own |

What makes each of them correct:

* **Thread pool** - an accepted task runs exactly once; it does not wait while a worker
  sleeps; the destructor returns, and only when all accepted tasks have run.
* **Parallel repository** - answers exactly what the serial one answers, or throws; no
  task outlives the call, because it holds references to the caller's variables.
* **Match query** - answers the regexes that match all positive and no negative examples;
  `test` is false only for clusters without an answer.
* **Query handler and result table** - a reply is the answer to the request's own
  examples; the pages of an answer partition it; failures are never cached.
* **Entity store client** - all entities asked for, once each, or an error.
* **Migrator** - a migration that ends well has written every entity.
* **Repositories** - however a corpus is held, a query answers the same regexes.
* **Cluster tool** - a partition of the regexes into clusters of one size, each of the
  regexes most similar to its seed; a service never serves half of one.
* **String generator, similarity tables, mcl-clustering** - every regex that can be scored
  is scored with its own strings, and what is written speaks of the corpus that was read.

`PROJECT.json` lists every component with its status, and the hazards of the code at the
lines where they bite.

## 2. The modules

    TaskPool  <--refines--  ThreadPool  <--EXTENDS--  ParallelQuery  --refines-->  SerialQuery
    ResultTable      <--EXTENDS--  QueryHandler
    Bitmap           <--EXTENDS--  ClusterMatchQuery
    Cluster          <--EXTENDS--  CorpusPipeline, Repositories
    SimilarityGraph  <--EXTENDS--  MclClustering, StringTables
    EntityStore

Each module `M` that has a specification is instantiated for TLC by `MCM` (`MCCorpus` for
`CorpusPipeline`; `MCQueryHandler` extends `QueryHash`, too; the abstract `TaskPool` and
`SerialQuery` are checked through those that refine them). The theorems about `M` are in
`MProofs`, those about `ThreadPool` in `ParallelQueryProofs`, which needs them for every step
of a query.

### TaskPool
What a user of the pool may rely on, with no threads in it: accepted tasks start in
order, at most `Width` at a time, each once; a closing pool refuses new tasks but runs
the old ones; then it is closed.

### ThreadPool (`ThreadPool.h`, all of it)
A step is what one thread does between two points where another can interfere. The
program counter `pc[p]` names the point:

| Owner | Worker | Point in the code |
|---|---|---|
| `construct` | `new` | constructor loop, 41-62; a worker that is not launched yet |
| | `lock` | asks for `queue_mutex`, 50, or asks for it again inside `wait` after a wakeup, 51 |
| | `check` | holds the mutex, evaluates the predicate of `wait`, 52 |
| | `wait` | asleep in `condition.wait`, mutex released |
| | `run` | `task()`, 59; the body may call `enqueue` |
| `idle` | | the owner's own code, which may call `enqueue` or the destructor |
| `enqLock`, `enqPush`, `enqNotify` | the same | `enqueue`: before 78, 80-84, 86 |
| `stopLock`, `setStop`, `notifyAll`, `join` | `exited` | destructor: before 94, 95, 97, 98-99 |

`WaitForWork`, `ExitWorker` and `TakeTask` are the three outcomes of the critical section
51-57. The release of the mutex and the start of the sleep are one step, as `wait`
guarantees. `NotifyOne` wakes any one sleeper or, when nobody sleeps, nobody: the
notification is not remembered. `SpuriousWakeup` may happen at any time. `CompleteTask`
stores a value or an exception in the future: a `packaged_task` lets nothing escape into
the worker. `future[t]` is `created` once `enqueue` has made the packaged task, `pending`
once it is in the queue, `refused` when `enqueue` throws "enqueue on stopped ThreadPool".

Who may call: the owner before the destructor, and a running task at any time. Another
thread calling `enqueue` concurrently with the destructor is undefined behaviour of any
object in C++ and no caller in the repository does it.

Not modelled: `std::thread`'s constructor throwing half-way (the process ends), and a pool
of size zero (`WorkersAssumption`; the only constructor calls pass a positive number or
the number of processors).

### SerialQuery and ParallelQuery
`SerialQuery` is `RegexClusterRepository::deep_query`: clusters in order, `test` as a
shortcut, and each cluster's entities inserted *before* those gathered so far
(`std::inserter(combined_results, combined_results.begin())`, line 89). `Throw` is an
allocation failure.

`ParallelQuery` is `ParallelRegexClusterRepository::query`, on top of all of `ThreadPool`:
task `c` queries cluster `c`. `phase` is where the function is, `next` the future the
second loop waits for. `CollectThrows` is `get()` rethrowing; `SubmitFails` an allocation
failure during submission; both leave through the destructor of the pool, as the function
itself does. What a query answers for a cluster and what `test` says of it are constants,
related by `TestAssumption`: `test` is false only where `query` answers nothing. The
theorems `TestIsSound` and `AnswersAreExact` about `ClusterMatchQuery` say so for as long
as RE2's automaton has memory.

### Bitmap and ClusterMatchQuery
`ClusterMatchQuery` is `cluster_match_query.cc` whole, but for the times it measures. `pc`
names the loop: over the positive and the negative examples in `test` (83-94, 96-112) and
in `query` (29-45, 49-58), then over the indices of the bitmap (`gather`, 63-67). A call
of `RE2::Set::Match` is a step; `left` holds the examples a loop has still to visit, in
any order, since they are in unordered sets. Initial states start in `test`, followed by
`query` as in the serial repository, or in `query`, as in the parallel one. RE2 is
external: `MatchHits` gives the indices of the regexes that match (a constant of the
behaviour, `matches`), `MatchFails` is `false`, which means either that there are none or
that the automaton has outgrown its memory; `exhausted` remembers in which loops that
happened and is read by no action.

`Bitmap` is the constructors, `set`, `get` and `&=`: whole words of `WordBits` bits, so
that the last one may have positions that stand for no regex and are filled with ones all
the same. A set of indices is written in one step, in both functions.

### ResultTable, QueryHash and QueryHandler
`ResultTable` is `paging.go`: the table and the page arithmetic modulo `UintSize`.
go-cache has a lock of its own, so each operation is one step; `Expire` may remove an
entry at any time. Both scores and entities of an entry are one sequence here.
`QueryHash` is what `HashQuery` feeds to FNV-1a: sorted positive, then sorted negative
examples, nothing in between. The properties and theorems are stated for *any* hash
function; the instances use this one, so two of their queries collide as they do in the
program (moving `a` from the positive to the negative examples changes nothing).

`QueryHandler` is one handler per client, from binding the request to the reply:

| `pc[c]` | Code of `query_handler.go` | Actions |
|---|---|---|
| `tryCache` | `tryCachedEntry`, 84-108, and 123-133 | `SkipCache`, `DropChangedQuery`, `ServeCached` |
| `regexdb` | 139-164 | `QueryRegexDB`, `ServiceFails` |
| `inflate` | 168-172 and `regex_db.go` | `Inflate`, `ServiceFails` |
| `cover` | 174-203 | `SortAndCache`, `ServiceFails` |
| `refetch` | 205-209 | `FetchFreshPage` |
| `track` | 213-230 | `Finish` |
| `answered` | after `ctx.JSON` | `Receive` of the next request |

`request[c].page.key` is overwritten with the computed key before the re-fetch, as at line
203. The store may leave out any of the entities it is asked for, because
`UnprocessedKeys` is never looked at, and it refuses an empty request, so a query without
a match fails (DynamoDB's validation of `BatchGetItem`; external, modelled from its use).
A panic in the handler (a slice with bad bounds) becomes status 500, which is what gin's
default `Recovery` does. A reply carries two fields the program's does not, `source` and
`answer`: the examples and the complete answer it was cut from. No action reads them.

Requests that do not bind, and the tracking parameters themselves, are left out: the first
change nothing, the second appear as the choice in `Finish`.

### Cluster, CorpusPipeline and Repositories
`Cluster` is `cluster.cc` as operators on one record: the RE2 set, whether it is closed, the
compiled flag, the entity list and the size. `Add` of the external `RE2::Set` refuses a
pattern that does not parse and anything after `Compile`; `Compile` may fail.

`CorpusPipeline` runs three programs over the files they share, in any order and as often as
one likes. `FilterCorpus` is a whole run of `filter`: it reads everything before it writes, so
its only visible effect is a file with some or all of the lines that pass. `cluster-tool` has
a step for each regex it moves: `ReadPatterns`, then `RemoveSeed`, `StealNext` and
`CloseCluster` until too few are left, then `OpenOutput` and `CloseOutput`, with the file cut
short in between; `ToolKilled` may come at any point. `StartService` is the constructor of
`QueryServiceImpl`, whose steps nobody sees. A line of a corpus is a regex or one of three
kinds of junk, which the readers treat differently: no JSON is passed over by both, missing
keys end `cluster-tool` but not `filter`, a key of the wrong type ends both. A score is a
fraction and scores are compared by cross-multiplication; egret is taken to give at least one
string for a regex it accepts, or the score would be 0/0.

`Repositories` holds one file of clusters in three ways: added cluster by cluster, shuffled
into clusters of one size (`Deal`), packed in order (`Pack`, the constructor with a bound).
`AddCluster` compiles, and drops what does not. Then queries: `StartQuery`, `QueryCluster`
for each cluster, `FinishQuery`; `Test` and `Answer` are `ClusterMatchQuery` with a `Match`
that never runs out of memory (`ClusterMatchQuery` models what happens if it does). The
yardstick is `SerialAnswer`: `RegexRepository`, asking regex by regex with a `MatchQuery`
that allows no miss.

### SimilarityGraph, MclClustering and StringTables
`SimilarityGraph` is what both scoring programs share: scores as fractions, their average
both ways, which of them become edges.

`MclClustering` is the program of that name, run several times over one file system. `files`
maps a kind and a name to a content. A run's `n`-th temporary name is `n`, because `random()`
is never seeded; name 0 is a path that the user gave. `run[p].pc` follows `main`:

| `pc` | Code | Actions |
|---|---|---|
| `off` | `clustering_main.cc` 169-209 | `Start`: options and corpus |
| `scorers` | `similarity_table.cc` 14-28 | a task a pattern: `MakeEgretScorer`, or `OpenRegexFile`, `Generate`, `StoreStrings`; then `FinishScorers` |
| `score` | `similarity_table.cc` 30-60, 68-114 | `Score` for each pair, `WriteGraph` |
| `cluster` | `mcl_wrapper.cc` 19-69 | `RunMcl`: any partition of the graph's labels, or failure |
| `read`, `print` | `mcl_wrapper.cc` 71-90, `cluster_set.cc` | `ReadClusters`, `WriteAndReturn` with all destructors |

`Killed` may come at any point; it and every exception that leaves `main` run no destructors,
so the files stay. Each file is written in one step: a reader that meets an empty one fails,
which `Killed` covers. `alone` holds the run, if any, that no other has overlapped, and no
action reads it; the properties are about such a run, after whatever earlier runs have left.

`StringTables` is the string generator followed by the similarity table. `task[k]` is how far
the task of chunk `k` is; `Gather` waits for them in order, as `get()` does. The file between
the programs is cut short from `OpenStrings` to `CloseStrings`, and stays so if the generator
is killed. `processors` is what `hardware_concurrency()` says, which may be zero: then the
generator has no chunks and writes an empty file, and the table hangs if it has a row to
compute (`Stuck`). Tasks are not bound to workers, since each is a function of what nobody
changes; `ThreadPool` has the scheduling.

### EntityStore
One migrator and one query over the table of entities. `WriteNextBatch` and `GetNextBatch` are
one call of DynamoDB each; the store fails, refuses an empty batch or an id that is twice in
one, and may leave part of a batch unprocessed, which `neglected` remembers (read by no
action, like `reader.ready`). An item of the old format cannot be unmarshalled, and
`getRegexesByIdUncheckedSize` then returns nothing for the whole batch and no error.
`SortByCoverage` yields any order that its comparison allows of a list in the random order of
a map. Line numbers are cut to `LineModulus`.

## 3. The runs

| Run | Instance | Distinct states | Shows |
|---|---|---|---|
| `ThreadPool` | 3 workers, 3 tasks, fair | 41,629 | `TypeOK`, `TaskPlacement`, `DestructorDrains`, `StopWakesAll`, `WorkConserving`, `DestructorReturns`, `ImplementsTaskPool` |
| `ParallelQuery` | 2 workers, 3 clusters, fair | 3,002 | `QueryTypeOK`, `NoTaskOutlivesQuery`, `NoFailureHidden`, `ImplementsSerialQuery` |
| `QueryHandler` | 2 clients, 3 queries (2 collide), 2 keys, 3 pages, symmetry | 787,000 | `HandlerTypeOK`, `CacheKeyedByHash`, `AnswersSameHash`, `WholeAnswerIsOwn`, `PagesDisjoint` |
| `ClusterMatchQuery` | 3 examples, clusters of 0 to 3 regexes, words of 2 bits, symmetry | 314,000 | `TypeOK`, `AnswersExactly`, `ExhaustionIsBounded`, `SkippedHasNoMatch` |
| `Corpus` | 3 corpora of up to 6 lines, clusters of 2, symmetry | 786,533 | `CorpusTypeOK`, `ToolPartitions`, `TakesTheMostSimilar`, `ServesACompleteRun` |
| `Repositories` | 4 files of up to 5 regexes, clusters of 1 to 3, 2 examples | 12,144 | `RepositoryTypeOK`, `ClustersAgree`, `NothingLost`, `RepositoriesAgree` |
| `MclClustering` | 2 runs, 2 ids, 2 workers, 3 corpora, 3 option sets, symmetry | 725,778 | `MclTypeOK`, `ScoresAreOwn`, `WritesItsPatterns`, `LeavesOnlyRefused` |
| `StringTables` | 4 corpora of up to 7 regexes, 0 to 3 processors, fair | 1,679 | `TablesTypeOK`, `GeneratesForAllReached`, `GraphOfTheCorpus`, `EndsIfItCan` |
| `EntityStore` | 4 entities, 4 files, batches of 2, lines of 3 bits | 58,139 | `StoreTypeOK`, `EndedMigrationIsWhole`, `MigratedIsFound`, `FailuresAtTheBottom` |
| `ExhaustedMatch` | as `ClusterMatchQuery` | - | `AnswersMatchTheQuery` is violated |
| `Pages` | 1 client | - | `PagesPartitionTheAnswer` is violated |
| `StaleQuery` | 1 client, one query without negative examples | - | `CachedQueryHasNotChanged` is violated |

**Bounds.** Three workers and three tasks are what the pool needs for all three kinds of
thread to be at work at once: one asleep, one running a task that enqueues, one on its way,
with one task queued and one in hand. Three clusters for two workers make a task wait, let tasks end out of order, and
put a failing cluster before, between and after succeeding ones; the middle cluster is
the one `test` rules out. Two clients are enough for every race between a store and the
re-fetch; page sizes one and two against answers of up to two entities reach the page
that is complete, the page that is cut, the page that is empty and the one that does not
exist; `UintSize` is 16, larger than any sum of an instance, so the only wrap-around is
the one of `totalResults - 1` and of `endIdx - startIdx`, as in the program. Three examples,
each of them positive, negative, both or neither, give every combination of two loops of
up to three rounds; `MaxSize` three against two bits a word gives maps without a word,
with one, and with a last word that is full or not.

`MaxClusterSize` one makes clusters of two, so four good regexes give two clusters, with and
without leftovers, and a tie in the scores; one corpus has every kind of regex that one of
the programs rejects, the two others junk that ends them. The files of `Repositories` have an
empty cluster at the front, a regex that does not parse inside a cluster, one that only
compiles as part of a set, and no cluster at all; five regexes leave a last cluster short in
both ways of placing them. Two runs of `mcl-clustering` are enough for one to follow a
failed, killed or finished one, and to overlap it; two ids with two workers make the tasks
of one run mix. Their corpora have an edge and a refused pattern, an id that is given twice, and no
pattern that can be scored. Seven regexes on three processors leave a remainder, one
regex on three leaves all; the same regex is in two chunks. Batches of two, files of two and
three and questions of three and four make a last batch short, an id come twice in a batch or
in two, and a migration fail between two batches. Line numbers of three bits wrap as those of
32 do. There is no other bound: no counter grows. In `MclClustering` each run starts once.

Every property has a mutant in `PROJECT.json`: a plausible mistake in one mapped
definition (the operators marked *Faulty* in the modules) under which the run finds the
property violated.

**Deadlock.** TLC checks it in every passing run. The pool ends in `Terminated`, a query in
`Ended`, the runs of mcl-clustering in `AllOver`, the string tables in `Over` (which includes
the hang of a pool without workers); anything else that stops is an error.

**Fairness.** `ThreadPool!Fairness` is weak fairness of each thread's own next step: the
operating system runs every thread that can run, and a task's body returns (RE2 matches in
linear time). `Acquire` is only weakly fair *per thread*; that suffices since no thread
holds the mutex for ever and each comes back to it finitely often. Spurious wakeups happen
finitely often in a behaviour, or a waiting worker could be kept busy for ever. Nothing
obliges the owner to enqueue or to destroy, or a task to enqueue. `QueryFairSpec` adds weak
fairness of the function's own steps, but not of an allocation failure. The fairness of
`StringTables` says that workers and main threads are scheduled and that Rex returns; being
killed is not fair. The handlers, the migrator and mcl-clustering have no liveness property:
what they wait for is other programs.

### What the violations show

1. **`PagesPartitionTheAnswer`** (`server/paging.go:118` and 133). `(total / size) + 1` is no
   rounding up: if the size divides the total there is a page too many. Its index passes the
   test at line 125, its bounds wrap, and the request ends with status 500. And the end of the
   last page is `totalResults - 1` in a slice that already excludes its end: the last entity
   of an answer is on no page. The shortest counterexample, an answer of one entity with pages
   of one, shows both: two pages are promised, and the first is empty.
2. **`CachedQueryHasNotChanged`** (`server/query_handler.go:89`). The entry is only dropped
   if the hash differs *and* both kinds of examples are present. A client that removes its
   last negative example and sends its old key gets the old answer.
3. **`AnswersMatchTheQuery`** (`librereuse/query/cluster_match_query.cc:51`). `Match` returns
   `false` when its automaton is out of memory, too, and `query` takes that for "nothing
   matches": regexes that match the negative example are answered.

`PagesDisjoint` and `AnswersSameHash` state what does hold in spite of the first two,
`ExhaustionIsBounded` in spite of the third.

### What the passing runs say of losses

Several properties of the offline programs hold only with an exception written into them,
and the exceptions are worth knowing: `ToolPartitions` and `ServesACompleteRun`: up to
`max_cluster_size` regexes are in no cluster, and clusters have one regex more than that.
`NothingLost`, `RepositoriesAgree`: a shuffled corpus loses its last, incomplete cluster, and
everything if the file's first cluster is empty. `GeneratesForAllReached`: the remainder of
the division by the number of processors gets no strings. `LeavesOnlyRefused`: the strings of
a pattern that RE2 refuses stay in `/tmp`. `ScoresAreOwn`: only of a run that none overlaps.
`EndedMigrationIsWhole`, `MigratedIsFound`: only while the store leaves nothing unprocessed.
None of them contradicts a statement of the source, so none is listed as a violation.

## 4. The proofs

TLC checks the instances of section 3; the theorems hold for every value of the constants
that satisfies the named assumptions of the modules. They state 36 of the 40 properties that
the passing runs check, all invariants among them, and the safety half of two more.

| Module | Theorem | Property |
|---|---|---|
| `ParallelQueryProofs` | `TypeCorrect`, `TasksArePlaced`, `StopWakesAllWorkers`, `DestructorHasDrained`, `WorkIsConserved` | `TypeOK`, `TaskPlacement`, `StopWakesAll`, `DestructorDrains`, `WorkConserving` |
| | `MutualExclusion`, `NoWakeupIsLost` | no run of their own |
| | `RefinesTaskPool` | `ThreadPool` implements `TaskPool!PoolSafeSpec`, the safety of `ImplementsTaskPool` |
| | `QueryTypeCorrect`, `NothingOutlivesQuery`, `FailuresAreNotHidden` | `QueryTypeOK`, `NoTaskOutlivesQuery`, `NoFailureHidden` |
| | `RefinesSerialQuery` | `ParallelQuery` implements `SerialQuery!SerialSafeSpec`, the safety of `ImplementsSerialQuery` |
| `QueryHandlerProofs` | `HandlerTypeCorrect`, `CacheIsKeyedByHash`, `AnswersHaveSameHash`, `WholeAnswersAreOwn`, `PagesAreDisjoint` | `HandlerTypeOK`, `CacheKeyedByHash`, `AnswersSameHash`, `WholeAnswerIsOwn`, `PagesDisjoint` |
| `ClusterMatchQueryProofs` | `MatchTypeCorrect`, `AnswersAreExact`, `ExhaustionBounded`, `TestIsSound` | `TypeOK`, `AnswersExactly`, `ExhaustionIsBounded`, `SkippedHasNoMatch` |
| `CorpusPipelineProofs` | `CorpusTypeCorrect`, `ClusteringPartitions`, `ClustersAreTheClosest`, `ServesWholeRuns` | `CorpusTypeOK`, `ToolPartitions`, `TakesTheMostSimilar`, `ServesACompleteRun` |
| `MclClusteringProofs` | `MclTypeCorrect`, `ScoresOwnStrings`, `WritesTheSimilar`, `LeavesNothingElse` | `MclTypeOK`, `ScoresAreOwn`, `WritesItsPatterns`, `LeavesOnlyRefused` |
| `StringTablesProofs` | `TablesTypeCorrect`, `GeneratesForTheReached`, `GraphIsOfTheCorpus` | `TablesTypeOK`, `GeneratesForAllReached`, `GraphOfTheCorpus` |
| `EntityStoreProofs` | `StoreTypeCorrect`, `EndedMigrationsAreWhole`, `MigratedAreFound`, `FailuresEndAtTheBottom` | `StoreTypeOK`, `EndedMigrationIsWhole`, `MigratedIsFound`, `FailuresAtTheBottom` |
| `RepositoriesProofs` | `RepositoryTypeCorrect`, `ClustersAlwaysAgree`, `NothingIsLost`, `AllRepositoriesAgree` | `RepositoryTypeOK`, `ClustersAgree`, `NothingLost`, `RepositoriesAgree` |

### The arguments

None of these properties is inductive. Each module strengthens them to an invariant that is,
with one lemma for each action or group of actions.

**`ParallelQueryProofs`, the pool** - any finite, non-empty set of workers and any tasks. A worker stores
a result in the future of `task[w]`, so one must know that this is a task. The strengthening
comes in layers: `LocalControl` (which local variables are set at which point of the code),
`MutexControl` (the mutex is held by who stands in a critical section), `StopControl` (`stop`
against the progress of the destructor; a worker that has exited has seen an empty queue, and
nothing can be pushed after), `ArgPlacement` (a task that is being enqueued is in one pair of
hands), `TaskPlacement`, `StopWakesAll`, `WorkConserving`. `NoLostWakeup` is the corollary
usually asked of a condition variable. `WorkConserving` is the interesting one: `notify_one`
is called outside the mutex and is lost when nobody sleeps, and the invariant that survives
this counts the workers that will look at the queue again plus the notifications still to
come. For `RefinesTaskPool` each step is shown to be a step of `TaskPool` or to change nothing
it sees; that no more than `Width` tasks run is counted over the workers that hold them
(`RoomToRun`).

**`ParallelQueryProofs`, the query** - a step of `query()` is a step of the pool or leaves it alone, so
the invariant of `ThreadPool` carries over (`PoolSteps`). `QueryControl` adds where the
function stands: the futures before `next` hold values, and each phase says how far `next`
got. Its keystone is `FutureIsFinal`: a future that holds a value never changes again. The
refinement uses `TestAssumption`, which `TestIsSound` and `AnswersAreExact` justify.

**`QueryHandlerProofs`** - any clients, queries, hash function, page requests and modulus. The
invariant `SameHash` adds `RefetchesOwnKey` (a handler about to fetch its fresh page asks for
the hash of its own examples; without it, line 205 could return anything) and
`FoundWhileCovering`. The page arithmetic enters through `PageType`: a page that exists is a
sequence of entities of the answer however the sums wrap. `PageControl` says of every paged
reply that it is that page of an answer without repetition; that two such pages do not meet is
then arithmetic (`PageBounds`). `SizeAssumption` says that an answer has fewer entities than
the modulus: the length of a slice is an `int`, the page bounds are `uint64`.

**`ClusterMatchQueryProofs`** - any finite set of examples, any cluster and word size. The
invariant `Exactness` adds what each loop has established: after the positive examples visited
so far, a bit of a regex is set just if the regex matches them all (`AfterPositives`); after
the negative ones, a set bit may be one that should have been cleared, but only if `Match`
gave up (`AfterNegatives`); and the indices gathered are those of the set bits passed
(`Gathered`). `Untouched` carries the full bitmap from the start of `test` to the start of
`query`. The bitmap enters through `EveryElementHasAPosition`: the number of words is rounded
up far enough.

**`CorpusPipelineProofs`** - any finite set of regexes, corpora, options and size. `ToolControl`
says where each regex the tool has read is: in one closed cluster, in the growing one, or left.
`Grids` are lists of full clusters without a common regex; counting them is a bijection between
places and regexes (`GridCardinality`). `ClosestFirst` keeps every cluster closest to its seed
not only against the leftovers but against all clusters formed after it, which is what later
steps preserve. `FileControl` carries a finished run through the file to `ServiceControl`. `At`
and `Accepted` of module `Cluster`, the constructor's loop, are shown to keep a list whose
patterns all parse (`AtAll`).

**`MclClusteringProofs`** - any finite set of ids, any runs, workers and corpora. `RunType` bounds the
temporary names by counting those drawn and those that scorers may still draw (`NamesTaken`).
`Own`, said only of a run that is alone, is about its files: every scorer's file is its own and
holds its own pattern (`OwnScorers`), the graph and the clusters in the file system are those of its corpus
(`OwnClusters`), and every file that was not there before is accounted for (`OwnFiles`). Names
are compared with the run's counter, which only grows, so that a new name is nobody else's.

**`StringTablesProofs`** - any corpora and numbers of processors, zero included. `Generating`
says that each task has the strings of the part of its chunk it has passed, `Computing` that
the rows are those of what was read. That the chunks hold all but a remainder smaller than
their number is integer division (`Division`, `Position`, `ChunksReach`). Proving
`GraphIsOfTheCorpus` brought to light that it needs `RexAssumption`: a regex that Rex has
handled has at least one string. `rex_wrapper.cc` throws when there is none; without it the
average of two scores would be 0/0.

**`EntityStoreProofs`** - batches of any size, any files, tables, questions and scores.
`ChunksOf` is what `ChunkSlice` gives: chunks one after the other, to the end of the list.
`MigratorControl` says that the chunks written so far put into the table the last entity of
each id in that part of the file (`Written`), which a chunk without repeated ids extends
(`WrittenGrows`). `ReaderControl` says that a query which runs on a settled table, one that no
migration is changing and that has no old item, has found what is there of the chunks it has
asked for (`FoundUpTo`). That the sorted answer has all of it is the pigeonhole principle
(`OrdersHaveAll`), and that failures come last follows from the comparison alone (`Ordered`),
although it is no order: of two failures each is before the other.

**`RepositoriesProofs`** - any files, language, refused regexes and bound. `Unpacked` is a
recursive function over a list of clusters; what it computes is found by induction, in the form
of sets of numbers that have 0 and, with a number, the next (`NaturalInduction`, from the least
element of a set of naturals): there is such a function and only one (`UnpackingExists`,
`UnpackingUnique`), so a further cluster adds its regexes at the end (`UnpackedAppend`). From
there on a list of clusters is the set of the regexes it holds (`Held`), and lists in which none
is twice (`Distinct`) are counted by their sets (`MembersCount`). The invariant `Safety` says
where each regex is. `PlacingControl`: what has been dealt or packed is in one cluster or in the
one being dealt, and packing has come as far as a prefix of the file. `AddingControl`: what is
in the repository, in clusters still to be added and in those that did not compile adds up to
the corpus, or to less than a cluster below it if it was shuffled. `QueryControl`: the answer
so far is what fits (`Fits`) of the clusters the loop has seen. `AnswerFits` is the step that
matters: a cluster answers just what fits of its regexes, and one that `test` rules out has
nothing that fits, since a negative example that hits as many positions as there are hits all.
`MissesNone` says the same of a single `MatchQuery` and its miss score.

### The assumptions

Apart from types of constants, finiteness of the sets the programs hold in memory, and the null
values being none of the real ones: the owner of a pool is no worker and there is a worker
(`WorkersAssumption`, `ThreadsAssumption`; the callers pass the number of processors or a positive
number); `TestAssumption`; the hash is a function of the examples (`HashAssumption`);
`SizeAssumption`; batches and words are not empty; an old item is stored under its own id
(`OldItemsAssumption`); egret and Rex give a string for what they accept (`CorpusPipeline`'s
`StringsAssumption`, `RexAssumption`); a string that matches in full is also found by a search
(`SimilarityGraph`'s `StringsAssumption`); no regex is at two places of a file of clusters
(`Repositories`' `FilesAssumption`: `cluster-tool` partitions what it reads, which is
`ToolPartitions`), and what does not parse is refused (`RefusedAssumption`). TLC evaluates all of them in the runs.

### What is only model-checked

* Liveness: `DestructorReturns`, `EndsIfItCan`, and what `ImplementsTaskPool` and
  `ImplementsSerialQuery` say of fairness. It rests on `WF_`, whose `ENABLED` the prover does
  not handle.
* The violated properties, of course.

## 5. Plan

Every invariant and every refinement step is proved. What is left is to model more: the parts of
section 6 that gain a caller, participant tracking as a retry after its failure, and
`mcl-clustering` composed with regexdb if their file formats come to agree.

## 6. Not modelled

RE2, DynamoDB, gRPC, go-cache, gin, the automata library, egret, Rex and `mcl` are external
and appear only as what the code relies on. Timing statistics, logs, reports, command lines
that do not parse and the words of messages decide nothing in what is modelled.

* `librereuse/util/csv.cc`, `stats.h`, `performance/main.cc`, `performance/benchmarking_report.cc`,
  `reports/`: measurements and their layout. Two reads of uninitialised durations
  (`regex_cluster_repository.cc:91`) end there.
* `fuzzy_cluster_query.cc` answers nothing; the `#if 0` sections, the helper classes at
  `parallel_regex_cluster_repository.cc` 19-112, `SimilarityTable::top_k_edges`, `|=` and `^=`
  of `Bitmap`, `Cluster::prime` and `FetchResultsWithQuery` have no caller that runs.
* Code that does not compile against the rest of this commit: `performance/main.cc`,
  `misc/cache_test.cc` and `misc/randomize_clusters.cc`, left out; the branches for objects
  and clusters of `clustering_main.cc` (197, 205 assign an entity to a string), left out; and
  `rex-string-generator/main.cc` (44 passes an entity for a string), modelled with the
  entity's pattern, which is what it was before entities were introduced.
* mcl-clustering writes arrays of patterns, while `read_semantic_clusters` wants objects
  with a pattern and an id; its output therefore never reaches regexdb as it is, and the two
  are not composed.
* `filter` declares its long options with the dashes in their names, so only the short ones
  work; `Switches` is what those can say.
* Strict string checking in mcl-clustering only logs. A `ThreadPool` without workers is a
  state of `StringTables` (`Stuck`), not of `ThreadPool`.
* Participant tracking is seen as a call that may fail; what it stores is never read back.
