------------------------------ MODULE TaskPool ------------------------------
(***************************************************************************)
(* What ThreadPool (clustering/mcl-clustering/ThreadPool.h) promises its   *)
(* users, without threads, mutex or condition variable: accepted tasks     *)
(* start in the order in which they were accepted, at most Width at a      *)
(* time, each exactly once; a pool that is closing accepts nothing more    *)
(* but still runs everything it has accepted; it is closed only then.      *)
(***************************************************************************)
EXTENDS Naturals, Sequences, FiniteSets

CONSTANTS Tasks,   \* the tasks that may be handed to the pool
          Width    \* how many tasks may run at once

VARIABLES queue,   \* accepted tasks that have not started, oldest first
          running, \* tasks that have started and not finished
          outcome, \* outcome[t]: what the future of t holds
          mode     \* "open", "closing" (destructor under way) or "closed"

poolVars == <<queue, running, outcome, mode>>

PoolInit ==
    /\ queue = <<>>
    /\ running = {}
    /\ outcome = [t \in Tasks |-> "none"]
    /\ mode = "open"

Accept(t) ==
    /\ mode = "open"
    /\ outcome[t] = "none"
    /\ queue' = Append(queue, t)
    /\ outcome' = [outcome EXCEPT ![t] = "pending"]
    /\ UNCHANGED <<running, mode>>

Refuse(t) ==
    /\ mode = "closing"
    /\ outcome[t] = "none"
    /\ outcome' = [outcome EXCEPT ![t] = "refused"]
    /\ UNCHANGED <<queue, running, mode>>

Start ==
    /\ queue # <<>>
    /\ Cardinality(running) < Width
    /\ queue' = Tail(queue)
    /\ running' = running \cup {Head(queue)}
    /\ UNCHANGED <<outcome, mode>>

Finish(t) ==
    /\ t \in running
    /\ running' = running \ {t}
    /\ \E r \in {"value", "exception"} : outcome' = [outcome EXCEPT ![t] = r]
    /\ UNCHANGED <<queue, mode>>

StartClosing ==
    /\ mode = "open"
    /\ mode' = "closing"
    /\ UNCHANGED <<queue, running, outcome>>

FinishClosing ==
    /\ mode = "closing"
    /\ queue = <<>>
    /\ running = {}
    /\ mode' = "closed"
    /\ UNCHANGED <<queue, running, outcome>>

PoolNext ==
    \/ \E t \in Tasks : Accept(t) \/ Refuse(t) \/ Finish(t)
    \/ Start
    \/ StartClosing
    \/ FinishClosing

PoolSafeSpec == PoolInit /\ [][PoolNext]_poolVars

(***************************************************************************)
(* The pool keeps working: a queued task starts as soon as the width       *)
(* allows, a running one finishes, and a closing pool closes.              *)
(***************************************************************************)
PoolSpec ==
    /\ PoolSafeSpec
    /\ WF_poolVars(Start)
    /\ \A t \in Tasks : WF_poolVars(Finish(t))
    /\ WF_poolVars(FinishClosing)
=============================================================================
