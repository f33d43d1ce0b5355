------------------------------- MODULE TaskPool -------------------------------
(***************************************************************************)
(* What a thread pool with a bounded queue promises its caller, with no    *)
(* lock, condition variable or flag in sight: a task that was accepted     *)
(* waits in arrival order, is executed once by one idle worker, and the    *)
(* pool closes only when nothing waits and nothing executes.               *)
(* Threadpool.tla is shown to implement this module; Reactor.tla uses it   *)
(* in the place of the pool.                                               *)
(***************************************************************************)
EXTENDS Naturals, Sequences

CONSTANTS
    Workers,    \* the threads of the pool
    Tasks,      \* the tasks that can be handed over, each one at most once
    Capacity,   \* how many accepted tasks may wait
    NoTask      \* what an idle worker holds

VARIABLES
    queue,      \* the accepted tasks no worker has taken, oldest first
    cur,        \* the task each worker executes
    finished,   \* the tasks that were executed to their end
    closed      \* the pool was shut down

poolVars == <<queue, cur, finished, closed>>

Queued == {queue[i] : i \in 1..Len(queue)}
Executing == {cur[w] : w \in Workers} \ {NoTask}

PoolInit ==
    /\ queue = <<>>
    /\ cur = [w \in Workers |-> NoTask]
    /\ finished = {}
    /\ closed = FALSE

Submit(t) ==
    /\ ~closed
    /\ t \notin Queued \cup Executing \cup finished
    /\ Len(queue) < Capacity
    /\ queue' = Append(queue, t)
    /\ UNCHANGED <<cur, finished, closed>>

Start(w) ==
    /\ cur[w] = NoTask
    /\ queue # <<>>
    /\ cur' = [cur EXCEPT ![w] = Head(queue)]
    /\ queue' = Tail(queue)
    /\ UNCHANGED <<finished, closed>>

Finish(w) ==
    /\ cur[w] # NoTask
    /\ finished' = finished \cup {cur[w]}
    /\ cur' = [cur EXCEPT ![w] = NoTask]
    /\ UNCHANGED <<queue, closed>>

Close ==
    /\ queue = <<>>
    /\ \A w \in Workers : cur[w] = NoTask
    /\ closed' = TRUE
    /\ UNCHANGED <<queue, cur, finished>>

PoolNext ==
    \/ \E t \in Tasks : Submit(t)
    \/ \E w \in Workers : Start(w) \/ Finish(w)
    \/ Close

PoolSpec == PoolInit /\ [][PoolNext]_poolVars
===============================================================================
