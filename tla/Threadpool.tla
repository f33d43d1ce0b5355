------------------------------ MODULE Threadpool ------------------------------
(***************************************************************************)
(* Threadpool over TaskQueue, MyThread, MutexLock and Condition_va.        *)
(*                                                                         *)
(* One thread of the server, Main, creates the workers, hands tasks over   *)
(* (MonitorServer::onMessage runs on it) and destroys the pool             *)
(* (~MonitorServer).  Each worker runs Threadpool::doTask.                 *)
(*                                                                         *)
(* Steps are split where another thread can look: TaskQueue::empty,        *)
(* _is_stop and _isExit are accessed without _mutex, so every access to    *)
(* one of them by the thread that does not own the lock lies between two   *)
(* steps here.  A critical section that reads none of them is one step     *)
(* after its lock.  Blocking in pthread_cond_wait releases the mutex and   *)
(* joins the waiters in one step; a woken thread competes for the mutex    *)
(* again.  Plain bool accesses are sequentially consistent.                *)
(***************************************************************************)
EXTENDS Naturals, Sequences, FiniteSets

CONSTANTS
    Workers,    \* the MyThread objects of _threads
    Tasks,      \* the callables passed to addTask, each of them once
    Capacity,   \* _queSize
    Main,       \* the thread that owns the pool
    Nobody,     \* the owner of a free mutex
    NoTask      \* the empty std::function

ASSUME PoolAssumption ==
    /\ IsFiniteSet(Workers)
    /\ Capacity \in Nat
    /\ Main \notin Workers
    /\ Nobody \notin Workers \cup {Main}
    /\ NoTask \notin Tasks

VARIABLES
    que,        \* TaskQueue::_que
    mutex,      \* the owner of TaskQueue::_mutex
    isStop,     \* TaskQueue::_is_stop
    isExit,     \* Threadpool::_isExit
    running,    \* MyThread::_isRunning of each worker
    pc,         \* where each worker stands in doTask and pop
    main,       \* where Main stands
    task,       \* the local task of doTask, Null between two iterations
    elem,       \* the task Main is pushing
    finished    \* the tasks whose call returned

queueVars == <<que, mutex, isStop>>
vars == <<que, mutex, isStop, isExit, running, pc, main, task, elem, finished>>

-------------------------------------------------------------------------------
(* Who waits on _notEmpty, and what a signal does to pc. *)

NotEmptyWaiters == {w \in Workers : pc[w] = "notEmpty"}

full == Len(que) = Capacity
empty == que = <<>>

\* pthread_cond_signal(_notEmpty): one waiter goes for the mutex, if there is one.
NotifyOneNotEmpty ==
    \/ /\ NotEmptyWaiters = {}
       /\ UNCHANGED pc
    \/ \E w \in NotEmptyWaiters : pc' = [pc EXCEPT ![w] = "lock"]

\* pthread_cond_signal(_notFull): only Main ever waits there.
NotifyOneNotFull == main' = IF main = "notFull" THEN "lock" ELSE main

-------------------------------------------------------------------------------
(* Threadpool::startThreadPool *)

\* MyThread::start: pthread_create either starts the thread or fails, and a
\* failure is reported on stderr and otherwise ignored.
StartThread(w) ==
    /\ main = "start"
    /\ pc[w] = "new"
    /\ \/ /\ pc' = [pc EXCEPT ![w] = "loop"]
          /\ running' = [running EXCEPT ![w] = TRUE]
       \/ /\ pc' = [pc EXCEPT ![w] = "failed"]
          /\ UNCHANGED running
    /\ UNCHANGED <<queueVars, isExit, main, task, elem, finished>>

StartReturn ==
    /\ main = "start"
    /\ \A w \in Workers : pc[w] # "new"
    /\ main' = "serve"
    /\ UNCHANGED <<queueVars, isExit, running, pc, task, elem, finished>>

-------------------------------------------------------------------------------
(* Threadpool::addTask and TaskQueue::push, on Main *)

Accepted ==
    {que[i] : i \in 1..Len(que)} \cup {task[w] : w \in Workers} \cup finished

AddTask(t) ==
    /\ main = "serve"
    /\ t \notin Accepted
    /\ elem' = t
    /\ main' = "lock"
    /\ UNCHANGED <<queueVars, isExit, running, pc, task, finished>>

PushLock ==
    /\ main = "lock"
    /\ mutex = Nobody
    /\ mutex' = Main
    /\ main' = "push"
    /\ UNCHANGED <<que, isStop, isExit, running, pc, task, elem, finished>>

PushWait ==
    /\ main = "push"
    /\ full
    /\ mutex' = Nobody
    /\ main' = "notFull"
    /\ UNCHANGED <<que, isStop, isExit, running, pc, task, elem, finished>>

\* Mutant of PushPut: the queue is not tested again once the mutex is held.
PushPutUntested ==
    /\ main = "push"
    /\ que' = Append(que, elem)
    /\ NotifyOneNotEmpty
    /\ mutex' = Nobody
    /\ elem' = NoTask
    /\ main' = "serve"
    /\ UNCHANGED <<isStop, isExit, running, task, finished>>

\* Mutant of PushPut: it signals only when the queue was empty.
PushPutSignalsFirst ==
    /\ main = "push"
    /\ ~full
    /\ que' = Append(que, elem)
    /\ IF empty THEN NotifyOneNotEmpty ELSE UNCHANGED pc
    /\ mutex' = Nobody
    /\ elem' = NoTask
    /\ main' = "serve"
    /\ UNCHANGED <<isStop, isExit, running, task, finished>>

\* Mutant of PushPut: it does not signal.
PushPutSilent ==
    /\ main = "push"
    /\ ~full
    /\ que' = Append(que, elem)
    /\ mutex' = Nobody
    /\ elem' = NoTask
    /\ main' = "serve"
    /\ UNCHANGED <<isStop, isExit, running, pc, task, finished>>

PushPut ==
    /\ main = "push"
    /\ ~full
    /\ que' = Append(que, elem)
    /\ NotifyOneNotEmpty
    /\ mutex' = Nobody
    /\ elem' = NoTask
    /\ main' = "serve"
    /\ UNCHANGED <<isStop, isExit, running, task, finished>>

-------------------------------------------------------------------------------
(* Threadpool::doTask and TaskQueue::pop, on a worker *)

LoopTest(w) ==
    /\ pc[w] = "loop"
    /\ pc' = [pc EXCEPT ![w] = IF isExit THEN "done" ELSE "lock"]
    /\ UNCHANGED <<queueVars, isExit, running, main, task, elem, finished>>

\* The lock of pop, and the lock a woken pthread_cond_wait takes again: both
\* lead to the test of the while.
PopLock(w) ==
    /\ pc[w] = "lock"
    /\ mutex = Nobody
    /\ mutex' = w
    /\ pc' = [pc EXCEPT ![w] = "test"]
    /\ UNCHANGED <<que, isStop, isExit, running, main, task, elem, finished>>

\* while (empty() && !_is_stop)
PopTest(w) ==
    /\ pc[w] = "test"
    /\ pc' = [pc EXCEPT ![w] = IF empty /\ ~isStop THEN "wait" ELSE "take"]
    /\ UNCHANGED <<queueVars, isExit, running, main, task, elem, finished>>

\* Mutant of PopWait: an if in the place of the while, and a wait that returns
\* spuriously at once.
PopWaitOnce(w) ==
    /\ pc[w] = "wait"
    /\ pc' = [pc EXCEPT ![w] = "take"]
    /\ UNCHANGED <<queueVars, isExit, running, main, task, elem, finished>>

\* _notEmpty.wait(): _is_stop may have been set since the test.
PopWait(w) ==
    /\ pc[w] = "wait"
    /\ mutex' = Nobody
    /\ pc' = [pc EXCEPT ![w] = "notEmpty"]
    /\ UNCHANGED <<que, isStop, isExit, running, main, task, elem, finished>>

\* Mutant of PopTake: it does not signal _notFull.
PopTakeSilent(w) ==
    /\ pc[w] = "take"
    /\ ~isStop
    /\ task' = [task EXCEPT ![w] = Head(que)]
    /\ que' = Tail(que)
    /\ mutex' = Nobody
    /\ pc' = [pc EXCEPT ![w] = "run"]
    /\ UNCHANGED <<isStop, isExit, running, main, elem, finished>>

\* Mutant of PopTake: the newest task is taken first.
PopTakeNewest(w) ==
    /\ pc[w] = "take"
    /\ ~isStop
    /\ task' = [task EXCEPT ![w] = que[Len(que)]]
    /\ que' = SubSeq(que, 1, Len(que) - 1)
    /\ NotifyOneNotFull
    /\ mutex' = Nobody
    /\ pc' = [pc EXCEPT ![w] = "run"]
    /\ UNCHANGED <<isStop, isExit, running, elem, finished>>

\* The rest of pop when _is_stop is not set: front, pop and _notFull.notify_one.
PopTake(w) ==
    /\ pc[w] = "take"
    /\ ~isStop
    /\ task' = [task EXCEPT ![w] = Head(que)]
    /\ que' = Tail(que)
    /\ NotifyOneNotFull
    /\ mutex' = Nobody
    /\ pc' = [pc EXCEPT ![w] = "run"]
    /\ UNCHANGED <<isStop, isExit, running, elem, finished>>

\* The rest of pop when _is_stop is set: a null task, which doTask skips.
PopNull(w) ==
    /\ pc[w] = "take"
    /\ isStop
    /\ mutex' = Nobody
    /\ pc' = [pc EXCEPT ![w] = "loop"]
    /\ UNCHANGED <<que, isStop, isExit, running, main, task, elem, finished>>

\* task() returns and the local std::function goes out of scope.
RunTask(w) ==
    /\ pc[w] = "run"
    /\ finished' = finished \cup {task[w]}
    /\ task' = [task EXCEPT ![w] = NoTask]
    /\ pc' = [pc EXCEPT ![w] = "loop"]
    /\ UNCHANGED <<queueVars, isExit, running, main, elem>>

-------------------------------------------------------------------------------
(* Threadpool::stopThreadPool, on Main once the event loop has returned *)

StopBegin ==
    /\ main = "serve"
    /\ main' = "drain"
    /\ UNCHANGED <<queueVars, isExit, running, pc, task, elem, finished>>

\* sleep(1) while the queue, read without the lock, is not empty.
StopSleep ==
    /\ main = "drain"
    /\ ~empty
    /\ UNCHANGED vars

StopDrained ==
    /\ main = "drain"
    /\ empty
    /\ main' = "exit"
    /\ UNCHANGED <<queueVars, isExit, running, pc, task, elem, finished>>

StopExit ==
    /\ main = "exit"
    /\ isExit' = TRUE
    /\ main' = "stop"
    /\ UNCHANGED <<queueVars, running, pc, task, elem, finished>>

\* wakeUpAllThread holds no lock for either of its statements.
WakeUpStop ==
    /\ main = "stop"
    /\ isStop' = TRUE
    /\ main' = "wake"
    /\ UNCHANGED <<que, mutex, isExit, running, pc, task, elem, finished>>

WakeUpAll ==
    /\ main = "wake"
    /\ pc' = [w \in Workers |-> IF pc[w] = "notEmpty" THEN "lock" ELSE pc[w]]
    /\ main' = "join"
    /\ UNCHANGED <<queueVars, isExit, running, task, elem, finished>>

\* Mutant of Join: the thread is detached, not joined.
JoinDetached(w) ==
    /\ main = "join"
    /\ running[w]
    /\ running' = [running EXCEPT ![w] = FALSE]
    /\ UNCHANGED <<queueVars, isExit, pc, main, task, elem, finished>>

\* MyThread::join; the order of the loop over _threads cannot be observed.
Join(w) ==
    /\ main = "join"
    /\ running[w]
    /\ pc[w] = "done"
    /\ running' = [running EXCEPT ![w] = FALSE]
    /\ UNCHANGED <<queueVars, isExit, pc, main, task, elem, finished>>

StopReturn ==
    /\ main = "join"
    /\ \A w \in Workers : ~running[w]
    /\ main' = "stopped"
    /\ UNCHANGED <<queueVars, isExit, running, pc, task, elem, finished>>

-------------------------------------------------------------------------------
\* pthread_cond_wait may return without a signal.
SpuriousWakeup(w) ==
    /\ pc[w] = "notEmpty"
    /\ pc' = [pc EXCEPT ![w] = "lock"]
    /\ UNCHANGED <<queueVars, isExit, running, main, task, elem, finished>>

SpuriousWakeupMain ==
    /\ main = "notFull"
    /\ main' = "lock"
    /\ UNCHANGED <<queueVars, isExit, running, pc, task, elem, finished>>

\* The pool is gone: nothing more happens.
Terminated ==
    /\ main = "stopped"
    /\ UNCHANGED vars

Init ==
    /\ que = <<>>
    /\ mutex = Nobody
    /\ isStop = FALSE
    /\ isExit = FALSE
    /\ running = [w \in Workers |-> FALSE]
    /\ pc = [w \in Workers |-> "new"]
    /\ main = "start"
    /\ task = [w \in Workers |-> NoTask]
    /\ elem = NoTask
    /\ finished = {}

\* The steps a live thread keeps taking.
WorkerStep(w) ==
    \/ LoopTest(w)
    \/ PopLock(w)
    \/ PopTest(w)
    \/ PopWait(w)
    \/ PopTake(w)
    \/ PopNull(w)
    \/ RunTask(w)

MainStep ==
    \/ \E w \in Workers : StartThread(w)
    \/ StartReturn
    \/ PushLock
    \/ PushWait
    \/ PushPut
    \/ StopDrained
    \/ StopExit
    \/ WakeUpStop
    \/ WakeUpAll
    \/ \E w \in Workers : Join(w)
    \/ StopReturn

Next ==
    \/ \E w \in Workers : WorkerStep(w)
    \/ MainStep
    \/ \E t \in Tasks : AddTask(t)
    \/ StopBegin
    \/ StopSleep
    \/ \E w \in Workers : SpuriousWakeup(w)
    \/ SpuriousWakeupMain
    \/ Terminated

Spec == Init /\ [][Next]_vars

\* The scheduler runs every thread that can run, a task returns, and a thread
\* that finds the mutex free again and again gets it some day.  Handing a task
\* over and shutting down are choices; a spurious wakeup is never owed.
Fairness ==
    /\ \A w \in Workers : WF_vars(WorkerStep(w)) /\ SF_vars(PopLock(w))
    /\ WF_vars(MainStep)
    /\ SF_vars(PushLock)

FairSpec == Spec /\ Fairness
-------------------------------------------------------------------------------
(* Properties *)

Pcs == {"new", "failed", "loop", "lock", "test", "wait", "notEmpty", "take",
        "run", "done"}
Mains == {"start", "serve", "lock", "push", "notFull", "drain", "exit", "stop",
          "wake", "join", "stopped"}

\* The values of every variable; que never outgrows _queSize.
TypeOK ==
    /\ que \in Seq(Tasks)
    /\ Len(que) <= Capacity
    /\ mutex \in Workers \cup {Main, Nobody}
    /\ isStop \in BOOLEAN
    /\ isExit \in BOOLEAN
    /\ running \in [Workers -> BOOLEAN]
    /\ pc \in [Workers -> Pcs]
    /\ main \in Mains
    /\ task \in [Workers -> Tasks \cup {NoTask}]
    /\ elem \in Tasks \cup {NoTask}
    /\ finished \in SUBSET Tasks

\* front and pop of an empty std::queue are undefined: a worker past the while
\* of pop finds a task, or _is_stop set, although _is_stop is read a second
\* time and changes without the lock.
TakeFromNonEmpty ==
    \A w \in Workers : pc[w] = "take" /\ ~isStop => que # <<>>

\* The workers that test the queue before they may sleep again.
Awake == {w \in Workers : pc[w] \in {"lock", "test", "take"}}

\* notify_one of push is never wasted: while a worker sleeps on _notEmpty, each
\* waiting task has a worker of its own on its way to it.
NoLostWakeup ==
    NotEmptyWaiters # {} => Len(que) <= Cardinality(Awake)

\* Nor is notify_one of pop: push sleeps on _notFull only while the queue is full.
PushBlockedOnlyWhenFull == main = "notFull" => full

\* What stopThreadPool is for: when it returns the queue is empty, no worker
\* thread is left to touch the pool, and every task handed over has returned.
PoolQuiescentAtReturn ==
    main = "stopped" =>
        /\ que = <<>>
        /\ elem = NoTask
        /\ \A w \in Workers : pc[w] \in {"failed", "done"} /\ task[w] = NoTask

\* The pool with its lock, conditions and flags is the pool of TaskPool.
Pool == INSTANCE TaskPool WITH
            queue <- que, cur <- task, closed <- (main = "stopped")
ImplementsTaskPool == Pool!PoolSpec

\* A task that was handed over is executed, if any thread could be created.
EveryTaskFinishes ==
    \A t \in Tasks :
        (t \in Accepted /\ \E w \in Workers : running[w]) ~> t \in finished

\* addTask returns to the event loop, if any thread could be created.
PushReturns ==
    (main = "lock" /\ \E w \in Workers : running[w]) ~> main = "serve"

\* "Wake every worker that may block on the queue, so that it sees the flag and
\* exits safely" (Threadpool.cpp:34): stopThreadPool returns, even when every
\* thread could be created.
ShutdownCompletes ==
    (main = "drain" /\ \A w \in Workers : running[w]) ~> main = "stopped"
===============================================================================
