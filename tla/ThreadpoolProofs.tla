--------------------------- MODULE ThreadpoolProofs ---------------------------
(***************************************************************************)
(* The thread pool keeps its safety properties, and implements TaskPool,   *)
(* for any number of workers and tasks and any capacity.                   *)
(***************************************************************************)
EXTENDS Threadpool, FiniteSetTheorems, TLAPS

-------------------------------------------------------------------------------
(* The inductive invariant *)

\* _mutex is held by the thread that is inside push or pop, and by no other.
LockInv ==
    /\ \A w \in Workers : pc[w] \in {"test", "wait", "take"} <=> mutex = w
    /\ main = "push" <=> mutex = Main

\* What the owner of _mutex saw of the queue is still true of it.
SeenInv ==
    \A w \in Workers :
        /\ pc[w] = "take" /\ ~isStop => que # <<>>
        /\ pc[w] = "wait" => que = <<>>

\* A worker holds a task exactly while it executes it.
TaskInv == \A w \in Workers : task[w] # NoTask <=> pc[w] = "run"

\* A thread that was created and not joined is one _isRunning knows of.
ThreadInv ==
    \A w \in Workers :
        /\ pc[w] = "new" => main = "start"
        /\ ~running[w] => pc[w] \in {"new", "failed", "done"}
        /\ running[w] => main # "stopped"

\* Main pushes an element or none, and nothing is pushed once the pool drained.
MainInv ==
    /\ main \in {"lock", "push", "notFull"} <=> elem # NoTask
    /\ main \in {"exit", "stop", "wake", "join", "stopped"} => que = <<>>
    /\ isStop => main \in {"wake", "join", "stopped"}
    /\ main = "notFull" => full

\* The element being pushed was never handed over before.
FreshInv == elem # NoTask => elem \notin Accepted

IInv ==
    TypeOK /\ LockInv /\ SeenInv /\ TaskInv /\ ThreadInv /\ MainInv /\ FreshInv

LEMMA IInvInit == Init => IInv
<1> SUFFICES ASSUME Init PROVE IInv
  OBVIOUS
<1> USE PoolAssumption DEF Init
<1>1. TypeOK
  <2>1. que \in Seq(Tasks) /\ Len(que) <= Capacity  OBVIOUS
  <2>2. pc \in [Workers -> Pcs] /\ main \in Mains  BY DEF Pcs, Mains
  <2>3. running \in [Workers -> BOOLEAN] OBVIOUS
  <2>4. task \in [Workers -> Tasks \cup {NoTask}]  OBVIOUS
  <2> QED  BY <2>1, <2>2, <2>3, <2>4 DEF TypeOK
<1>2. LockInv  BY DEF LockInv
<1>3. SeenInv  BY DEF SeenInv
<1>4. TaskInv  BY DEF TaskInv
<1>5. ThreadInv  BY DEF ThreadInv
<1>6. MainInv  BY DEF MainInv
<1>7. FreshInv  BY DEF FreshInv
<1> QED  BY <1>1, <1>2, <1>3, <1>4, <1>5, <1>6, <1>7 DEF IInv
-------------------------------------------------------------------------------
LEMMA IInvNext == IInv /\ [Next]_vars => IInv'
<1> SUFFICES ASSUME IInv, [Next]_vars PROVE IInv'
  OBVIOUS
<1> USE PoolAssumption DEF IInv, TypeOK, LockInv, SeenInv, TaskInv, ThreadInv, MainInv,
        FreshInv, Accepted, Pcs, Mains, queueVars, full, empty
<1>1. ASSUME NEW w \in Workers, StartThread(w) PROVE IInv'
  <2>1. /\ \/ pc' = [pc EXCEPT ![w] = "loop"] /\ running' = [running EXCEPT ![w] = TRUE]
           \/ pc' = [pc EXCEPT ![w] = "failed"] /\ running' = running
        /\ main = "start" /\ pc[w] = "new"
        /\ UNCHANGED <<queueVars, isExit, main, task, elem, finished>>
    BY <1>1 DEF StartThread
  <2>2. (TypeOK /\ LockInv /\ SeenInv)'  BY <2>1
  <2>3. (TaskInv /\ ThreadInv /\ MainInv /\ FreshInv)'  BY <2>1
  <2> QED  BY <2>2, <2>3
<1>2. ASSUME NEW w \in Workers, LoopTest(w) PROVE IInv'
  BY <1>2 DEF LoopTest
<1>3. ASSUME NEW w \in Workers, PopLock(w) PROVE IInv'
  BY <1>3 DEF PopLock
<1>4. ASSUME NEW w \in Workers, PopTest(w) PROVE IInv'
  BY <1>4 DEF PopTest
<1>5. ASSUME NEW w \in Workers, PopWait(w) PROVE IInv'
  BY <1>5 DEF PopWait
<1>6. ASSUME NEW w \in Workers, PopTake(w) PROVE IInv'
  <2>1. que # <<>>  BY <1>6 DEF PopTake
  <2>2. {que'[i] : i \in 1..Len(que')} \subseteq {que[i] : i \in 1..Len(que)}
    BY <1>6, <2>1 DEF PopTake
  <2>3. \A v \in Workers : task'[v] = Head(que) \/ task'[v] = task[v]
    BY <1>6 DEF PopTake
  <2>4. Head(que) \in {que[i] : i \in 1..Len(que)}
    BY <2>1
  <2>5. Accepted' \subseteq Accepted
    BY <1>6, <2>2, <2>3, <2>4 DEF PopTake
  <2>6. FreshInv'
    BY <1>6, <2>5 DEF PopTake
  <2>7. TypeOK' /\ LockInv' /\ SeenInv' /\ TaskInv' /\ ThreadInv' /\ MainInv'
    BY <1>6 DEF PopTake, NotifyOneNotFull
  <2> QED  BY <2>6, <2>7
<1>7. ASSUME NEW w \in Workers, PopNull(w) PROVE IInv'
  BY <1>7 DEF PopNull
<1>8. ASSUME NEW w \in Workers, RunTask(w) PROVE IInv'
  BY <1>8 DEF RunTask
<1>9. ASSUME NEW w \in Workers, Join(w) PROVE IInv'
  BY <1>9 DEF Join
<1>10. ASSUME NEW w \in Workers, SpuriousWakeup(w) PROVE IInv'
  BY <1>10 DEF SpuriousWakeup
<1>11. ASSUME NEW t \in Tasks, AddTask(t) PROVE IInv'
  BY <1>11 DEF AddTask
<1>12. CASE StartReturn
  BY <1>12 DEF StartReturn
<1>13. CASE PushLock
  BY <1>13 DEF PushLock
<1>14. CASE PushWait
  BY <1>14 DEF PushWait
<1>15. CASE PushPut
  BY <1>15 DEF PushPut, NotifyOneNotEmpty, NotEmptyWaiters
<1>16. CASE StopBegin
  BY <1>16 DEF StopBegin
<1>17. CASE StopSleep
  BY <1>17 DEF StopSleep, vars
<1>18. CASE StopDrained
  BY <1>18 DEF StopDrained
<1>19. CASE StopExit
  BY <1>19 DEF StopExit
<1>20. CASE WakeUpStop
  BY <1>20 DEF WakeUpStop
<1>21. CASE WakeUpAll
  BY <1>21 DEF WakeUpAll
<1>22. CASE StopReturn
  BY <1>22 DEF StopReturn
<1>23. CASE SpuriousWakeupMain
  BY <1>23 DEF SpuriousWakeupMain
<1>24. CASE Terminated
  BY <1>24 DEF Terminated, vars
<1>25. CASE UNCHANGED vars
  BY <1>25 DEF vars
<1> QED
  BY <1>1, <1>2, <1>3, <1>4, <1>5, <1>6, <1>7, <1>8, <1>9, <1>10, <1>11, <1>12, <1>13, <1>14, <1>15, <1>16, <1>17, <1>18, <1>19, <1>20, <1>21, <1>22, <1>23, <1>24, <1>25 DEF Next, WorkerStep, MainStep
LEMMA IInvAlways == Spec => []IInv
  BY IInvInit, IInvNext, PTL DEF Spec

-------------------------------------------------------------------------------
(* Safety *)

\* Every variable keeps its type, and the queue its bound.
THEOREM TypeCorrect == Spec => []TypeOK
<1>1. IInv => TypeOK  BY DEF IInv
<1> QED  BY <1>1, IInvAlways, PTL

\* pop never takes from an empty queue, although _is_stop is not locked.
THEOREM TakeIsSafe == Spec => []TakeFromNonEmpty
<1>1. IInv => TakeFromNonEmpty  BY DEF IInv, SeenInv, TakeFromNonEmpty
<1> QED  BY <1>1, IInvAlways, PTL

\* push sleeps only while the queue is full.
THEOREM PushBlockIsSafe == Spec => []PushBlockedOnlyWhenFull
<1>1. IInv => PushBlockedOnlyWhenFull
  BY DEF IInv, MainInv, PushBlockedOnlyWhenFull
<1> QED  BY <1>1, IInvAlways, PTL

\* When stopThreadPool returns, no task and no worker is left.
THEOREM QuiescentAtReturn == Spec => []PoolQuiescentAtReturn
<1>1. IInv => PoolQuiescentAtReturn
  BY DEF IInv, TypeOK, TaskInv, ThreadInv, MainInv, PoolQuiescentAtReturn, Pcs
<1> QED  BY <1>1, IInvAlways, PTL

-------------------------------------------------------------------------------
(* No signal of push is lost *)

LEMMA AwakeFinite == IsFiniteSet(Awake) /\ Cardinality(Awake) \in Nat
<1>1. Awake \subseteq Workers  BY DEF Awake
<1> QED  BY <1>1, PoolAssumption, FS_Subset, FS_CardinalityType

\* Workers that start towards the queue do not lower the count.
LEMMA AwakeGrows ==
    ASSUME Awake \subseteq Awake' PROVE Cardinality(Awake) <= Cardinality(Awake')
<1>1. Awake' \subseteq Workers  BY DEF Awake
<1>2. IsFiniteSet(Awake')  BY <1>1, PoolAssumption, FS_Subset
<1> QED  BY <1>2, FS_Subset

LEMMA NoLostWakeupNext ==
    IInv /\ NoLostWakeup /\ [Next]_vars => NoLostWakeup'
<1> SUFFICES ASSUME IInv, NoLostWakeup, [Next]_vars, (NotEmptyWaiters # {})'
             PROVE  Len(que') <= Cardinality(Awake')
  BY DEF NoLostWakeup
<1>a. /\ Cardinality(Awake) \in Nat /\ IsFiniteSet(Awake)
      /\ Cardinality(Awake') \in Nat /\ IsFiniteSet(Awake')
  <2>1. Awake' \subseteq Workers  BY DEF Awake
  <2> QED  BY <2>1, AwakeFinite, PoolAssumption, FS_Subset, FS_CardinalityType
<1>b. Len(que) \in Nat  BY DEF IInv, TypeOK
\* A step that leaves the queue, the sleepers and the awake as they are.
<1>1. CASE UNCHANGED <<que, pc>>
  BY <1>1 DEF NoLostWakeup, NotEmptyWaiters, Awake
\* A worker that found the queue empty goes to sleep.
<1>2. ASSUME que' = <<>> PROVE Len(que') <= Cardinality(Awake')
  BY <1>2, <1>a
\* A worker sets out for the queue.
<1>3. ASSUME NEW w \in Workers, LoopTest(w) \/ PopLock(w) \/ StartThread(w)
                                \/ SpuriousWakeup(w)
      PROVE  Len(que') <= Cardinality(Awake')
  <2>1. Awake \subseteq Awake' /\ NotEmptyWaiters # {} /\ que' = que
    BY <1>3 DEF LoopTest, PopLock, StartThread, SpuriousWakeup, Awake, queueVars,
                NotEmptyWaiters, IInv, TypeOK
  <2> QED  BY <2>1, <1>a, <1>b, AwakeGrows DEF NoLostWakeup
<1>4. ASSUME NEW w \in Workers, PopTest(w) PROVE Len(que') <= Cardinality(Awake')
  <2>1. CASE empty /\ ~isStop
    BY <2>1, <1>4, <1>2 DEF PopTest, queueVars, empty
  <2>2. CASE ~(empty /\ ~isStop)
    <3>1. Awake \subseteq Awake' /\ NotEmptyWaiters # {} /\ que' = que
      BY <2>2, <1>4 DEF PopTest, Awake, queueVars, NotEmptyWaiters, IInv, TypeOK
    <3> QED  BY <3>1, <1>a, <1>b, AwakeGrows DEF NoLostWakeup
  <2> QED  BY <2>1, <2>2
<1>5. ASSUME NEW w \in Workers, PopWait(w) PROVE Len(que') <= Cardinality(Awake')
  <2>1. que' = <<>>  BY <1>5 DEF PopWait, IInv, SeenInv
  <2> QED  BY <2>1, <1>2
\* The worker that takes a task leaves the awake with it.
<1>6. ASSUME NEW w \in Workers, PopTake(w) PROVE Len(que') <= Cardinality(Awake')
  <2>1. w \in Awake /\ Awake' = Awake \ {w} /\ NotEmptyWaiters # {}
    BY <1>6 DEF PopTake, Awake, NotEmptyWaiters, IInv, TypeOK
  <2>2. Cardinality(Awake') = Cardinality(Awake) - 1
    BY <2>1, <1>a, FS_RemoveElement
  <2>3. que # <<>> /\ que' = Tail(que)
    BY <1>6 DEF PopTake, IInv, SeenInv
  <2>4. Len(que') = Len(que) - 1
    BY <2>3 DEF IInv, TypeOK
  <2> QED  BY <2>1, <2>2, <2>4, <1>a, <1>b DEF NoLostWakeup
\* _is_stop is only set once the queue is empty.
<1>7. ASSUME NEW w \in Workers, PopNull(w) PROVE Len(que') <= Cardinality(Awake')
  <2>1. que' = <<>>  BY <1>7 DEF PopNull, IInv, MainInv, TypeOK
  <2> QED  BY <2>1, <1>2
<1>8. ASSUME NEW w \in Workers, RunTask(w) PROVE Len(que') <= Cardinality(Awake')
  <2>1. Awake = Awake' /\ NotEmptyWaiters # {} /\ que' = que
    BY <1>8 DEF RunTask, Awake, queueVars, NotEmptyWaiters, IInv, TypeOK
  <2> QED  BY <2>1 DEF NoLostWakeup
\* The signal of push sends one sleeper for the new task.
<1>9. ASSUME PushPut PROVE Len(que') <= Cardinality(Awake')
  <2>1. NotEmptyWaiters # {}
    BY <1>9 DEF PushPut, NotifyOneNotEmpty, NotEmptyWaiters
  <2>2. PICK w \in NotEmptyWaiters : pc' = [pc EXCEPT ![w] = "lock"]
    BY <1>9, <2>1 DEF PushPut, NotifyOneNotEmpty
  <2>3. w \notin Awake /\ Awake' = Awake \cup {w}
    BY <2>2 DEF Awake, NotEmptyWaiters, IInv, TypeOK
  <2>4. Cardinality(Awake') = Cardinality(Awake) + 1
    BY <2>3, <1>a, FS_AddElement
  <2>5. Len(que') = Len(que) + 1
    BY <1>9 DEF PushPut, IInv, TypeOK, MainInv
  <2> QED  BY <2>1, <2>4, <2>5, <1>a, <1>b DEF NoLostWakeup
\* After the broadcast nobody sleeps.
<1>10. CASE WakeUpAll
  BY <1>10 DEF WakeUpAll, NotEmptyWaiters, IInv, TypeOK
<1>11. ASSUME NEW w \in Workers, Join(w) PROVE Len(que') <= Cardinality(Awake')
  BY <1>11, <1>1 DEF Join, queueVars
<1>12. ASSUME NEW t \in Tasks, AddTask(t) PROVE Len(que') <= Cardinality(Awake')
  BY <1>12, <1>1 DEF AddTask, queueVars
<1>13. CASE \/ StartReturn \/ PushLock \/ PushWait \/ StopBegin \/ StopSleep
            \/ StopDrained \/ StopExit \/ WakeUpStop \/ StopReturn
            \/ SpuriousWakeupMain \/ Terminated \/ UNCHANGED vars
  BY <1>13, <1>1 DEF StartReturn, PushLock, PushWait, StopBegin, StopSleep,
      StopDrained, StopExit, WakeUpStop, StopReturn, SpuriousWakeupMain,
      Terminated, vars, queueVars
<1> QED
  BY <1>3, <1>4, <1>5, <1>6, <1>7, <1>8, <1>9, <1>10, <1>11, <1>12, <1>13
     DEF Next, WorkerStep, MainStep

\* While a worker sleeps, each waiting task has a worker on its way to it.
THEOREM WakeupsAreKept == Spec => []NoLostWakeup
<1>1. Init => NoLostWakeup
  <2>1. Init => NotEmptyWaiters = {}  BY DEF Init, NotEmptyWaiters
  <2> QED  BY <2>1 DEF NoLostWakeup
<1>2. QED
  BY <1>1, IInvAlways, NoLostWakeupNext, PTL DEF Spec

-------------------------------------------------------------------------------
(* The pool implements TaskPool *)

LEMMA PoolInitMaps == Init => Pool!PoolInit
  BY DEF Init, Pool!PoolInit

LEMMA PoolStepMaps ==
    IInv /\ IInv' /\ [Next]_vars => [Pool!PoolNext]_(Pool!poolVars)
<1> SUFFICES ASSUME IInv, IInv', [Next]_vars,
                    ~ UNCHANGED <<que, task, finished, main = "stopped">>
             PROVE  Pool!PoolNext
  BY DEF Pool!poolVars
\* The steps of the lock, of the conditions and of the flags map to a stutter.
<1>1. ASSUME NEW w \in Workers, StartThread(w) \/ LoopTest(w) \/ PopLock(w)
                  \/ PopTest(w) \/ PopWait(w) \/ PopNull(w) \/ Join(w)
                  \/ SpuriousWakeup(w)
      PROVE  FALSE
  BY <1>1 DEF StartThread, LoopTest, PopLock, PopTest, PopWait, PopNull, Join,
      SpuriousWakeup, queueVars
<1>2. ASSUME NEW t \in Tasks, AddTask(t) PROVE FALSE
  BY <1>2 DEF AddTask, queueVars
<1>3. CASE \/ StartReturn \/ PushLock \/ PushWait \/ StopBegin \/ StopSleep
           \/ StopDrained \/ StopExit \/ WakeUpStop \/ WakeUpAll
           \/ SpuriousWakeupMain \/ Terminated \/ UNCHANGED vars
  <2>1. UNCHANGED <<que, task, finished>> /\ (main = "stopped" <=> main' = "stopped")
    BY <1>3 DEF StartReturn, PushLock, PushWait, StopBegin, StopSleep,
        StopDrained, StopExit, WakeUpStop, WakeUpAll, SpuriousWakeupMain,
        Terminated, vars, queueVars
  <2> QED  BY <2>1
\* push submits, pop starts, the return of the task finishes.
<1>4. ASSUME PushPut PROVE Pool!PoolNext
  <2>1. elem \in Tasks /\ elem \notin Pool!Queued \cup Pool!Executing \cup finished
    BY <1>4 DEF PushPut, IInv, FreshInv, MainInv, TypeOK, Pool!Queued,
        Pool!Executing, Accepted
  <2>2. Pool!Submit(elem)
    BY <1>4, <2>1, PoolAssumption DEF PushPut, Pool!Submit, IInv, TypeOK, full
  <2> QED  BY <2>1, <2>2 DEF Pool!PoolNext
<1>5. ASSUME NEW w \in Workers, PopTake(w) PROVE Pool!PoolNext
  <2>1. main # "stopped" /\ main' # "stopped"
    BY <1>5 DEF PopTake, IInv, MainInv, SeenInv, NotifyOneNotFull
  <2>2. Pool!Start(w)
    BY <1>5, <2>1 DEF PopTake, Pool!Start, IInv, TaskInv, SeenInv
  <2> QED  BY <2>2 DEF Pool!PoolNext
<1>6. ASSUME NEW w \in Workers, RunTask(w) PROVE Pool!PoolNext
  <2>1. Pool!Finish(w)
    BY <1>6 DEF RunTask, queueVars, Pool!Finish, IInv, TaskInv
  <2> QED  BY <2>1 DEF Pool!PoolNext
\* stopThreadPool returns with an idle pool.
<1>7. ASSUME StopReturn PROVE Pool!PoolNext
  <2>1. que = <<>> /\ \A w \in Workers : task[w] = NoTask
    BY <1>7 DEF StopReturn, IInv, TypeOK, TaskInv, ThreadInv, MainInv
  <2>2. Pool!Close
    BY <1>7, <2>1 DEF StopReturn, queueVars, Pool!Close
  <2> QED  BY <2>2 DEF Pool!PoolNext
<1> QED
  BY <1>1, <1>2, <1>3, <1>4, <1>5, <1>6, <1>7 DEF Next, WorkerStep, MainStep

\* The locks, conditions and flags of the pool implement the pool that accepts,
\* starts in order and finishes each task once, and closes when it is idle.
THEOREM ThreadpoolImplementsTaskPool == Spec => ImplementsTaskPool
  BY IInvAlways, PoolInitMaps, PoolStepMaps, PTL
     DEF Spec, ImplementsTaskPool, Pool!PoolSpec
===============================================================================
