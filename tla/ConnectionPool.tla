---------------------------- MODULE ConnectionPool ----------------------------
(***************************************************************************)
(* Connection_Pool: a list of database connections shared by threads, a    *)
(* semaphore that counts the free ones, a lock around the list.            *)
(*                                                                         *)
(* Nothing blocks inside a critical section and all that is read there is  *)
(* written there, so a critical section is one step and the lock itself is *)
(* not modelled.  The size of the list is read outside the lock, the       *)
(* semaphore waited for outside and posted after it: those are steps.      *)
(***************************************************************************)
EXTENDS Integers, Sequences, FiniteSets

CONSTANTS
    Threads,    \* the threads that use the pool
    Conns,      \* the connections init opened
    NoConn      \* NULL

ASSUME ConnectionPoolAssumption ==
    /\ IsFiniteSet(Threads)
    /\ IsFiniteSet(Conns)
    /\ NoConn \notin Conns

VARIABLES
    connList,   \* connList
    reserve,    \* the value of the semaphore
    free,       \* _free_conn
    used,       \* _cur_conn
    pc,         \* where each thread stands in GetConnection or ReleaseConnection
    con         \* the connection each thread got

vars == <<connList, reserve, free, used, pc, con>>

-------------------------------------------------------------------------------
(* GetConnection *)

\* An empty list: NULL, at once.
GetNothing(t) ==
    /\ pc[t] = "idle"
    /\ connList = <<>>
    /\ UNCHANGED vars

\* The list is not empty; another thread may empty it before this one waits.
GetCheck(t) ==
    /\ pc[t] = "idle"
    /\ connList # <<>>
    /\ pc' = [pc EXCEPT ![t] = "wait"]
    /\ UNCHANGED <<connList, reserve, free, used, con>>

\* Mutant of GetWait: a wait that fails is ignored.
GetWaitFailed(t) ==
    /\ pc[t] = "wait"
    /\ reserve' = IF reserve > 0 THEN reserve - 1 ELSE reserve
    /\ pc' = [pc EXCEPT ![t] = "take"]
    /\ UNCHANGED <<connList, free, used, con>>

\* reserve.wait(); nothing in the demo interrupts it.
GetWait(t) ==
    /\ pc[t] = "wait"
    /\ reserve > 0
    /\ reserve' = reserve - 1
    /\ pc' = [pc EXCEPT ![t] = "take"]
    /\ UNCHANGED <<connList, free, used, con>>

\* Mutant of GetTake: the connection stays in the list.
GetTakeKeeps(t) ==
    /\ pc[t] = "take"
    /\ con' = [con EXCEPT ![t] = Head(connList)]
    /\ free' = free - 1
    /\ used' = used + 1
    /\ pc' = [pc EXCEPT ![t] = "using"]
    /\ UNCHANGED <<connList, reserve>>

GetTake(t) ==
    /\ pc[t] = "take"
    /\ con' = [con EXCEPT ![t] = Head(connList)]
    /\ connList' = Tail(connList)
    /\ free' = free - 1
    /\ used' = used + 1
    /\ pc' = [pc EXCEPT ![t] = "using"]
    /\ UNCHANGED reserve

-------------------------------------------------------------------------------
(* ReleaseConnection, of a connection and not of NULL *)

\* Mutant of Release: only one of the two counters is kept.
ReleaseUncounted(t) ==
    /\ pc[t] = "using"
    /\ connList' = Append(connList, con[t])
    /\ con' = [con EXCEPT ![t] = NoConn]
    /\ free' = free + 1
    /\ pc' = [pc EXCEPT ![t] = "post"]
    /\ UNCHANGED <<reserve, used>>

Release(t) ==
    /\ pc[t] = "using"
    /\ connList' = Append(connList, con[t])
    /\ con' = [con EXCEPT ![t] = NoConn]
    /\ free' = free + 1
    /\ used' = used - 1
    /\ pc' = [pc EXCEPT ![t] = "post"]
    /\ UNCHANGED reserve

\* Mutant of Post: the semaphore is posted only if the list was empty before.
PostFirst(t) ==
    /\ pc[t] = "post"
    /\ reserve' = IF Len(connList) = 1 THEN reserve + 1 ELSE reserve
    /\ pc' = [pc EXCEPT ![t] = "idle"]
    /\ UNCHANGED <<connList, free, used, con>>

\* reserve.post()
Post(t) ==
    /\ pc[t] = "post"
    /\ reserve' = reserve + 1
    /\ pc' = [pc EXCEPT ![t] = "idle"]
    /\ UNCHANGED <<connList, free, used, con>>

-------------------------------------------------------------------------------
\* DestroyPool, which its users call when their threads are done.  The semaphore
\* keeps its value.
DestroyPool ==
    /\ \A t \in Threads : pc[t] = "idle"
    /\ connList # <<>>
    /\ connList' = <<>>
    /\ free' = 0
    /\ used' = 0
    /\ UNCHANGED <<reserve, pc, con>>

\* init connected every connection before a thread asks for one.
Init ==
    /\ connList \in [1..Cardinality(Conns) -> Conns]
    /\ \A i, j \in 1..Cardinality(Conns) : connList[i] = connList[j] => i = j
    /\ reserve = Cardinality(Conns)
    /\ free = Cardinality(Conns)
    /\ used = 0
    /\ pc = [t \in Threads |-> "idle"]
    /\ con = [t \in Threads |-> NoConn]

ThreadStep(t) ==
    \/ GetNothing(t)
    \/ GetCheck(t)
    \/ GetWait(t)
    \/ GetTake(t)
    \/ Release(t)
    \/ Post(t)

Next ==
    \/ \E t \in Threads : ThreadStep(t)
    \/ DestroyPool

Spec == Init /\ [][Next]_vars

\* A call goes on, a connection is given back, and a thread that finds the
\* semaphore positive again and again gets through.  Whether to ask is a choice.
Fairness ==
    \A t \in Threads :
        /\ SF_vars(GetWait(t))
        /\ WF_vars(GetTake(t) \/ Release(t) \/ Post(t))

FairSpec == Spec /\ Fairness

-------------------------------------------------------------------------------
(* Properties *)

\* The threads that stand at l.
At(l) == {t \in Threads : pc[t] = l}

\* The values of every variable; the counters never go below zero.
TypeOK ==
    /\ connList \in Seq(Conns)
    /\ reserve \in 0..Cardinality(Conns)
    /\ free \in 0..Cardinality(Conns)
    /\ used \in 0..Cardinality(Conns)
    /\ pc \in [Threads -> {"idle", "wait", "take", "using", "post"}]
    /\ con \in [Threads -> Conns \cup {NoConn}]

\* front of an empty list is undefined: every thread the semaphore let through
\* finds a connection, although the list is only locked later.
TakeFindsConnection == Cardinality(At("take")) <= Len(connList)

\* No two threads talk on one connection, and none on one that is free.
ConnectionIsExclusive ==
    /\ \A t, u \in Threads : con[t] = con[u] => t = u \/ con[t] = NoConn
    /\ \A t \in Threads : con[t] \notin {connList[i] : i \in 1..Len(connList)}
    /\ \A i, j \in 1..Len(connList) : connList[i] = connList[j] => i = j

\* GetFreeConnNum is the length of the list, and _cur_conn the connections out.
CountersAgree ==
    /\ free = Len(connList)
    /\ used = Cardinality({t \in Threads : con[t] # NoConn})

\* No release is lost on the threads that wait for the semaphore: each of them
\* gets a connection.
WaiterIsServed ==
    \A t \in Threads : pc[t] = "wait" ~> pc[t] = "using"

\* "An exhausted pool returns NULL" (Main.cpp:84): nobody waits for
\* the semaphore of a pool that has nothing to give.
ExhaustedReturnsNull ==
    \A t \in Threads : pc[t] = "wait" => connList # <<>>
===============================================================================
