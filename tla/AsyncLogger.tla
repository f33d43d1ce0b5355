------------------------------- MODULE AsyncLogger -------------------------------
(***************************************************************************)
(* AsyncLogger: Init under call_once, GetLogger and the macros that log,   *)
(* and Shutdown, called by several threads at the same time.               *)
(*                                                                         *)
(* The pool of spdlog is a bounded queue and one backend thread.  A logger *)
(* has only a weak pointer to it: the registry owns the pool, and a thread *)
(* that is posting keeps it alive for that long.  Whoever lets go of it    *)
(* last destroys it, and waits in the destructor until the backend has     *)
(* written what is queued.                                                 *)
(***************************************************************************)
EXTENDS Naturals, Sequences

CONSTANTS
    Threads,
    QueueSize,  \* queue_size of Init
    Logs        \* bound of the messages of a thread

VARIABLES
    once,           \* _init_flag
    registry,       \* the registry of spdlog owns a pool
    hasLogger,      \* _logger is set
    initialized,    \* _initialized
    queue,          \* the threads whose messages the backend is yet to write
    doing,          \* where each thread is
    destroying,     \* the threads in the destructor of the pool
    logged,         \* the number of messages each thread tried to log
    returned,       \* an Init returned
    stopping        \* a Shutdown found the logger initialized

initVars == <<once, hasLogger, returned>>
poolVars == <<registry, queue, destroying>>
loggerVars == <<initVars, poolVars, initialized, doing, logged, stopping>>

At(t, place) == doing[t] = place /\ t \notin destroying
Goto(t, place) == doing' = [doing EXCEPT ![t] = place]

-------------------------------------------------------------------------------
(* spdlog *)

Posting == {t \in Threads : doing[t] \in {"posting", "flushing"}}
PoolExists == registry \/ Posting # {}

\* A reference to the pool goes; the thread of the last one runs the destructor.
LetGo(t, owned) ==
    destroying' = IF owned \/ Posting \ {t} # {} THEN destroying ELSE destroying \cup {t}

\* The overflow policy is block.  Then the thread goes on to place.
Post(t, place) ==
    /\ Len(queue) < QueueSize
    /\ queue' = Append(queue, t)
    /\ LetGo(t, registry)
    /\ Goto(t, place)
    /\ UNCHANGED <<initVars, registry, initialized, logged, stopping>>

\* The weak pointer is locked, or the message is lost.
LockPool(t, here, there) ==
    /\ Goto(t, IF PoolExists THEN here ELSE there)
    /\ UNCHANGED <<initVars, poolVars, initialized, logged, stopping>>

Write ==
    /\ queue # <<>>
    /\ queue' = Tail(queue)
    /\ UNCHANGED <<initVars, registry, destroying, initialized, doing, logged, stopping>>

\* The destructor has joined the backend.
PoolDestroyed(t) ==
    /\ t \in destroying
    /\ queue = <<>>
    /\ destroying' = destroying \ {t}
    /\ UNCHANGED <<initVars, registry, queue, initialized, doing, logged, stopping>>

-------------------------------------------------------------------------------
(* Init *)

CallInit(t) ==
    /\ At(t, "idle")
    /\ Goto(t, "once")
    /\ UNCHANGED <<initVars, poolVars, initialized, logged, stopping>>

OnceRuns(t) ==
    /\ At(t, "once")
    /\ once = "unset"
    /\ once' = "running"
    /\ Goto(t, "pool")
    /\ UNCHANGED <<hasLogger, returned, poolVars, initialized, logged, stopping>>

\* Mutant of OncePasses: a plain flag, which nobody waits for.
OncePassesEarly(t) ==
    /\ At(t, "once")
    /\ once # "unset"
    /\ Goto(t, "idle")
    /\ returned' = TRUE
    /\ UNCHANGED <<once, hasLogger, poolVars, initialized, logged, stopping>>

OncePasses(t) ==
    /\ At(t, "once")
    /\ once = "done"
    /\ Goto(t, "idle")
    /\ returned' = TRUE
    /\ UNCHANGED <<once, hasLogger, poolVars, initialized, logged, stopping>>

InitPool(t) ==
    /\ At(t, "pool")
    /\ registry' = TRUE
    /\ Goto(t, "sinks")
    /\ UNCHANGED <<initVars, queue, destroying, initialized, logged, stopping>>

\* The file cannot be opened: the exception leaves call_once, whose flag stays
\* unset, and the pool is there already.
InitFails(t) ==
    /\ At(t, "sinks")
    /\ once' = "unset"
    /\ Goto(t, "idle")
    /\ UNCHANGED <<hasLogger, returned, poolVars, initialized, logged, stopping>>

InitLogger(t) ==
    /\ At(t, "sinks")
    /\ hasLogger' = TRUE
    /\ Goto(t, "ready")
    /\ UNCHANGED <<once, returned, poolVars, initialized, logged, stopping>>

InitReturns(t) ==
    /\ At(t, "ready")
    /\ initialized' = TRUE
    /\ once' = "done"
    /\ returned' = TRUE
    /\ Goto(t, "idle")
    /\ UNCHANGED <<hasLogger, poolVars, logged, stopping>>

(* LOG_INFO and the like *)

\* GetLogger throws unless the logger is initialized.
GetLogger(t) ==
    /\ At(t, "idle")
    /\ logged[t] < Logs
    /\ logged' = [logged EXCEPT ![t] = @ + 1]
    /\ Goto(t, IF initialized THEN "got" ELSE "idle")
    /\ UNCHANGED <<initVars, poolVars, initialized, stopping>>

LogLocks(t) == At(t, "got") /\ LockPool(t, "posting", "idle")
LogPosts(t) == At(t, "posting") /\ Post(t, "idle")

(* Shutdown *)

ShutdownTests(t) ==
    /\ At(t, "idle")
    /\ initialized
    /\ stopping' = TRUE
    /\ Goto(t, "flush")
    /\ UNCHANGED <<initVars, poolVars, initialized, logged>>

FlushLocks(t) == At(t, "flush") /\ LockPool(t, "flushing", "reset")
FlushPosts(t) == At(t, "flushing") /\ Post(t, "reset")

\* Mutant of ShutdownResets: the loggers are dropped and the pool is not.
ShutdownDrops(t) ==
    /\ At(t, "reset")
    /\ Goto(t, "clear")
    /\ UNCHANGED <<initVars, poolVars, initialized, logged, stopping>>

\* spdlog::shutdown, whose mutex another one holds while it destroys the pool.
ShutdownResets(t) ==
    /\ At(t, "reset")
    /\ \A u \in destroying : doing[u] # "clear"
    /\ registry' = FALSE
    /\ LetGo(t, ~registry)
    /\ Goto(t, "clear")
    /\ UNCHANGED <<initVars, queue, initialized, logged, stopping>>

ShutdownReturns(t) ==
    /\ At(t, "clear")
    /\ initialized' = FALSE
    /\ Goto(t, "idle")
    /\ UNCHANGED <<initVars, poolVars, logged, stopping>>

-------------------------------------------------------------------------------
LoggerInit ==
    /\ once = "unset"
    /\ registry = FALSE
    /\ hasLogger = FALSE
    /\ initialized = FALSE
    /\ queue = <<>>
    /\ doing = [t \in Threads |-> "idle"]
    /\ destroying = {}
    /\ logged = [t \in Threads |-> 0]
    /\ returned = FALSE
    /\ stopping = FALSE

ThreadStep(t) ==
    \/ CallInit(t) \/ OnceRuns(t) \/ OncePasses(t)
    \/ InitPool(t) \/ InitFails(t) \/ InitLogger(t) \/ InitReturns(t)
    \/ GetLogger(t) \/ LogLocks(t) \/ LogPosts(t)
    \/ ShutdownTests(t) \/ FlushLocks(t) \/ FlushPosts(t)
    \/ ShutdownResets(t) \/ ShutdownReturns(t)
    \/ PoolDestroyed(t)

LoggerNext == Write \/ \E t \in Threads : ThreadStep(t)

LoggerSpec == LoggerInit /\ [][LoggerNext]_loggerVars

-------------------------------------------------------------------------------
(* Properties *)

\* Once Init has returned to any thread, GetLogger throws in none of them before a
\* Shutdown, and a logger that can be got is there: a thread that lost the race of
\* call_once waits for the one that won, or does its work if that one failed.
InitReturnsReady ==
    /\ returned /\ ~stopping => initialized
    /\ initialized => hasLogger

\* Once Shutdown is over and nobody is in the middle of posting, every message
\* that was queued is written, whichever thread the last reference was left to.
NothingIsLeftBehind ==
    (stopping /\ ~initialized /\ Posting = {} /\ destroying = {}) => queue = <<>>
===============================================================================
