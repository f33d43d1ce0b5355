------------------------------- MODULE DemosProofs -------------------------------
(***************************************************************************)
(* The small programs of the repository do what they promise for any size: *)
(* the asynchronous logger for any number of threads and messages and any  *)
(* size of its queue; the configuration, the HTTP client and parser and    *)
(* the SQL template for a text of any length over any alphabet.            *)
(*                                                                         *)
(* What a loop over a text computes is a fold or a recursive function:     *)
(* RecursionLemmas give its intermediate results as a function, and the    *)
(* proofs go from one index to the next.                                   *)
(***************************************************************************)
EXTENDS AsyncLogger, SQLTemplate, Configuration, Http, RecursionLemmas, FiniteSetTheorems

-------------------------------------------------------------------------------
(* The logger: the inductive invariant *)

\* Where a thread can be.
Places == {"idle", "once", "pool", "sinks", "ready", "got", "posting", "flush", "flushing",
           "reset", "clear"}

\* The types of the variables.
TypeInv ==
    /\ once \in {"unset", "running", "done"}
    /\ registry \in BOOLEAN /\ hasLogger \in BOOLEAN /\ initialized \in BOOLEAN
    /\ returned \in BOOLEAN /\ stopping \in BOOLEAN
    /\ queue \in Seq(Threads)
    /\ doing \in [Threads -> Places]
    /\ destroying \in SUBSET Threads

\* One thread at a time is in the function of call_once, and only while the flag
\* says so; _init_flag is done as soon as an Init returned.
OnceInv ==
    /\ \A t \in Threads : doing[t] \in {"pool", "sinks", "ready"} => once = "running"
    /\ \A t, u \in Threads :
          doing[t] \in {"pool", "sinks", "ready"} /\ doing[u] \in {"pool", "sinks", "ready"}
              => t = u
    /\ returned \/ initialized \/ stopping => once = "done"

\* The logger is made before it is announced.
ReadyInv ==
    /\ once = "done" /\ ~stopping => initialized
    /\ once = "done" => hasLogger
    /\ \A t \in Threads : doing[t] = "ready" => hasLogger

\* Shutdown drops the pool before it clears _initialized.
StopInv ==
    /\ \A t \in Threads : doing[t] \in {"flush", "flushing", "reset", "clear"} => stopping
    /\ \A t \in Threads : doing[t] = "clear" => ~registry
    /\ stopping /\ ~initialized => ~registry

\* What is queued is queued in a pool that somebody refers to or destroys.
QueueInv == queue # <<>> => registry \/ Posting # {} \/ destroying # {}

\* The inductive invariant.
IInv == TypeInv /\ OnceInv /\ ReadyInv /\ StopInv /\ QueueInv

\* The invariant holds at the start.
LEMMA IInvInit == LoggerInit => IInv
<1> SUFFICES ASSUME LoggerInit PROVE IInv
  OBVIOUS
<1> USE DEF LoggerInit
<1>1. TypeInv
  <2>1. queue \in Seq(Threads)  OBVIOUS
  <2>2. doing \in [Threads -> Places] /\ destroying \in SUBSET Threads  BY DEF Places
  <2> QED  BY <2>1, <2>2 DEF TypeInv
<1>2. OnceInv /\ ReadyInv  BY DEF OnceInv, ReadyInv
<1>3. StopInv /\ QueueInv  BY DEF StopInv, QueueInv
<1> QED  BY <1>1, <1>2, <1>3 DEF IInv

\* Only posting and spdlog's shutdown let go of the pool, and whoever does leaves it
\* to the registry, to another thread that posts, or destroys it.
LEMMA LetGoKeeps ==
    ASSUME TypeInv, NEW t \in Threads, NEW place, LetGo(t, registry), registry' = registry,
           doing' = [doing EXCEPT ![t] = place]
    PROVE  registry' \/ Posting' # {} \/ destroying' # {}
<1>1. CASE registry  BY <1>1
<1>2. CASE Posting \ {t} # {}
  <2>1. PICK u \in Posting : u # t  BY <1>2
  <2>2. u \in Posting'  BY <2>1 DEF Posting, TypeInv
  <2> QED  BY <2>2
<1>3. CASE ~registry /\ Posting \ {t} = {}
  BY <1>3 DEF LetGo
<1> QED  BY <1>1, <1>2, <1>3

\* Every step keeps it.
LEMMA IInvNext == IInv /\ [LoggerNext]_loggerVars => IInv'
<1> SUFFICES ASSUME IInv, [LoggerNext]_loggerVars PROVE IInv'
  OBVIOUS
<1>0. TypeInv /\ OnceInv /\ ReadyInv /\ StopInv /\ QueueInv  BY DEF IInv
<1> USE DEF initVars, poolVars, At, Goto
\* The steps that touch neither the pool nor who posts.
<1>a. ASSUME UNCHANGED <<queue, registry, destroying>>,
             Posting \subseteq Posting'
      PROVE  QueueInv'
  BY <1>0, <1>a DEF QueueInv
<1>b. ASSUME NEW t \in Threads, NEW place \in Places,
             doing' = [doing EXCEPT ![t] = place], doing[t] \notin {"posting", "flushing"}
      PROVE  Posting \subseteq Posting' /\ doing' \in [Threads -> Places]
  BY <1>0, <1>b DEF Posting, TypeInv
<1>c. ASSUME UNCHANGED <<doing, once, returned, initialized, stopping, hasLogger, registry>>
      PROVE  OnceInv' /\ ReadyInv' /\ StopInv'
  BY <1>0, <1>c DEF OnceInv, ReadyInv, StopInv
<1>1. CASE Write
  <2>1. TypeInv'  BY <1>0, <1>1 DEF Write, TypeInv
  <2>2. QueueInv'  BY <1>0, <1>1 DEF Write, QueueInv, Posting
  <2> QED  BY <1>1, <1>c, <2>1, <2>2 DEF Write, IInv
<1>2. ASSUME NEW t \in Threads, PoolDestroyed(t) PROVE IInv'
  <2>1. TypeInv'  BY <1>0, <1>2 DEF PoolDestroyed, TypeInv
  <2>2. QueueInv'  BY <1>2 DEF PoolDestroyed, QueueInv
  <2> QED  BY <1>2, <1>c, <2>1, <2>2 DEF PoolDestroyed, IInv
<1>3. ASSUME NEW t \in Threads, NEW place \in Places,
             doing' = [doing EXCEPT ![t] = place],
             doing[t] \notin {"posting", "flushing"},
             place \notin {"pool", "sinks", "ready", "clear"},
             place \in {"flush", "flushing", "reset"} => stopping',
             UNCHANGED <<once, hasLogger, initialized, queue, registry, destroying>>,
             stopping' = stopping \/ (stopping' = TRUE /\ initialized),
             returned' = returned \/ (returned' = TRUE /\ once = "done")
      PROVE  IInv'
  <2>1. TypeInv'  BY <1>0, <1>3, <1>b DEF TypeInv
  <2>2. QueueInv'  BY <1>3, <1>a, <1>b
  <2>3. \A u \in Threads : doing'[u] = IF u = t THEN place ELSE doing[u]
    BY <1>0, <1>3 DEF TypeInv
  <2>4. OnceInv'  BY <1>0, <1>3, <2>3 DEF OnceInv
  <2>5. ReadyInv'  BY <1>0, <1>3, <2>3 DEF ReadyInv
  <2>6. StopInv'  BY <1>0, <1>3, <2>3 DEF StopInv
  <2> QED  BY <2>1, <2>2, <2>4, <2>5, <2>6 DEF IInv
<1>4. ASSUME NEW t \in Threads,
             CallInit(t) \/ OncePasses(t) \/ GetLogger(t) \/ LogLocks(t)
                 \/ ShutdownTests(t) \/ FlushLocks(t)
      PROVE  IInv'
  <2>1. CASE CallInit(t)  BY <1>3, <2>1 DEF CallInit, Places
  <2>2. CASE OncePasses(t)  BY <1>3, <2>2 DEF OncePasses, Places
  <2>3. CASE GetLogger(t)  BY <1>3, <2>3 DEF GetLogger, Places
  <2>4. CASE LogLocks(t)  BY <1>3, <2>4 DEF LogLocks, LockPool, Places
  <2>5. CASE ShutdownTests(t)  BY <1>3, <2>5 DEF ShutdownTests, Places
  <2>6. CASE FlushLocks(t)
    <3>1. stopping  BY <1>0, <2>6 DEF FlushLocks, StopInv
    <3> QED  BY <1>3, <2>6, <3>1 DEF FlushLocks, LockPool, Places
  <2> QED  BY <1>4, <2>1, <2>2, <2>3, <2>4, <2>5, <2>6
<1>5. ASSUME NEW t \in Threads, NEW place \in Places,
             doing' = [doing EXCEPT ![t] = place], UNCHANGED <<queue, destroying>>,
             registry' = registry \/ registry' = TRUE,
             doing[t] \in {"once", "pool", "sinks", "ready", "clear"}
      PROVE  QueueInv'
  <2>1. Posting \subseteq Posting'  BY <1>5, <1>b
  <2> QED  BY <1>0, <1>5, <2>1 DEF QueueInv
<1>6. ASSUME NEW t \in Threads, OnceRuns(t) PROVE IInv'
  <2>1. /\ doing' = [doing EXCEPT ![t] = "pool"] /\ doing[t] = "once"
        /\ once = "unset" /\ once' = "running"
        /\ UNCHANGED <<hasLogger, returned, registry, queue, destroying, initialized, stopping>>
    BY <1>6 DEF OnceRuns
  <2>2. \A u \in Threads : doing'[u] = IF u = t THEN "pool" ELSE doing[u]
    BY <1>0, <2>1 DEF TypeInv
  <2>3. TypeInv'  BY <1>0, <2>1 DEF TypeInv, Places
  <2>4. OnceInv'  BY <1>0, <2>1, <2>2 DEF OnceInv
  <2>5. ReadyInv' /\ StopInv'  BY <1>0, <2>1, <2>2 DEF ReadyInv, StopInv
  <2>6. QueueInv'  BY <1>5, <2>1 DEF Places
  <2> QED  BY <2>3, <2>4, <2>5, <2>6 DEF IInv
<1>7. ASSUME NEW t \in Threads, InitPool(t) PROVE IInv'
  <2>1. /\ doing' = [doing EXCEPT ![t] = "sinks"] /\ doing[t] = "pool" /\ registry' = TRUE
        /\ UNCHANGED <<once, hasLogger, returned, queue, destroying, initialized, stopping>>
    BY <1>7 DEF InitPool
  <2>2. \A u \in Threads : doing'[u] = IF u = t THEN "sinks" ELSE doing[u]
    BY <1>0, <2>1 DEF TypeInv
  <2>3. once = "running" /\ ~stopping /\ ~returned /\ ~initialized
    BY <1>0, <2>1 DEF OnceInv
  <2>4. TypeInv'  BY <1>0, <2>1 DEF TypeInv, Places
  <2>5. OnceInv'  BY <1>0, <2>1, <2>2, <2>3 DEF OnceInv
  <2>6. ReadyInv' /\ StopInv'  BY <1>0, <2>1, <2>2, <2>3 DEF ReadyInv, StopInv
  <2>7. QueueInv'  BY <1>5, <2>1 DEF Places
  <2> QED  BY <2>4, <2>5, <2>6, <2>7 DEF IInv
<1>8. ASSUME NEW t \in Threads, InitFails(t) PROVE IInv'
  <2>1. /\ doing' = [doing EXCEPT ![t] = "idle"] /\ doing[t] = "sinks" /\ once' = "unset"
        /\ UNCHANGED <<hasLogger, returned, registry, queue, destroying, initialized, stopping>>
    BY <1>8 DEF InitFails
  <2>2. \A u \in Threads : doing'[u] = IF u = t THEN "idle" ELSE doing[u]
    BY <1>0, <2>1 DEF TypeInv
  <2>3. once = "running" /\ ~stopping /\ ~returned /\ ~initialized
    BY <1>0, <2>1 DEF OnceInv
  <2>4. TypeInv'  BY <1>0, <2>1 DEF TypeInv, Places
  <2>5. OnceInv'  BY <1>0, <2>1, <2>2, <2>3 DEF OnceInv
  <2>6. ReadyInv' /\ StopInv'  BY <1>0, <2>1, <2>2, <2>3 DEF ReadyInv, StopInv
  <2>7. QueueInv'  BY <1>5, <2>1 DEF Places
  <2> QED  BY <2>4, <2>5, <2>6, <2>7 DEF IInv
<1>9. ASSUME NEW t \in Threads, InitLogger(t) PROVE IInv'
  <2>1. /\ doing' = [doing EXCEPT ![t] = "ready"] /\ doing[t] = "sinks" /\ hasLogger' = TRUE
        /\ UNCHANGED <<once, returned, registry, queue, destroying, initialized, stopping>>
    BY <1>9 DEF InitLogger
  <2>2. \A u \in Threads : doing'[u] = IF u = t THEN "ready" ELSE doing[u]
    BY <1>0, <2>1 DEF TypeInv
  <2>3. TypeInv'  BY <1>0, <2>1 DEF TypeInv, Places
  <2>4. OnceInv'  BY <1>0, <2>1, <2>2 DEF OnceInv
  <2>5. ReadyInv' /\ StopInv'  BY <1>0, <2>1, <2>2 DEF ReadyInv, StopInv
  <2>6. QueueInv'  BY <1>5, <2>1 DEF Places
  <2> QED  BY <2>3, <2>4, <2>5, <2>6 DEF IInv
<1>10. ASSUME NEW t \in Threads, InitReturns(t) PROVE IInv'
  <2>1. /\ doing' = [doing EXCEPT ![t] = "idle"] /\ doing[t] = "ready"
        /\ initialized' = TRUE /\ once' = "done" /\ returned' = TRUE
        /\ UNCHANGED <<hasLogger, registry, queue, destroying, stopping>>
    BY <1>10 DEF InitReturns
  <2>2. \A u \in Threads : doing'[u] = IF u = t THEN "idle" ELSE doing[u]
    BY <1>0, <2>1 DEF TypeInv
  <2>3. TypeInv'  BY <1>0, <2>1 DEF TypeInv, Places
  <2>4. OnceInv'  BY <1>0, <2>1, <2>2 DEF OnceInv
  <2>5. ReadyInv' /\ StopInv'  BY <1>0, <2>1, <2>2 DEF ReadyInv, StopInv
  <2>6. QueueInv'  BY <1>5, <2>1 DEF Places
  <2> QED  BY <2>3, <2>4, <2>5, <2>6 DEF IInv
<1>11. ASSUME NEW t \in Threads, LogPosts(t) \/ FlushPosts(t) PROVE IInv'
  <2>1. PICK place \in {"idle", "reset"} :
           /\ doing' = [doing EXCEPT ![t] = place] /\ LetGo(t, registry)
           /\ queue' = Append(queue, t)
           /\ doing[t] = (IF place = "reset" THEN "flushing" ELSE "posting")
           /\ UNCHANGED <<once, hasLogger, returned, registry, initialized, stopping>>
    BY <1>11 DEF LogPosts, FlushPosts, Post
  <2>2. \A u \in Threads : doing'[u] = IF u = t THEN place ELSE doing[u]
    BY <1>0, <2>1 DEF TypeInv
  <2>3. place = "reset" => stopping  BY <1>0, <2>1 DEF StopInv
  <2>4. queue' \in Seq(Threads) /\ destroying' \in SUBSET Threads
    BY <1>0, <2>1 DEF TypeInv, LetGo
  <2>5. TypeInv'  BY <1>0, <2>1, <2>4 DEF TypeInv, Places
  <2>6. OnceInv'  BY <1>0, <2>1, <2>2 DEF OnceInv
  <2>7. ReadyInv' /\ StopInv'  BY <1>0, <2>1, <2>2, <2>3 DEF ReadyInv, StopInv
  <2>8. QueueInv'  BY <1>0, <2>1, LetGoKeeps DEF QueueInv
  <2> QED  BY <2>5, <2>6, <2>7, <2>8 DEF IInv
<1>12. ASSUME NEW t \in Threads, ShutdownResets(t) PROVE IInv'
  <2>1. /\ doing' = [doing EXCEPT ![t] = "clear"] /\ doing[t] = "reset"
        /\ registry' = FALSE /\ LetGo(t, ~registry)
        /\ UNCHANGED <<once, hasLogger, returned, queue, initialized, stopping>>
    BY <1>12 DEF ShutdownResets
  <2>2. \A u \in Threads : doing'[u] = IF u = t THEN "clear" ELSE doing[u]
    BY <1>0, <2>1 DEF TypeInv
  <2>3. TypeInv'  BY <1>0, <2>1 DEF TypeInv, Places, LetGo
  <2>4. OnceInv'  BY <1>0, <2>1, <2>2 DEF OnceInv
  <2>5. ReadyInv' /\ StopInv'  BY <1>0, <2>1, <2>2 DEF ReadyInv, StopInv
  <2>6. QueueInv'
    <3>1. Posting \subseteq Posting'  BY <1>0, <2>1, <2>2 DEF Posting
    <3>2. CASE registry /\ Posting = {}  BY <2>1, <3>2 DEF LetGo, QueueInv
    <3>3. CASE ~registry
      <4>1. destroying' = destroying  BY <2>1, <3>3 DEF LetGo
      <4> QED  BY <1>0, <2>1, <3>1, <3>3, <4>1 DEF QueueInv
    <3> QED  BY <3>1, <3>2, <3>3 DEF QueueInv
  <2> QED  BY <2>3, <2>4, <2>5, <2>6 DEF IInv
<1>13. ASSUME NEW t \in Threads, ShutdownReturns(t) PROVE IInv'
  <2>1. /\ doing' = [doing EXCEPT ![t] = "idle"] /\ doing[t] = "clear" /\ initialized' = FALSE
        /\ UNCHANGED <<once, hasLogger, returned, registry, queue, destroying, stopping>>
    BY <1>13 DEF ShutdownReturns
  <2>2. \A u \in Threads : doing'[u] = IF u = t THEN "idle" ELSE doing[u]
    BY <1>0, <2>1 DEF TypeInv
  <2>3. stopping /\ ~registry  BY <1>0, <2>1 DEF StopInv
  <2>4. TypeInv'  BY <1>0, <2>1 DEF TypeInv, Places
  <2>5. OnceInv'  BY <1>0, <2>1, <2>2 DEF OnceInv
  <2>6. ReadyInv' /\ StopInv'  BY <1>0, <2>1, <2>2, <2>3 DEF ReadyInv, StopInv
  <2>7. QueueInv'  BY <1>5, <2>1 DEF Places
  <2> QED  BY <2>4, <2>5, <2>6, <2>7 DEF IInv
<1>14. CASE UNCHANGED loggerVars
  BY <1>0, <1>14 DEF loggerVars, IInv, TypeInv, OnceInv, ReadyInv, StopInv, QueueInv, Posting
<1> QED
  BY <1>1, <1>2, <1>4, <1>6, <1>7, <1>8, <1>9, <1>10, <1>11, <1>12, <1>13, <1>14
  DEF LoggerNext, ThreadStep

-------------------------------------------------------------------------------
(* The logger: the theorems *)

\* When Init has returned to some thread, every thread that logs before a Shutdown
\* gets a logger: call_once lets nobody pass a function that is still running.
THEOREM InitIsReady == LoggerSpec => []InitReturnsReady
<1>1. IInv => InitReturnsReady
  BY DEF IInv, TypeInv, OnceInv, ReadyInv, InitReturnsReady
<1> QED  BY <1>1, IInvInit, IInvNext, PTL DEF LoggerSpec

\* After Shutdown nothing that was queued is lost: the thread that let go of the
\* pool last has waited for the backend.
THEOREM NothingIsLost == LoggerSpec => []NothingIsLeftBehind
<1>1. IInv => NothingIsLeftBehind
  BY DEF IInv, StopInv, QueueInv, NothingIsLeftBehind
<1> QED  BY <1>1, IInvInit, IInvNext, PTL DEF LoggerSpec

-------------------------------------------------------------------------------
(* Texts: parts of sequences *)

\* Concatenation associates.
Associates(u, v, w) == u \o (v \o w) = (u \o v) \o w

\* For texts it does.
LEMMA Associative ==
    ASSUME NEW S, NEW u \in Seq(S), NEW v \in Seq(S), NEW w \in Seq(S)
    PROVE  Associates(u, v, w)
  BY CatAssociates DEF Cat, Associates

\* A part that both sequences have.
LEMMA SameCut ==
    ASSUME NEW S, NEW s \in Seq(S), NEW t \in Seq(S), NEW i \in Nat, NEW j \in Int,
           j <= Len(s), j <= Len(t), \A x \in 1..Len(s) : x <= j => t[x] = s[x]
    PROVE  SubSeq(t, i + 1, j) = SubSeq(s, i + 1, j)
<1> DEFINE n == j - (i + 1) + 1
<1>1. ASSUME NEW x \in (i + 1)..j  PROVE x \in 1..Len(s) /\ x \in 1..Len(t) /\ t[x] = s[x]
  <2>1. x \in 1..Len(s) /\ x \in 1..Len(t) /\ x <= j  OBVIOUS
  <2> QED  BY <2>1
<1>2. \A x \in (i + 1)..j : s[x] \in S /\ t[x] \in S  BY <1>1
<1>3. i + 1 \in Int  OBVIOUS
<1>4. /\ SubSeq(s, i + 1, j) \in Seq(S)
      /\ Len(SubSeq(s, i + 1, j)) = IF i + 1 <= j THEN n ELSE 0
      /\ \A x \in 1..n : SubSeq(s, i + 1, j)[x] = s[(i + 1) + x - 1]
  BY <1>2, <1>3, SubSeqProperties
<1>5. /\ SubSeq(t, i + 1, j) \in Seq(S)
      /\ Len(SubSeq(t, i + 1, j)) = IF i + 1 <= j THEN n ELSE 0
      /\ \A x \in 1..n : SubSeq(t, i + 1, j)[x] = t[(i + 1) + x - 1]
  BY <1>2, <1>3, SubSeqProperties
<1>6. ASSUME NEW x \in 1..Len(SubSeq(s, i + 1, j))
      PROVE  SubSeq(t, i + 1, j)[x] = SubSeq(s, i + 1, j)[x]
  <2>1. x \in 1..n /\ (i + 1) + x - 1 \in (i + 1)..j
    <3>1. CASE i + 1 <= j  BY <1>4, <3>1
    <3>2. CASE ~(i + 1 <= j)  BY <1>4, <3>2
    <3> QED  BY <3>1, <3>2
  <2> QED  BY <1>1, <1>4, <1>5, <2>1
<1>7. Len(SubSeq(t, i + 1, j)) = Len(SubSeq(s, i + 1, j))  BY <1>4, <1>5
<1> HIDE DEF n
<1>8. SubSeq(s, i + 1, j) = SubSeq(t, i + 1, j)  BY <1>4, <1>5, <1>6, <1>7, SeqEqual
<1> QED  BY <1>8

\* Another character makes a cut that ends with the text one longer.
LEMMA CutOfAppend ==
    ASSUME NEW S, NEW s \in Seq(S), NEW c \in S, NEW i \in 0..Len(s)
    PROVE  SubSeq(Append(s, c), i + 1, Len(s) + 1) = Append(SubSeq(s, i + 1, Len(s)), c)
<1> DEFINE t == Append(s, c)
           n == Len(s)
<1>1. t \in Seq(S) /\ Len(t) = n + 1 /\ t[n + 1] = c /\ n \in Nat
      /\ \A x \in 1..n : t[x] = s[x]
  OBVIOUS
<1> HIDE DEF t, n
<1>2. SubSeq(t, i + 1, n + 1) = SubSeq(t, i + 1, (n + 1) - 1) \o << t[n + 1] >>
  <2>1. i + 1 \in 1..Len(t) /\ n + 1 \in (i + 1)..Len(t)  BY <1>1 DEF n
  <2> QED  BY <1>1, <2>1, SubSeqRecursiveSecond
<1>3. SubSeq(t, i + 1, n) = SubSeq(s, i + 1, n)
  <2>1. n <= Len(s) /\ n <= Len(t) /\ n \in Int /\ i \in Nat
        /\ \A x \in 1..Len(s) : t[x] = s[x]
    BY <1>1 DEF n
  <2> QED  BY <1>1, <2>1, SameCut
<1>4. SubSeq(s, i + 1, n) \in Seq(S)  BY DEF n
<1>5. SubSeq(s, i + 1, n) \o <<c>> = Append(SubSeq(s, i + 1, n), c)
  BY <1>4, AppendIsConcat
<1>6. (n + 1) - 1 = n  BY <1>1
<1> QED  BY <1>1, <1>2, <1>3, <1>5, <1>6 DEF t, n

-------------------------------------------------------------------------------
(* The pieces of a text *)

\* What Split makes of one more character.
AddChar(parts, c, C) ==
    IF c \in C THEN Append(parts, <<>>)
    ELSE Append(Front(parts), Append(Last(parts), c))

\* What Split makes of a text.
Parted(S) == Seq(Seq(S)) \ {<<>>}

\* What Split has made of the first i characters is g[i].
Splits(g, s, C) ==
    g[0] = << <<>> >> /\ \A i \in 1..Len(s) : g[i] = AddChar(g[i - 1], s[i], C)

\* The pieces stay a sequence of texts that is not empty.
LEMMA AddCharType ==
    ASSUME NEW S, NEW C, NEW c \in S, NEW v \in Parted(S)
    PROVE  AddChar(v, c, C) \in Parted(S)
<1>1. /\ v \in Seq(Seq(S)) /\ Front(v) \in Seq(Seq(S)) /\ Last(v) \in Seq(S)
      /\ <<>> \in Seq(S)
  BY DEF Parted, Front, Last
<1>2. Append(Last(v), c) \in Seq(S)  BY <1>1
<1>3. ASSUME NEW w \in Seq(Seq(S)), NEW x \in Seq(S)  PROVE Append(w, x) \in Parted(S)
  <2> DEFINE u == Append(w, x)
  <2>1. u \in Seq(Seq(S)) /\ Len(u) > 0  OBVIOUS
  <2> HIDE DEF u
  <2>2. u # <<>>  BY <2>1
  <2>3. u \in Parted(S)  BY <2>1, <2>2 DEF Parted
  <2> QED  BY <2>3 DEF u
<1> QED  BY <1>1, <1>2, <1>3 DEF AddChar

\* Split is the fold of AddChar over the characters.
LEMMA SplitIs ==
    ASSUME NEW S, NEW C, NEW s \in Seq(S), NEW g \in [0..Len(s) -> Parted(S)],
           Splits(g, s, C)
    PROVE  Split(s, C) = g[Len(s)]
<1> DEFINE n == Len(s)
           A == Parted(S)
           a == << <<>> >>
           step == [i \in 1..n |-> [v \in A |-> AddChar(v, s[i], C)]]
<1>1. n \in Nat /\ a \in A /\ DOMAIN s = 1..n  BY DEF Parted
<1>2. step \in StepFunctions(n, A)
  <2>1. ASSUME NEW i \in 1..n, NEW v \in A  PROVE AddChar(v, s[i], C) \in A
    BY AddCharType
  <2> QED  BY <2>1 DEF StepFunctions
<1>3. Recursion(g, n, a, step)  BY DEF Recursion, Splits
<1> DEFINE Is(h) == h = [t \in SUBSET DOMAIN s |->
                           IF t = {} THEN a
                           ELSE LET x == Max(t) IN AddChar(h[t \ {x}], s[x], C)]
<1>4. \E h : Is(h)
  <2> HIDE DEF a, A, step, n
  <2>1. PICK h \in [SUBSET (1..n) -> A] : Fold(h, n, a, step)
    BY <1>1, <1>2, FoldExists
  <2>2. ASSUME NEW t \in SUBSET (1..n), t # {}
        PROVE  step[Max(t)][h[t \ {Max(t)}]] = AddChar(h[t \ {Max(t)}], s[Max(t)], C)
    <3>1. t \in SUBSET (0..n)  OBVIOUS
    <3>2. Max(t) \in 1..n  BY <1>1, <2>2, <3>1, MaxIs
    <3> QED  BY <3>2 DEF step
  <2>3. h = [t \in SUBSET (1..n) |->
               IF t = {} THEN a ELSE AddChar(h[t \ {Max(t)}], s[Max(t)], C)]
    BY <2>1, <2>2 DEF Fold
  <2> QED  BY <1>1, <2>3
<1> DEFINE h == CHOOSE h : Is(h)
<1>5. Is(h)  BY <1>4
<1>6. Split(s, C) = h[DOMAIN s]
  BY DEF Split, FoldLeft, MapThenFoldSet, AddChar
<1> HIDE DEF h
<1>7. h[{}] = a  BY <1>5
<1>8. ASSUME NEW i \in 1..n, h[1..(i - 1)] \in A  PROVE h[1..i] = step[i][h[1..(i - 1)]]
  <2>2. /\ 1..i \in SUBSET (1..n) /\ 1..i # {} /\ Max(1..i) = i
        /\ (1..i) \ {i} = 1..(i - 1)
    BY <1>1, FoldGoesOn
  <2>3. h[1..i] = AddChar(h[(1..i) \ {Max(1..i)}], s[Max(1..i)], C)  BY <1>1, <1>5, <2>2
  <2> QED  BY <1>8, <2>2, <2>3
<1>10. g \in [0..n -> A]  OBVIOUS
<1> HIDE DEF a, A, step, n
<1>9. h[1..n] = g[n]
  <2>1. FoldSteps(h, n, A, step)  BY <1>8 DEF FoldSteps
  <2> QED  BY <1>1, <1>2, <1>3, <1>7, <1>10, <2>1, FoldIs
<1> QED  BY <1>1, <1>6, <1>9 DEF n

\* The same with the intermediate results as a function.
LEMMA SplitFunction ==
    ASSUME NEW S, NEW C, NEW s \in Seq(S)
    PROVE  \E g \in [0..Len(s) -> Parted(S)] : Splits(g, s, C)
<1> DEFINE n == Len(s)
           A == Parted(S)
           a == << <<>> >>
           step == [i \in 1..n |-> [v \in A |-> AddChar(v, s[i], C)]]
<1>1. n \in Nat /\ a \in A  BY DEF Parted
<1>2. step \in StepFunctions(n, A)
  <2>1. ASSUME NEW i \in 1..n, NEW v \in A  PROVE AddChar(v, s[i], C) \in A
    BY AddCharType
  <2> QED  BY <2>1 DEF StepFunctions
<1> HIDE DEF step, n, A, a
<1>3. PICK g \in [0..n -> A] : Recursion(g, n, a, step)  BY <1>1, <1>2, RecursionUpTo
<1>4. ASSUME NEW i \in 1..n  PROVE g[i] = AddChar(g[i - 1], s[i], C)
  <2>1. g[i] = step[i][g[i - 1]]  BY <1>3 DEF Recursion
  <2>2. i - 1 \in 0..n  BY <1>1
  <2>3. g[i - 1] \in A  BY <2>2
  <2> QED  BY <2>1, <2>3 DEF step
<1> QED  BY <1>3, <1>4 DEF Recursion, Splits, n, A, a

\* There is always a piece, and the pieces are texts.
LEMMA SplitType ==
    ASSUME NEW S, NEW C, NEW s \in Seq(S)
    PROVE  Split(s, C) \in Parted(S)
<1>1. PICK g \in [0..Len(s) -> Parted(S)] : Splits(g, s, C)
  BY SplitFunction
<1>2. Split(s, C) = g[Len(s)]  BY <1>1, SplitIs
<1>3. Len(s) \in 0..Len(s)  OBVIOUS
<1> QED  BY <1>2, <1>3

\* The empty text is one empty piece.
LEMMA SplitEmpty ==
    ASSUME NEW C  PROVE Split(<<>>, C) = << <<>> >>
<1>1. <<>> \in Seq({}) /\ Len(<<>>) = 0  OBVIOUS
<1>2. PICK g \in [0..Len(<<>>) -> Parted({})] : Splits(g, <<>>, C)
  BY <1>1, SplitFunction
<1>3. Split(<<>>, C) = g[0]  BY <1>1, <1>2, SplitIs
<1> QED  BY <1>2, <1>3 DEF Splits

\* One more character is one more step.
LEMMA SplitAppend ==
    ASSUME NEW S, NEW C, NEW s \in Seq(S), NEW c \in S
    PROVE  Split(Append(s, c), C) = AddChar(Split(s, C), c, C)
<1> DEFINE n == Len(s)
           t == Append(s, c)
<1>1. t \in Seq(S) /\ Len(t) = n + 1 /\ t[n + 1] = c /\ n \in Nat
      /\ \A i \in 1..n : t[i] = s[i]
  OBVIOUS
<1> HIDE DEF t
<1>2. PICK g \in [0..Len(t) -> Parted(S)] : Splits(g, t, C)
  BY <1>1, SplitFunction
<1>3. Split(t, C) = g[n + 1]  BY <1>1, <1>2, SplitIs
<1>4. g[n + 1] = AddChar(g[n], c, C)
  <2>1. n + 1 \in 1..Len(t) /\ (n + 1) - 1 = n  BY <1>1
  <2>2. g[n + 1] = AddChar(g[(n + 1) - 1], t[n + 1], C)  BY <1>2, <2>1 DEF Splits
  <2> QED  BY <1>1, <2>1, <2>2
<1> DEFINE h == [i \in 0..Len(s) |-> g[i]]
<1>5. h \in [0..Len(s) -> Parted(S)] /\ h[0] = << <<>> >> /\ h[Len(s)] = g[n]
  BY <1>1, <1>2 DEF Splits
<1>6. ASSUME NEW i \in 1..Len(s)  PROVE h[i] = AddChar(h[i - 1], s[i], C)
  <2>1. i \in 1..Len(t) /\ i - 1 \in 0..n /\ i \in 0..n  BY <1>1
  <2> QED  BY <1>1, <1>2, <2>1 DEF Splits
<1> HIDE DEF h
<1>8. Splits(h, s, C)  BY <1>5, <1>6 DEF Splits
<1>7. Split(s, C) = h[Len(s)]  BY <1>5, <1>8, SplitIs
<1> QED  BY <1>3, <1>4, <1>5, <1>7 DEF t

\* A character that does not separate goes to the last piece.
LEMMA AddCharLast ==
    ASSUME NEW S, NEW C, NEW c \in S, c \notin C,
           NEW front \in Seq(Seq(S)), NEW last \in Seq(S)
    PROVE  AddChar(Append(front, last), c, C) = Append(front, Append(last, c))
<1> DEFINE v == Append(front, last)
<1>1. Front(v) = front /\ Last(v) = last  BY DEF Front, Last
<1> QED  BY <1>1 DEF AddChar

\* Appending goes to the second of two texts.
LEMMA ConcatAppend ==
    ASSUME NEW S, NEW u \in Seq(S), NEW v \in Seq(S), NEW c \in S
    PROVE  u \o Append(v, c) = Append(u \o v, c) /\ u \o v \in Seq(S)
  OBVIOUS

\* The word w only makes the last piece longer.
LastGrows(s, w, C) == Split(s \o w, C) = Append(Front(Split(s, C)), Last(Split(s, C)) \o w)
\* No character of C is in w.
NoneOf(w, C) == \A i \in 1..Len(w) : w[i] \notin C

\* A word without a character of C.
LEMMA SplitConcat ==
    ASSUME NEW S, NEW C, NEW s \in Seq(S), NEW w \in Seq(S),
           NoneOf(w, C)
    PROVE  LastGrows(s, w, C)
<1> DEFINE n == Len(w)
           p == Split(s, C)
           To(k) == SubSeq(w, 1, k)
           T == {k \in 0..n : Split(s \o To(k), C) = Append(Front(p), Last(p) \o To(k))}
<1>1. p \in Parted(S)  BY SplitType
<1>2. p \in Seq(Seq(S)) /\ p # <<>> /\ Last(p) \in Seq(S) /\ p = Append(Front(p), Last(p))
      /\ Front(p) \in Seq(Seq(S))
  <2> HIDE DEF p
  <2> QED  BY <1>1 DEF Parted, Front, Last
<1> HIDE DEF p
<1>3. 0 \in T
  <2>1. To(0) = <<>> /\ s \o <<>> = s /\ Last(p) \o <<>> = Last(p)  BY <1>2
  <2>2. Split(s \o To(0), C) = Append(Front(p), Last(p) \o To(0))  BY <1>2, <2>1 DEF p
  <2>3. 0 \in 0..n  OBVIOUS
  <2> QED  BY <2>2, <2>3
<1>4. ASSUME NEW k \in 0..(n - 1), k \in T  PROVE k + 1 \in T
  <2> DEFINE r == s \o To(k)
             c == w[k + 1]
             last == Last(p) \o To(k)
  <2>1. To(k) \in Seq(S) /\ c \in S /\ c \notin C /\ To(k + 1) = Append(To(k), c)
        /\ r \in Seq(S)
    BY DEF NoneOf
  <2>2. s \o Append(To(k), c) = Append(r, c)
        /\ Last(p) \o Append(To(k), c) = Append(last, c) /\ last \in Seq(S)
    <3> HIDE DEF To, c
    <3>1. s \o Append(To(k), c) = Append(s \o To(k), c)  BY <2>1, ConcatAppend
    <3>2. Last(p) \o Append(To(k), c) = Append(Last(p) \o To(k), c)
          /\ Last(p) \o To(k) \in Seq(S)
      BY <1>2, <2>1, ConcatAppend
    <3> QED  BY <3>1, <3>2
  <2>3. Split(r, C) = Append(Front(p), last)  BY <1>4
  <2> HIDE DEF r, c, last
  <2>4. Split(Append(r, c), C) = AddChar(Split(r, C), c, C)  BY <2>1, SplitAppend
  <2>5. AddChar(Append(Front(p), last), c, C) = Append(Front(p), Append(last, c))
    BY <1>2, <2>1, <2>2, AddCharLast
  <2>6. Split(s \o To(k + 1), C) = Append(Front(p), Last(p) \o To(k + 1))
    BY <2>1, <2>2, <2>3, <2>4, <2>5
  <2>7. k + 1 \in 0..n  OBVIOUS
  <2> QED  BY <2>6, <2>7
<1> HIDE DEF T
<1>8. n \in Nat  OBVIOUS
<1>5. 0..n \subseteq T  BY <1>3, <1>4, <1>8, InductionUpTo
<1>6. n \in 0..n /\ To(n) = w  OBVIOUS
<1>7. Split(s \o To(n), C) = Append(Front(p), Last(p) \o To(n))
  BY <1>5, <1>6 DEF T
<1> QED  BY <1>6, <1>7 DEF p, LastGrows

\* The piece p[k] of s ends before position e[k], where there is a character of C
\* or the end.
Pieces(s, C, e, p) ==
    /\ e \in [0..Len(p) -> 0..(Len(s) + 1)]
    /\ e[0] = 0 /\ e[Len(p)] = Len(s) + 1
    /\ \A j, k \in 0..Len(p) : j < k => e[j] < e[k]
    /\ \A k \in 1..Len(p) : p[k] = SubSeq(s, e[k - 1] + 1, e[k] - 1)
    /\ \A k \in 1..(Len(p) - 1) : s[e[k]] \in C
    /\ \A i \in 1..Len(s) : s[i] \in C => \E k \in 1..(Len(p) - 1) : e[k] = i

\* Another separator ends the last piece and begins an empty one.
LEMMA PiecesCut ==
    ASSUME NEW S, NEW C, NEW s \in Seq(S), NEW c \in S, c \in C,
           NEW p \in Seq(Seq(S)), NEW e, Pieces(s, C, e, p)
    PROVE  \E f : Pieces(Append(s, c), C, f, Append(p, <<>>))
<1> DEFINE n == Len(s)
           m == Len(p)
           t == Append(s, c)
           q == Append(p, <<>>)
           f == [k \in 0..(m + 1) |-> IF k = m + 1 THEN n + 2 ELSE e[k]]
<1>1. /\ n \in Nat /\ m \in Nat /\ t \in Seq(S) /\ Len(t) = n + 1 /\ t[n + 1] = c
      /\ \A i \in 1..n : t[i] = s[i]
  OBVIOUS
<1>2. Len(q) = m + 1 /\ q[m + 1] = <<>> /\ \A k \in 1..m : q[k] = p[k]
  OBVIOUS
<1>3. /\ e \in [0..m -> 0..(n + 1)] /\ e[0] = 0 /\ e[m] = n + 1
      /\ \A j, k \in 0..m : j < k => e[j] < e[k]
  BY DEF Pieces
<1>13. ASSUME NEW i \in Nat, NEW j \in Int, j <= n  
       PROVE  SubSeq(t, i + 1, j) = SubSeq(s, i + 1, j)
  <2>1. j <= Len(s) /\ j <= Len(t) /\ \A x \in 1..Len(s) : t[x] = s[x]  BY <1>1, <1>13
  <2> HIDE DEF t
  <2> QED  BY <1>1, <2>1, SameCut
<1> HIDE DEF t, q, n, m
<1>4. m # 0 /\ m \in 1..m  BY <1>1, <1>3
<1>5. f \in [0..(m + 1) -> 0..(n + 2)]
  <2>1. ASSUME NEW k \in 0..(m + 1), k # m + 1  PROVE e[k] \in 0..(n + 2)
    <3>1. k \in 0..m  BY <1>1, <2>1
    <3>2. e[k] \in 0..(n + 1)  BY <1>3, <3>1
    <3> QED  BY <1>1, <3>2
  <2>2. n + 2 \in 0..(n + 2)  BY <1>1
  <2> QED  BY <2>1, <2>2
<1>6. \A k \in 0..m : f[k] = e[k] /\ k # m + 1  BY <1>1
<1>7. f[m + 1] = n + 2 /\ f[m] = n + 1 /\ f[0] = 0  BY <1>1, <1>3, <1>4
<1> HIDE DEF f
<1>8. ASSUME NEW j \in 0..(m + 1), NEW k \in 0..(m + 1), j < k  PROVE f[j] < f[k]
  <2>1. j \in 0..m  BY <1>1, <1>8
  <2>2. e[j] \in 0..(n + 1)  BY <1>3, <2>1
  <2>3. CASE k = m + 1  BY <1>1, <1>6, <1>7, <2>1, <2>2, <2>3
  <2>4. CASE k # m + 1
    <3>1. k \in 0..m  BY <1>1, <2>4
    <3> QED  BY <1>3, <1>6, <1>8, <2>1, <3>1
  <2> QED  BY <2>3, <2>4
<1>9. ASSUME NEW k \in 1..(m + 1)  PROVE q[k] = SubSeq(t, f[k - 1] + 1, f[k] - 1)
  <2>1. CASE k = m + 1
    <3>1. k - 1 = m  BY <1>1, <2>1
    <3>2. SubSeq(t, (n + 1) + 1, (n + 2) - 1) = <<>>  BY <1>1
    <3> QED  BY <1>2, <1>7, <2>1, <3>1, <3>2
  <2>2. CASE k # m + 1
    <3>1. k \in 1..m /\ k \in 0..m /\ k - 1 \in 0..m  BY <1>1, <2>2
    <3>2. p[k] = SubSeq(s, e[k - 1] + 1, e[k] - 1)  BY <3>1 DEF Pieces, m
    <3>3. e[k - 1] \in 0..(n + 1) /\ e[k] \in 0..(n + 1)  BY <1>3, <3>1
    <3>4. SubSeq(t, e[k - 1] + 1, e[k] - 1) = SubSeq(s, e[k - 1] + 1, e[k] - 1)
      <4>1. e[k - 1] \in Nat /\ e[k] - 1 \in Int /\ e[k] - 1 <= n  BY <1>1, <3>3
      <4> QED  BY <1>13, <4>1
    <3> QED  BY <1>2, <1>6, <3>1, <3>2, <3>4
  <2> QED  BY <2>1, <2>2
<1>10. ASSUME NEW k \in 1..m  PROVE t[f[k]] \in C
  <2>1. CASE k = m  BY <1>1, <1>7, <2>1
  <2>2. CASE k # m
    <3>1. k \in 1..(m - 1) /\ k \in 0..m /\ m \in 0..m /\ 0 \in 0..m /\ k < m /\ 0 < k
      BY <1>1, <2>2
    <3>2. s[e[k]] \in C  BY <3>1 DEF Pieces, m
    <3>3. e[k] < e[m] /\ e[0] < e[k] /\ e[k] \in 0..(n + 1)  BY <1>3, <3>1
    <3>4. e[k] \in 1..n  BY <1>1, <1>3, <3>3
    <3> QED  BY <1>1, <1>6, <3>1, <3>2, <3>4
  <2> QED  BY <2>1, <2>2
<1>11. ASSUME NEW i \in 1..(n + 1), t[i] \in C  PROVE \E k \in 1..m : f[k] = i
  <2>1. CASE i = n + 1  BY <1>4, <1>7, <2>1
  <2>2. CASE i # n + 1
    <3>1. i \in 1..n  BY <1>1, <2>2
    <3>2. s[i] \in C  BY <1>1, <1>11, <3>1
    <3>3. PICK k \in 1..(m - 1) : e[k] = i  BY <3>1, <3>2 DEF Pieces, m, n
    <3>4. k \in 1..m /\ k \in 0..m  BY <1>1
    <3> QED  BY <1>6, <3>3, <3>4
  <2> QED  BY <2>1, <2>2
<1>12. Pieces(t, C, f, q)
  <2>1. (m + 1) - 1 = m /\ (n + 1) + 1 = n + 2  BY <1>1
  <2> QED  BY <1>1, <1>2, <1>5, <1>7, <1>8, <1>9, <1>10, <1>11, <2>1 DEF Pieces
<1> QED  BY <1>12 DEF t, q

\* Another character of the last piece.
LEMMA PiecesGrow ==
    ASSUME NEW S, NEW C, NEW s \in Seq(S), NEW c \in S, c \notin C,
           NEW p \in Seq(Seq(S)), NEW e, Pieces(s, C, e, p)
    PROVE  \E f : Pieces(Append(s, c), C, f, Append(Front(p), Append(Last(p), c)))
<1> DEFINE n == Len(s)
           m == Len(p)
           t == Append(s, c)
           q == Append(Front(p), Append(Last(p), c))
           f == [k \in 0..m |-> IF k = m THEN n + 2 ELSE e[k]]
<1>1. /\ n \in Nat /\ m \in Nat /\ t \in Seq(S) /\ Len(t) = n + 1 /\ t[n + 1] = c
      /\ \A i \in 1..n : t[i] = s[i]
  OBVIOUS
<1>3. /\ e \in [0..m -> 0..(n + 1)] /\ e[0] = 0 /\ e[m] = n + 1
      /\ \A j, k \in 0..m : j < k => e[j] < e[k]
  BY DEF Pieces
<1>4. m # 0 /\ m \in 1..m /\ 0 # m  BY <1>1, <1>3
<1>2. Len(q) = m /\ q[m] = Append(p[m], c) /\ \A k \in 1..(m - 1) : q[k] = p[k]
  <2>1. Front(p) \in Seq(Seq(S)) /\ Len(Front(p)) = m - 1
        /\ \A k \in 1..(m - 1) : Front(p)[k] = p[k]
    <3>1. 1 \in Int /\ m - 1 \in Int /\ (m - 1) - 1 + 1 = m - 1 /\ \A k \in Int : 1 + k - 1 = k
          /\ (~(1 <= m - 1) => m - 1 = 0)
      <4>1. m \in Nat /\ m # 0  BY <1>1, <1>4
      <4> HIDE DEF m
      <4>2. 1 \in Int /\ m - 1 \in Int /\ (m - 1) - 1 + 1 = m - 1  BY <4>1
      <4>3. \A k \in Int : 1 + k - 1 = k  OBVIOUS
      <4> QED  BY <4>1, <4>2, <4>3
    <3>2. \A k \in 1..(m - 1) : p[k] \in Seq(S)  BY <1>1
    <3> HIDE DEF m
    <3>3. /\ SubSeq(p, 1, m - 1) \in Seq(Seq(S))
          /\ Len(SubSeq(p, 1, m - 1)) = IF 1 <= m - 1 THEN (m - 1) - 1 + 1 ELSE 0
          /\ \A k \in 1..((m - 1) - 1 + 1) : SubSeq(p, 1, m - 1)[k] = p[1 + k - 1]
      BY <3>1, <3>2, SubSeqProperties
    <3> QED  BY <3>1, <3>3 DEF Front, m
  <2>2. Last(p) = p[m] /\ Append(p[m], c) \in Seq(S)  BY <1>4 DEF Last
  <2> DEFINE r == Front(p)
             v == Append(p[m], c)
  <2>3. q = Append(r, v) /\ r \in Seq(Seq(S)) /\ Len(r) = m - 1 /\ v \in Seq(S)
    BY <2>1, <2>2
  <2>4. (m - 1) + 1 = m  BY <1>1
  <2> HIDE DEF q, r, v, m
  <2>5. Len(q) = m /\ q[m] = v  BY <2>3, <2>4
  <2>6. \A k \in 1..(m - 1) : q[k] = r[k]  BY <2>3
  <2> QED  BY <2>1, <2>5, <2>6 DEF r, v
<1>13. ASSUME NEW i \in Nat, NEW j \in Int, j <= n  
       PROVE  SubSeq(t, i + 1, j) = SubSeq(s, i + 1, j)
  <2>1. j <= Len(s) /\ j <= Len(t) /\ \A x \in 1..Len(s) : t[x] = s[x]  BY <1>1, <1>13
  <2> HIDE DEF t
  <2> QED  BY <1>1, <2>1, SameCut
<1>14. ASSUME NEW i \in 0..n  PROVE SubSeq(t, i + 1, n + 1) = Append(SubSeq(s, i + 1, n), c)
  BY CutOfAppend
<1> HIDE DEF t, q, n, m
<1>5. f \in [0..m -> 0..(n + 2)]
  <2>1. ASSUME NEW k \in 0..m  PROVE e[k] \in 0..(n + 2)
    <3>2. e[k] \in 0..(n + 1)  BY <1>3
    <3> QED  BY <1>1, <3>2
  <2>2. n + 2 \in 0..(n + 2)  BY <1>1
  <2> QED  BY <2>1, <2>2
<1>6. \A k \in 0..(m - 1) : f[k] = e[k] /\ k \in 0..m  BY <1>1
<1>7. f[m] = n + 2 /\ f[0] = 0 /\ m \in 0..m /\ 0 \in 0..m  BY <1>1, <1>3, <1>4
<1>16. \A k \in 0..(m - 1) : e[k] \in 0..n
  <2>1. ASSUME NEW k \in 0..(m - 1)  PROVE e[k] \in 0..n
    <3>1. k \in 0..m /\ k < m /\ m \in 0..m  BY <1>1
    <3>2. e[k] < e[m] /\ e[k] \in 0..(n + 1)  BY <1>3, <3>1
    <3> QED  BY <1>1, <1>3, <3>2
  <2> QED  BY <2>1
<1> HIDE DEF f
<1>8. ASSUME NEW j \in 0..m, NEW k \in 0..m, j < k  PROVE f[j] < f[k]
  <2>1. j \in 0..(m - 1)  BY <1>1, <1>8
  <2>3. CASE k = m
    <3>1. f[j] = e[j] /\ e[j] \in 0..n  BY <1>6, <1>16, <2>1
    <3> QED  BY <1>1, <1>7, <2>3, <3>1
  <2>4. CASE k # m
    <3>1. k \in 0..(m - 1)  BY <1>1, <2>4
    <3> QED  BY <1>3, <1>6, <1>8, <2>1, <3>1
  <2> QED  BY <2>3, <2>4
<1>9. ASSUME NEW k \in 1..m  PROVE q[k] = SubSeq(t, f[k - 1] + 1, f[k] - 1)
  <2>1. k - 1 \in 0..(m - 1) /\ f[k - 1] = e[k - 1] /\ e[k - 1] \in 0..n
    BY <1>1, <1>6, <1>16
  <2>2. p[k] = SubSeq(s, e[k - 1] + 1, e[k] - 1)  BY DEF Pieces, m
  <2>3. CASE k = m
    <3>1. (n + 2) - 1 = n + 1 /\ (n + 1) - 1 = n  BY <1>1
    <3>2. q[m] = Append(p[m], c) /\ f[m] = n + 2 /\ e[m] = n + 1  BY <1>2, <1>3, <1>7
    <3> DEFINE i == e[k - 1]
    <3>3. p[m] = SubSeq(s, i + 1, n)  BY <2>2, <2>3, <3>1, <3>2
    <3>4. f[k - 1] = i /\ i \in 0..n  BY <2>1
    <3> HIDE DEF i
    <3>5. SubSeq(t, i + 1, n + 1) = Append(SubSeq(s, i + 1, n), c)  BY <1>14, <3>4
    <3> QED  BY <2>3, <3>1, <3>2, <3>3, <3>4, <3>5
  <2>4. CASE k # m
    <3>1. k \in 1..(m - 1) /\ k \in 0..(m - 1)  BY <1>1, <2>4
    <3>2. e[k] \in 0..n  BY <1>16, <3>1
    <3>3. e[k - 1] \in Nat /\ e[k] - 1 \in Int /\ e[k] - 1 <= n  BY <1>1, <2>1, <3>2
    <3> QED  BY <1>2, <1>6, <1>13, <2>1, <2>2, <3>1, <3>3
  <2> QED  BY <2>3, <2>4
<1>10. ASSUME NEW k \in 1..(m - 1)  PROVE t[f[k]] \in C
  <2>1. k \in 0..(m - 1) /\ 0 \in 0..m /\ k \in 0..m /\ 0 < k  BY <1>1
  <2>2. s[e[k]] \in C  BY DEF Pieces, m
  <2>3. e[0] < e[k] /\ e[k] \in 0..n  BY <1>3, <1>16, <2>1
  <2>4. e[k] \in 1..n  BY <1>1, <1>3, <2>3
  <2> QED  BY <1>1, <1>6, <2>1, <2>2, <2>4
<1>11. ASSUME NEW i \in 1..(n + 1), t[i] \in C  PROVE \E k \in 1..(m - 1) : f[k] = i
  <2>1. i # n + 1  BY <1>1, <1>11
  <2>2. i \in 1..n  BY <1>1, <2>1
  <2>3. s[i] \in C  BY <1>1, <1>11, <2>2
  <2>4. PICK k \in 1..(m - 1) : e[k] = i  BY <2>2, <2>3 DEF Pieces, m, n
  <2>5. k \in 0..(m - 1)  BY <1>1
  <2> QED  BY <1>6, <2>4, <2>5
<1>12. Pieces(t, C, f, q)
  <2>1. (n + 1) + 1 = n + 2  BY <1>1
  <2> QED  BY <1>1, <1>2, <1>5, <1>7, <1>8, <1>9, <1>10, <1>11, <2>1 DEF Pieces
<1> QED  BY <1>12 DEF t, q

\* The empty text has its one piece.
LEMMA PiecesEmpty ==
    ASSUME NEW C  PROVE \E e : Pieces(<<>>, C, e, << <<>> >>)
<1> DEFINE e == [k \in 0..1 |-> k]
           p == << <<>> >>
<1>1. Len(p) = 1 /\ p[1] = <<>> /\ Len(<<>>) = 0 /\ SubSeq(<<>>, 0 + 1, 1 - 1) = <<>>
  OBVIOUS
<1>2. e \in [0..1 -> 0..1] /\ e[0] = 0 /\ e[1] = 1  OBVIOUS
<1>3. \A j, k \in 0..1 : j < k => e[j] < e[k]  OBVIOUS
<1> HIDE DEF p, e
<1>4. \A k \in 1..1 : p[k] = SubSeq(<<>>, e[k - 1] + 1, e[k] - 1)
  <2>1. 1 - 1 = 0  OBVIOUS
  <2>2. \A k \in 1..1 : k = 1  OBVIOUS
  <2> QED  BY <1>1, <1>2, <2>1, <2>2
<1>5. 1..(1 - 1) = {} /\ 1..0 = {} /\ 0 + 1 = 1  OBVIOUS
<1>6. Pieces(<<>>, C, e, p)  BY <1>1, <1>2, <1>3, <1>4, <1>5 DEF Pieces
<1> QED  BY <1>6 DEF p

\* The pieces of Split are the cuts of the text between its separators.
LEMMA SplitPieces ==
    ASSUME NEW S, NEW C, NEW s \in Seq(S)
    PROVE  \E e : Pieces(s, C, e, Split(s, C))
<1> DEFINE n == Len(s)
           To(k) == SubSeq(s, 1, k)
           Good(k) == \E e : Pieces(To(k), C, e, Split(To(k), C))
           T == {k \in 0..n : Good(k)}
<1>1. Good(0)
  <2>1. To(0) = <<>>  OBVIOUS
  <2> QED  BY <2>1, PiecesEmpty, SplitEmpty
<1>2. ASSUME NEW k \in 0..(n - 1), Good(k)  PROVE Good(k + 1)
  <2> DEFINE r == To(k)
             c == s[k + 1]
             p == Split(r, C)
  <2>1. r \in Seq(S) /\ c \in S /\ To(k + 1) = Append(r, c)  OBVIOUS
  <2>2. p \in Seq(Seq(S))  BY <2>1, SplitType DEF Parted
  <2>3. PICK e : Pieces(r, C, e, p)  BY <1>2
  <2>4. Split(Append(r, c), C) = AddChar(p, c, C)  BY <2>1, SplitAppend
  <2> HIDE DEF r, c, p
  <2>5. CASE c \in C
    <3>1. AddChar(p, c, C) = Append(p, <<>>)  BY <2>5 DEF AddChar
    <3>2. \E f : Pieces(Append(r, c), C, f, Append(p, <<>>))
      BY <2>1, <2>2, <2>3, <2>5, PiecesCut
    <3> QED  BY <2>1, <2>4, <3>1, <3>2
  <2>6. CASE c \notin C
    <3>1. AddChar(p, c, C) = Append(Front(p), Append(Last(p), c))  BY <2>6 DEF AddChar
    <3>2. \E f : Pieces(Append(r, c), C, f, Append(Front(p), Append(Last(p), c)))
      BY <2>1, <2>2, <2>3, <2>6, PiecesGrow
    <3> QED  BY <2>1, <2>4, <3>1, <3>2
  <2> QED  BY <2>5, <2>6
<1>6. n \in Nat /\ n \in 0..n /\ To(n) = s  OBVIOUS
<1> HIDE DEF Good
<1>3. 0 \in T  BY <1>1, <1>6
<1>4. ASSUME NEW k \in 0..(n - 1), k \in T  PROVE k + 1 \in T  BY <1>2, <1>4, <1>6
<1> HIDE DEF T
<1>5. 0..n \subseteq T  BY <1>3, <1>4, <1>6, InductionUpTo
<1>7. Good(n)  BY <1>5, <1>6 DEF T
<1> QED  BY <1>6, <1>7 DEF Good

\* The least number of a set of positions.
LEMMA MinEquals ==
    ASSUME NEW T \in SUBSET Nat, NEW k \in T, \A j \in T : k <= j
    PROVE  Min(T) = k
<1>1. Min(T) \in T /\ \A j \in T : Min(T) <= j  BY MinIs
<1>2. Min(T) <= k /\ k <= Min(T) /\ Min(T) \in Nat /\ k \in Nat  BY <1>1
<1> QED  BY <1>2

\* What Lines keeps of the pieces p.
IsLines(s, e, p, lines) ==
    /\ Pieces(s, {"NL"}, e, p)
    /\ \A k \in 1..Len(lines) : lines[k] = p[k]
    /\ \/ Len(lines) = Len(p) /\ p[Len(p)] # <<>>
       \/ Len(lines) = Len(p) - 1 /\ e[Len(lines)] = Len(s)

\* The letters of a cut are those of the text.
LEMMA CutIs ==
    ASSUME NEW S, NEW s \in Seq(S), NEW a \in 0..Len(s), NEW b \in a..Len(s)
    PROVE  /\ SubSeq(s, a + 1, b) \in Seq(S) /\ Len(SubSeq(s, a + 1, b)) = b - a
           /\ \A x \in 1..(b - a) : SubSeq(s, a + 1, b)[x] = s[a + x]
           /\ SubSeq(s, a + 1, b) = <<>> <=> a = b
<1> DEFINE u == SubSeq(s, a + 1, b)
<1>1. a + 1 \in Int /\ b \in Int /\ \A x \in (a + 1)..b : s[x] \in S  OBVIOUS
<1>2. /\ u \in Seq(S)
      /\ Len(u) = IF a + 1 <= b THEN b - (a + 1) + 1 ELSE 0
      /\ \A x \in 1..(b - (a + 1) + 1) : u[x] = s[(a + 1) + x - 1]
  BY <1>1, SubSeqProperties
<1> HIDE DEF u
<1>3. b - (a + 1) + 1 = b - a /\ \A x \in Int : (a + 1) + x - 1 = a + x  OBVIOUS
<1>4. Len(u) = b - a  BY <1>2
<1>5. u = <<>> <=> Len(u) = 0
  <2>1. \A v \in Seq(S) : v = <<>> <=> Len(v) = 0  OBVIOUS
  <2> QED  BY <1>2, <2>1
<1>6. u = <<>> <=> a = b  BY <1>4, <1>5
<1>7. ASSUME NEW x \in 1..(b - a)  PROVE u[x] = s[a + x]
  <2>1. x \in 1..(b - (a + 1) + 1) /\ (a + 1) + x - 1 = a + x  BY <1>3
  <2> QED  BY <1>2, <2>1
<1>8. u \in Seq(S)  BY <1>2
<1> QED  BY <1>4, <1>6, <1>7, <1>8 DEF u

\* u is s behind a, up to b.
IsCut(u, S, s, a, b) ==
    /\ u \in Seq(S) /\ Len(u) = b - a
    /\ \A x \in 1..(b - a) : u[x] = s[a + x]
    /\ u = <<>> <=> a = b

\* A cut is one.
LEMMA CutOut ==
    ASSUME NEW S, NEW s \in Seq(S), NEW a \in 0..Len(s), NEW b \in a..Len(s)
    PROVE  IsCut(SubSeq(s, a + 1, b), S, s, a, b)
  BY CutIs DEF IsCut

\* All pieces but the last one.
LEMMA FrontIs ==
    ASSUME NEW S, NEW s \in Seq(S), s # <<>>
    PROVE  /\ Front(s) \in Seq(S) /\ Len(Front(s)) = Len(s) - 1
           /\ \A k \in 1..(Len(s) - 1) : Front(s)[k] = s[k]
           /\ Last(s) \in S /\ Last(s) = s[Len(s)] /\ s = Append(Front(s), Last(s))
<1> DEFINE n == Len(s)
<1>1. n \in Nat \ {0}  OBVIOUS
<1>2. \A k \in 1..n : s[k] \in S  OBVIOUS
<1> HIDE DEF n
<1>3. 1 \in Int /\ n - 1 \in Int /\ (n - 1) - 1 + 1 = n - 1 /\ \A k \in 1..(n - 1) : s[k] \in S
  BY <1>1, <1>2
<1>4. /\ SubSeq(s, 1, n - 1) \in Seq(S)
      /\ Len(SubSeq(s, 1, n - 1)) = IF 1 <= n - 1 THEN (n - 1) - 1 + 1 ELSE 0
      /\ \A k \in 1..((n - 1) - 1 + 1) : SubSeq(s, 1, n - 1)[k] = s[1 + k - 1]
  BY <1>3, SubSeqProperties
<1>5. Front(s) = SubSeq(s, 1, n - 1)  BY DEF Front, n
<1>6. Len(Front(s)) = n - 1  BY <1>1, <1>4, <1>5
<1>7. \A k \in 1..(n - 1) : Front(s)[k] = s[k]
  <2>1. \A k \in 1..(n - 1) : 1 + k - 1 = k  BY <1>1
  <2> QED  BY <1>3, <1>4, <1>5, <2>1
<1>8. Last(s) = s[n] /\ Last(s) \in S  BY <1>1, <1>2 DEF Last, n
<1> DEFINE t == Append(Front(s), Last(s))
<1>9. t \in Seq(S) /\ Len(t) = (n - 1) + 1 /\ t[n] = Last(s)
      /\ \A k \in 1..(n - 1) : t[k] = Front(s)[k]
  <2>1. Front(s) \in Seq(S)  BY <1>4, <1>5
  <2>2. (n - 1) + 1 = n  BY <1>1
  <2> QED  BY <1>6, <1>8, <2>1, <2>2, AppendProperties
<1> HIDE DEF t
<1>10. s = t
  <2>1. Len(s) = Len(t)  BY <1>1, <1>9 DEF n
  <2>2. ASSUME NEW k \in 1..Len(s)  PROVE s[k] = t[k]
    <3>1. k \in 1..(n - 1) \/ k = n  BY <1>1 DEF n
    <3> QED  BY <1>7, <1>8, <1>9, <3>1
  <2> QED  BY <1>9, <2>1, <2>2, SeqEqual
<1> QED  BY <1>4, <1>5, <1>6, <1>7, <1>8, <1>10 DEF n, t

\* Lines keeps the pieces between newlines, without an empty last one.
LEMMA LinesAre ==
    ASSUME NEW S, NEW s \in Seq(S)
    PROVE  /\ Lines(s) \in Seq(Seq(S))
           /\ \E e, p : p \in Seq(Seq(S)) /\ IsLines(s, e, p, Lines(s))
<1> DEFINE p == Split(s, {"NL"})
           n == Len(p)
<1>1. p \in Seq(Seq(S)) /\ p # <<>> /\ n \in Nat \ {0}
  <2>1. p \in Seq(Seq(S)) /\ p # <<>>  BY SplitType DEF Parted
  <2> HIDE DEF p
  <2> QED  BY <2>1
<1>2. PICK e : Pieces(s, {"NL"}, e, p)  BY SplitPieces
<1>3. Lines(s) = IF Last(p) = <<>> THEN Front(p) ELSE p  BY DEF Lines
<1> HIDE DEF p
<1>4. Last(p) = p[n]  BY DEF Last
<1>5. CASE Last(p) # <<>>  BY <1>1, <1>2, <1>3, <1>4, <1>5 DEF IsLines
<1>6. CASE Last(p) = <<>>
  <2>1. Lines(s) \in Seq(Seq(S)) /\ Len(Lines(s)) = n - 1
        /\ \A k \in 1..(n - 1) : Lines(s)[k] = p[k]
    BY <1>1, <1>3, <1>6, FrontIs
  <2>2. e[n - 1] = Len(s)
    <3>0. /\ e \in [0..n -> 0..(Len(s) + 1)] /\ e[n] = Len(s) + 1
          /\ \A j, k \in 0..n : j < k => e[j] < e[k]
          /\ \A k \in 1..n : p[k] = SubSeq(s, e[k - 1] + 1, e[k] - 1)
      BY <1>2 DEF Pieces
    <3> HIDE DEF n
    <3>1. n \in 1..n /\ n - 1 \in 0..n /\ n \in 0..n /\ n - 1 < n  BY <1>1
    <3>2. e[n - 1] < e[n] /\ e[n - 1] \in 0..(Len(s) + 1)  BY <3>0, <3>1
    <3>3. SubSeq(s, e[n - 1] + 1, (Len(s) + 1) - 1) = <<>>  BY <1>4, <1>6, <3>0, <3>1
    <3>4. Len(s) \in Nat  OBVIOUS
    <3> DEFINE b == e[n - 1]
    <3>5. b \in 0..Len(s)  BY <3>0, <3>2, <3>4
    <3> HIDE DEF b
    <3>6. Len(SubSeq(s, b + 1, Len(s))) = Len(s) - b  BY <3>5
    <3>7. SubSeq(s, b + 1, Len(s)) = <<>>  BY <3>3, <3>4 DEF b
    <3>8. Len(s) - b = 0  BY <3>6, <3>7
    <3>9. b = Len(s)  BY <3>4, <3>5, <3>8
    <3> QED  BY <3>9 DEF b
  <2> QED  BY <1>1, <1>2, <2>1, <2>2 DEF IsLines
<1> QED  BY <1>5, <1>6

\* Where the pieces end.
LEMMA PiecesFacts ==
    ASSUME NEW S, NEW C, NEW s \in Seq(S), NEW p \in Seq(Seq(S)), NEW e, Pieces(s, C, e, p)
    PROVE  /\ Len(p) \in Nat \ {0} /\ e[0] = 0 /\ e[Len(p)] = Len(s) + 1
           /\ \A k \in 0..(Len(p) - 1) : e[k] \in 0..Len(s) /\ e[k] < e[k + 1]
           /\ \A k \in 1..Len(p) : e[k] \in 1..(Len(s) + 1) /\ e[k - 1] < e[k]
           /\ \A k \in 1..(Len(p) - 1) : e[k] \in 1..Len(s) /\ s[e[k]] \in C
<1> DEFINE n == Len(p)
           l == Len(s)
<1>1. /\ e \in [0..n -> 0..(l + 1)] /\ e[0] = 0 /\ e[n] = l + 1
      /\ \A j, k \in 0..n : j < k => e[j] < e[k]
      /\ \A k \in 1..(n - 1) : s[e[k]] \in C
  BY DEF Pieces
<1>2. n \in Nat /\ l \in Nat  OBVIOUS
<1> HIDE DEF n, l
<1>3. n # 0  BY <1>1, <1>2
<1>4. ASSUME NEW k \in 0..(n - 1)  PROVE e[k] \in 0..l /\ e[k] < e[k + 1]
  <2>1. k \in 0..n /\ n \in 0..n /\ k < n /\ k + 1 \in 0..n /\ k < k + 1  BY <1>2
  <2>2. e[k] < e[n] /\ e[k] \in 0..(l + 1) /\ e[k] < e[k + 1]  BY <1>1, <2>1
  <2> QED  BY <1>1, <1>2, <2>2
<1>5. ASSUME NEW k \in 1..n  PROVE e[k] \in 1..(l + 1) /\ e[k - 1] < e[k]
  <2>1. k \in 0..n /\ 0 \in 0..n /\ 0 < k /\ k - 1 \in 0..n /\ k - 1 < k  BY <1>2
  <2>2. e[0] < e[k] /\ e[k] \in 0..(l + 1) /\ e[k - 1] < e[k]  BY <1>1, <2>1
  <2> QED  BY <1>1, <1>2, <2>2
<1>6. ASSUME NEW k \in 1..(n - 1)  PROVE e[k] \in 1..l /\ s[e[k]] \in C
  <2>1. k \in 0..(n - 1) /\ k \in 1..n  BY <1>2
  <2>2. e[k] \in 0..l /\ e[k] \in 1..(l + 1)  BY <1>4, <1>5, <2>1
  <2> QED  BY <1>1, <1>2, <2>2
<1> QED  BY <1>1, <1>2, <1>3, <1>4, <1>5, <1>6 DEF n, l

\* There is no separator inside a piece.
LEMMA NoneBetween ==
    ASSUME NEW S, NEW C, NEW s \in Seq(S), NEW p \in Seq(Seq(S)), NEW e, Pieces(s, C, e, p),
           NEW k \in 1..Len(p), NEW i \in (e[k - 1] + 1)..(e[k] - 1)
    PROVE  i \in 1..Len(s) /\ s[i] \notin C
<1> DEFINE n == Len(p)
           l == Len(s)
<1>1. /\ e \in [0..n -> 0..(l + 1)]
      /\ \A j, m \in 0..n : j < m => e[j] < e[m]
      /\ \A x \in 1..l : s[x] \in C => \E m \in 1..(n - 1) : e[m] = x
  BY DEF Pieces
<1>2. n \in Nat /\ l \in Nat  OBVIOUS
<1> HIDE DEF n, l
<1>3. k \in 1..n /\ k \in 0..n /\ k - 1 \in 0..n  BY <1>2 DEF n
<1>4. e[k - 1] \in 0..(l + 1) /\ e[k] \in 0..(l + 1)  BY <1>1, <1>3
<1>5. i \in 1..l  BY <1>2, <1>4
<1>6. ASSUME s[i] \in C  PROVE FALSE
  <2>1. PICK m \in 1..(n - 1) : e[m] = i  BY <1>1, <1>5, <1>6
  <2>2. m \in 0..n  BY <1>2
  <2> DEFINE x == e[k - 1]
             y == e[k]
  <2>3. e[k - 1] < e[m] /\ e[m] < e[k]
    <3>1. x \in 0..(l + 1) /\ y \in 0..(l + 1) /\ i \in (x + 1)..(y - 1)  BY <1>4
    <3> HIDE DEF x, y
    <3>2. x < i /\ i < y  BY <1>2, <3>1
    <3> QED  BY <2>1, <3>2 DEF x, y
  <2> HIDE DEF x, y
  <2>4. ~(m < k - 1) /\ ~(k < m) /\ m # k - 1 /\ m # k
    <3>1. m < k - 1 => e[m] < e[k - 1]  BY <1>1, <1>3, <2>2
    <3>2. k < m => e[k] < e[m]  BY <1>1, <1>3, <2>2
    <3>3. e[m] \in 0..(l + 1)  BY <1>1, <2>2
    <3>4. ~(m < k - 1) /\ ~(k < m)
      <4>1. ASSUME m < k - 1  PROVE FALSE
        <5>1. e[m] < e[k - 1]  BY <3>1, <4>1
        <5> QED  BY <1>4, <2>3, <3>3, <5>1
      <4>2. ASSUME k < m  PROVE FALSE
        <5>1. e[k] < e[m]  BY <3>2, <4>2
        <5> QED  BY <1>4, <2>3, <3>3, <5>1
      <4> QED  BY <4>1, <4>2
    <3>5. m # k - 1
      <4> SUFFICES ASSUME m = k - 1 PROVE FALSE  OBVIOUS
      <4>1. e[m] = e[k - 1]  OBVIOUS
      <4> QED  BY <1>4, <2>3, <4>1
    <3>6. m # k
      <4> SUFFICES ASSUME m = k PROVE FALSE  OBVIOUS
      <4>1. e[m] = e[k]  OBVIOUS
      <4> QED  BY <1>4, <2>3, <4>1
    <3> QED  BY <3>4, <3>5, <3>6
  <2> QED  BY <1>2, <1>3, <2>2, <2>4
<1> QED  BY <1>5, <1>6 DEF l

-------------------------------------------------------------------------------
(* HttpRequestParser::parse keeps the body *)

\* What StripCR leaves of a line, by its last character.
LEMMA StripCROf ==
    ASSUME NEW S, NEW line \in Seq(S)
    PROVE  StripCR(line) = <<>> <=> line = <<>> \/ (Len(line) = 1 /\ line[1] = "CR")
<1>1. CASE line = <<>>  BY <1>1 DEF StripCR
<1>2. CASE line # <<>>
  <2>1. Len(line) \in Nat \ {0}  BY <1>2
  <2>2. Len(Front(line)) = Len(line) - 1 /\ Front(line) \in Seq(S) /\ Last(line) = line[Len(line)]
    BY <1>2, FrontIs
  <2>3. Front(line) = <<>> <=> Len(line) = 1
    <3>1. Front(line) = <<>> => Len(Front(line)) = 0  OBVIOUS
    <3>2. Len(Front(line)) = 0 => Front(line) = <<>>  BY <2>2
    <3> QED  BY <2>1, <2>2, <3>1, <3>2
  <2> QED  BY <1>2, <2>1, <2>2, <2>3 DEF StripCR
<1> QED  BY <1>1, <1>2

\* A line that has an end ends the headers if nothing, or a carriage return, is in it.
LEMMA EndOfHeaders ==
    ASSUME NEW S, text \in Seq(S), NEW p \in Seq(Seq(S)), NEW e,
           Pieces(text, {"NL"}, e, p), NEW k \in 1..(Len(p) - 1)
    PROVE  EndsHeaders(e[k]) <=> k # 1 /\ StripCR(p[k]) = <<>>
<1> DEFINE n == Len(p)
           l == Len(text)
           a == e[k - 1]
           b == e[k]
<1>1. /\ e \in [0..n -> 0..(l + 1)] /\ e[0] = 0
      /\ \A j, m \in 0..n : j < m => e[j] < e[m]
      /\ \A m \in 1..n : p[m] = SubSeq(text, e[m - 1] + 1, e[m] - 1)
      /\ \A x \in 1..l : text[x] = "NL" => \E m \in 1..(n - 1) : e[m] = x
  BY DEF Pieces
<1>2. n \in Nat /\ l \in Nat /\ k \in 1..(n - 1) /\ k \in 1..n /\ k - 1 \in 0..(n - 1)
  OBVIOUS
<1>14. /\ \A i \in 0..(Len(p) - 1) : e[i] \in 0..Len(text) /\ e[i] < e[i + 1]
       /\ \A i \in 1..Len(p) : e[i] \in 1..(Len(text) + 1) /\ e[i - 1] < e[i]
       /\ \A i \in 1..(Len(p) - 1) : e[i] \in 1..Len(text) /\ text[e[i]] \in {"NL"}
  BY PiecesFacts
<1>15. \A i \in (e[k - 1] + 1)..(e[k] - 1) : text[i] \notin {"NL"}
  <2>1. k \in 1..Len(p)  BY <1>2
  <2> QED  BY <2>1, NoneBetween
<1> HIDE DEF n, l
<1>3. b \in 1..l /\ text[b] = "NL" /\ a \in 0..l /\ a < b
  BY <1>2, <1>14 DEF n, l
<1>4. k # 1 => a \in 1..l /\ text[a] = "NL"
  <2>1. k # 1 => k - 1 \in 1..(n - 1)  BY <1>2
  <2> QED  BY <1>14, <2>1 DEF n, l
<1>5. k = 1 => a = 0  BY <1>1
<1>6. p[k] = SubSeq(text, a + 1, b - 1)  BY <1>1, <1>2
<1>7. \A i \in (a + 1)..(b - 1) : text[i] # "NL"  BY <1>15
<1> HIDE DEF a, b
<1>8. Len(p[k]) = b - a - 1 /\ (b - a - 1 = 1 => p[k][1] = text[a + 1]) /\ p[k] \in Seq(S)
  <2>1. \A i \in (a + 1)..(b - 1) : text[i] \in S  BY <1>3 DEF l
  <2>2. a + 1 \in Int /\ b - 1 \in Int  BY <1>3
  <2>3. /\ SubSeq(text, a + 1, b - 1) \in Seq(S)
        /\ Len(SubSeq(text, a + 1, b - 1)) = IF a + 1 <= b - 1 THEN (b - 1) - (a + 1) + 1 ELSE 0
        /\ \A i \in 1..((b - 1) - (a + 1) + 1) :
              SubSeq(text, a + 1, b - 1)[i] = text[(a + 1) + i - 1]
    <3> DEFINE c == a + 1
               d == b - 1
    <3>1. c \in Int /\ d \in Int /\ \A i \in c..d : text[i] \in S  BY <2>1, <2>2
    <3> HIDE DEF c, d
    <3>2. /\ SubSeq(text, c, d) \in Seq(S)
          /\ Len(SubSeq(text, c, d)) = IF c <= d THEN d - c + 1 ELSE 0
          /\ \A i \in 1..(d - c + 1) : SubSeq(text, c, d)[i] = text[c + i - 1]
      BY <3>1, SubSeqProperties
    <3> QED  BY <3>2 DEF c, d
  <2>4. b - a - 1 = 1 => (a + 1) + 1 - 1 = a + 1 /\ 1 \in 1..((b - 1) - (a + 1) + 1)
    BY <1>3
  <2>5. Len(p[k]) = b - a - 1  BY <1>3, <1>6, <2>3
  <2> QED  BY <1>6, <2>3, <2>4, <2>5
<1>9. StripCR(p[k]) = <<>> <=> b - a - 1 = 0 \/ (b - a - 1 = 1 /\ text[a + 1] = "CR")
  <2>1. p[k] = <<>> <=> Len(p[k]) = 0
    <3>1. \A u \in Seq(S) : u = <<>> <=> Len(u) = 0  OBVIOUS
    <3> QED  BY <1>8, <3>1
  <2> QED  BY <1>8, <2>1, StripCROf
<1>10. EndsHeaders(b) <=> \/ b > 1 /\ text[b - 1] = "NL"
                          \/ b > 2 /\ text[b - 1] = "CR" /\ text[b - 2] = "NL"
  BY <1>3 DEF EndsHeaders
<1>11. ASSUME k # 1, StripCR(p[k]) = <<>>  PROVE EndsHeaders(b)
  <2>1. CASE b - a - 1 = 0
    <3>1. b > 1 /\ b - 1 = a  BY <1>3, <1>4, <1>11, <2>1
    <3> QED  BY <1>4, <1>10, <1>11, <3>1
  <2>2. CASE b - a - 1 = 1 /\ text[a + 1] = "CR"
    <3>1. b > 2 /\ b - 1 = a + 1 /\ b - 2 = a  BY <1>3, <1>4, <1>11, <2>2
    <3> QED  BY <1>4, <1>10, <1>11, <2>2, <3>1
  <2> QED  BY <1>9, <1>11, <2>1, <2>2
<1>12. ASSUME NEW i \in 1..l, text[i] = "NL", i < b  PROVE i <= a /\ k # 1
  <2>1. ~(i \in (a + 1)..(b - 1))  BY <1>7, <1>12
  <2>2. i <= a  BY <1>3, <1>12, <2>1
  <2> QED  BY <1>5, <2>2
<1>13. ASSUME EndsHeaders(b)  PROVE k # 1 /\ StripCR(p[k]) = <<>>
  <2>1. CASE b > 1 /\ text[b - 1] = "NL"
    <3>1. b - 1 \in 1..l /\ b - 1 < b  BY <1>2, <1>3, <2>1
    <3>2. b - 1 <= a /\ k # 1  BY <1>12, <2>1, <3>1
    <3>3. b - a - 1 = 0  BY <1>3, <3>2
    <3> QED  BY <1>9, <3>2, <3>3
  <2>2. CASE b > 2 /\ text[b - 1] = "CR" /\ text[b - 2] = "NL"
    <3>1. b - 2 \in 1..l /\ b - 2 < b  BY <1>2, <1>3, <2>2
    <3>2. b - 2 <= a /\ k # 1  BY <1>12, <2>2, <3>1
    <3>3. a # b - 1  BY <1>4, <2>2, <3>2
    <3>4. b - a - 1 = 1 /\ a + 1 = b - 1  BY <1>3, <3>2, <3>3
    <3> QED  BY <1>9, <2>2, <3>2, <3>4
  <2> QED  BY <1>10, <1>13, <2>1, <2>2
<1> QED  BY <1>11, <1>13 DEF b

\* What Join has made of the first i lines is g[i].
Joins(g, lines) ==
    g[0] = <<>> /\ \A i \in 1..Len(lines) : g[i] = g[i - 1] \o lines[i] \o <<"NL">>

\* Join is a fold over the lines.
LEMMA JoinIs ==
    ASSUME NEW S, "NL" \in S, NEW lines \in Seq(Seq(S)),
           NEW g \in [0..Len(lines) -> Seq(S)], Joins(g, lines)
    PROVE  Join(lines) = g[Len(lines)]
<1> DEFINE n == Len(lines)
           A == Seq(S)
           a == <<>>
           step == [i \in 1..n |-> [v \in A |-> v \o lines[i] \o <<"NL">>]]
<1>1. n \in Nat /\ a \in A /\ DOMAIN lines = 1..n  OBVIOUS
<1>2. step \in StepFunctions(n, A)
  <2>1. ASSUME NEW i \in 1..n, NEW v \in A  PROVE v \o lines[i] \o <<"NL">> \in A
    OBVIOUS
  <2> QED  BY <2>1 DEF StepFunctions
<1>3. Recursion(g, n, a, step) /\ g \in [0..n -> A]
  <2>1. ASSUME NEW i \in 1..n  PROVE g[i] = step[i][g[i - 1]]
    <3>1. i - 1 \in 0..n  BY <1>1
    <3>2. g[i - 1] \in A  BY <3>1
    <3>3. g[i] = g[i - 1] \o lines[i] \o <<"NL">>  BY DEF Joins
    <3> HIDE DEF A
    <3> QED  BY <3>2, <3>3
  <2> QED  BY <2>1 DEF Recursion, Joins
<1> DEFINE Is(h) == h = [t \in SUBSET DOMAIN lines |->
                           IF t = {} THEN a
                           ELSE LET x == Max(t) IN h[t \ {x}] \o lines[x] \o <<"NL">>]
<1>4. \E h : Is(h)
  <2> HIDE DEF a, A, step, n
  <2>1. PICK h \in [SUBSET (1..n) -> A] : Fold(h, n, a, step)
    BY <1>1, <1>2, FoldExists
  <2>2. ASSUME NEW t \in SUBSET (1..n), t # {}
        PROVE  step[Max(t)][h[t \ {Max(t)}]] = h[t \ {Max(t)}] \o lines[Max(t)] \o <<"NL">>
    <3>1. t \in SUBSET (0..n)  OBVIOUS
    <3>2. Max(t) \in 1..n  BY <1>1, <2>2, <3>1, MaxIs
    <3> QED  BY <3>2 DEF step
  <2>3. h = [t \in SUBSET (1..n) |->
               IF t = {} THEN a ELSE h[t \ {Max(t)}] \o lines[Max(t)] \o <<"NL">>]
    BY <2>1, <2>2 DEF Fold
  <2> QED  BY <1>1, <2>3
<1> DEFINE h == CHOOSE h : Is(h)
<1>5. Is(h)  BY <1>4
<1>6. Join(lines) = h[DOMAIN lines]
  BY DEF Join, FoldLeft, MapThenFoldSet
<1> HIDE DEF h
<1>7. h[{}] = a  BY <1>5
<1>8. ASSUME NEW i \in 1..n, h[1..(i - 1)] \in A  PROVE h[1..i] = step[i][h[1..(i - 1)]]
  <2>2. /\ 1..i \in SUBSET (1..n) /\ 1..i # {} /\ Max(1..i) = i
        /\ (1..i) \ {i} = 1..(i - 1)
    BY <1>1, FoldGoesOn
  <2>3. h[1..i] = h[(1..i) \ {Max(1..i)}] \o lines[Max(1..i)] \o <<"NL">>
    BY <1>1, <1>5, <2>2
  <2>4. h[1..i] = h[1..(i - 1)] \o lines[i] \o <<"NL">>  BY <2>2, <2>3
  <2> DEFINE v == h[1..(i - 1)]
  <2>5. v \in A  BY <1>8
  <2> HIDE DEF A, v, n
  <2>6. step[i][v] = v \o lines[i] \o <<"NL">>  BY <2>5
  <2> QED  BY <2>4, <2>6 DEF v
<1> HIDE DEF a, A, step, n
<1>9. h[1..n] = g[n]
  <2>1. FoldSteps(h, n, A, step)  BY <1>8 DEF FoldSteps
  <2> QED  BY <1>1, <1>2, <1>3, <1>7, <2>1, FoldIs
<1> QED  BY <1>1, <1>6, <1>9 DEF n

\* Two adjacent cuts and a character.
LEMMA JoinCut ==
    ASSUME NEW S, NEW t \in Seq(S), NEW a \in 0..Len(t), NEW b \in a..Len(t), NEW c \in 1..Len(t),
           b < c
    PROVE  SubSeq(t, a + 1, b) \o SubSeq(t, b + 1, c - 1) \o << t[c] >> = SubSeq(t, a + 1, c)
<1>1. SubSeq(t, a + 1, b) \o SubSeq(t, b + 1, c - 1) = SubSeq(t, a + 1, c - 1)
  <2>1. a + 1 \in 1..Len(t) + 1 /\ b \in ((a + 1) - 1)..Len(t) /\ c - 1 \in b..Len(t)
    OBVIOUS
  <2> QED  BY <2>1, ConcatAdjacentSubSeq
<1>2. SubSeq(t, a + 1, c) = SubSeq(t, a + 1, c - 1) \o << t[c] >>
  <2>1. a + 1 \in 1..Len(t) /\ c \in (a + 1)..Len(t)  OBVIOUS
  <2> QED  BY <2>1, SubSeqRecursiveSecond
<1> QED  BY <1>1, <1>2

\* The lines behind the i-th one, joined, are the text behind its end, with a newline.
Joined(lines, s, e, i) ==
    Join(SubSeq(lines, i + 1, Len(lines))) = SubSeq(Append(s, "NL"), e[i] + 1, e[Len(lines)])

\* Lines that follow each other, joined, are the text they came from, which ends
\* with a newline.
LEMMA JoinOfLines ==
    ASSUME NEW S, "NL" \in S, NEW s \in Seq(S), NEW p \in Seq(Seq(S)), NEW e,
           NEW lines \in Seq(Seq(S)), IsLines(s, e, p, lines), NEW i \in 0..Len(lines)
    PROVE  Joined(lines, s, e, i)
<1> DEFINE n == Len(p)
           m == Len(lines)
           t == Append(s, "NL")
           l == Len(s)
           after == SubSeq(lines, i + 1, m)
           g == [k \in 0..(m - i) |-> SubSeq(t, e[i] + 1, e[i + k])]
<1>1. /\ t \in Seq(S) /\ Len(t) = l + 1 /\ t[l + 1] = "NL" /\ l \in Nat
      /\ \A x \in 1..Len(s) : t[x] = s[x]
  OBVIOUS
<1>2. n \in Nat \ {0} /\ m \in Nat /\ m <= n
  <2>1. n \in Nat \ {0}  BY PiecesFacts DEF IsLines
  <2> QED  BY <2>1 DEF IsLines
<1>3. /\ \A k \in 0..n : e[k] \in 0..(l + 1)
      /\ \A j, k \in 0..n : j < k => e[j] < e[k]
      /\ \A k \in 1..n : p[k] = SubSeq(s, e[k - 1] + 1, e[k] - 1)
  BY DEF IsLines, Pieces
<1>4. \A k \in 1..n : t[e[k]] = "NL"
  <2>1. e[n] = l + 1 /\ \A k \in 1..(n - 1) : e[k] \in 1..Len(s) /\ s[e[k]] \in {"NL"}
    <3>1. Pieces(s, {"NL"}, e, p)  BY DEF IsLines
    <3> HIDE DEF t, g, after, l, m, n
    <3>2. e[Len(p)] = Len(s) + 1  BY <3>1 DEF Pieces
    <3>3. \A k \in 1..(Len(p) - 1) : e[k] \in 1..Len(s) /\ s[e[k]] \in {"NL"}
      BY <3>1, PiecesFacts
    <3> QED  BY <3>2, <3>3 DEF n, l
  <2> HIDE DEF t, n
  <2>2. ASSUME NEW k \in 1..n  PROVE t[e[k]] = "NL"
    <3>1. k = n \/ k \in 1..(n - 1)  BY <1>2
    <3> QED  BY <1>1, <2>1, <3>1
  <2> QED  BY <2>2
<1>5. \A k \in 1..m : lines[k] = p[k]  BY DEF IsLines
<1>6. /\ after \in Seq(Seq(S)) /\ Len(after) = m - i
      /\ \A k \in 1..(m - i) : after[k] = lines[i + k]
  <2>1. i + 1 \in Int /\ m \in Int /\ \A k \in (i + 1)..m : lines[k] \in Seq(S)  BY <1>2
  <2> HIDE DEF m
  <2>2. /\ SubSeq(lines, i + 1, m) \in Seq(Seq(S))
        /\ Len(SubSeq(lines, i + 1, m)) = IF i + 1 <= m THEN m - (i + 1) + 1 ELSE 0
        /\ \A k \in 1..(m - (i + 1) + 1) : SubSeq(lines, i + 1, m)[k] = lines[(i + 1) + k - 1]
    BY <2>1, SubSeqProperties
  <2>3. \A k \in Int : (i + 1) + k - 1 = i + k  OBVIOUS
  <2>4. m - (i + 1) + 1 = m - i /\ (~(i + 1 <= m) => m - i = 0)  BY <1>2 DEF m
  <2> QED  BY <2>2, <2>3, <2>4
<1> HIDE DEF n, m, t, l, after
<1>7. i \in 0..m  BY DEF m
<1>8. g \in [0..(m - i) -> Seq(S)]
  <2>1. ASSUME NEW k \in 0..(m - i)  PROVE SubSeq(t, e[i] + 1, e[i + k]) \in Seq(S)
    <3>1. i + k \in 0..n /\ i \in 0..n  BY <1>2, <1>7
    <3>2. e[i] + 1 \in Int /\ e[i + k] \in Int /\ \A x \in (e[i] + 1)..e[i + k] : t[x] \in S
      <4>1. e[i] \in 0..(l + 1) /\ e[i + k] \in 0..(l + 1)  BY <1>3, <3>1
      <4>2. \A x \in (e[i] + 1)..e[i + k] : x \in 1..(l + 1)  BY <1>1, <4>1
      <4> QED  BY <1>1, <4>1, <4>2
    <3> QED  BY <3>2, SubSeqProperties
  <2> QED  BY <2>1
<1>9. ASSUME NEW k \in 1..(m - i)  PROVE g[k] = g[k - 1] \o after[k] \o <<"NL">>
  <2> DEFINE a == e[i]
             b == e[i + (k - 1)]
             c == e[i + k]
  <2>1. i \in 0..n /\ i + (k - 1) \in 0..n /\ i + k \in 1..n /\ i + k \in 0..n
        /\ i + (k - 1) < i + k /\ (i + k) - 1 = i + (k - 1) /\ i + k \in 1..m
        /\ k - 1 \in 0..(m - i) /\ k \in 0..(m - i) /\ (i + (k - 1) = i \/ i < i + (k - 1))
    BY <1>2, <1>7
  <2>2. after[k] = SubSeq(s, b + 1, c - 1)
    <3>1. after[k] = lines[i + k] /\ lines[i + k] = p[i + k]  BY <1>5, <1>6, <2>1
    <3>2. p[i + k] = SubSeq(s, e[(i + k) - 1] + 1, e[i + k] - 1)  BY <1>3, <2>1
    <3> QED  BY <2>1, <3>1, <3>2
  <2>3. a \in 0..(l + 1) /\ b \in 0..(l + 1) /\ c \in 0..(l + 1) /\ a <= b /\ b < c
    <3>1. a = b \/ a < b  BY <1>3, <2>1
    <3> QED  BY <1>1, <1>3, <2>1, <3>1
  <2>4. t[c] = "NL"  BY <1>4, <2>1
  <2>5. g[k] = SubSeq(t, a + 1, c) /\ g[k - 1] = SubSeq(t, a + 1, b)  BY <2>1
  <2> HIDE DEF a, b, c, g
  <2>6. SubSeq(s, b + 1, c - 1) = SubSeq(t, b + 1, c - 1)
    <3>1. b \in Nat /\ c - 1 \in Int /\ c - 1 <= Len(s) /\ c - 1 <= Len(t)
      BY <1>1, <2>3 DEF l
    <3> QED  BY <1>1, <3>1, SameCut
  <2>7. a \in 0..Len(t) /\ b \in a..Len(t) /\ c \in 1..Len(t)  BY <1>1, <2>3
  <2>8. SubSeq(t, a + 1, b) \o SubSeq(t, b + 1, c - 1) \o << t[c] >> = SubSeq(t, a + 1, c)
    BY <1>1, <2>3, <2>7, JoinCut
  <2> QED  BY <2>2, <2>4, <2>5, <2>6, <2>8
<1>10. g[0] = <<>>
  <2>1. 0 \in 0..(m - i) /\ i + 0 = i /\ i \in 0..n  BY <1>2, <1>7
  <2>2. e[i] \in Int /\ e[i] < e[i] + 1 /\ e[i] + 1 \in Int  BY <1>1, <1>3, <2>1
  <2>3. SubSeq(t, e[i] + 1, e[i]) = <<>>  BY <2>2, SubSeqEmpty
  <2> QED  BY <2>1, <2>3
<1>11. g[m - i] = SubSeq(t, e[i] + 1, e[m])
  <2>1. m - i \in 0..(m - i) /\ i + (m - i) = m  BY <1>2, <1>7
  <2> QED  BY <2>1
<1> HIDE DEF g
<1>12. Joins(g, after)  BY <1>6, <1>9, <1>10 DEF Joins
<1>13. Join(after) = g[m - i]  BY <1>6, <1>8, <1>12, JoinIs
<1> QED  BY <1>11, <1>13 DEF after, t, m, Joined

\* The body is what is joined behind the first line that ends the headers.
LEMMA BodyIs ==
    ASSUME NEW S, "NL" \in S, NEW lines \in Seq(Seq(S)),
           NEW u \in Seq(S), Join(lines) = u, lines # <<>> => u # <<>>, lines = <<>> => u = <<>>
    PROVE  Body(lines) = SubSeq(u, 1, Len(u) - 1)
<1>1. CASE lines = <<>>
  <2>1. SubSeq(<<>>, 1, 0 - 1) = <<>> /\ Len(<<>>) = 0  OBVIOUS
  <2> QED  BY <1>1, <2>1 DEF Body
<1>2. CASE lines # <<>>  BY <1>2 DEF Body, Front
<1> QED  BY <1>1, <1>2

\* The body when the headers end with line i.
LEMMA BodyOfLines ==
    ASSUME NEW S, "NL" \in S, NEW s \in Seq(S), NEW p \in Seq(Seq(S)), NEW e,
           NEW lines \in Seq(Seq(S)), IsLines(s, e, p, lines),
           NEW i \in 1..Len(lines), i < Len(p)
    PROVE  LET rest == SubSeq(s, e[i] + 1, Len(s)) IN
           Body(SubSeq(lines, i + 1, Len(lines)))
               = IF rest # <<>> /\ Last(rest) = "NL" THEN Front(rest) ELSE rest
<1> DEFINE n == Len(p)
           m == Len(lines)
           t == Append(s, "NL")
           l == Len(s)
           after == SubSeq(lines, i + 1, m)
           u == SubSeq(t, e[i] + 1, e[m])
           rest == SubSeq(s, e[i] + 1, l)
<1>1. /\ t \in Seq(S) /\ Len(t) = l + 1 /\ t[l + 1] = "NL" /\ l \in Nat
      /\ \A x \in 1..Len(s) : t[x] = s[x]
  OBVIOUS
<1>2. Pieces(s, {"NL"}, e, p)  BY DEF IsLines
<1>3. /\ \A k \in 0..(Len(p) - 1) : e[k] \in 0..Len(s) /\ e[k] < e[k + 1]
      /\ \A k \in 1..Len(p) : e[k] \in 1..(Len(s) + 1) /\ e[k - 1] < e[k]
      /\ \A k \in 1..(Len(p) - 1) : e[k] \in 1..Len(s) /\ s[e[k]] \in {"NL"}
  BY <1>2, PiecesFacts
<1>4. n \in Nat /\ m \in Nat /\ e[n] = l + 1 /\ i \in 1..m /\ i < n
      /\ \A j, k \in 0..n : j < k => e[j] < e[k]
  BY <1>2 DEF Pieces
<1>5. (m = n /\ p[n] # <<>>) \/ (m = n - 1 /\ e[m] = l)  BY DEF IsLines
<1>6. Join(after) = u
  <2>1. i \in 0..Len(lines)  BY <1>4
  <2>2. Joined(lines, s, e, i)  BY <2>1, JoinOfLines
  <2> QED  BY <2>2 DEF Joined
<1>7. after \in Seq(Seq(S)) /\ (after = <<>> <=> i = m)
  <2>1. after \in Seq(Seq(S)) /\ Len(after) = m - i
    <3>1. i + 1 \in Int /\ m \in Int /\ \A k \in (i + 1)..m : lines[k] \in Seq(S)  BY <1>4
    <3> HIDE DEF m
    <3>2. /\ SubSeq(lines, i + 1, m) \in Seq(Seq(S))
          /\ Len(SubSeq(lines, i + 1, m)) = IF i + 1 <= m THEN m - (i + 1) + 1 ELSE 0
      BY <3>1, SubSeqProperties
    <3> QED  BY <1>4, <3>2
  <2> HIDE DEF after
  <2> QED  BY <1>4, <2>1
<1>8. p[n] = SubSeq(s, e[n - 1] + 1, e[n] - 1)
  <2>1. n \in 1..n  BY <1>4
  <2> QED  BY <1>2, <2>1 DEF Pieces
<1> HIDE DEF n, m, t, l, after
<1> DEFINE a == e[i]
           b == e[m]
<1>9. a \in 1..l /\ m \in 1..n /\ b \in 1..(l + 1) /\ a <= b /\ (i = m <=> a = b)
  <2>1. i \in 1..(n - 1) /\ m \in 1..n /\ m \in 0..n /\ i \in 0..n /\ (i = m \/ i < m)
    BY <1>4, <1>5
  <2>2. a \in 1..l /\ b \in 1..(l + 1)  BY <1>3, <2>1 DEF n, l
  <2>3. i < m => a < b  BY <1>4, <2>1
  <2> HIDE DEF a, b
  <2>4. i = m => a = b  BY DEF a, b
  <2>5. l \in Nat  BY <1>1
  <2> QED  BY <2>1, <2>2, <2>3, <2>4, <2>5
<1>10. /\ u \in Seq(S) /\ Len(u) = b - a
       /\ \A x \in 1..(b - a) : u[x] = t[a + x]
       /\ u = <<>> <=> a = b
  <2> HIDE DEF a, b
  <2>1. a \in 0..Len(t) /\ b \in a..Len(t)  BY <1>1, <1>9
  <2>2. IsCut(SubSeq(t, a + 1, b), S, t, a, b)  BY <1>1, <2>1, CutOut
  <2>3. u = SubSeq(t, a + 1, b)  BY DEF u, a, b
  <2> QED  BY <2>2, <2>3 DEF IsCut
<1>13. /\ rest \in Seq(S) /\ Len(rest) = l - a
       /\ \A x \in 1..(l - a) : rest[x] = s[a + x]
       /\ rest = <<>> <=> a = l
  <2> HIDE DEF a, b
  <2>1. a \in 0..Len(s) /\ Len(s) \in a..Len(s) /\ Len(s) = l  BY <1>1, <1>9 DEF l
  <2>2. IsCut(SubSeq(s, a + 1, Len(s)), S, s, a, Len(s))  BY <2>1, CutOut
  <2>3. rest = SubSeq(s, a + 1, Len(s))  BY DEF rest, a, l
  <2> QED  BY <2>1, <2>2, <2>3 DEF IsCut
<1> HIDE DEF u, rest, a, b
<1>12. Body(after) = SubSeq(u, 1, Len(u) - 1)
  BY <1>6, <1>7, <1>9, <1>10, BodyIs
<1>16. rest # <<>> => Last(rest) = s[l]
  <2> SUFFICES ASSUME rest # <<>> PROVE Last(rest) = s[l]  OBVIOUS
  <2>1. Len(rest) \in 1..(l - a) /\ a + Len(rest) = l  BY <1>1, <1>9, <1>13
  <2> QED  BY <1>13, <2>1 DEF Last
<1>14. CASE m = n /\ p[n] # <<>>
  <2> DEFINE d == l - a
  <2>0. d \in Nat /\ b = l + 1 /\ Len(u) = d + 1 /\ Len(rest) = d /\ b - a = d + 1
    <3>1. b = l + 1  BY <1>4, <1>14 DEF b
    <3>2. d \in Nat /\ (l + 1) - a = d + 1  BY <1>1, <1>9
    <3>3. Len(u) = b - a /\ Len(rest) = l - a  BY <1>10, <1>13
    <3> QED  BY <3>1, <3>2, <3>3
  <2>1. SubSeq(u, 1, Len(u) - 1) = rest
    <3>3. \A x \in 1..d : u[x] = rest[x]
      <4>1. \A x \in 1..d : a + x \in 1..l /\ x \in 1..(d + 1)
        BY <1>1, <1>9
      <4>2. \A x \in 1..d : u[x] = t[a + x]  BY <1>10, <2>0, <4>1
      <4>3. \A x \in 1..d : rest[x] = s[a + x]  BY <1>13
      <4>4. \A y \in 1..l : t[y] = s[y]  BY <1>1 DEF l
      <4> HIDE DEF d, l
      <4> QED  BY <4>1, <4>2, <4>3, <4>4
    <3> HIDE DEF d
    <3>4. u # <<>> /\ (d + 1) - 1 = d  BY <1>10, <2>0
    <3>5. /\ Front(u) \in Seq(S) /\ Len(Front(u)) = Len(u) - 1
          /\ \A x \in 1..(Len(u) - 1) : Front(u)[x] = u[x]
      BY <1>10, <3>4, FrontIs
    <3>7. Len(Front(u)) = Len(rest) /\ \A x \in 1..Len(Front(u)) : Front(u)[x] = rest[x]
      BY <2>0, <3>3, <3>4, <3>5
    <3>8. Front(u) = rest  BY <1>13, <3>5, <3>7, SeqEqual
    <3> QED  BY <3>8 DEF Front
  <2>2. ~(rest # <<>> /\ Last(rest) = "NL")
    <3> SUFFICES ASSUME rest # <<>> PROVE Last(rest) # "NL"  OBVIOUS
    <3>3. e[n - 1] < l /\ e[n - 1] \in 0..l
      <4>1. n - 1 \in 0..(n - 1)  BY <1>4
      <4>2. e[n - 1] \in 0..l  BY <1>3, <4>1 DEF n, l
      <4>3. e[n - 1] # l
        <5> SUFFICES ASSUME e[n - 1] = l PROVE FALSE  OBVIOUS
        <5>1. (l + 1) - 1 = l /\ l < l + 1 /\ l \in Int /\ l + 1 \in Int  BY <1>1
        <5>2. SubSeq(s, l + 1, l) = <<>>  BY <5>1, SubSeqEmpty
        <5> QED  BY <1>4, <1>8, <1>14, <5>1, <5>2
      <4> QED  BY <1>1, <4>2, <4>3
    <3>4. n \in 1..n /\ l \in (e[n - 1] + 1)..(e[n] - 1)  BY <1>1, <1>4, <3>3
    <3>5. s[l] \notin {"NL"}  BY <1>2, <3>4, NoneBetween DEF n, l
    <3> QED  BY <1>16, <3>5
  <2> QED  BY <1>12, <2>1, <2>2 DEF after, m, rest, l, a
<1>15. CASE m = n - 1 /\ e[m] = l
  <2>0. b = l  BY <1>15 DEF b
  <2>1. Len(u) = Len(rest)  BY <1>10, <1>13, <2>0
  <2>2. \A x \in 1..Len(u) : u[x] = rest[x]
    <3>1. \A x \in 1..(l - a) : a + x \in 1..l  BY <1>1, <1>9
    <3> QED  BY <1>1, <1>10, <1>13, <2>0, <3>1 DEF l
  <2>3. u = rest  BY <1>10, <1>13, <2>1, <2>2, SeqEqual
  <2>4. CASE rest = <<>>
    <3>1. SubSeq(<<>>, 1, 0 - 1) = <<>> /\ Len(<<>>) = 0  OBVIOUS
    <3> QED  BY <1>12, <2>3, <2>4, <3>1 DEF after, m, rest, l, a
  <2>5. CASE rest # <<>>
    <3>3. m \in 1..(n - 1)  BY <1>9, <1>15
    <3>4. s[e[m]] = "NL"  BY <1>3, <3>3 DEF n
    <3>5. Body(after) = Front(rest)  BY <1>12, <2>3 DEF Front
    <3> QED  BY <1>15, <1>16, <2>5, <3>4, <3>5 DEF after, m, rest, l, a
  <2> QED  BY <2>4, <2>5
<1> QED  BY <1>5, <1>14, <1>15

\* The body of a text over any alphabet is kept.
LEMMA BodyKept ==
    ASSUME NEW S, "NL" \in S, text \in Seq(S)
    PROVE  BodyIsKept
<1> DEFINE lines == Lines(text)
           m == Len(lines)
           l == Len(text)
           T == {i \in 2..m : StripCR(lines[i]) = <<>>} \cup {m + 1}
           T2 == {i \in 1..l : EndsHeaders(i)} \cup {l}
           body == SubSeq(text, BodyStart, l)
<1>1. lines \in Seq(Seq(S)) /\ \E e, p : p \in Seq(Seq(S)) /\ IsLines(text, e, p, lines)
  BY LinesAre
<1>2. PICK e, p : p \in Seq(Seq(S)) /\ IsLines(text, e, p, lines)  BY <1>1
<1>3. Pieces(text, {"NL"}, e, p) /\ (\A k \in 1..m : lines[k] = p[k])
  BY <1>2 DEF IsLines
<1> DEFINE n == Len(p)
<1>4. n \in Nat \ {0} /\ m \in Nat /\ l \in Nat /\ (m = n \/ m = n - 1)
  <2>1. m \in Nat /\ l \in Nat  BY <1>1
  <2>2. n \in Nat \ {0}  BY <1>2, <1>3, PiecesFacts
  <2> QED  BY <1>2, <2>1, <2>2 DEF IsLines
<1>5. HeaderEnd(lines) = Min(T) /\ BodyStart = Min(T2) + 1
  BY DEF HeaderEnd, BodyStart
<1>6. Parse(text).body = Body(SubSeq(lines, HeaderEnd(lines) + 1, m))
  BY DEF Parse
<1>7. Min(T) \in T /\ \A j \in T : Min(T) <= j
  <2>1. T \in SUBSET Nat /\ T # {}  BY <1>4
  <2> HIDE DEF T
  <2> QED  BY <2>1, MinIs
<1>8. T2 \in SUBSET Nat /\ l \in T2  BY <1>4
<1>9. /\ \A j, k \in 0..n : j < k => e[j] < e[k]
      /\ \A i \in 1..l : text[i] = "NL" => \E k \in 1..(n - 1) : e[k] = i
      /\ \A k \in 1..(n - 1) : e[k] \in 1..l
      /\ \A k \in 1..(n - 1) : EndsHeaders(e[k]) <=> k # 1 /\ StripCR(p[k]) = <<>>
  <2>1. \A j, k \in 0..n : j < k => e[j] < e[k]  BY <1>3 DEF Pieces
  <2>2. \A i \in 1..l : text[i] = "NL" => \E k \in 1..(n - 1) : e[k] = i
    BY <1>3 DEF Pieces
  <2>3. \A k \in 1..(n - 1) : e[k] \in 1..l  BY <1>2, <1>3, PiecesFacts
  <2>4. \A k \in 1..(n - 1) : EndsHeaders(e[k]) <=> k # 1 /\ StripCR(p[k]) = <<>>
    BY <1>2, <1>3, EndOfHeaders
  <2> QED  BY <2>1, <2>2, <2>3, <2>4
<1> DEFINE k0 == Min(T)
<1>10. CASE \E k \in 2..m : k <= n - 1 /\ StripCR(lines[k]) = <<>>
  <2>1. k0 \in 2..m /\ k0 <= n - 1 /\ StripCR(lines[k0]) = <<>>
    <3>1. PICK k \in 2..m : k <= n - 1 /\ StripCR(lines[k]) = <<>>  BY <1>10
    <3>2. k0 <= k /\ k0 \in T  BY <1>7, <3>1
    <3> HIDE DEF k0
    <3>3. k0 \in Nat  BY <1>4, <3>2
    <3>4. k0 # m + 1  BY <1>4, <3>1, <3>2, <3>3
    <3> QED  BY <1>4, <3>1, <3>2, <3>4
  <2>2. \A k \in 2..m : StripCR(lines[k]) = <<>> => k0 <= k  BY <1>7
  <2> HIDE DEF T, k0
  <2>3. k0 \in 1..(n - 1) /\ k0 # 1 /\ k0 \in 1..m /\ k0 < n /\ k0 \in 0..n
    BY <1>4, <2>1
  <2>4. StripCR(p[k0]) = <<>>  BY <1>3, <2>1, <2>3
  <2>5. e[k0] \in 1..l /\ EndsHeaders(e[k0])  BY <1>9, <2>3, <2>4
  <2>6. e[k0] \in T2  BY <2>5
  <2>7. ASSUME NEW j \in T2  PROVE e[k0] <= j
    <3>1. CASE j = l  BY <1>4, <2>5, <3>1
    <3>2. CASE j # l
      <4>1. j \in 1..l /\ EndsHeaders(j)  BY <3>2
      <4>2. text[j] = "NL"  BY <4>1 DEF EndsHeaders
      <4>3. PICK k \in 1..(n - 1) : e[k] = j  BY <1>9, <4>1, <4>2
      <4>4. k # 1 /\ StripCR(p[k]) = <<>>  BY <1>9, <4>1, <4>3
      <4>5. k \in 2..m /\ k \in 1..m /\ k \in 0..n  BY <1>4, <4>4
      <4>6. k0 <= k  BY <1>3, <2>2, <4>4, <4>5
      <4>7. k0 = k \/ k0 < k  BY <2>3, <4>6
      <4>8. k0 < k => e[k0] < e[k]  BY <1>9, <2>3, <4>5
      <4> QED  BY <2>5, <4>1, <4>3, <4>7, <4>8
    <3> QED  BY <3>1, <3>2
  <2> HIDE DEF T2
  <2>8. Min(T2) = e[k0]
    <3> DEFINE x == e[k0]
    <3>1. x \in T2 /\ \A j \in T2 : x <= j  BY <2>6, <2>7
    <3> HIDE DEF x
    <3>2. Min(T2) = x  BY <1>8, <3>1, MinEquals
    <3> QED  BY <3>2 DEF x
  <2>9. LET rest == SubSeq(text, e[k0] + 1, Len(text)) IN
        Body(SubSeq(lines, k0 + 1, Len(lines)))
            = IF rest # <<>> /\ Last(rest) = "NL" THEN Front(rest) ELSE rest
    <3> HIDE DEF lines
    <3>1. k0 \in 1..Len(lines) /\ k0 < Len(p)  BY <2>3
    <3> QED  BY <1>1, <1>2, <3>1, BodyOfLines
  <2>10. HeaderEnd(lines) = k0  BY <1>5 DEF k0
  <2> QED  BY <1>5, <1>6, <2>8, <2>9, <2>10 DEF BodyIsKept
<1>11. CASE ~\E k \in 2..m : k <= n - 1 /\ StripCR(lines[k]) = <<>>
  <2>1. k0 \in Nat /\ k0 >= m
    <3>1. k0 = m + 1 \/ (k0 \in 2..m /\ StripCR(lines[k0]) = <<>>)  BY <1>7
    <3> HIDE DEF k0
    <3> QED  BY <1>4, <1>11, <3>1
  <2>2. HeaderEnd(lines) = k0  BY <1>5
  <2>3. Body(SubSeq(lines, k0 + 1, m)) = <<>>
    <3> HIDE DEF k0, lines
    <3>1. k0 + 1 \in Int /\ m \in Int /\ m < k0 + 1  BY <1>4, <2>1
    <3>2. SubSeq(lines, k0 + 1, m) = <<>>  BY <3>1, SubSeqEmpty
    <3> QED  BY <3>2 DEF Body
  <2>4. ASSUME NEW j \in T2  PROVE j = l
    <3> SUFFICES ASSUME j # l PROVE FALSE  OBVIOUS
    <3>1. j \in 1..l /\ EndsHeaders(j)  OBVIOUS
    <3>2. text[j] = "NL"  BY <3>1 DEF EndsHeaders
    <3>3. PICK k \in 1..(n - 1) : e[k] = j  BY <1>9, <3>1, <3>2
    <3>4. k # 1 /\ StripCR(p[k]) = <<>>  BY <1>9, <3>1, <3>3
    <3>5. k \in 2..m /\ k \in 1..m /\ k <= n - 1  BY <1>4, <3>4
    <3> QED  BY <1>3, <1>11, <3>4, <3>5
  <2> HIDE DEF T2
  <2>5. Min(T2) = l
    <3> HIDE DEF l
    <3>1. l \in T2 /\ \A j \in T2 : l <= j  BY <1>4, <1>8, <2>4
    <3> QED  BY <1>8, <3>1, MinEquals
  <2>6. SubSeq(text, BodyStart, l) = <<>>
    <3>1. l + 1 \in Int /\ l \in Int /\ l < l + 1  BY <1>4
    <3> HIDE DEF l
    <3>2. SubSeq(text, l + 1, l) = <<>>  BY <3>1, SubSeqEmpty
    <3> QED  BY <1>5, <2>5, <3>2
  <2> QED  BY <1>6, <2>2, <2>3, <2>6 DEF BodyIsKept
<1> QED  BY <1>10, <1>11

\* The text typed is over its alphabet.
TextType == text \in Seq(alphabet)

\* The text typed is over its alphabet: every text the small programs
\* are given is.
THEOREM TextIsTyped == TextSpec => []TextType
<1>1. TextInit => TextType  BY DEF TextInit, TextType
<1>2. TextType /\ [TextNext]_textVars => TextType'
  BY DEF TextType, TextNext, Type, textVars
<1> QED  BY <1>1, <1>2, PTL DEF TextSpec

\* What HttpRequestParser::parse keeps as the body is what follows the first line
\* that ends the headers, but for one final newline, for a text of any length over
\* any alphabet: joining the lines of getline again undoes the splitting.
THEOREM BodyCorrect == TextSpec => []BodyIsKept
<1>1. TextType => BodyIsKept
  <2> DEFINE S == alphabet \cup {"NL"}
  <2>1. ASSUME TextType  PROVE "NL" \in S /\ text \in Seq(S)
    BY <2>1 DEF TextType
  <2> HIDE DEF S
  <2> QED  BY <2>1, BodyKept
<1> QED  BY <1>1, TextIsTyped, PTL

-------------------------------------------------------------------------------
(* Words of a line *)

\* A part of a part.
LEMMA CutOfCut ==
    ASSUME NEW S, NEW s \in Seq(S), NEW a \in 0..Len(s), NEW b \in a..Len(s),
           NEW c \in 0..(b - a), NEW d \in c..(b - a)
    PROVE  SubSeq(SubSeq(s, a + 1, b), c + 1, d) = SubSeq(s, a + c + 1, a + d)
<1> DEFINE u == SubSeq(s, a + 1, b)
           v == SubSeq(u, c + 1, d)
           w == SubSeq(s, (a + c) + 1, a + d)
<1>1. Len(s) \in Nat  OBVIOUS
<1>2. IsCut(u, S, s, a, b)  BY CutOut
<1> HIDE DEF u
<1>3. u \in Seq(S) /\ Len(u) = b - a /\ \A x \in 1..(b - a) : u[x] = s[a + x]
  BY <1>2 DEF IsCut
<1>4. IsCut(v, S, u, c, d)
  <2>1. c \in 0..Len(u) /\ d \in c..Len(u)  BY <1>3
  <2> QED  BY <1>3, <2>1, CutOut
<1>5. IsCut(w, S, s, a + c, a + d)
  <2>1. a + c \in 0..Len(s) /\ a + d \in (a + c)..Len(s)  BY <1>1
  <2> QED  BY <2>1, CutOut
<1> HIDE DEF v, w
<1>6. /\ v \in Seq(S) /\ Len(v) = d - c /\ \A x \in 1..(d - c) : v[x] = u[c + x]
      /\ w \in Seq(S) /\ Len(w) = (a + d) - (a + c)
      /\ \A x \in 1..((a + d) - (a + c)) : w[x] = s[(a + c) + x]
  BY <1>4, <1>5 DEF IsCut
<1>7. (a + d) - (a + c) = d - c  BY <1>1
<1>8. ASSUME NEW x \in 1..(d - c)  PROVE v[x] = w[x]
  <2>1. c + x \in 1..(b - a) /\ a + (c + x) = (a + c) + x  BY <1>1
  <2> QED  BY <1>3, <1>6, <1>7, <2>1
<1>9. v = w  BY <1>6, <1>7, <1>8, SeqEqual
<1> QED  BY <1>9 DEF u, v, w

\* C begins in s behind b.
EndsAt(s, C, b) == UpTo(s, C) = SubSeq(s, 1, b)

\* UpTo ends before the first character of C.
LEMMA UpToIs ==
    ASSUME NEW S, NEW C, NEW s \in Seq(S), NEW b \in 0..Len(s),
           \A x \in 1..b : s[x] \notin C, b = Len(s) \/ s[b + 1] \in C
    PROVE  EndsAt(s, C, b)
<1> DEFINE T == {i \in 1..Len(s) : s[i] \in C} \cup {Len(s) + 1}
<1>1. T \in SUBSET Nat /\ b + 1 \in T /\ \A j \in T : b + 1 <= j
  <2>1. Len(s) \in Nat  OBVIOUS
  <2>2. T \in SUBSET Nat /\ b + 1 \in T  BY <2>1
  <2>3. ASSUME NEW j \in T  PROVE b + 1 <= j
    <3>1. j \in Nat /\ j \notin 1..b /\ j # 0  BY <2>1
    <3> QED  BY <3>1
  <2> QED  BY <2>2, <2>3
<1>2. UpTo(s, C) = SubSeq(s, 1, Min(T) - 1)  BY DEF UpTo
<1> HIDE DEF T
<1>3. Min(T) = b + 1  BY <1>1, MinEquals
<1>4. (b + 1) - 1 = b  OBVIOUS
<1> QED  BY <1>2, <1>3, <1>4 DEF EndsAt

\* What is not in C begins in s behind a.
BeginsAt(s, C, a) == EraseLeading(s, C) = SubSeq(s, a + 1, Len(s))

\* EraseLeading cuts off the characters of C.
LEMMA EraseLeadingIs ==
    ASSUME NEW S, NEW C, NEW s \in Seq(S), NEW a \in 0..Len(s),
           \A x \in 1..a : s[x] \in C, a = Len(s) \/ s[a + 1] \notin C
    PROVE  BeginsAt(s, C, a)
<1> SUFFICES EraseLeading(s, C) = SubSeq(s, a + 1, Len(s))  BY DEF BeginsAt
<1> DEFINE T == {i \in 1..Len(s) : s[i] \notin C}
<1>0. Len(s) \in Nat  OBVIOUS
<1>1. FirstNotOf(s, C) = IF T # {} THEN Min(T) ELSE 0
  BY DEF FirstNotOf, SelectInSeq
<1>2. CASE a = Len(s)
  <2>1. T = {}  BY <1>2
  <2>2. Len(s) < Len(s) + 1 /\ Len(s) \in Int /\ Len(s) + 1 \in Int  BY <1>0
  <2>3. SubSeq(s, Len(s) + 1, Len(s)) = <<>>  BY <2>2, SubSeqEmpty
  <2> QED  BY <1>1, <1>2, <2>1, <2>3 DEF EraseLeading
<1>3. CASE a # Len(s)
  <2>1. a + 1 \in T /\ T \in SUBSET Nat  BY <1>0, <1>3
  <2>2. ASSUME NEW j \in T  PROVE a + 1 <= j
    <3>1. j \in Nat /\ j # 0 /\ j \notin 1..a  BY <1>0
    <3> QED  BY <3>1
  <2> HIDE DEF T
  <2>3. Min(T) = a + 1  BY <2>1, <2>2, MinEquals
  <2>4. FirstNotOf(s, C) = a + 1 /\ a + 1 # 0  BY <1>1, <2>1, <2>3
  <2> QED  BY <2>4 DEF EraseLeading
<1> QED  BY <1>2, <1>3

\* The word that stands at b, up to c, behind blanks that begin at a.
IsWord(s, C, a, b, c) ==
    /\ \A x \in (a + 1)..b : s[x] \in C
    /\ \A x \in (b + 1)..c : s[x] \notin C
    /\ c = Len(s) \/ s[c + 1] \in C
    /\ b = c => b = Len(s)

\* The word that follows position a.
NextWordOf(s, C, a) == UpTo(EraseLeading(SubSeq(s, a + 1, Len(s)), C), C)
\* That word is s behind b, up to c.
ReadsNext(s, C, a, b, c) == NextWordOf(s, C, a) = SubSeq(s, b + 1, c)

\* There is a next word, with its place in the text.
LEMMA NextWord ==
    ASSUME NEW S, NEW C, NEW s \in Seq(S), NEW a \in 0..Len(s), NEW b \in a..Len(s),
           NEW c \in b..Len(s), IsWord(s, C, a, b, c)
    PROVE  ReadsNext(s, C, a, b, c)
<1> DEFINE n == Len(s)
           u == SubSeq(s, a + 1, n)
           v == SubSeq(u, (b - a) + 1, n - a)
<1>1. n \in Nat /\ a \in Nat /\ b \in Nat /\ c \in Nat /\ a <= b /\ b <= c /\ c <= n
  OBVIOUS
<1>2. IsCut(u, S, s, a, n)
  <2>1. a \in 0..Len(s) /\ Len(s) \in a..Len(s)  OBVIOUS
  <2> QED  BY <2>1, CutOut
<1>3. v = SubSeq(s, b + 1, n)
  <2>1. a \in 0..Len(s) /\ n \in a..Len(s) /\ b - a \in 0..(n - a) /\ n - a \in (b - a)..(n - a)
    BY <1>1
  <2> HIDE DEF n
  <2>2. SubSeq(SubSeq(s, a + 1, n), (b - a) + 1, n - a) = SubSeq(s, a + (b - a) + 1, a + (n - a))
    BY <2>1, CutOfCut
  <2>3. a + (b - a) + 1 = b + 1 /\ a + (n - a) = n  BY <1>1
  <2> QED  BY <2>2, <2>3
<1>4. IsCut(SubSeq(s, b + 1, n), S, s, b, n)
  <2>1. b \in 0..Len(s) /\ Len(s) \in b..Len(s)  OBVIOUS
  <2> QED  BY <2>1, CutOut
<1>5. SubSeq(SubSeq(s, b + 1, n), 1, c - b) = SubSeq(s, b + 1, c)
  <2>1. b \in 0..Len(s) /\ n \in b..Len(s) /\ 0 \in 0..(n - b) /\ c - b \in 0..(n - b)
    BY <1>1
  <2> HIDE DEF n
  <2>2. SubSeq(SubSeq(s, b + 1, n), 0 + 1, c - b) = SubSeq(s, b + 0 + 1, b + (c - b))
    BY <2>1, CutOfCut
  <2>3. 0 + 1 = 1 /\ b + 0 + 1 = b + 1 /\ b + (c - b) = c  BY <1>1
  <2> QED  BY <2>2, <2>3
<1>6. /\ \A x \in (a + 1)..b : s[x] \in C
      /\ \A x \in (b + 1)..c : s[x] \notin C
      /\ c = n \/ s[c + 1] \in C
      /\ b = c => b = n
  BY DEF IsWord
<1> HIDE DEF u, v, n
<1>7. EraseLeading(u, C) = v
  <2>1. u \in Seq(S) /\ Len(u) = n - a /\ \A x \in 1..(n - a) : u[x] = s[a + x]
    BY <1>2 DEF IsCut
  <2>2. b - a \in 0..Len(u)  BY <1>1, <2>1
  <2>3. ASSUME NEW x \in 1..(b - a)  PROVE u[x] \in C
    <3>1. x \in 1..(n - a) /\ a + x \in (a + 1)..b  BY <1>1
    <3> QED  BY <1>6, <2>1, <3>1
  <2>4. b - a = Len(u) \/ u[(b - a) + 1] \notin C
    <3>1. CASE b = n  BY <2>1, <3>1
    <3>2. CASE b # n
      <4>1. b + 1 \in (b + 1)..c /\ (b - a) + 1 \in 1..(n - a) /\ a + ((b - a) + 1) = b + 1
        BY <1>1, <1>6, <3>2
      <4> QED  BY <1>6, <2>1, <4>1
    <3> QED  BY <3>1, <3>2
  <2> DEFINE k == b - a
  <2>5. k \in 0..Len(u) /\ (\A x \in 1..k : u[x] \in C) /\ (k = Len(u) \/ u[k + 1] \notin C)
    BY <2>2, <2>3, <2>4
  <2> HIDE DEF k
  <2>6. BeginsAt(u, C, k)  BY <2>1, <2>5, EraseLeadingIs
  <2> QED  BY <2>1, <2>6 DEF v, k, BeginsAt
<1>8. UpTo(v, C) = SubSeq(v, 1, c - b)
  <2>1. v \in Seq(S) /\ Len(v) = n - b /\ \A x \in 1..(n - b) : v[x] = s[b + x]
    BY <1>3, <1>4 DEF IsCut
  <2>2. c - b \in 0..Len(v)  BY <1>1, <2>1
  <2>3. ASSUME NEW x \in 1..(c - b)  PROVE v[x] \notin C
    <3>1. x \in 1..(n - b) /\ b + x \in (b + 1)..c  BY <1>1
    <3> QED  BY <1>6, <2>1, <3>1
  <2>4. c - b = Len(v) \/ v[(c - b) + 1] \in C
    <3>1. CASE c = n  BY <2>1, <3>1
    <3>2. CASE c # n
      <4>1. (c - b) + 1 \in 1..(n - b) /\ b + ((c - b) + 1) = c + 1
        BY <1>1, <3>2
      <4> QED  BY <1>6, <2>1, <3>2, <4>1
    <3> QED  BY <3>1, <3>2
  <2> DEFINE d == c - b
  <2>5. d \in 0..Len(v) /\ (\A x \in 1..d : v[x] \notin C) /\ (d = Len(v) \/ v[d + 1] \in C)
    BY <2>2, <2>3, <2>4
  <2>6. v \in Seq(S)  BY <2>1
  <2> HIDE DEF d
  <2>7. EndsAt(v, C, d)  BY <2>5, <2>6, UpToIs
  <2> QED  BY <2>7 DEF d, EndsAt
<1> QED  BY <1>3, <1>5, <1>7, <1>8 DEF u, n, NextWordOf, ReadsNext

\* What Words has taken of the first i pieces is g[i].
AddWord(words, w) == IF w = <<>> THEN words ELSE Append(words, w)
\* The words taken of the first i pieces are g[i].
Taken(g, q) ==
    g[0] = <<>> /\ \A i \in 1..Len(q) : g[i] = AddWord(g[i - 1], q[i])

\* Words takes the pieces that are not empty, from left to right.
LEMMA WordsAre ==
    ASSUME NEW S, NEW line \in Seq(S)
    PROVE  \E g \in [0..Len(Split(line, Blanks)) -> Seq(Seq(S))] :
              /\ Taken(g, Split(line, Blanks))
              /\ Words(line) = g[Len(Split(line, Blanks))]
<1> DEFINE q == Split(line, Blanks)
           n == Len(q)
           A == Seq(Seq(S))
           a == <<>>
           step == [i \in 1..n |-> [v \in A |-> AddWord(v, q[i])]]
<1>0. q \in Seq(Seq(S))  BY SplitType DEF Parted
<1>6. Words(line) = FoldLeft(LAMBDA words, w : IF w = <<>> THEN words ELSE Append(words, w),
                             <<>>, q)
  BY DEF Words
<1> HIDE DEF q
<1>1. n \in Nat /\ a \in A /\ DOMAIN q = 1..n  BY <1>0
<1>2. step \in StepFunctions(n, A)
  <2>1. ASSUME NEW i \in 1..n, NEW v \in A  PROVE AddWord(v, q[i]) \in A
    <3>1. q[i] \in Seq(S)  BY <1>0
    <3> QED  BY <3>1 DEF AddWord
  <2> QED  BY <2>1 DEF StepFunctions
<1> DEFINE Is(h) == h = [t \in SUBSET DOMAIN q |->
                           IF t = {} THEN a
                           ELSE LET x == Max(t) IN AddWord(h[t \ {x}], q[x])]
<1>4. \E h : Is(h)
  <2> HIDE DEF a, A, step, n
  <2>1. PICK h \in [SUBSET (1..n) -> A] : Fold(h, n, a, step)
    BY <1>1, <1>2, FoldExists
  <2>2. ASSUME NEW t \in SUBSET (1..n), t # {}
        PROVE  step[Max(t)][h[t \ {Max(t)}]] = AddWord(h[t \ {Max(t)}], q[Max(t)])
    <3>1. t \in SUBSET (0..n)  OBVIOUS
    <3>2. Max(t) \in 1..n  BY <1>1, <2>2, <3>1, MaxIs
    <3> QED  BY <3>2 DEF step
  <2>3. h = [t \in SUBSET (1..n) |->
               IF t = {} THEN a ELSE AddWord(h[t \ {Max(t)}], q[Max(t)])]
    BY <2>1, <2>2 DEF Fold
  <2> QED  BY <1>1, <2>3
<1> DEFINE h == CHOOSE h : Is(h)
<1>5. Is(h)  BY <1>4
<1>16. Words(line) = h[DOMAIN q]
  BY <1>6 DEF FoldLeft, MapThenFoldSet, AddWord
<1> HIDE DEF h
<1>7. h[{}] = a  BY <1>5
<1>8. ASSUME NEW i \in 1..n, h[1..(i - 1)] \in A  PROVE h[1..i] = step[i][h[1..(i - 1)]]
  <2>2. /\ 1..i \in SUBSET (1..n) /\ 1..i # {} /\ Max(1..i) = i
        /\ (1..i) \ {i} = 1..(i - 1)
    BY <1>1, FoldGoesOn
  <2>3. h[1..i] = AddWord(h[(1..i) \ {Max(1..i)}], q[Max(1..i)])
    BY <1>1, <1>5, <2>2
  <2> QED  BY <1>8, <2>2, <2>3
<1> HIDE DEF a, A, step, n
<1>9. PICK g \in [0..n -> A] : Recursion(g, n, a, step)  BY <1>1, <1>2, RecursionUpTo
<1>10. h[1..n] = g[n]
  <2>1. FoldSteps(h, n, A, step)  BY <1>8 DEF FoldSteps
  <2> QED  BY <1>1, <1>2, <1>7, <1>9, <2>1, FoldIs
<1>11. ASSUME NEW i \in 1..n  PROVE g[i] = AddWord(g[i - 1], q[i])
  <2>1. g[i] = step[i][g[i - 1]]  BY <1>9 DEF Recursion
  <2>2. i - 1 \in 0..n  BY <1>1
  <2>3. g[i - 1] \in A  BY <2>2
  <2> QED  BY <2>1, <2>3 DEF step
<1>12. Taken(g, q)  BY <1>9, <1>11 DEF Taken, Recursion, a, n
<1> QED  BY <1>1, <1>9, <1>10, <1>12, <1>16 DEF q, n, A

\* The pieces q behind the i-th one, up to the k-th one, are empty.
NoneIn(q, i, k) == \A x \in (i + 1)..k : q[x] = <<>>

\* Empty pieces give no word.
LEMMA NothingTaken ==
    ASSUME NEW S, NEW q \in Seq(Seq(S)), NEW g \in [0..Len(q) -> Seq(Seq(S))], Taken(g, q),
           NEW i \in 0..Len(q), NEW k \in i..Len(q), NoneIn(q, i, k)
    PROVE  g[k] = g[i]
<1> DEFINE T == {x \in 0..(k - i) : g[i + x] = g[i]}
<1>1. Len(q) \in Nat /\ k - i \in Nat /\ i + (k - i) = k /\ i + 0 = i  OBVIOUS
<1>2. 0 \in T  BY <1>1
<1>3. ASSUME NEW x \in 0..(k - i - 1), x \in T  PROVE x + 1 \in T
  <2>1. i + (x + 1) \in (i + 1)..k /\ i + (x + 1) \in 1..Len(q) /\ (i + (x + 1)) - 1 = i + x
        /\ x + 1 \in 0..(k - i)
    BY <1>1
  <2>2. g[i + (x + 1)] = AddWord(g[i + x], q[i + (x + 1)])  BY <2>1 DEF Taken
  <2>3. g[i + (x + 1)] = g[i]  BY <1>3, <2>1, <2>2 DEF AddWord, NoneIn
  <2> QED  BY <2>1, <2>3
<1> HIDE DEF T
<1>4. 0..(k - i) \subseteq T
  <2> DEFINE n == k - i
  <2>1. n \in Nat /\ 0 \in T /\ \A x \in 0..(n - 1) : x \in T => x + 1 \in T  BY <1>1, <1>2, <1>3
  <2> HIDE DEF n
  <2>2. 0..n \subseteq T  BY <2>1, InductionUpTo
  <2> QED  BY <2>2 DEF n
<1>5. k - i \in T  BY <1>1, <1>4
<1> QED  BY <1>1, <1>5 DEF T

\* v begins with u.
Begins(u, v) == Len(u) <= Len(v) /\ \A w \in 1..Len(u) : v[w] = u[w]

\* Words that were taken stay.
LEMMA TakenStay ==
    ASSUME NEW S, NEW q \in Seq(Seq(S)), NEW g \in [0..Len(q) -> Seq(Seq(S))], Taken(g, q),
           NEW i \in 0..Len(q), NEW k \in i..Len(q)
    PROVE  Begins(g[i], g[k])
<1> DEFINE Good(x) == Len(g[i]) <= Len(g[i + x]) /\ \A w \in 1..Len(g[i]) : g[i + x][w] = g[i][w]
           T == {x \in 0..(k - i) : Good(x)}
<1>1. Len(q) \in Nat /\ k - i \in Nat /\ i + (k - i) = k /\ i + 0 = i  OBVIOUS
<1>2. Good(0)  BY <1>1
<1>3. ASSUME NEW x \in 0..(k - i - 1), Good(x)  PROVE Good(x + 1)
  <2>1. i + (x + 1) \in 1..Len(q) /\ (i + (x + 1)) - 1 = i + x /\ i + x \in 0..Len(q)
    BY <1>1
  <2>2. g[i + (x + 1)] = AddWord(g[i + x], q[i + (x + 1)])  BY <2>1 DEF Taken
  <2>3. g[i + x] \in Seq(Seq(S)) /\ q[i + (x + 1)] \in Seq(S) /\ g[i] \in Seq(Seq(S))
    <3> DEFINE y == i + x
               z == i + (x + 1)
    <3>1. y \in 0..Len(q) /\ z \in 1..Len(q)  BY <2>1
    <3> HIDE DEF y, z
    <3> HIDE DEF Good
    <3>2. g[y] \in Seq(Seq(S))  BY <3>1
    <3>3. q[z] \in Seq(S)  BY <3>1
    <3>4. g[i] \in Seq(Seq(S))  OBVIOUS
    <3> QED  BY <3>2, <3>3, <3>4 DEF y, z
  <2> DEFINE v == g[i + x]
             w == q[i + (x + 1)]
             u == Append(v, w)
  <2>4. Len(u) = Len(v) + 1 /\ Len(v) \in Nat /\ \A y \in 1..Len(v) : u[y] = v[y]
    <3> HIDE DEF v, w
    <3> QED  BY <2>3 DEF v, w
  <2> HIDE DEF u
  <2>5. Len(g[i]) \in Nat  BY <2>3
  <2>6. Len(g[i]) <= Len(u) /\ \A y \in 1..Len(g[i]) : u[y] = g[i][y]  BY <1>3, <2>4, <2>5
  <2>7. g[i + (x + 1)] = v \/ g[i + (x + 1)] = u  BY <2>2 DEF AddWord, u
  <2> HIDE DEF v
  <2>8. CASE g[i + (x + 1)] = v  BY <1>3, <2>8 DEF v
  <2>9. CASE g[i + (x + 1)] = u  BY <2>6, <2>9
  <2> QED  BY <2>7, <2>8, <2>9
<1> HIDE DEF Good
<1>4. 0..(k - i) \subseteq T
  <2> DEFINE n == k - i
  <2>1. n \in Nat /\ 0 \in T  BY <1>1, <1>2
  <2>2. ASSUME NEW x \in 0..(n - 1), x \in T  PROVE x + 1 \in T
    <3>1. x + 1 \in 0..(k - i)  BY <1>1
    <3> QED  BY <1>3, <2>2, <3>1
  <2> HIDE DEF n, T
  <2>3. 0..n \subseteq T  BY <2>1, <2>2, InductionUpTo
  <2> QED  BY <2>3 DEF n
<1>5. k - i \in T  BY <1>1, <1>4
<1> QED  BY <1>1, <1>5 DEF T, Good, Begins

\* The characters of s behind position a, up to b, are in C.
AllIn(s, C, a, b) == \A x \in (a + 1)..b : s[x] \in C

\* The piece that f ends at k lies behind a, up to b.
Within(f, k, a, b) == f[k - 1] >= a /\ f[k] - 1 <= b

\* Pieces among blanks are empty.
LEMMA EmptyPieces ==
    ASSUME NEW S, NEW C, NEW s \in Seq(S), NEW q \in Seq(Seq(S)), NEW f, Pieces(s, C, f, q),
           NEW a \in Int, NEW b \in Int, AllIn(s, C, a, b),
           NEW k \in 1..Len(q), Within(f, k, a, b)
    PROVE  q[k] = <<>>
<1> SUFFICES ASSUME q[k] # <<>> PROVE FALSE  OBVIOUS
<1>1. q[k] = SubSeq(s, f[k - 1] + 1, f[k] - 1)  BY DEF Pieces
<1>2. f[k] \in Int /\ f[k - 1] \in Int
  <2>1. f \in [0..Len(q) -> 0..(Len(s) + 1)] /\ Len(q) \in Nat /\ Len(s) \in Nat  BY DEF Pieces
  <2>2. k - 1 \in 0..Len(q) /\ k \in 0..Len(q)  BY <2>1
  <2>3. f[k] \in 0..(Len(s) + 1) /\ f[k - 1] \in 0..(Len(s) + 1)  BY <2>1, <2>2
  <2> QED  BY <2>1, <2>3
<1>3. f[k - 1] + 1 <= f[k] - 1
  <2> SUFFICES ASSUME ~(f[k - 1] + 1 <= f[k] - 1) PROVE FALSE  OBVIOUS
  <2> DEFINE x == f[k - 1] + 1
             y == f[k] - 1
  <2>1. x \in Int /\ y \in Int /\ y < x
    <3>1. x \in Int /\ y \in Int /\ ~(x <= y)  BY <1>2
    <3> HIDE DEF x, y
    <3> QED  BY <3>1
  <2> HIDE DEF x, y
  <2>2. SubSeq(s, x, y) = <<>>  BY <2>1, SubSeqEmpty
  <2> QED  BY <1>1, <2>2 DEF x, y
<1> DEFINE x == f[k - 1]
           y == f[k]
           i == x + 1
<1>4. x \in Int /\ y \in Int /\ x >= a /\ y - 1 <= b /\ x + 1 <= y - 1
  BY <1>2, <1>3 DEF Within
<1>5. i \in (a + 1)..b /\ i \in (f[k - 1] + 1)..(f[k] - 1)
  <2> HIDE DEF x, y
  <2>1. i \in (a + 1)..b /\ i \in (x + 1)..(y - 1)  BY <1>4
  <2> QED  BY <2>1 DEF x, y
<1> HIDE DEF i
<1>6. s[i] \notin C  BY <1>5, NoneBetween
<1> QED  BY <1>5, <1>6 DEF AllIn

\* The j-th piece is the one behind b, up to c.
IsPiece(s, f, q, j, b, c) == f[j - 1] = b /\ f[j] = c + 1 /\ q[j] = SubSeq(s, b + 1, c)

\* A piece ends at or behind a.
EndsBehind(s, C, a, b) == a = 0 \/ s[a] \in C \/ a < b

\* The piece that a word is.
LEMMA PieceOfWord ==
    ASSUME NEW S, NEW C, NEW s \in Seq(S), NEW q \in Seq(Seq(S)), NEW f, Pieces(s, C, f, q),
           NEW a \in 0..Len(s), NEW b \in a..Len(s), NEW c \in b..Len(s), IsWord(s, C, a, b, c),
           b < c, EndsBehind(s, C, a, b)
    PROVE  \E j \in 1..Len(q) : IsPiece(s, f, q, j, b, c)
<1> DEFINE n == Len(q)
           l == Len(s)
<1>1. /\ f \in [0..n -> 0..(l + 1)] /\ f[0] = 0 /\ f[n] = l + 1
      /\ \A j, k \in 0..n : j < k => f[j] < f[k]
      /\ \A k \in 1..n : q[k] = SubSeq(s, f[k - 1] + 1, f[k] - 1)
      /\ \A k \in 1..(n - 1) : s[f[k]] \in C
      /\ \A i \in 1..l : s[i] \in C => \E k \in 1..(n - 1) : f[k] = i
  BY DEF Pieces
<1>2. n \in Nat \ {0} /\ l \in Nat
  <2>1. Len(q) \in Nat \ {0}  BY PiecesFacts
  <2> QED  BY <2>1
<1>3. /\ \A x \in (a + 1)..b : s[x] \in C
      /\ \A x \in (b + 1)..c : s[x] \notin C
      /\ c = l \/ s[c + 1] \in C
  BY DEF IsWord
<1>4. a \in 0..l /\ b \in a..l /\ c \in b..l  OBVIOUS
<1> HIDE DEF n, l
<1>5. \E k \in 0..(n - 1) : f[k] = b
  <2>1. CASE b = 0
    <3>1. 0 \in 0..(n - 1)  BY <1>2
    <3> QED  BY <1>1, <2>1, <3>1
  <2>2. CASE b # 0
    <3>1. b \in 1..l  BY <1>2, <1>4, <2>2
    <3>2. s[b] \in C
      <4>1. a < b \/ a = b  BY <1>2, <1>4
      <4>2. a < b => b \in (a + 1)..b  BY <1>2, <1>4
      <4> QED  BY <1>3, <2>2, <4>1, <4>2 DEF EndsBehind
    <3>3. PICK k \in 1..(n - 1) : f[k] = b  BY <1>1, <3>1, <3>2
    <3>4. k \in 0..(n - 1)  BY <1>2
    <3> QED  BY <3>3, <3>4
  <2> QED  BY <2>1, <2>2
<1>6. PICK i \in 0..(n - 1) : f[i] = b  BY <1>5
<1>7. \E k \in 1..n : f[k] = c + 1
  <2>1. CASE c = l
    <3>1. n \in 1..n  BY <1>2
    <3> QED  BY <1>1, <2>1, <3>1
  <2>2. CASE c # l
    <3>1. c + 1 \in 1..l /\ s[c + 1] \in C  BY <1>2, <1>3, <1>4, <2>2
    <3> DEFINE d == c + 1
    <3>2. d \in 1..l /\ s[d] \in C  BY <3>1
    <3> HIDE DEF d
    <3>3. PICK k \in 1..(n - 1) : f[k] = d  BY <1>1, <3>2
    <3>4. k \in 1..n  BY <1>2
    <3> QED  BY <3>3, <3>4 DEF d
  <2> QED  BY <2>1, <2>2
<1>8. PICK k \in 1..n : f[k] = c + 1  BY <1>7
<1>9. i \in 0..n /\ k \in 0..n /\ i + 1 \in 1..n /\ (i + 1) - 1 = i /\ i + 1 \in 0..n
  BY <1>2
<1> DEFINE j == i + 1
<1>10. j \in 1..n /\ j - 1 = i /\ j \in 0..n  BY <1>9
<1> HIDE DEF j
<1>11. k = j
  <2>1. f[i] < f[k]  BY <1>2, <1>4, <1>6, <1>8
  <2>2. i < k
    <3>1. k < i => f[k] < f[i]  BY <1>1, <1>9
    <3>2. k # i
      <4> SUFFICES ASSUME k = i PROVE FALSE  OBVIOUS
      <4>1. f[k] = f[i]  OBVIOUS
      <4>2. c + 1 = b  BY <1>6, <1>8, <4>1
      <4> QED  BY <1>2, <1>4, <4>2
    <3>3. ~(k < i)
      <4> SUFFICES ASSUME k < i PROVE FALSE  OBVIOUS
      <4>1. c + 1 < b  BY <1>6, <1>8, <3>1
      <4> QED  BY <1>2, <1>4, <4>1
    <3> QED  BY <1>2, <1>9, <3>2, <3>3
  <2>3. j = k \/ j < k  BY <1>2, <1>9, <1>10, <2>2
  <2>4. ASSUME j < k  PROVE FALSE
    <3>1. f[i] < f[j] /\ f[j] < f[k]
      <4>1. i < j  BY <1>2, <1>9, <1>10
      <4> QED  BY <1>1, <1>9, <1>10, <2>4, <4>1
    <3>2. f[j] \in 0..(l + 1)  BY <1>1, <1>10
    <3> DEFINE x == f[j]
    <3>3. x \in (b + 1)..c  BY <1>2, <1>4, <1>6, <1>8, <3>1, <3>2
    <3>4. j \in 1..(n - 1)  BY <1>2, <1>10, <2>4
    <3>5. s[x] \in C  BY <1>1, <3>4
    <3> HIDE DEF x
    <3> QED  BY <1>3, <3>3, <3>5
  <2> QED  BY <2>3, <2>4
<1>12. q[j] = SubSeq(s, b + 1, c)
  <2>1. q[j] = SubSeq(s, f[j - 1] + 1, f[j] - 1)  BY <1>1, <1>10
  <2>2. (c + 1) - 1 = c  BY <1>2, <1>4
  <2> QED  BY <1>6, <1>8, <1>10, <1>11, <2>1, <2>2
<1> QED  BY <1>6, <1>8, <1>10, <1>11, <1>12 DEF n, IsPiece

\* The ends of the pieces rise.
LEMMA PiecesRise ==
    ASSUME NEW S, NEW C, NEW s \in Seq(S), NEW q \in Seq(Seq(S)), NEW f, Pieces(s, C, f, q),
           NEW j \in 0..Len(q), NEW k \in 0..Len(q)
    PROVE  (j <= k <=> f[j] <= f[k]) /\ f[j] \in 0..(Len(s) + 1)
<1> DEFINE n == Len(q)
           l == Len(s)
<1>1. /\ f \in [0..n -> 0..(l + 1)]
      /\ \A x, y \in 0..n : x < y => f[x] < f[y]
      /\ n \in Nat /\ l \in Nat /\ j \in 0..n /\ k \in 0..n
  BY DEF Pieces
<1> HIDE DEF n, l
<1>2. f[j] \in 0..(l + 1) /\ f[k] \in 0..(l + 1) /\ (j < k => f[j] < f[k]) /\ (k < j => f[k] < f[j])
  BY <1>1
<1>3. j = k => f[j] = f[k]  OBVIOUS
<1>4. j < k \/ j = k \/ k < j  BY <1>1
<1> QED  BY <1>1, <1>2, <1>3, <1>4 DEF l

\* A piece that is not empty is a word.
LEMMA WordExists ==
    ASSUME NEW S, NEW C, NEW s \in Seq(S), NEW a \in 0..Len(s)
    PROVE  \E b \in a..Len(s) : \E c \in b..Len(s) : IsWord(s, C, a, b, c)
<1> DEFINE l == Len(s)
           T == {i \in (a + 1)..l : s[i] \notin C} \cup {l + 1}
           b == Min(T) - 1
           U == {i \in (b + 1)..l : s[i] \in C} \cup {l + 1}
           c == Min(U) - 1
<1>1. l \in Nat /\ a \in 0..l  OBVIOUS
<1> HIDE DEF l
<1>2. Min(T) \in T /\ \A j \in T : Min(T) <= j
  <2>1. T \in SUBSET Nat /\ T # {}  BY <1>1
  <2> HIDE DEF T
  <2> QED  BY <2>1, MinIs
<1>3. b \in a..l /\ (b = l \/ s[b + 1] \notin C) /\ b + 1 = Min(T)  BY <1>1, <1>2
<1>4. \A x \in (a + 1)..b : s[x] \in C
  <2> SUFFICES ASSUME NEW x \in (a + 1)..b, s[x] \notin C PROVE FALSE  OBVIOUS
  <2>1. x \in (a + 1)..l /\ x < b + 1  BY <1>1, <1>3
  <2>2. x \in T  BY <2>1
  <2> HIDE DEF b, T
  <2> QED  BY <1>2, <1>3, <2>1, <2>2
<1> HIDE DEF b
<1>5. Min(U) \in U /\ \A j \in U : Min(U) <= j
  <2>1. U \in SUBSET Nat /\ U # {}  BY <1>1, <1>3
  <2> HIDE DEF U
  <2> QED  BY <2>1, MinIs
<1>6. c \in b..l /\ (c = l \/ s[c + 1] \in C) /\ c + 1 = Min(U)  BY <1>1, <1>3, <1>5
<1>7. \A x \in (b + 1)..c : s[x] \notin C
  <2> SUFFICES ASSUME NEW x \in (b + 1)..c, s[x] \in C PROVE FALSE  OBVIOUS
  <2>1. x \in (b + 1)..l /\ x < c + 1  BY <1>1, <1>3, <1>6
  <2>2. x \in U  BY <2>1
  <2> HIDE DEF c, U
  <2> QED  BY <1>5, <1>6, <2>1, <2>2
<1> HIDE DEF c
<1>8. b = c => b = l  BY <1>3, <1>6
<1>9. IsWord(s, C, a, b, c)  BY <1>4, <1>6, <1>7, <1>8 DEF IsWord, l
<1> QED  BY <1>3, <1>6, <1>9 DEF l

\* v has the word w behind those of u.
OneMore(u, v, w) == Len(v) = Len(u) + 1 /\ v[Len(u) + 1] = w

\* The word of a piece behind empty ones.
LEMMA TakesWord ==
    ASSUME NEW S, NEW q \in Seq(Seq(S)), NEW g \in [0..Len(q) -> Seq(Seq(S))], Taken(g, q),
           NEW i \in 0..Len(q), NEW j \in 1..Len(q), i < j,
           NoneIn(q, i, j - 1), q[j] # <<>>
    PROVE  OneMore(g[i], g[j], q[j]) /\ Begins(g[j], g[Len(q)])
<1> DEFINE m == j - 1
<1>1. m \in i..Len(q) /\ m \in 0..Len(q) /\ j \in 0..Len(q) /\ Len(q) \in j..Len(q)  OBVIOUS
<1>2. NoneIn(q, i, m)  OBVIOUS
<1>3. g[j] = AddWord(g[m], q[j])  BY DEF Taken
<1> HIDE DEF m
<1>4. g[m] = g[i]  BY <1>1, <1>2, NothingTaken
<1>5. g[j] = Append(g[i], q[j])  BY <1>3, <1>4 DEF AddWord
<1>6. g[i] \in Seq(Seq(S)) /\ q[j] \in Seq(S)
  <2>1. g[i] \in Seq(Seq(S))  OBVIOUS
  <2>2. q[j] \in Seq(S)  OBVIOUS
  <2> QED  BY <2>1, <2>2
<1> DEFINE v == g[i]
           w == q[j]
<1>7. v \in Seq(Seq(S)) /\ w \in Seq(S)  BY <1>6
<1>8. g[j] = Append(v, w)  BY <1>5
<1> HIDE DEF v, w
<1>9. Len(g[j]) = Len(v) + 1 /\ g[j][Len(v) + 1] = w  BY <1>7, <1>8
<1>10. Begins(g[j], g[Len(q)])  BY <1>1, TakenStay
<1> QED  BY <1>9, <1>10 DEF v, w, OneMore

\* operator>> reads the word behind b, up to c, and the next one.
ReadsWords(s, b, c) ==
    /\ Word(s, 1) = SubSeq(s, b + 1, c)
    /\ b < c => Word(s, 2) = NextWordOf(s, Blanks, c)

\* The first two words of a line, where they stand in it.
LEMMA FirstWords ==
    ASSUME NEW S, NEW s \in Seq(S), NEW b \in 0..Len(s), NEW c \in b..Len(s),
           IsWord(s, Blanks, 0, b, c)
    PROVE  ReadsWords(s, b, c)
<1> SUFFICES /\ Word(s, 1) = SubSeq(s, b + 1, c)
             /\ b < c => Word(s, 2) = NextWordOf(s, Blanks, c)
  BY DEF ReadsWords
<1> DEFINE l == Len(s)
           q == Split(s, Blanks)
           n == Len(q)
<1>1. PICK g \in [0..n -> Seq(Seq(S))] : Taken(g, q) /\ Words(s) = g[n]
  BY WordsAre
<1>2. PICK f : Pieces(s, Blanks, f, q)  BY SplitPieces
<1>3. q \in Seq(Seq(S))  BY SplitType DEF Parted
<1>4. l \in Nat /\ b \in 0..l /\ c \in b..l  OBVIOUS
<1> HIDE DEF q
<1>5. n \in Nat /\ f[n] = l + 1 /\ f[0] = 0
  BY <1>2, <1>3 DEF Pieces
<1>6. \A j, k \in 0..n : (j <= k <=> f[j] <= f[k]) /\ f[j] \in 0..(l + 1)
  BY <1>2, <1>3, PiecesRise
<1>7. g[0] = <<>>  BY <1>1 DEF Taken
<1>20. ASSUME NEW x \in 0..l, NEW y \in 0..l, AllIn(s, Blanks, x, y),
              NEW k \in 1..n, f[k - 1] >= x, f[k] <= y + 1
       PROVE  q[k] = <<>>
  <2>1. k \in 0..n  BY <1>5
  <2>2. f[k] \in 0..(l + 1)  BY <1>6, <2>1
  <2>3. Within(f, k, x, y)  BY <1>4, <1>20, <2>2 DEF Within
  <2>4. x \in Int /\ y \in Int  BY <1>4
  <2> HIDE DEF l
  <2> QED  BY <1>2, <1>3, <1>20, <2>3, <2>4, EmptyPieces
<1>8. CASE b = c
  <2>1. b = l /\ AllIn(s, Blanks, 0, b)  BY <1>8 DEF IsWord, AllIn
  <2>2. ASSUME NEW k \in 1..n  PROVE q[k] = <<>>
    <3>1. k - 1 \in 0..n /\ k \in 0..n  BY <1>5
    <3>2. f[k - 1] \in 0..(l + 1) /\ f[k] \in 0..(l + 1)  BY <1>6, <3>1
    <3>3. f[k - 1] >= 0 /\ f[k] <= b + 1 /\ 0 \in 0..l  BY <1>4, <2>1, <3>2
    <3> QED  BY <1>4, <1>20, <2>1, <3>3
  <2>3. g[n] = g[0]
    <3>1. 0 \in 0..n /\ n \in 0..n /\ NoneIn(q, 0, n)
      <4>1. \A x \in (0 + 1)..n : x \in 1..n  BY <1>5
      <4> QED  BY <1>5, <2>2, <4>1 DEF NoneIn
    <3> QED  BY <1>1, <1>3, <3>1, NothingTaken
  <2>4. Words(s) = <<>>  BY <1>1, <1>7, <2>3
  <2>5. Word(s, 1) = <<>>  BY <2>4 DEF Word
  <2>6. SubSeq(s, b + 1, c) = <<>>
    <3>1. b + 1 \in Int /\ b \in Int /\ b < b + 1  BY <1>4
    <3> QED  BY <1>8, <3>1, SubSeqEmpty
  <2>7. ~(b < c)  BY <1>4, <1>8
  <2> QED  BY <2>5, <2>6, <2>7
<1>9. CASE b < c
  <2>1. 0 \in 0..l /\ b \in 0..l /\ c \in b..l /\ EndsBehind(s, Blanks, 0, b)
    BY <1>4 DEF EndsBehind
  <2>20. PICK j \in 1..n : IsPiece(s, f, q, j, b, c)
    BY <1>2, <1>3, <1>9, <2>1, PieceOfWord
  <2>2. f[j - 1] = b /\ f[j] = c + 1 /\ q[j] = SubSeq(s, b + 1, c)
    BY <2>20 DEF IsPiece
  <2>3. j \in 0..n /\ j - 1 \in 0..n /\ 0 \in 0..n /\ 0 < j  BY <1>5
  <2>4. q[j] # <<>>
    <3>1. IsCut(SubSeq(s, b + 1, c), S, s, b, c)  BY CutOut
    <3>2. b # c  BY <1>4, <1>9
    <3> QED  BY <2>2, <3>1, <3>2 DEF IsCut
  <2>5. ASSUME NEW k \in (0 + 1)..(j - 1)  PROVE q[k] = <<>>
    <3>1. k \in 1..n /\ k \in 0..n /\ k - 1 \in 0..n /\ k <= j - 1  BY <1>5
    <3>2. f[k] <= b /\ f[k - 1] \in 0..(l + 1) /\ f[k] \in 0..(l + 1)  BY <1>6, <2>2, <2>3, <3>1
    <3>3. f[k - 1] >= 0 /\ f[k] <= b + 1 /\ 0 \in 0..l  BY <1>4, <3>2
    <3>4. AllIn(s, Blanks, 0, b)  BY DEF IsWord, AllIn
    <3> QED  BY <1>4, <1>20, <3>1, <3>3, <3>4
  <2>17. NoneIn(q, 0, j - 1)  BY <2>5 DEF NoneIn
  <2>6. OneMore(g[0], g[j], q[j]) /\ Begins(g[j], g[n])
    BY <1>1, <1>3, <2>3, <2>4, <2>17, TakesWord
  <2>7. Len(g[0]) = 0 /\ 0 + 1 = 1  BY <1>7
  <2>8. Len(g[j]) = 1 /\ g[j][1] = q[j] /\ 1 \in 1..Len(g[j])  BY <2>6, <2>7 DEF OneMore
  <2>9. 1 <= Len(g[n]) /\ g[n][1] = q[j]  BY <2>6, <2>8 DEF Begins
  <2>10. Word(s, 1) = SubSeq(s, b + 1, c)  BY <1>1, <2>2, <2>9 DEF Word
  <2>11. c \in 0..l  BY <1>4
  <2>12. PICK b2 \in c..l : \E c2 \in b2..l : IsWord(s, Blanks, c, b2, c2)
    BY <2>11, WordExists
  <2>13. PICK c2 \in b2..l : IsWord(s, Blanks, c, b2, c2)  BY <2>12
  <2>14. NextWordOf(s, Blanks, c) = SubSeq(s, b2 + 1, c2)
    <3>1. c \in 0..Len(s) /\ b2 \in c..Len(s) /\ c2 \in b2..Len(s)  BY <2>11
    <3> HIDE DEF l
    <3>2. ReadsNext(s, Blanks, c, b2, c2)  BY <2>13, <3>1, NextWord
    <3> QED  BY <3>2 DEF ReadsNext
  <2>15. CASE b2 = c2
    <3>1. b2 = l /\ AllIn(s, Blanks, c, b2)  BY <2>13, <2>15 DEF IsWord, AllIn
    <3>2. ASSUME NEW k \in (j + 1)..n  PROVE q[k] = <<>>
      <4>1. k \in 1..n /\ k \in 0..n /\ k - 1 \in 0..n /\ j <= k - 1  BY <1>5, <2>3
      <4>2. c + 1 <= f[k - 1] /\ f[k - 1] \in 0..(l + 1) /\ f[k] \in 0..(l + 1)
        BY <1>6, <2>2, <2>3, <4>1
      <4>3. f[k - 1] >= c /\ f[k] <= b2 + 1 /\ b2 \in 0..l  BY <1>4, <3>1, <4>2
      <4> QED  BY <1>20, <2>11, <3>1, <4>1, <4>3
    <3>3. g[n] = g[j]
      <4>1. n \in j..n /\ NoneIn(q, j, n)  BY <1>5, <2>3, <3>2 DEF NoneIn
      <4> QED  BY <1>1, <1>3, <2>3, <4>1, NothingTaken
    <3>4. Word(s, 2) = <<>>  BY <1>1, <2>8, <3>3 DEF Word
    <3>5. SubSeq(s, b2 + 1, c2) = <<>>
      <4>1. l + 1 \in Int /\ l \in Int /\ l < l + 1  BY <1>4
      <4> HIDE DEF l
      <4>2. SubSeq(s, l + 1, l) = <<>>  BY <4>1, SubSeqEmpty
      <4> QED  BY <2>15, <3>1, <4>2
    <3> QED  BY <2>10, <2>14, <3>4, <3>5
  <2>16. CASE b2 # c2
    <3>1. b2 < c2 /\ c < b2
      <4>1. /\ \A x \in (b2 + 1)..c2 : s[x] \notin Blanks
        BY <2>13 DEF IsWord
      <4>2. c = l \/ s[c + 1] \in Blanks  BY DEF IsWord
      <4> HIDE DEF l
      <4>3. b2 < c2 /\ c < l  BY <1>4, <2>16
      <4>4. b2 # c
        <5> SUFFICES ASSUME b2 = c PROVE FALSE  OBVIOUS
        <5>1. c + 1 \in (b2 + 1)..c2  BY <1>4, <4>3
        <5> QED  BY <1>4, <4>1, <4>2, <4>3, <5>1
      <4> QED  BY <1>4, <4>3, <4>4
    <3>20. PICK j2 \in 1..n : IsPiece(s, f, q, j2, b2, c2)
      <4>1. EndsBehind(s, Blanks, c, b2)  BY <3>1 DEF EndsBehind
      <4> QED  BY <1>2, <1>3, <2>11, <2>13, <3>1, <4>1, PieceOfWord
    <3>2. f[j2 - 1] = b2 /\ f[j2] = c2 + 1 /\ q[j2] = SubSeq(s, b2 + 1, c2)
      BY <3>20 DEF IsPiece
    <3>3. j2 \in 0..n /\ j2 - 1 \in 0..n /\ j < j2
      <4>1. j2 \in 0..n /\ j2 - 1 \in 0..n  BY <1>5
      <4>2. f[j] <= f[j2 - 1]  BY <1>4, <2>2, <3>1, <3>2
      <4>3. j <= j2 - 1  BY <1>6, <2>3, <4>1, <4>2
      <4> QED  BY <1>5, <4>1, <4>3
    <3>4. q[j2] # <<>>
      <4>1. b2 \in 0..Len(s) /\ c2 \in b2..Len(s)  BY <1>4
      <4>2. IsCut(SubSeq(s, b2 + 1, c2), S, s, b2, c2)  BY <4>1, CutOut
      <4> QED  BY <2>16, <3>2, <4>2 DEF IsCut
    <3>5. ASSUME NEW k \in (j + 1)..(j2 - 1)  PROVE q[k] = <<>>
      <4>1. k \in 1..n /\ k \in 0..n /\ k - 1 \in 0..n /\ k <= j2 - 1 /\ j <= k - 1
        BY <1>5, <2>3, <3>3
      <4>2. f[k] <= b2 /\ c + 1 <= f[k - 1] /\ f[k - 1] \in 0..(l + 1) /\ f[k] \in 0..(l + 1)
        <5>1. f[k] <= f[j2 - 1] /\ f[j] <= f[k - 1]
          <6>1. /\ k \in 0..n /\ j2 - 1 \in 0..n /\ j \in 0..n /\ k - 1 \in 0..n
                /\ k <= j2 - 1 /\ j <= k - 1
            BY <2>3, <3>3, <4>1
          <6> QED  BY <1>6, <6>1
        <5>2. f[k - 1] \in 0..(l + 1) /\ f[k] \in 0..(l + 1)  BY <1>6, <4>1
        <5> QED  BY <2>2, <3>2, <5>1, <5>2
      <4>3. f[k - 1] >= c /\ f[k] <= b2 + 1 /\ b2 \in 0..l  BY <1>4, <4>2
      <4>4. AllIn(s, Blanks, c, b2)  BY <2>13 DEF IsWord, AllIn
      <4> QED  BY <1>20, <2>11, <4>1, <4>3, <4>4
    <3>10. NoneIn(q, j, j2 - 1)  BY <3>5 DEF NoneIn
    <3>6. OneMore(g[j], g[j2], q[j2]) /\ Begins(g[j2], g[n])
      BY <1>1, <1>3, <2>3, <3>3, <3>4, <3>10, TakesWord
    <3>7. Len(g[j2]) = 2 /\ g[j2][2] = q[j2] /\ 2 \in 1..Len(g[j2])
      BY <2>8, <3>6 DEF OneMore
    <3>8. 2 <= Len(g[n]) /\ g[n][2] = q[j2]  BY <3>6, <3>7 DEF Begins
    <3>9. Word(s, 2) = q[j2]  BY <1>1, <3>8 DEF Word
    <3> QED  BY <2>10, <2>14, <3>2, <3>9
  <2> QED  BY <2>15, <2>16
<1> QED  BY <1>4, <1>8, <1>9

-------------------------------------------------------------------------------
(* Words of a text *)

\* C begins in s behind a at b.
UpToPart(s, C, a, b) == UpTo(SubSeq(s, a + 1, Len(s)), C) = SubSeq(s, a + 1, b)

\* UpTo inside a line of a text ends where it does in the text.
LEMMA UpToInside ==
    ASSUME NEW S, NEW C, NEW s \in Seq(S), NEW a \in 0..Len(s), NEW b \in a..Len(s),
           \A x \in (a + 1)..b : s[x] \notin C, b = Len(s) \/ s[b + 1] \in C
    PROVE  UpToPart(s, C, a, b)
<1> DEFINE n == Len(s)
           u == SubSeq(s, a + 1, n)
           d == b - a
<1>1. n \in Nat /\ a \in Nat /\ b \in Nat /\ a <= b /\ b <= n /\ d \in 0..(n - a)
  OBVIOUS
<1>2. IsCut(u, S, s, a, n)
  <2>1. a \in 0..Len(s) /\ Len(s) \in a..Len(s)  OBVIOUS
  <2> QED  BY <2>1, CutOut
<1>3. SubSeq(u, 1, d) = SubSeq(s, a + 1, b)
  <2>1. a \in 0..Len(s) /\ n \in a..Len(s) /\ 0 \in 0..(n - a) /\ d \in 0..(n - a)
    BY <1>1
  <2>3. 0 + 1 = 1 /\ a + 0 + 1 = a + 1 /\ a + d = b  BY <1>1
  <2> HIDE DEF n, d
  <2>2. SubSeq(SubSeq(s, a + 1, n), 0 + 1, d) = SubSeq(s, a + 0 + 1, a + d)
    BY <2>1, CutOfCut
  <2> QED  BY <2>2, <2>3
<1> HIDE DEF u, n
<1>4. u \in Seq(S) /\ Len(u) = n - a /\ \A x \in 1..(n - a) : u[x] = s[a + x]
  BY <1>2 DEF IsCut
<1>5. \A x \in 1..d : u[x] \notin C
  <2>1. \A x \in 1..d : x \in 1..(n - a) /\ a + x \in (a + 1)..b  BY <1>1
  <2> QED  BY <1>4, <2>1
<1>6. d = Len(u) \/ u[d + 1] \in C
  <2>1. CASE b = n  BY <1>4, <2>1
  <2>2. CASE b # n
    <3>1. d + 1 \in 1..(n - a) /\ a + (d + 1) = b + 1  BY <1>1, <2>2
    <3> QED  BY <1>4, <2>2, <3>1 DEF n
  <2> QED  BY <2>1, <2>2
<1>7. d \in 0..Len(u)  BY <1>1, <1>4
<1> HIDE DEF d
<1>8. EndsAt(u, C, d)  BY <1>4, <1>5, <1>6, <1>7, UpToIs
<1> QED  BY <1>3, <1>8 DEF u, n, UpToPart, EndsAt

\* The word at i is the first one of its line, and what is left of the line begins
\* with the second one.
ReadsLine(s, line, i) ==
    LET word == UpTo(SubSeq(s, i, Len(s)), Blanks)
        rest == UpTo(SubSeq(s, i + Len(word), Len(s)), {"NL"}) IN
    /\ word # <<>> /\ Word(line, 1) = word
    /\ Word(line, 2) = UpTo(EraseLeading(rest, Blanks), Blanks)

\* s has a line behind d, up to z.
IsLine(s, d, z) ==
    /\ \A x \in (d + 1)..z : s[x] # "NL"
    /\ z = Len(s) \/ s[z + 1] = "NL"

\* operator>> reads from a line of a text what find and find_first_of cut out of the text.
LEMMA LineIsRead ==
    ASSUME NEW S, NEW s \in Seq(S), NEW d \in 0..Len(s), NEW z \in d..Len(s), IsLine(s, d, z),
           NEW b \in d..(z - 1), AllIn(s, Blanks, d, b), s[b + 1] \notin Blanks
    PROVE  ReadsLine(s, SubSeq(s, d + 1, z), b + 1)
<1> DEFINE n == Len(s)
           line == SubSeq(s, d + 1, z)
           a == b - d
<1>1. n \in Nat /\ d \in Nat /\ z \in d..n /\ b \in d..(z - 1) /\ a \in 0..(z - d - 1)
  OBVIOUS
<1>2. IsCut(line, S, s, d, z)  BY CutOut
<1> HIDE DEF line
<1>3. line \in Seq(S) /\ Len(line) = z - d /\ \A x \in 1..(z - d) : line[x] = s[d + x]
  BY <1>2 DEF IsCut
<1>4. a \in 0..Len(line)  BY <1>1, <1>3
<1>5. \E x \in a..Len(line) : \E y \in x..Len(line) : IsWord(line, Blanks, a, x, y)
  <2> HIDE DEF a
  <2> QED  BY <1>3, <1>4, WordExists
<1>25. PICK x \in a..Len(line) : \E y \in x..Len(line) : IsWord(line, Blanks, a, x, y)
  BY <1>5
<1>6. PICK y \in x..Len(line) : IsWord(line, Blanks, a, x, y)  BY <1>25
<1>7. /\ \A v \in (a + 1)..x : line[v] \in Blanks
      /\ \A v \in (x + 1)..y : line[v] \notin Blanks
      /\ y = Len(line) \/ line[y + 1] \in Blanks
      /\ x = y => x = Len(line)
  BY <1>6 DEF IsWord
<1>8. a + 1 \in 1..(z - d) /\ line[a + 1] \notin Blanks
  <2>1. a + 1 \in 1..(z - d) /\ d + (a + 1) = b + 1  BY <1>1
  <2> QED  BY <1>3, <2>1
<1>9. x = a /\ y \in (a + 1)..(z - d)
  <2> HIDE DEF a
  <2>1. x = a
    <3> SUFFICES ASSUME x # a PROVE FALSE  OBVIOUS
    <3>1. a + 1 \in (a + 1)..x  BY <1>3, <1>4
    <3> QED  BY <1>7, <1>8, <3>1
  <2>2. y # a  BY <1>1, <1>3, <1>7, <1>8, <2>1
  <2>3. x \in a..(z - d) /\ y \in x..(z - d)  BY <1>3
  <2> QED  BY <1>1, <1>4, <2>1, <2>2, <2>3
<1> DEFINE c == d + y
<1>10. c \in (b + 1)..z /\ y = c - d /\ c - d \in 0..(z - d)  BY <1>1, <1>9
<1>11. IsWord(line, Blanks, 0, a, y)
  <2>1. ASSUME NEW v \in (0 + 1)..a  PROVE line[v] \in Blanks
    <3>1. v \in 1..(z - d) /\ d + v \in (d + 1)..b  BY <1>1
    <3>2. s[d + v] \in Blanks  BY <3>1 DEF AllIn
    <3> QED  BY <1>3, <3>1, <3>2
  <2> QED  BY <1>7, <1>9, <2>1 DEF IsWord
<1>12. ReadsWords(line, a, y)
  <2>1. a \in 0..Len(line) /\ y \in a..Len(line)  BY <1>1, <1>3, <1>9
  <2> HIDE DEF a
  <2> QED  BY <1>3, <1>11, <2>1, FirstWords
<1>13. SubSeq(line, a + 1, y) = SubSeq(s, b + 1, c)
  <2>1. d \in 0..Len(s) /\ z \in d..Len(s) /\ a \in 0..(z - d) /\ y \in a..(z - d)
    BY <1>1, <1>9
  <2>2. d + a = b  BY <1>1
  <2> HIDE DEF a
  <2>3. SubSeq(SubSeq(s, d + 1, z), a + 1, y) = SubSeq(s, d + a + 1, d + y)
    BY <2>1, CutOfCut
  <2> QED  BY <2>2, <2>3 DEF line
<1>14. SubSeq(line, y + 1, Len(line)) = SubSeq(s, c + 1, z)
  <2>1. d \in 0..Len(s) /\ z \in d..Len(s) /\ y \in 0..(z - d) /\ z - d \in y..(z - d)
    BY <1>1, <1>9
  <2>2. d + (z - d) = z  BY <1>1
  <2> DEFINE w == z - d
  <2> HIDE DEF w
  <2>3. SubSeq(SubSeq(s, d + 1, z), y + 1, w) = SubSeq(s, d + y + 1, d + w)
    <3>1. y \in 0..(z - d) /\ w \in y..(z - d)  BY <2>1 DEF w
    <3> QED  BY <3>1, CutOfCut
  <2> QED  BY <1>3, <2>2, <2>3 DEF line, w
<1>15. UpToPart(s, Blanks, b, c)
  <2>1. b \in 0..Len(s) /\ c \in b..Len(s)  BY <1>1, <1>10
  <2>2. ASSUME NEW v \in (b + 1)..c  PROVE s[v] \notin Blanks
    <3>1. v - d \in (a + 1)..y /\ v - d \in 1..(z - d) /\ d + (v - d) = v  BY <1>1, <1>10
    <3> QED  BY <1>3, <1>7, <1>9, <3>1
  <2>3. c = Len(s) \/ s[c + 1] \in Blanks
    <3>1. CASE y = Len(line)
      <4>1. c = z  BY <1>1, <1>3, <3>1
      <4> QED  BY <4>1 DEF IsLine, Blanks
    <3>2. CASE y # Len(line)
      <4>1. y + 1 \in 1..(z - d) /\ d + (y + 1) = c + 1
        <5>1. y \in Nat /\ z - d \in Nat /\ y <= z - d /\ y # z - d  BY <1>1, <1>3, <1>10, <3>2
        <5>2. d + (y + 1) = (d + y) + 1  BY <1>1, <5>1
        <5> QED  BY <5>1, <5>2
      <4> QED  BY <1>3, <1>7, <3>2, <4>1
    <3> QED  BY <3>1, <3>2
  <2> HIDE DEF c
  <2> QED  BY <2>1, <2>2, <2>3, UpToInside
<1>16. UpToPart(s, {"NL"}, c, z)
  <2>1. c \in 0..Len(s) /\ z \in c..Len(s)  BY <1>1, <1>10
  <2>2. ASSUME NEW v \in (c + 1)..z  PROVE s[v] \notin {"NL"}
    <3>1. v \in (d + 1)..z  BY <1>1, <1>10
    <3> QED  BY <3>1 DEF IsLine
  <2>3. z = Len(s) \/ s[z + 1] \in {"NL"}  BY DEF IsLine
  <2> HIDE DEF c
  <2> QED  BY <2>1, <2>2, <2>3, UpToInside
<1>17. IsCut(SubSeq(s, b + 1, c), S, s, b, c)
  <2>1. b \in 0..Len(s) /\ c \in b..Len(s)  BY <1>1, <1>10
  <2> HIDE DEF c
  <2> QED  BY <2>1, CutOut
<1> DEFINE word == SubSeq(s, b + 1, c)
<1>18. Len(word) = c - b /\ (word = <<>> <=> b = c)  BY <1>17 DEF IsCut
<1>19. b # c /\ (b + 1) + Len(word) = c + 1 /\ a < y  BY <1>1, <1>9, <1>10, <1>18
<1>20. UpTo(SubSeq(s, b + 1, Len(s)), Blanks) = word  BY <1>15 DEF UpToPart
<1>21. Word(line, 1) = word  BY <1>12, <1>13 DEF ReadsWords
<1>22. Word(line, 2) = UpTo(EraseLeading(SubSeq(s, c + 1, z), Blanks), Blanks)
  BY <1>12, <1>14, <1>19 DEF ReadsWords, NextWordOf
<1>23. UpTo(SubSeq(s, c + 1, Len(s)), {"NL"}) = SubSeq(s, c + 1, z)  BY <1>16 DEF UpToPart
<1> HIDE DEF word, c
<1>24. ReadsLine(s, line, b + 1)
  BY <1>18, <1>19, <1>20, <1>21, <1>22, <1>23 DEF ReadsLine
<1> QED  BY <1>24 DEF line

\* A line of blanks has no word.
LEMMA BlankLine ==
    ASSUME NEW S, NEW s \in Seq(S), NEW d \in 0..Len(s), NEW z \in d..Len(s),
           AllIn(s, Blanks, d, z)
    PROVE  Word(SubSeq(s, d + 1, z), 1) = <<>>
<1> DEFINE line == SubSeq(s, d + 1, z)
           l == z - d
<1>1. IsCut(line, S, s, d, z)  BY CutOut
<1> HIDE DEF line
<1>2. line \in Seq(S) /\ Len(line) = l /\ \A x \in 1..l : line[x] = s[d + x]
  BY <1>1 DEF IsCut
<1>3. l \in Nat  OBVIOUS
<1>4. ASSUME NEW x \in (0 + 1)..l  PROVE line[x] \in Blanks
  <2>1. x \in 1..l /\ d + x \in (d + 1)..z  OBVIOUS
  <2> QED  BY <1>2, <2>1 DEF AllIn
<1> HIDE DEF l
<1>5. IsWord(line, Blanks, 0, l, l)
  <2>1. \A x \in (l + 1)..l : FALSE  BY <1>3
  <2> QED  BY <1>2, <1>4, <2>1 DEF IsWord
<1>6. l \in 0..Len(line) /\ l \in l..Len(line)  BY <1>2, <1>3
<1>7. ReadsWords(line, l, l)  BY <1>2, <1>5, <1>6, FirstWords
<1>8. SubSeq(line, l + 1, l) = <<>>
  <2>1. l + 1 \in Int /\ l \in Int /\ l < l + 1  BY <1>3
  <2> QED  BY <2>1, SubSeqEmpty
<1> QED  BY <1>7, <1>8 DEF ReadsWords, line

-------------------------------------------------------------------------------
(* Maps *)

\* Maps from texts to texts.
MapsOf(V) == UNION {[D -> V] : D \in SUBSET V}

\* put is map with one more assignment.
IsPut(put, map, key, value) ==
    /\ DOMAIN put = DOMAIN map \cup {key}
    /\ put[key] = value
    /\ \A k \in DOMAIN map : k # key => put[k] = map[k]

\* Put makes such a map.
LEMMA PutType ==
    ASSUME NEW V, NEW map \in MapsOf(V), NEW key \in V, NEW value \in V
    PROVE  /\ Put(map, key, value) \in MapsOf(V)
           /\ IsPut(Put(map, key, value), map, key, value)
<1>1. PICK D \in SUBSET V : map \in [D -> V]  BY DEF MapsOf
<1> DEFINE E == DOMAIN map \cup {key}
           put == [k \in E |-> IF k = key THEN value ELSE map[k]]
<1>2. DOMAIN map = D /\ E \in SUBSET V  BY <1>1
<1>3. put \in [E -> V]  BY <1>1, <1>2
<1>4. put[key] = value /\ \A k \in DOMAIN map : k # key => put[k] = map[k]  OBVIOUS
<1>5. DOMAIN put = E  OBVIOUS
<1> HIDE DEF put, E
<1>6. put \in MapsOf(V)  BY <1>2, <1>3 DEF MapsOf
<1> QED  BY <1>4, <1>5, <1>6 DEF Put, put, E, IsPut

\* The empty map is one.
LEMMA NoMapType ==
    ASSUME NEW V  PROVE NoMap \in MapsOf(V) /\ DOMAIN NoMap = {}
<1>1. NoMap \in [{} -> V] /\ {} \in SUBSET V  BY DEF NoMap
<1> QED  BY <1>1 DEF MapsOf

\* A word is a text.
LEMMA WordType ==
    ASSUME NEW S, NEW line \in Seq(S), NEW i \in Nat \ {0}
    PROVE  Word(line, i) \in Seq(S)
<1>1. PICK g \in [0..Len(Split(line, Blanks)) -> Seq(Seq(S))] :
         Taken(g, Split(line, Blanks)) /\ Words(line) = g[Len(Split(line, Blanks))]
  BY WordsAre
<1>2. Split(line, Blanks) \in Seq(Seq(S))  BY SplitType DEF Parted
<1> DEFINE w == Words(line)
<1>3. w \in Seq(Seq(S))
  <2> DEFINE n == Len(Split(line, Blanks))
  <2>1. n \in 0..n  BY <1>2
  <2> HIDE DEF n
  <2>2. g[n] \in Seq(Seq(S))  BY <1>1, <2>1 DEF n
  <2> QED  BY <1>1, <2>2 DEF n
<1> HIDE DEF w
<1>4. i <= Len(w) => w[i] \in Seq(S)
  <2> SUFFICES ASSUME i <= Len(w) PROVE w[i] \in Seq(S)  OBVIOUS
  <2>1. i \in 1..Len(w)  BY <1>3
  <2> QED  BY <1>3, <2>1
<1>5. <<>> \in Seq(S)  OBVIOUS
<1> QED  BY <1>4, <1>5 DEF Word, w

-------------------------------------------------------------------------------
(* Configuration::readConfiguration *)

\* The map after the first i lines is M[i].
Reads(M, lines) ==
    /\ M[0] = NoMap
    /\ \A i \in 1..Len(lines) : M[i] = Put(M[i - 1], Word(lines[i], 1), Word(lines[i], 2))

\* The map read from the configuration, line after line.
LEMMA ConfigurationIs ==
    ASSUME NEW S, NEW file \in Seq(S)
    PROVE  \E M \in [0..Len(Lines(file)) -> MapsOf(Seq(S))] :
              Reads(M, Lines(file)) /\ readConfiguration(file) = M[Len(Lines(file))]
<1> DEFINE q == Lines(file)
           n == Len(q)
           A == MapsOf(Seq(S))
           a == NoMap
           Read(v, line) == Put(v, Word(line, 1), Word(line, 2))
           step == [i \in 1..n |-> [v \in A |-> Read(v, q[i])]]
<1>0. q \in Seq(Seq(S))  BY LinesAre
<1>6. readConfiguration(file) =
         FoldLeft(LAMBDA map, line : Put(map, Word(line, 1), Word(line, 2)), a, q)
  BY DEF readConfiguration
<1> HIDE DEF q
<1>1. n \in Nat /\ a \in A /\ DOMAIN q = 1..n  BY <1>0, NoMapType
<1>2. step \in StepFunctions(n, A)
  <2>1. ASSUME NEW i \in 1..n, NEW v \in A  PROVE Read(v, q[i]) \in A
    <3>1. q[i] \in Seq(S)  BY <1>0
    <3>2. Word(q[i], 1) \in Seq(S) /\ Word(q[i], 2) \in Seq(S)  
      BY <3>1, WordType, 1 \in Nat \ {0}, 2 \in Nat \ {0}
    <3> QED  BY <3>2, PutType
  <2> HIDE DEF A, Read
  <2> QED  BY <2>1 DEF StepFunctions
<1> DEFINE Is(h) == h = [t \in SUBSET DOMAIN q |->
                           IF t = {} THEN a
                           ELSE LET x == Max(t) IN Read(h[t \ {x}], q[x])]
<1>4. \E h : Is(h)
  <2> HIDE DEF a, A, step, n
  <2>1. PICK h \in [SUBSET (1..n) -> A] : Fold(h, n, a, step)
    BY <1>1, <1>2, FoldExists
  <2>2. ASSUME NEW t \in SUBSET (1..n), t # {}
        PROVE  step[Max(t)][h[t \ {Max(t)}]] = Read(h[t \ {Max(t)}], q[Max(t)])
    <3>1. t \in SUBSET (0..n)  OBVIOUS
    <3>2. Max(t) \in 1..n  BY <1>1, <2>2, <3>1, MaxIs
    <3> HIDE DEF Read
    <3> QED  BY <3>2 DEF step
  <2> HIDE DEF Read
  <2>3. h = [t \in SUBSET (1..n) |->
               IF t = {} THEN a ELSE Read(h[t \ {Max(t)}], q[Max(t)])]
    BY <2>1, <2>2 DEF Fold
  <2> QED  BY <1>1, <2>3
<1> DEFINE h == CHOOSE h : Is(h)
<1>5. Is(h)  BY <1>4
<1>16. readConfiguration(file) = h[DOMAIN q]
  BY <1>6 DEF FoldLeft, MapThenFoldSet
<1> HIDE DEF h, Read
<1>7. h[{}] = a  BY <1>5
<1>8. ASSUME NEW i \in 1..n, h[1..(i - 1)] \in A  PROVE h[1..i] = step[i][h[1..(i - 1)]]
  <2>2. /\ 1..i \in SUBSET (1..n) /\ 1..i # {} /\ Max(1..i) = i
        /\ (1..i) \ {i} = 1..(i - 1)
    BY <1>1, FoldGoesOn
  <2>3. h[1..i] = Read(h[(1..i) \ {Max(1..i)}], q[Max(1..i)])
    BY <1>1, <1>5, <2>2
  <2> QED  BY <1>8, <2>2, <2>3
<1> HIDE DEF a, A, step, n
<1>9. PICK g \in [0..n -> A] : Recursion(g, n, a, step)  BY <1>1, <1>2, RecursionUpTo
<1>10. h[1..n] = g[n]
  <2>1. FoldSteps(h, n, A, step)  BY <1>8 DEF FoldSteps
  <2> QED  BY <1>1, <1>2, <1>7, <1>9, <2>1, FoldIs
<1>11. ASSUME NEW i \in 1..n  PROVE g[i] = Read(g[i - 1], q[i])
  <2>1. g[i] = step[i][g[i - 1]]  BY <1>9 DEF Recursion
  <2>2. i - 1 \in 0..n  BY <1>1
  <2>3. g[i - 1] \in A  BY <2>2
  <2> QED  BY <2>1, <2>3 DEF step
<1>12. Reads(g, q)  BY <1>9, <1>11 DEF Reads, Recursion, a, n, Read
<1> QED  BY <1>1, <1>9, <1>10, <1>12, <1>16 DEF q, n, A

\* The last line with a key gives its value.
HoldsLast(map, lines, m) ==
    /\ DOMAIN map = {Word(lines[k], 1) : k \in 1..m}
    /\ \A k \in 1..m :
          (\A l \in (k + 1)..m : Word(lines[l], 1) # Word(lines[k], 1))
              => map[Word(lines[k], 1)] = Word(lines[k], 2)

\* A key holds the value of its last line.
LEMMA LastLineCounts ==
    ASSUME NEW S, NEW lines \in Seq(Seq(S)), NEW M \in [0..Len(lines) -> MapsOf(Seq(S))],
           Reads(M, lines)
    PROVE  HoldsLast(M[Len(lines)], lines, Len(lines))
<1> DEFINE n == Len(lines)
           key(k) == Word(lines[k], 1)
           val(k) == Word(lines[k], 2)
           T == {m \in 0..n : HoldsLast(M[m], lines, m)}
<1>1. n \in Nat  OBVIOUS
<1>2. 0 \in T
  <2>1. M[0] = NoMap  BY DEF Reads
  <2>2. 1..0 = {} /\ 0 \in 0..n  OBVIOUS
  <2>3. DOMAIN NoMap = {}  BY NoMapType
  <2> QED  BY <2>1, <2>2, <2>3 DEF HoldsLast
<1>3. ASSUME NEW m \in 0..(n - 1), m \in T  PROVE m + 1 \in T
  <2> DEFINE map == M[m]
             j == m + 1
  <2>1. /\ DOMAIN map = {key(k) : k \in 1..m}
        /\ \A k \in 1..m : (\A l \in (k + 1)..m : key(l) # key(k)) => map[key(k)] = val(k)
    BY <1>3 DEF HoldsLast
  <2>2. m \in 0..n /\ j \in 1..n /\ j - 1 = m /\ j \in 0..n  BY <1>1
  <2>3. M[j] = Put(map, key(j), val(j))
    <3> HIDE DEF j
    <3>1. M[j] = Put(M[j - 1], Word(lines[j], 1), Word(lines[j], 2))  BY <2>2 DEF Reads
    <3> QED  BY <2>2, <3>1
  <2>4. map \in MapsOf(Seq(S)) /\ \A k \in 1..n : key(k) \in Seq(S) /\ val(k) \in Seq(S)
    <3>1. map \in MapsOf(Seq(S))  BY <2>2
    <3>2. \A k \in 1..n : lines[k] \in Seq(S)  OBVIOUS
    <3>3. \A k \in 1..n : key(k) \in Seq(S) /\ val(k) \in Seq(S)
      BY <3>2, WordType, 1 \in Nat \ {0}, 2 \in Nat \ {0}
    <3> QED  BY <3>1, <3>3
  <2> HIDE DEF key, val, map
  <2>5. /\ DOMAIN M[j] = DOMAIN map \cup {key(j)} /\ M[j][key(j)] = val(j)
        /\ \A k \in DOMAIN map : k # key(j) => M[j][k] = map[k]
    <3>1. key(j) \in Seq(S) /\ val(j) \in Seq(S)  BY <2>2, <2>4
    <3>2. IsPut(Put(map, key(j), val(j)), map, key(j), val(j))  BY <2>4, <3>1, PutType
    <3> QED  BY <2>3, <3>2 DEF IsPut
  <2>6. DOMAIN M[j] = {key(k) : k \in 1..j}
    <3>1. \A k \in 1..j : k \in 1..m \/ k = j  BY <2>2
    <3>2. \A k \in 1..m : k \in 1..j  BY <2>2
    <3>3. j \in 1..j  BY <2>2
    <3> HIDE DEF j
    <3> QED  BY <2>1, <2>5, <3>1, <3>2, <3>3
  <2>7. ASSUME NEW k \in 1..j, \A l \in (k + 1)..j : key(l) # key(k)
        PROVE  M[j][key(k)] = val(k)
    <3>1. CASE k = j  BY <2>5, <3>1
    <3>2. CASE k # j
      <4>1. k \in 1..m /\ j \in (k + 1)..j /\ \A l \in (k + 1)..m : l \in (k + 1)..j
        BY <2>2, <3>2
      <4> HIDE DEF j
      <4>2. map[key(k)] = val(k)  BY <2>1, <2>7, <4>1
      <4>3. key(k) \in DOMAIN map /\ key(k) # key(j)  BY <2>1, <2>7, <4>1
      <4> QED  BY <2>5, <4>2, <4>3
    <3> QED  BY <3>1, <3>2
  <2>8. HoldsLast(M[j], lines, j)  BY <2>6, <2>7 DEF HoldsLast, key, val
  <2> QED  BY <2>2, <2>8
<1> HIDE DEF T
<1>4. 0..n \subseteq T
  <2> HIDE DEF n
  <2> QED  BY <1>1, <1>2, <1>3, InductionUpTo
<1>5. n \in 0..n  BY <1>1
<1> QED  BY <1>4, <1>5 DEF T

-------------------------------------------------------------------------------
(* Lines of the configuration *)

\* The k-th line begins with a word at i.
BeginsLine(e, i, k) ==
    /\ i \in (e[k - 1] + 1)..(e[k] - 1) /\ text[i] \notin Blanks
    /\ AllIn(text, Blanks, e[k - 1], i - 1)

\* Where the lines of s begin and end.
AreLines(s, e, lines) ==
    /\ e[0] = 0
    /\ \A k \in 1..Len(lines) :
          /\ e[k - 1] \in 0..Len(s) /\ e[k] - 1 \in e[k - 1]..Len(s) /\ e[k] \in Nat
          /\ e[k - 1] < e[k]
          /\ IsLine(s, e[k - 1], e[k] - 1)
          /\ lines[k] = SubSeq(s, e[k - 1] + 1, e[k] - 1)
          /\ k # 1 => e[k - 1] \in 1..Len(s) /\ s[e[k - 1]] = "NL"
    /\ \A j \in 0..(Len(s) - 1) :
          j = 0 \/ s[j + 0] = "NL" => \E k \in 1..Len(lines) : e[k - 1] = j
    /\ \A j, k \in 0..Len(lines) : j <= k => e[j] <= e[k]

\* The lines of a text lie in it one after the other.
LEMMA LinesLie ==
    ASSUME NEW S, NEW s \in Seq(S)
    PROVE  \E e : AreLines(s, e, Lines(s))
<1> DEFINE lines == Lines(s)
           m == Len(lines)
           l == Len(s)
<1>1. lines \in Seq(Seq(S)) /\ \E e, p : p \in Seq(Seq(S)) /\ IsLines(s, e, p, lines)
  BY LinesAre
<1>2. PICK e, p : p \in Seq(Seq(S)) /\ IsLines(s, e, p, lines)  BY <1>1
<1> HIDE DEF lines
<1> DEFINE n == Len(p)
<1>3. /\ Pieces(s, {"NL"}, e, p) /\ (\A k \in 1..m : lines[k] = p[k])
      /\ m = n \/ (m = n - 1 /\ e[m] = l)
  BY <1>2 DEF IsLines
<1>4. /\ n \in Nat \ {0} /\ e[0] = 0 /\ e[n] = l + 1
      /\ \A k \in 0..(n - 1) : e[k] \in 0..l /\ e[k] < e[k + 1]
      /\ \A k \in 1..n : e[k] \in 1..(l + 1) /\ e[k - 1] < e[k]
      /\ \A k \in 1..(n - 1) : e[k] \in 1..l /\ s[e[k]] \in {"NL"}
  BY <1>2, <1>3, PiecesFacts
<1>5. \A j, k \in 0..n : j <= k => e[j] <= e[k]
  BY <1>2, <1>3, PiecesRise
<1>6. /\ \A k \in 1..n : p[k] = SubSeq(s, e[k - 1] + 1, e[k] - 1)
      /\ \A i \in 1..l : s[i] = "NL" => \E k \in 1..(n - 1) : e[k] = i
  BY <1>3 DEF Pieces
<1>7. \A k \in 1..n, i \in Int : i \in (e[k - 1] + 1)..(e[k] - 1) => s[i] \notin {"NL"}
  BY <1>2, <1>3, NoneBetween
<1>8. m \in Nat /\ l \in Nat  BY <1>1
<1> HIDE DEF m, n, l
<1>9. ASSUME NEW k \in 1..m
      PROVE  /\ e[k - 1] \in 0..l /\ e[k] - 1 \in e[k - 1]..l /\ e[k] \in Nat /\ e[k - 1] < e[k]
             /\ IsLine(s, e[k - 1], e[k] - 1)
             /\ lines[k] = SubSeq(s, e[k - 1] + 1, e[k] - 1)
             /\ k # 1 => e[k - 1] \in 1..l /\ s[e[k - 1]] = "NL"
  <2>1. k \in 1..n /\ k - 1 \in 0..(n - 1) /\ (k - 1) + 1 = k  BY <1>3, <1>4, <1>8
  <2> DEFINE d == e[k - 1]
             b == e[k]
  <2>2. d \in 0..l /\ b \in 1..(l + 1) /\ d < b  BY <1>4, <2>1
  <2>3. \A i \in Int : i \in (d + 1)..(b - 1) => s[i] # "NL"  BY <1>7, <2>1
  <2>4. b - 1 = l \/ s[b] = "NL"
    <3>1. CASE k = n  BY <1>4, <1>8, <3>1
    <3>2. CASE k # n
      <4>1. k \in 1..(n - 1)  BY <1>4, <2>1, <3>2
      <4> QED  BY <1>4, <4>1
    <3> QED  BY <3>1, <3>2
  <2>5. k # 1 => d \in 1..l /\ s[d] = "NL"
    <3>1. k # 1 => k - 1 \in 1..(n - 1)  BY <1>4, <2>1
    <3> QED  BY <1>4, <3>1
  <2>6. lines[k] = SubSeq(s, d + 1, b - 1)  BY <1>3, <1>6, <2>1
  <2> HIDE DEF d, b
  <2>7. b - 1 \in d..l /\ b \in Nat /\ (b - 1) + 1 = b /\ \A i \in (d + 1)..(b - 1) : i \in Int
    BY <1>8, <2>2
  <2>8. IsLine(s, d, b - 1)  BY <2>3, <2>4, <2>7 DEF IsLine, l
  <2> QED  BY <2>2, <2>5, <2>6, <2>7, <2>8 DEF d, b
<1>10. ASSUME NEW j \in 0..(l - 1), j = 0 \/ s[j + 0] = "NL"
       PROVE  \E k \in 1..m : e[k - 1] = j
  <2>1. j + 0 = j  BY <1>8
  <2>2. \E i \in 0..(n - 1) : e[i] = j
    <3>1. CASE j = 0
      <4>1. 0 \in 0..(n - 1)  BY <1>4
      <4> QED  BY <1>4, <3>1, <4>1
    <3>2. CASE j # 0
      <4>1. j \in 1..l /\ s[j] = "NL"  BY <1>8, <1>10, <2>1, <3>2
      <4>2. PICK i \in 1..(n - 1) : e[i] = j  BY <1>6, <4>1
      <4>3. i \in 0..(n - 1)  BY <1>4
      <4> QED  BY <4>2, <4>3
    <3> QED  BY <3>1, <3>2
  <2>3. PICK i \in 0..(n - 1) : e[i] = j  BY <2>2
  <2>4. i < m
    <3> SUFFICES ASSUME ~(i < m) PROVE FALSE  OBVIOUS
    <3>1. i = m /\ m = n - 1  BY <1>3, <1>4, <1>8
    <3>2. m # n  BY <1>4, <3>1
    <3>3. e[m] = l  BY <1>3, <3>2
    <3>4. e[m] = j  BY <2>3, <3>1
    <3> QED  BY <1>8, <3>3, <3>4
  <2>5. i + 1 \in 1..m /\ (i + 1) - 1 = i  BY <1>8, <2>4
  <2> QED  BY <2>3, <2>5
<1>11. \A j, k \in 0..m : j <= k => e[j] <= e[k]
  <2>1. \A j \in 0..m : j \in 0..n  BY <1>3, <1>4, <1>8
  <2> QED  BY <1>5, <2>1
<1>12. AreLines(s, e, lines)
  BY <1>4, <1>9, <1>10, <1>11 DEF AreLines, m, l
<1> QED  BY <1>12 DEF lines

\* A key stands at the beginning of a line.
LEMMA KeysBeginLines ==
    ASSUME NEW S, text \in Seq(S), NEW e, NEW lines \in Seq(Seq(S)), AreLines(text, e, lines),
           NEW i \in Nat
    PROVE  i \in KeyStarts <=> \E k \in 1..Len(lines) : BeginsLine(e, i, k)
<1> DEFINE m == Len(lines)
           l == Len(text)
<1>1. /\ e[0] = 0
      /\ \A k \in 1..m :
            /\ e[k - 1] \in 0..l /\ e[k] - 1 \in e[k - 1]..l /\ e[k] \in Nat
            /\ IsLine(text, e[k - 1], e[k] - 1)
            /\ k # 1 => e[k - 1] \in 1..l /\ text[e[k - 1]] = "NL"
      /\ \A j \in 0..(l - 1) :
            j = 0 \/ text[j + 0] = "NL" => \E k \in 1..m : e[k - 1] = j
  BY DEF AreLines
<1>2. m \in Nat /\ l \in Nat  OBVIOUS
<1>3. "NL" \in Blanks  BY DEF Blanks
<1>4. i \in KeyStarts <=>
         /\ i \in 1..l /\ text[i] \notin Blanks
         /\ \E j \in 0..(i - 1) :
               /\ j = 0 \/ text[j] = "NL"
               /\ \A x \in (j + 1)..(i - 1) : text[x] \in Blanks \ {"NL"}
  BY DEF KeyStarts
<1> HIDE DEF m, l
<1>5. ASSUME NEW k \in 1..m, BeginsLine(e, i, k)  PROVE i \in KeyStarts
  <2> DEFINE d == e[k - 1]
             z == e[k] - 1
  <2>1. d \in 0..l /\ z \in d..l /\ IsLine(text, d, z) /\ (k # 1 => text[d] = "NL")
        /\ (k = 1 => d = 0)
    <3>1. k = 1 => k - 1 = 0  OBVIOUS
    <3> QED  BY <1>1, <3>1
  <2>2. i \in (d + 1)..z /\ text[i] \notin Blanks /\ AllIn(text, Blanks, d, i - 1)
    BY <1>5 DEF BeginsLine
  <2> HIDE DEF d, z
  <2>3. i \in 1..l /\ d \in 0..(i - 1)  BY <1>2, <2>1, <2>2
  <2>4. ASSUME NEW x \in (d + 1)..(i - 1)  PROVE text[x] \in Blanks \ {"NL"}
    <3>1. x \in (d + 1)..z  BY <1>2, <2>1, <2>2
    <3> QED  BY <2>1, <2>2, <3>1 DEF AllIn, IsLine
  <2>5. d = 0 \/ text[d] = "NL"  BY <2>1
  <2> QED  BY <1>4, <2>2, <2>3, <2>4, <2>5
<1>6. ASSUME i \in KeyStarts  PROVE \E k \in 1..m : BeginsLine(e, i, k)
  <2>1. i \in 1..l /\ text[i] \notin Blanks  BY <1>4, <1>6
  <2>2. PICK j \in 0..(i - 1) :
           /\ j = 0 \/ text[j] = "NL"
           /\ \A x \in (j + 1)..(i - 1) : text[x] \in Blanks \ {"NL"}
    BY <1>4, <1>6
  <2>3. j \in 0..(l - 1) /\ j + 0 = j  BY <1>2, <2>1
  <2>4. PICK k \in 1..m : e[k - 1] = j  BY <1>1, <2>2, <2>3
  <2> DEFINE z == e[k] - 1
  <2>5. z \in j..l /\ (z = l \/ text[z + 1] = "NL")
    BY <1>1, <2>4 DEF IsLine, l
  <2>7. e[k] \in Nat  BY <1>1
  <2> HIDE DEF z
  <2>6. i <= z
    <3> SUFFICES ASSUME ~(i <= z) PROVE FALSE  OBVIOUS
    <3>1. z # l /\ z + 1 \in (j + 1)..i  BY <1>2, <2>1, <2>5
    <3>2. text[z + 1] = "NL"  BY <2>5, <3>1
    <3>3. z + 1 # i  BY <1>3, <2>1, <3>2
    <3>4. z + 1 \in (j + 1)..(i - 1)  BY <2>1, <3>1, <3>3
    <3> QED  BY <2>2, <3>2, <3>4
  <2>8. i \in (j + 1)..z  BY <1>2, <2>1, <2>5, <2>6
  <2>9. AllIn(text, Blanks, j, i - 1)  BY <2>2 DEF AllIn
  <2>10. BeginsLine(e, i, k)  BY <2>1, <2>4, <2>8, <2>9 DEF BeginsLine, z
  <2> QED  BY <2>10
<1> QED  BY <1>5, <1>6 DEF m

\* A line has a first word, or it is blank.
LEMMA LineBegins ==
    ASSUME NEW S, text \in Seq(S), NEW e, NEW lines \in Seq(Seq(S)), AreLines(text, e, lines),
           NEW k \in 1..Len(lines), Word(lines[k], 1) # <<>>
    PROVE  \E i \in Nat : BeginsLine(e, i, k)
<1> DEFINE d == e[k - 1]
           z == e[k] - 1
           l == Len(text)
           T == {i \in (d + 1)..z : text[i] \notin Blanks}
<1>1. d \in 0..l /\ z \in d..l /\ lines[k] = SubSeq(text, d + 1, z)
  BY DEF AreLines
<1> HIDE DEF d, z
<1>2. l \in Nat  OBVIOUS
<1>3. T # {}
  <2> SUFFICES ASSUME T = {} PROVE FALSE  OBVIOUS
  <2>1. AllIn(text, Blanks, d, z)  BY DEF AllIn
  <2> HIDE DEF T
  <2>2. Word(SubSeq(text, d + 1, z), 1) = <<>>  BY <1>1, <2>1, BlankLine
  <2> QED  BY <1>1, <2>2
<1>4. T \in SUBSET Nat  BY <1>1, <1>2
<1>5. PICK i \in T : \A j \in T : i <= j
  <2> HIDE DEF T
  <2> QED  BY <1>3, <1>4, LeastElement
<1>6. i \in (d + 1)..z /\ text[i] \notin Blanks /\ i \in Nat  BY <1>4
<1>7. ASSUME NEW x \in (d + 1)..(i - 1)  PROVE text[x] \in Blanks
  <2>1. x \in (d + 1)..z /\ ~(i <= x)  BY <1>1, <1>2, <1>6
  <2> QED  BY <1>5, <2>1
<1>8. BeginsLine(e, i, k)  BY <1>6, <1>7 DEF BeginsLine, AllIn, d, z
<1> QED  BY <1>6, <1>8

\* A lookup of a text over any alphabet reads the value of the file.
LEMMA LookupsRead ==
    ASSUME NEW S, text \in Seq(S)
    PROVE  LookupsOnlyRead
<1> DEFINE lines == Lines(text)
           m == Len(lines)
           l == Len(text)
           map == readConfiguration(text)
           K == KeyStarts
<1>1. lines \in Seq(Seq(S))  BY LinesAre
<1>2. PICK e : AreLines(text, e, lines)  BY LinesLie
<1>3. HoldsLast(map, lines, m)
  <2>1. PICK M \in [0..m -> MapsOf(Seq(S))] : Reads(M, lines) /\ map = M[m]
    BY ConfigurationIs
  <2> HIDE DEF lines, map
  <2> QED  BY <1>1, <2>1, LastLineCounts
<1> HIDE DEF lines, map
<1>4. DOMAIN map = {Word(lines[k], 1) : k \in 1..m}
      /\ \A k \in 1..m : (\A j \in (k + 1)..m : Word(lines[j], 1) # Word(lines[k], 1))
            => map[Word(lines[k], 1)] = Word(lines[k], 2)
  BY <1>3 DEF HoldsLast
<1>5. m \in Nat /\ l \in Nat  BY <1>1
<1>6. K \in SUBSET (0..l)  BY DEF KeyStarts
<1>7. \A i \in Nat : i \in K <=> \E k \in 1..m : BeginsLine(e, i, k)
  BY <1>1, <1>2, KeysBeginLines
<1>8. ASSUME NEW i \in Nat, NEW k \in 1..m, BeginsLine(e, i, k)
      PROVE  /\ WordAt(i) # <<>> /\ Word(lines[k], 1) = WordAt(i)
             /\ Word(lines[k], 2) = UpTo(EraseLeading(RestOfLine(i), Blanks), Blanks)
  <2> DEFINE d == e[k - 1]
             z == e[k] - 1
             b == i - 1
  <2>1. d \in 0..Len(text) /\ z \in d..Len(text) /\ IsLine(text, d, z)
        /\ lines[k] = SubSeq(text, d + 1, z)
    BY <1>2 DEF AreLines
  <2>2. i \in (d + 1)..z /\ text[i] \notin Blanks /\ AllIn(text, Blanks, d, b)
    BY <1>8 DEF BeginsLine
  <2> HIDE DEF d, z
  <2>3. b \in d..(z - 1) /\ b + 1 = i  BY <1>5, <2>1, <2>2
  <2> HIDE DEF b
  <2>4. text[b + 1] \notin Blanks  BY <2>2, <2>3
  <2>5. ReadsLine(text, SubSeq(text, d + 1, z), b + 1)  BY <2>1, <2>2, <2>3, <2>4, LineIsRead
  <2>6. ReadsLine(text, lines[k], i)  BY <2>1, <2>3, <2>5
  <2> QED  BY <2>6 DEF ReadsLine, WordAt, RestOfLine
<1>9. ASSUME NEW i \in Nat, NEW k \in 1..m, BeginsLine(e, i, k),
             NEW j \in Nat, NEW h \in 1..m, BeginsLine(e, j, h), k < h
      PROVE  i < j
  <2>1. k \in 0..m /\ h - 1 \in 0..m /\ k <= h - 1  BY <1>5, <1>9
  <2>2. e[k] <= e[h - 1]  BY <1>2, <2>1 DEF AreLines
  <2>3. e[k] \in Nat /\ e[h - 1] \in 0..l  BY <1>2 DEF AreLines
  <2>4. i <= e[k] - 1 /\ e[h - 1] + 1 <= j  BY <1>9 DEF BeginsLine
  <2> QED  BY <1>5, <2>2, <2>3, <2>4
<1> HIDE DEF K, m, l
<1>10. ASSUME NEW i \in K
       PROVE  LET key == WordAt(i)
                  last == Max({j \in K : WordAt(j) = key}) IN
              /\ Lookup(map, key).map = map
              /\ Lookup(map, key).value = UpTo(EraseLeading(RestOfLine(last), Blanks), Blanks)
  <2> DEFINE key == WordAt(i)
             J == {j \in K : WordAt(j) = key}
             last == Max(J)
  <2>1. J \in SUBSET (0..l) /\ J # {}  BY <1>6
  <2> HIDE DEF J
  <2>2. last \in J /\ \A j \in J : last >= j  BY <1>5, <2>1, MaxIs
  <2> HIDE DEF last
  <2>3. last \in K /\ WordAt(last) = key /\ last \in Nat  BY <1>5, <2>1, <2>2 DEF J
  <2>4. PICK k \in 1..m : BeginsLine(e, last, k)  BY <1>7, <2>3
  <2>5. /\ key # <<>> /\ Word(lines[k], 1) = key
        /\ Word(lines[k], 2) = UpTo(EraseLeading(RestOfLine(last), Blanks), Blanks)
    BY <1>8, <2>3, <2>4
  <2>6. ASSUME NEW h \in (k + 1)..m, Word(lines[h], 1) = key  PROVE FALSE
    <3>1. h \in 1..m /\ k < h  BY <1>5
    <3>2. PICK j \in Nat : BeginsLine(e, j, h)
      <4>1. h \in 1..Len(lines) /\ Word(lines[h], 1) # <<>>  BY <2>5, <2>6, <3>1 DEF m
      <4> QED  BY <1>1, <1>2, <4>1, LineBegins
    <3>3. WordAt(j) = key /\ j \in K  BY <1>7, <1>8, <2>6, <3>1, <3>2
    <3>4. last < j  BY <1>9, <2>3, <2>4, <3>1, <3>2
    <3>5. last >= j  BY <2>2, <3>3 DEF J
    <3> QED  BY <2>3, <3>4, <3>5
  <2>7. map[key] = Word(lines[k], 2) /\ key \in DOMAIN map  BY <1>4, <2>5, <2>6
  <2> HIDE DEF key
  <2>8. Lookup(map, key).map = map /\ Lookup(map, key).value = map[key]
    BY <2>7 DEF Lookup
  <2> QED  BY <2>5, <2>7, <2>8 DEF key, last, J
<1>11. DOMAIN map \ {<<>>} = {WordAt(i) : i \in K}
  <2>1. ASSUME NEW i \in K  PROVE WordAt(i) \in DOMAIN map \ {<<>>}
    <3>1. i \in Nat  BY <1>5, <1>6
    <3>2. PICK k \in 1..m : BeginsLine(e, i, k)  BY <1>7, <3>1
    <3>3. WordAt(i) # <<>> /\ Word(lines[k], 1) = WordAt(i)  BY <1>8, <3>1, <3>2
    <3> QED  BY <1>4, <3>3
  <2>2. ASSUME NEW w \in DOMAIN map \ {<<>>}  PROVE \E i \in K : w = WordAt(i)
    <3>1. PICK k \in 1..m : w = Word(lines[k], 1)  BY <1>4
    <3>2. PICK i \in Nat : BeginsLine(e, i, k)
      <4>1. k \in 1..Len(lines) /\ Word(lines[k], 1) # <<>>  BY <3>1 DEF m
      <4> QED  BY <1>1, <1>2, <4>1, LineBegins
    <3>3. i \in K /\ Word(lines[k], 1) = WordAt(i)  BY <1>7, <1>8, <3>2
    <3> QED  BY <3>1, <3>3
  <2> QED  BY <2>1, <2>2
<1> QED  BY <1>10, <1>11 DEF LookupsOnlyRead, map, K

\* What the workers rely on when they look keys up in the map of readConfiguration
\* at the same time: for every text, a key of the file is found with the value of
\* its last line, and operator[] inserts nothing.
THEOREM LookupsCorrect == TextSpec => []LookupsOnlyRead
<1>1. TextType => LookupsOnlyRead  BY LookupsRead DEF TextType
<1> QED  BY <1>1, TextIsTyped, PTL

-------------------------------------------------------------------------------
(* The headers that the client and the parser are given *)

\* The lines with their ends, and what getline makes of them.
WithEnds(L) == [i \in 1..Len(L) |-> L[i] \o <<"CR", "NL">>]
\* The lines with a carriage return, behind the empty status line.
WithCR(L, n) == [j \in 1..(n + 1) |-> IF j = 1 THEN <<>> ELSE L[j - 1] \o <<"CR">>]

\* No line holds a newline.
NoNewline(L) == \A i \in 1..Len(L) : \A x \in 1..Len(L[i]) : L[i][x] # "NL"

\* The line l, with its end, behind r and g.
EndsWith(r, g, l) ==
    r \o (g \o (l \o <<"CR", "NL">>)) = Append((r \o g) \o (l \o <<"CR">>), "NL")

\* A line put behind a text ends with its newline.
LEMMA EndOfLine ==
    ASSUME NEW S, "CR" \in S, "NL" \in S, NEW r \in Seq(S), NEW g \in Seq(S), NEW l \in Seq(S)
    PROVE  /\ l \o <<"CR">> \in Seq(S) /\ l \o <<"CR", "NL">> \in Seq(S)
           /\ EndsWith(r, g, l)
<1> DEFINE w == l \o <<"CR">>
<1>1. w \in Seq(S) /\ l \o <<"CR", "NL">> = Append(w, "NL") /\ l \o <<"CR", "NL">> \in Seq(S)
  OBVIOUS
<1> HIDE DEF w
<1>2. g \o Append(w, "NL") = Append(g \o w, "NL") /\ g \o w \in Seq(S)  BY <1>1, ConcatAppend
<1>3. r \o Append(g \o w, "NL") = Append(r \o (g \o w), "NL")  BY <1>2, ConcatAppend
<1>4. r \o (g \o w) = (r \o g) \o w
  <2>1. w \in Seq(S)  BY <1>1
  <2>2. Associates(r, g, w)  BY <2>1, Associative
  <2> QED  BY <2>2 DEF Associates
<1> DEFINE v == l \o <<"CR", "NL">>
<1>5. v = Append(w, "NL")  BY <1>1
<1> HIDE DEF v
<1>6. r \o (g \o v) = Append((r \o g) \o w, "NL")  BY <1>2, <1>3, <1>4, <1>5
<1>7. EndsWith(r, g, l)  BY <1>6 DEF EndsWith, v, w
<1> QED  BY <1>1, <1>7 DEF w

\* A newline begins a new piece.
LEMMA SplitNewline ==
    Split(<<"NL">>, {"NL"}) = Append(<< <<>> >>, <<>>)
<1>1. <<"NL">> = Append(<<>>, "NL") /\ <<>> \in Seq({"NL"})  OBVIOUS
<1>2. Split(Append(<<>>, "NL"), {"NL"}) = AddChar(Split(<<>>, {"NL"}), "NL", {"NL"})
  BY <1>1, SplitAppend
<1> QED  BY <1>1, <1>2, SplitEmpty DEF AddChar

\* getline gives the lines of the response back, each with its carriage return.
LEMMA LinesOfResponse ==
    ASSUME NEW S, "CR" \in S, "NL" \in S, NEW L \in Seq(Seq(S)), NoNewline(L)
    PROVE  Lines(<<"NL">> \o FlattenSeq(WithEnds(L))) = WithCR(L, Len(L))
<1> DEFINE n == Len(L)
           ends == WithEnds(L)
           r == <<"NL">>
           C == {"NL"}
<1>1. ends \in Seq(Seq(S)) /\ Len(ends) = n /\ \A i \in 1..n : ends[i] = L[i] \o <<"CR", "NL">>
  <2>1. \A i \in 1..n : L[i] \o <<"CR", "NL">> \in Seq(S)  OBVIOUS
  <2> QED  BY <2>1 DEF WithEnds
<1>2. n \in Nat /\ r \in Seq(S) /\ \A i \in 1..n : L[i] \in Seq(S)  OBVIOUS
<1> HIDE DEF ends, r
<1>3. PICK g \in [0..Len(ends) -> Seq(S)] :
         g[0] = <<>> /\ \A i \in 1..Len(ends) : g[i] = g[i - 1] \o ends[i]
  BY <1>1, FlattenFunction
<1>4. FlattenSeq(ends) = g[n]  BY <1>1, <1>3, FlattenIs
<1>5. g[0] = <<>> /\ (\A i \in 0..n : g[i] \in Seq(S)) /\ \A i \in 1..n : g[i] = g[i - 1] \o ends[i]
  BY <1>1, <1>3
<1> DEFINE T == {i \in 0..n : Split(r \o g[i], C) = Append(WithCR(L, i), <<>>)}
<1> HIDE DEF n
<1>6. 0 \in T
  <2>1. r \o <<>> = r  BY <1>2
  <2>2. WithCR(L, 0) = << <<>> >>
    <3>1. WithCR(L, 0) = [j \in 1..1 |-> <<>>]  BY DEF WithCR
    <3> QED  BY <3>1
  <2>3. Split(r, C) = Append(<< <<>> >>, <<>>)  BY SplitNewline DEF r
  <2>4. 0 \in 0..n  BY <1>2
  <2> QED  BY <1>5, <2>1, <2>2, <2>3, <2>4
<1>7. ASSUME NEW i \in 0..(n - 1), i \in T  PROVE i + 1 \in T
  <2> DEFINE l == L[i + 1]
             w == l \o <<"CR">>
             s == r \o g[i]
             v == WithCR(L, i)
             u == s \o w
  <2>1. i + 1 \in 1..n /\ i \in 0..n /\ (i + 1) - 1 = i /\ i + 1 \in 0..n  BY <1>2
  <2>2. l \in Seq(S) /\ g[i] \in Seq(S)  BY <1>2, <1>5, <2>1
  <2>3. g[i + 1] = g[i] \o (l \o <<"CR", "NL">>)
    <3>1. g[i + 1] = g[(i + 1) - 1] \o ends[i + 1]  BY <1>5, <2>1
    <3> QED  BY <1>1, <2>1, <3>1
  <2>4. \A x \in 1..Len(l) : l[x] # "NL"  BY <2>1 DEF NoNewline, n
  <2>5. v \in Seq(Seq(S)) /\ WithCR(L, i + 1) = Append(v, w)
    <3> DEFINE V(j) == IF j = 1 THEN <<>> ELSE L[j - 1] \o <<"CR">>
    <3>1. \A j \in 1..(i + 1) : V(j) \in Seq(S)
      <4> SUFFICES ASSUME NEW j \in 1..(i + 1), j # 1 PROVE L[j - 1] \o <<"CR">> \in Seq(S)
        OBVIOUS
      <4>1. j - 1 \in 1..n  BY <1>2, <2>1
      <4>2. L[j - 1] \in Seq(S)  BY <1>2, <4>1
      <4> QED  BY <4>2
    <3>2. V((i + 1) + 1) = w  BY <2>1
    <3>6. w \in Seq(S)  BY <2>2
    <3> HIDE DEF V, w
    <3>3. v = [j \in 1..(i + 1) |-> V(j)] /\ WithCR(L, i + 1) = [j \in 1..((i + 1) + 1) |-> V(j)]
      BY DEF WithCR, V
    <3> HIDE DEF v
    <3>4. v \in Seq(Seq(S)) /\ Len(v) = i + 1  BY <2>1, <3>1, <3>3
    <3>5. Append(v, w) = [j \in 1..((i + 1) + 1) |-> V(j)]
      <4> DEFINE t == Append(v, w)
                 t2 == [j \in 1..((i + 1) + 1) |-> V(j)]
      <4>1. t \in Seq(Seq(S)) /\ Len(t) = (i + 1) + 1 /\ t[(i + 1) + 1] = w
            /\ \A j \in 1..(i + 1) : t[j] = v[j]
        BY <3>4, <3>6, AppendProperties
      <4>2. \A j \in 1..((i + 1) + 1) : V(j) \in Seq(S)
        <5>1. \A j \in 1..((i + 1) + 1) : j \in 1..(i + 1) \/ j = (i + 1) + 1  BY <1>2, <2>1
        <5> QED  BY <3>1, <3>2, <3>6, <5>1
      <4>3. t2 \in Seq(Seq(S)) /\ Len(t2) = (i + 1) + 1 /\ \A j \in 1..Len(t2) : t2[j] = V(j)
        BY <1>2, <2>1, <4>2
      <4> HIDE DEF t, t2
      <4>4. \A j \in 1..Len(t) : t[j] = t2[j]
        <5>1. \A j \in 1..((i + 1) + 1) : j \in 1..(i + 1) \/ j = (i + 1) + 1  BY <1>2, <2>1
        <5>2. \A j \in 1..(i + 1) : v[j] = V(j)  BY <3>3
        <5> QED  BY <3>2, <4>1, <4>3, <5>1, <5>2
      <4>5. t = t2  BY <4>1, <4>3, <4>4, SeqEqual
      <4> QED  BY <4>5 DEF t, t2
    <3> QED  BY <3>3, <3>4, <3>5
  <2>6. w \in Seq(S) /\ r \o g[i + 1] = Append(u, "NL")
    <3>1. w \in Seq(S) /\ EndsWith(r, g[i], l)
      <4> HIDE DEF l
      <4> QED  BY <1>2, <2>2, EndOfLine
    <3> QED  BY <2>3, <3>1 DEF EndsWith
  <2>7. s \in Seq(S) /\ Split(s, C) = Append(v, <<>>)  BY <1>2, <1>7, <2>2
  <2>8. \A x \in 1..Len(w) : w[x] \notin C
    <3>1. Len(w) = Len(l) + 1 /\ w[Len(l) + 1] = "CR" /\ \A x \in 1..Len(l) : w[x] = l[x]
      BY <2>2
    <3>2. Len(l) \in Nat  BY <2>2
    <3> HIDE DEF w, l
    <3>3. \A x \in 1..Len(w) : x \in 1..Len(l) \/ x = Len(l) + 1  BY <3>1, <3>2
    <3> QED  BY <2>4, <3>1, <3>3
  <2> HIDE DEF l, w, s, v
  <2>9. Split(u, C) = Append(Front(Split(s, C)), Last(Split(s, C)) \o w)
    <3>1. NoneOf(w, C)  BY <2>8 DEF NoneOf
    <3> HIDE DEF C
    <3>2. LastGrows(s, w, C)  BY <2>6, <2>7, <3>1, SplitConcat
    <3> QED  BY <3>2 DEF LastGrows
  <2>10. Front(Append(v, <<>>)) = v /\ Last(Append(v, <<>>)) = <<>> /\ <<>> \o w = w
    <3>1. <<>> \in Seq(S)  OBVIOUS
    <3>2. Front(Append(v, <<>>)) = v /\ Last(Append(v, <<>>)) = <<>>
      BY <2>5, <3>1 DEF Front, Last
    <3> QED  BY <2>6, <3>2
  <2>11. Split(u, C) = Append(v, w)  BY <2>7, <2>9, <2>10
  <2>12. u \in Seq(S)  BY <2>6, <2>7
  <2> HIDE DEF u
  <2>13. Split(Append(u, "NL"), C) = AddChar(Append(v, w), "NL", C)
    BY <2>11, <2>12, SplitAppend
  <2>14. AddChar(Append(v, w), "NL", C) = Append(Append(v, w), <<>>)  BY DEF AddChar
  <2> QED  BY <2>1, <2>5, <2>6, <2>13, <2>14
<1> HIDE DEF T
<1>8. 0..n \subseteq T  BY <1>2, <1>6, <1>7, InductionUpTo
<1>9. Split(r \o FlattenSeq(ends), C) = Append(WithCR(L, n), <<>>)
  <2>1. n \in T  BY <1>2, <1>8
  <2> QED  BY <1>4, <2>1 DEF T
<1> DEFINE v == WithCR(L, n)
<1>10. v \in Seq(Seq(S))
  <2>1. \A j \in 1..(n + 1) : (IF j = 1 THEN <<>> ELSE L[j - 1] \o <<"CR">>) \in Seq(S)
    <3> SUFFICES ASSUME NEW j \in 1..(n + 1), j # 1 PROVE L[j - 1] \o <<"CR">> \in Seq(S)
      OBVIOUS
    <3>1. j - 1 \in 1..n  BY <1>2
    <3>2. L[j - 1] \in Seq(S)  BY <1>2, <3>1
    <3> QED  BY <3>2
  <2> QED  BY <1>2, <2>1 DEF WithCR
<1> HIDE DEF v
<1>11. Front(Append(v, <<>>)) = v /\ Last(Append(v, <<>>)) = <<>>
  <2>1. <<>> \in Seq(S)  OBVIOUS
  <2> QED  BY <1>10, <2>1 DEF Front, Last
<1> QED  BY <1>9, <1>11 DEF Lines, v, n, ends, r

-------------------------------------------------------------------------------
(* One header line *)

\* find_first_not_of finds the first one.
LEMMA FirstNotOfIs ==
    ASSUME NEW S, NEW C, NEW s \in Seq(S)
    PROVE  /\ FirstNotOf(s, C) \in 0..Len(s)
           /\ FirstNotOf(s, C) = 0 <=> \A i \in 1..Len(s) : s[i] \in C
<1> DEFINE T == {i \in 1..Len(s) : s[i] \notin C}
<1>1. FirstNotOf(s, C) = IF T # {} THEN Min(T) ELSE 0
  BY DEF FirstNotOf, SelectInSeq
<1>2. T \in SUBSET Nat /\ T \in SUBSET (1..Len(s)) /\ Len(s) \in Nat  OBVIOUS
<1>3. T = {} <=> \A i \in 1..Len(s) : s[i] \in C  OBVIOUS
<1> HIDE DEF T
<1>4. CASE T # {}
  <2>1. Min(T) \in T  BY <1>2, <1>4, MinIs
  <2>2. Min(T) \in 1..Len(s)  BY <1>2, <2>1
  <2>3. Min(T) \in 0..Len(s) /\ Min(T) # 0  BY <1>2, <2>2
  <2> QED  BY <1>1, <1>3, <1>4, <2>3
<1>5. CASE T = {}
  <2>1. 0 \in 0..Len(s)  BY <1>2
  <2> QED  BY <1>1, <1>3, <1>5, <2>1
<1> QED  BY <1>4, <1>5

\* find_last_not_of finds the last one.
LEMMA LastNotOfIs ==
    ASSUME NEW S, NEW C, NEW s \in Seq(S)
    PROVE  /\ LastNotOf(s, C) \in 0..Len(s)
           /\ \A b \in 1..Len(s) :
                 s[b] \notin C /\ (\A x \in (b + 1)..Len(s) : s[x] \in C) => LastNotOf(s, C) = b
<1> DEFINE T == {i \in 1..Len(s) : s[i] \notin C}
           n == Len(s)
<1>1. LastNotOf(s, C) = IF T # {} THEN Max(T) ELSE 0
  BY DEF LastNotOf, SelectLastInSeq
<1>2. T \in SUBSET (0..n) /\ T \in SUBSET (1..n) /\ n \in Nat  OBVIOUS
<1>5. \A i \in 1..n : i \in T <=> s[i] \notin C  OBVIOUS
<1> HIDE DEF T, n
<1>4. T # {} => Max(T) \in T /\ \A j \in T : Max(T) >= j
  BY <1>2, MaxIs
<1>6. ASSUME NEW b \in 1..n, s[b] \notin C, \A x \in (b + 1)..n : s[x] \in C
      PROVE  LastNotOf(s, C) = b
  <2>1. b \in T  BY <1>5, <1>6
  <2>2. Max(T) \in T /\ Max(T) >= b  BY <1>4, <2>1
  <2>3. Max(T) \in 1..n /\ s[Max(T)] \notin C  BY <1>2, <1>5, <2>2
  <2>4. ~(Max(T) \in (b + 1)..n)  BY <1>6, <2>3
  <2>5. Max(T) = b  BY <1>2, <2>2, <2>3, <2>4
  <2> QED  BY <1>1, <2>1, <2>5
<1>7. LastNotOf(s, C) \in 0..n
  <2>1. 0 \in 0..n  BY <1>2
  <2>2. T # {} => Max(T) \in 0..n  BY <1>2, <1>4
  <2> QED  BY <1>1, <2>1, <2>2
<1> QED  BY <1>6, <1>7 DEF n

\* The front of a text is a text.
LEMMA FrontPartType ==
    ASSUME NEW S, NEW s \in Seq(S), NEW b \in Int, b <= Len(s)
    PROVE  SubSeq(s, 1, b) \in Seq(S)
<1>1. Len(s) \in Nat /\ 1 \in Int  OBVIOUS
<1>2. \A x \in 1..b : s[x] \in S
  <2>1. \A x \in 1..b : x \in 1..Len(s)  BY <1>1
  <2> QED  BY <2>1
<1> QED  BY <1>1, <1>2, SubSeqProperties

\* So is what erase leaves of it.
LEMMA EraseType ==
    ASSUME NEW S, NEW C, NEW s \in Seq(S)
    PROVE  /\ EraseLeading(s, C) \in Seq(S) /\ EraseTrailing(s, C) \in Seq(S)
           /\ Trim(s, C) \in Seq(S) /\ EraseFromLast(s, C) \in Seq(S)
<1>1. ASSUME NEW t \in Seq(S)  PROVE EraseLeading(t, C) \in Seq(S)
  <2> DEFINE k == FirstNotOf(t, C)
  <2>1. k \in 0..Len(t) /\ Len(t) \in Nat  BY FirstNotOfIs
  <2> HIDE DEF k
  <2>2. CASE k = 0
    <3>1. <<>> \in Seq(S)  OBVIOUS
    <3> QED  BY <2>2, <3>1 DEF EraseLeading, k
  <2>3. CASE k # 0
    <3>1. k - 1 \in 0..Len(t) /\ Len(t) \in (k - 1)..Len(t) /\ (k - 1) + 1 = k  BY <2>1, <2>3
    <3> DEFINE a == k - 1
    <3>2. a \in 0..Len(t) /\ Len(t) \in a..Len(t)  BY <3>1
    <3> HIDE DEF a
    <3>3. IsCut(SubSeq(t, a + 1, Len(t)), S, t, a, Len(t))  BY <3>2, CutOut
    <3>4. SubSeq(t, a + 1, Len(t)) \in Seq(S)  BY <3>3 DEF IsCut
    <3> QED  BY <2>3, <3>1, <3>4 DEF EraseLeading, k, a
  <2> QED  BY <2>2, <2>3
<1>2. ASSUME NEW t \in Seq(S)
      PROVE  EraseTrailing(t, C) \in Seq(S) /\ EraseFromLast(t, C) \in Seq(S)
  <2> DEFINE b == LastNotOf(t, C)
             c == b - 1
  <2>1. b \in 0..Len(t) /\ Len(t) \in Nat  BY LastNotOfIs
  <2> HIDE DEF b
  <2>2. b \in Int /\ b <= Len(t) /\ c \in Int /\ c <= Len(t)  BY <2>1
  <2> HIDE DEF c
  <2>3. SubSeq(t, 1, b) \in Seq(S) /\ SubSeq(t, 1, c) \in Seq(S)  BY <2>2, FrontPartType
  <2> QED  BY <2>3 DEF EraseTrailing, EraseFromLast, b, c
<1> QED  BY <1>1, <1>2 DEF Trim

\* What is left between d and the end of s lies behind a, up to b.
Span(s, C, d, a, b) ==
    /\ AllIn(s, C, d, a) /\ s[a + 1] \notin C
    /\ s[b] \notin C /\ AllIn(s, C, b, Len(s))

\* Unless all is in C there is something left.
LEMMA SpanExists ==
    ASSUME NEW S, NEW C, NEW s \in Seq(S), NEW d \in 0..Len(s), ~AllIn(s, C, d, Len(s))
    PROVE  \E a \in d..(Len(s) - 1) : \E b \in (a + 1)..Len(s) : Span(s, C, d, a, b)
<1> DEFINE n == Len(s)
           T == {x \in (d + 1)..n : s[x] \notin C}
<1>1. n \in Nat /\ d \in 0..n  OBVIOUS
<1>2. T \in SUBSET Nat /\ T \in SUBSET (0..n) /\ T # {}  BY <1>1 DEF AllIn
<1>3. \A x \in (d + 1)..n : x \in T <=> s[x] \notin C  OBVIOUS
<1>9. \A x \in T : x \in (d + 1)..n  OBVIOUS
<1> HIDE DEF T, n
<1>4. PICK i \in T : \A j \in T : i <= j  BY <1>2, LeastElement
<1> DEFINE b == Max(T)
           a == i - 1
<1>5. b \in T /\ \A j \in T : b >= j  BY <1>1, <1>2, MaxIs
<1> HIDE DEF b
<1>6. i \in (d + 1)..n /\ b \in (d + 1)..n /\ i <= b /\ s[i] \notin C /\ s[b] \notin C
  BY <1>3, <1>4, <1>5, <1>9
<1>7. a \in d..(n - 1) /\ b \in (a + 1)..n /\ a + 1 = i  BY <1>1, <1>6
<1> HIDE DEF a
<1>8. Span(s, C, d, a, b)
  <2>1. ASSUME NEW x \in (d + 1)..a  PROVE s[x] \in C
    <3>1. x \in (d + 1)..n /\ ~(i <= x)  BY <1>1, <1>6, <1>7
    <3> QED  BY <1>3, <1>4, <3>1
  <2>2. ASSUME NEW x \in (b + 1)..n  PROVE s[x] \in C
    <3>1. x \in (d + 1)..n /\ ~(b >= x)  BY <1>1, <1>6
    <3> QED  BY <1>3, <1>5, <3>1
  <2> QED  BY <1>6, <1>7, <2>1, <2>2 DEF Span, AllIn, n
<1> QED  BY <1>7, <1>8 DEF n

\* Trim, and trimming in the order of the client, leave the same span.
TrimsTo(s, C, d, a, b) ==
    LET v == EraseLeading(SubSeq(s, d + 1, Len(s)), C) IN
    /\ v # <<>>
    /\ Trim(SubSeq(s, d + 1, Len(s)), C) = SubSeq(s, a + 1, b)
    /\ EraseFromLast(v, C) = SubSeq(s, a + 1, b - 1)

\* Both ways of trimming leave what lies between.
LEMMA TrimIs ==
    ASSUME NEW S, NEW C, NEW s \in Seq(S), NEW d \in 0..Len(s), NEW a \in d..(Len(s) - 1),
           NEW b \in (a + 1)..Len(s), Span(s, C, d, a, b)
    PROVE  TrimsTo(s, C, d, a, b)
<1> DEFINE n == Len(s)
           u == SubSeq(s, d + 1, n)
           v == SubSeq(s, a + 1, n)
           k == a - d
           h == b - a
<1>1. n \in Nat /\ d \in 0..n /\ a \in d..(n - 1) /\ b \in (a + 1)..n /\ a \in 0..n
      /\ n \in d..n /\ n \in a..n
  OBVIOUS
<1>2. /\ AllIn(s, C, d, a) /\ s[a + 1] \notin C
      /\ s[b] \notin C /\ AllIn(s, C, b, n)
  BY DEF Span
<1> HIDE DEF n
<1>3. n = Len(s)  BY DEF n
<1>4. IsCut(u, S, s, d, n) /\ IsCut(v, S, s, a, n)  BY <1>1, <1>3, CutOut
<1>5. k \in 0..(n - d) /\ n - d \in k..(n - d) /\ d + k = a /\ d + (n - d) = n
      /\ 0 \in 0..(n - a) /\ h \in 1..(n - a) /\ a + h = b /\ a + 0 = a
      /\ h - 1 \in 0..(n - a) /\ a + (h - 1) = b - 1 /\ 0 + 1 = 1
  BY <1>1
<1>6. SubSeq(u, k + 1, n - d) = v
  <2> DEFINE e == n - d
  <2>1. e \in k..(n - d) /\ d + e = n  BY <1>5
  <2> HIDE DEF k, e
  <2>2. SubSeq(SubSeq(s, d + 1, n), k + 1, e) = SubSeq(s, d + k + 1, d + e)
    BY <1>1, <1>3, <1>5, <2>1, CutOfCut
  <2> QED  BY <1>5, <2>1, <2>2 DEF e
<1>7. ASSUME NEW e \in 0..(n - a)  PROVE SubSeq(v, 1, e) = SubSeq(s, a + 1, a + e)
  <2>2. SubSeq(SubSeq(s, a + 1, n), 0 + 1, e) = SubSeq(s, a + 0 + 1, a + e)
    BY <1>1, <1>3, <1>5, CutOfCut
  <2> QED  BY <1>5, <2>2
<1> HIDE DEF u, v
<1>8. /\ u \in Seq(S) /\ Len(u) = n - d /\ \A x \in 1..(n - d) : u[x] = s[d + x]
      /\ v \in Seq(S) /\ Len(v) = n - a /\ \A x \in 1..(n - a) : v[x] = s[a + x]
      /\ v = <<>> <=> a = n
  BY <1>4 DEF IsCut
<1>9. EraseLeading(u, C) = v
  <2>1. \A x \in 1..k : u[x] \in C
    <3>1. \A x \in 1..k : x \in 1..(n - d) /\ d + x \in (d + 1)..a  BY <1>1
    <3> QED  BY <1>2, <1>8, <3>1 DEF AllIn
  <2>2. k + 1 \in 1..(n - d) /\ d + (k + 1) = a + 1  BY <1>1
  <2>3. u[k + 1] \notin C  BY <1>2, <1>8, <2>2
  <2>4. k \in 0..Len(u)  BY <1>5, <1>8
  <2> HIDE DEF k
  <2>5. BeginsAt(u, C, k)  BY <1>8, <2>1, <2>3, <2>4, EraseLeadingIs
  <2> QED  BY <1>6, <1>8, <2>5 DEF BeginsAt
<1>10. LastNotOf(v, C) = h
  <2>1. h \in 1..Len(v)  BY <1>5, <1>8
  <2>2. v[h] \notin C  BY <1>2, <1>5, <1>8
  <2>3. ASSUME NEW x \in (h + 1)..Len(v)  PROVE v[x] \in C
    <3>1. x \in 1..(n - a) /\ a + x \in (b + 1)..n  BY <1>1, <1>8
    <3> QED  BY <1>2, <1>8, <3>1 DEF AllIn
  <2> HIDE DEF h
  <2> QED  BY <1>8, <2>1, <2>2, <2>3, LastNotOfIs
<1>11. v # <<>>  BY <1>1, <1>8
<1>12. Trim(u, C) = SubSeq(s, a + 1, b)
  <2>1. h \in 0..(n - a)  BY <1>5
  <2>2. SubSeq(v, 1, h) = SubSeq(s, a + 1, a + h)  BY <1>7, <2>1
  <2> QED  BY <1>5, <1>9, <1>10, <2>2 DEF Trim, EraseTrailing
<1>13. EraseFromLast(v, C) = SubSeq(s, a + 1, b - 1)
  <2>2. SubSeq(v, 1, h - 1) = SubSeq(s, a + 1, a + (h - 1))  BY <1>5, <1>7
  <2> QED  BY <1>5, <1>10, <2>2 DEF EraseFromLast
<1> QED  BY <1>9, <1>11, <1>12, <1>13 DEF TrimsTo, u, n

\* Nothing is left of a text all of whose characters are in C.
LEMMA NothingLeft ==
    ASSUME NEW S, NEW C, NEW s \in Seq(S), NEW d \in 0..Len(s)
    PROVE  /\ AllIn(s, C, d, Len(s)) <=> EraseLeading(SubSeq(s, d + 1, Len(s)), C) = <<>>
           /\ AllIn(s, C, d, Len(s)) <=> ToSet(SubSeq(s, d + 1, Len(s))) \subseteq C
<1> DEFINE n == Len(s)
           u == SubSeq(s, d + 1, n)
<1>1. n \in Nat /\ d \in 0..n /\ n \in d..n  OBVIOUS
<1>2. IsCut(u, S, s, d, n)  BY <1>1, CutOut
<1> HIDE DEF u
<1>3. u \in Seq(S) /\ Len(u) = n - d /\ \A x \in 1..(n - d) : u[x] = s[d + x]
  BY <1>2 DEF IsCut
<1> HIDE DEF n
<1>4. AllIn(s, C, d, n) <=> \A x \in 1..Len(u) : u[x] \in C
  <2>1. ASSUME AllIn(s, C, d, n), NEW x \in 1..Len(u)  PROVE u[x] \in C
    <3>1. x \in 1..(n - d) /\ d + x \in (d + 1)..n  BY <1>1, <1>3
    <3> QED  BY <1>3, <2>1, <3>1 DEF AllIn
  <2>2. ASSUME \A x \in 1..Len(u) : u[x] \in C, NEW y \in (d + 1)..n  PROVE s[y] \in C
    <3>1. y - d \in 1..(n - d) /\ d + (y - d) = y  BY <1>1
    <3>2. y - d \in 1..Len(u) /\ u[y - d] = s[y]  BY <1>3, <3>1
    <3> QED  BY <2>2, <3>2
  <2> QED  BY <2>1, <2>2 DEF AllIn
<1>5. (\A x \in 1..Len(u) : u[x] \in C) <=> ToSet(u) \subseteq C
  <2>1. ToSet(u) = {u[x] : x \in 1..Len(u)}
    <3>1. DOMAIN u = 1..Len(u)  BY <1>3
    <3> QED  BY <3>1 DEF ToSet
  <2> HIDE DEF u
  <2> QED  BY <2>1
<1>6. (\A x \in 1..Len(u) : u[x] \in C) <=> EraseLeading(u, C) = <<>>
  <2> DEFINE k == FirstNotOf(u, C)
  <2>1. k \in 0..Len(u) /\ (k = 0 <=> \A x \in 1..Len(u) : u[x] \in C) /\ Len(u) \in Nat
    BY <1>3, FirstNotOfIs
  <2>2. EraseLeading(u, C) = IF k = 0 THEN <<>> ELSE SubSeq(u, k, Len(u))  BY DEF EraseLeading
  <2> HIDE DEF k
  <2>3. k # 0 => SubSeq(u, k, Len(u)) # <<>>
    <3> DEFINE a == k - 1
    <3> SUFFICES ASSUME k # 0 PROVE SubSeq(u, k, Len(u)) # <<>>  OBVIOUS
    <3>1. a \in 0..Len(u) /\ Len(u) \in a..Len(u) /\ a + 1 = k /\ a # Len(u)  BY <2>1
    <3> HIDE DEF a
    <3>2. IsCut(SubSeq(u, a + 1, Len(u)), S, u, a, Len(u))  BY <1>3, <3>1, CutOut
    <3> QED  BY <3>1, <3>2 DEF IsCut
  <2> QED  BY <2>1, <2>2, <2>3
<1> QED  BY <1>4, <1>5, <1>6 DEF u, n

\* find finds the first one.
LEMMA FindIs ==
    ASSUME NEW S, NEW s \in Seq(S), NEW c
    PROVE  /\ Find(s, c) \in 0..Len(s)
           /\ Find(s, c) # 0 <=> Contains(s, c)
<1> DEFINE T == {i \in 1..Len(s) : s[i] = c}
<1>1. Find(s, c) = IF T # {} THEN Min(T) ELSE 0
  BY DEF Find, SelectInSeq
<1>2. T \in SUBSET Nat /\ T \in SUBSET (1..Len(s)) /\ Len(s) \in Nat  OBVIOUS
<1>3. T # {} <=> Contains(s, c)  BY DEF Contains
<1> HIDE DEF T
<1>4. CASE T # {}
  <2>1. Min(T) \in T  BY <1>2, <1>4, MinIs
  <2>2. Min(T) \in 1..Len(s)  BY <1>2, <2>1
  <2>3. Min(T) \in 0..Len(s) /\ Min(T) # 0  BY <1>2, <2>2
  <2> QED  BY <1>1, <1>3, <1>4, <2>3
<1>5. CASE T = {}
  <2>1. 0 \in 0..Len(s)  BY <1>2
  <2> QED  BY <1>1, <1>3, <1>5, <2>1
<1> QED  BY <1>4, <1>5

\* C and D tell the characters of s in the same way.
SameChars(s, C, D) == \A x \in 1..Len(s) : s[x] \in C <=> s[x] \in D

\* Sets that agree on a text trim it alike.
LEMMA TrimSame ==
    ASSUME NEW S, NEW C, NEW D, NEW s \in Seq(S), SameChars(s, C, D)
    PROVE  Trim(s, C) = Trim(s, D)
<1>1. {i \in 1..Len(s) : s[i] \notin C} = {i \in 1..Len(s) : s[i] \notin D}
  BY DEF SameChars
<1>2. FirstNotOf(s, C) = FirstNotOf(s, D)  BY <1>1 DEF FirstNotOf, SelectInSeq
<1> DEFINE k == FirstNotOf(s, C)
           u == EraseLeading(s, C)
<1>3. EraseLeading(s, D) = u  BY <1>2 DEF EraseLeading
<1>4. u = IF k = 0 THEN <<>> ELSE SubSeq(s, k, Len(s))  BY DEF EraseLeading
<1>5. k \in 0..Len(s) /\ Len(s) \in Nat  BY FirstNotOfIs
<1> HIDE DEF u, k
<1>6. SameChars(u, C, D)
  <2>1. CASE k = 0
    <3>1. Len(<<>>) = 0 /\ 1..0 = {}  OBVIOUS
    <3> QED  BY <1>4, <2>1, <3>1 DEF SameChars
  <2>2. CASE k # 0
    <3> DEFINE a == k - 1
    <3>1. a \in 0..Len(s) /\ Len(s) \in a..Len(s) /\ a + 1 = k  BY <1>5, <2>2
    <3> HIDE DEF a
    <3>2. IsCut(SubSeq(s, a + 1, Len(s)), S, s, a, Len(s))  BY <3>1, CutOut
    <3>3. Len(u) = Len(s) - a /\ \A x \in 1..(Len(s) - a) : u[x] = s[a + x]
      BY <1>4, <2>2, <3>1, <3>2 DEF IsCut
    <3>4. \A x \in 1..(Len(s) - a) : a + x \in 1..Len(s)  BY <1>5, <3>1
    <3> QED  BY <3>3, <3>4 DEF SameChars
  <2> QED  BY <2>1, <2>2
<1>7. {i \in 1..Len(u) : u[i] \notin C} = {i \in 1..Len(u) : u[i] \notin D}
  BY <1>6 DEF SameChars
<1>8. LastNotOf(u, C) = LastNotOf(u, D)  BY <1>7 DEF LastNotOf, SelectLastInSeq
<1> QED  BY <1>3, <1>8 DEF Trim, EraseTrailing, u

\* A header line means the same to the parser and, with its end, to the client.
SameField(line) ==
    LET colon == Find(line, ":")
        line2 == line \o <<"CR", "NL">>
        rest == SubSeq(line2, colon + 1, Len(line2))
        value == EraseLeading(rest, Blanks) IN
    /\ Find(line2, ":") = colon /\ (Contains(line2, ":") <=> colon # 0)
    /\ colon # 0 =>
          /\ Trim(SubSeq(line2, 1, colon - 1), Blanks) = Trim(SubSeq(line, 1, colon - 1), Spaces)
          /\ value # <<>> => EraseFromLast(value, Blanks)
                                 = Front(Trim(SubSeq(line, colon + 1, Len(line)), Spaces))

\* A header line without control characters means the same on both sides.
LEMMA FieldsAgree ==
    ASSUME NEW S, "CR" \in S, "NL" \in S, NEW line \in Seq(S), NoneOf(line, {"CR", "NL"})
    PROVE  SameField(line)
<1> DEFINE n == Len(line)
           line2 == line \o <<"CR", "NL">>
           c == Find(line, ":")
           rest == SubSeq(line2, c + 1, Len(line2))
           value == EraseLeading(rest, Blanks)
<1>1. /\ n \in Nat /\ line2 \in Seq(S) /\ Len(line2) = n + 2
      /\ \A x \in 1..n : line2[x] = line[x]
      /\ line2[n + 1] = "CR" /\ line2[n + 2] = "NL"
  OBVIOUS
<1>2. \A x \in 1..n : line[x] # "CR" /\ line[x] # "NL"  BY DEF NoneOf
<1>3. c \in 0..n /\ (c # 0 <=> Contains(line, ":"))  BY FindIs
<1> HIDE DEF line2, n
<1>4. {i \in 1..Len(line2) : line2[i] = ":"} = {i \in 1..n : line[i] = ":"}
  <2>1. \A i \in 1..Len(line2) : i \in 1..n \/ i = n + 1 \/ i = n + 2  BY <1>1
  <2>2. \A i \in 1..n : i \in 1..Len(line2)  BY <1>1
  <2>3. "CR" # ":" /\ "NL" # ":"  OBVIOUS
  <2> QED  BY <1>1, <2>1, <2>2, <2>3
<1>5. Find(line2, ":") = c  BY <1>4 DEF Find, SelectInSeq, n
<1>6. Contains(line2, ":") <=> c # 0  BY <1>1, <1>5, FindIs
<1> HIDE DEF c
<1>7. ASSUME c # 0
      PROVE  Trim(SubSeq(line2, 1, c - 1), Blanks) = Trim(SubSeq(line, 1, c - 1), Spaces)
  <2> DEFINE b == c - 1
             u == SubSeq(line, 1, b)
  <2>1. b \in 0..n /\ 0 \in 0..n /\ 0 + 1 = 1 /\ 0 \in Nat /\ b \in Int /\ b <= n /\ b <= Len(line2)
    BY <1>1, <1>3, <1>7
  <2> HIDE DEF b
  <2>2. SubSeq(line2, 0 + 1, b) = SubSeq(line, 0 + 1, b)
    <3>1. b <= Len(line) /\ \A x \in 1..Len(line) : line2[x] = line[x]  BY <1>1, <2>1 DEF n
    <3> QED  BY <1>1, <2>1, <3>1, SameCut
  <2>3. IsCut(SubSeq(line, 0 + 1, b), S, line, 0, b)
    <3>1. 0 \in 0..Len(line) /\ b \in 0..Len(line)  BY <2>1 DEF n
    <3> QED  BY <3>1, CutOut
  <2> HIDE DEF u
  <2>4. u \in Seq(S) /\ Len(u) = b - 0 /\ \A x \in 1..(b - 0) : u[x] = line[0 + x]
    BY <2>1, <2>3 DEF IsCut, u
  <2>5. SameChars(u, Blanks, Spaces)
    <3>0. b - 0 = b /\ Len(u) = b /\ b <= n /\ n \in Nat  BY <1>1, <2>1, <2>4
    <3>1. \A x \in 1..Len(u) : x \in 1..n /\ 0 + x = x /\ x \in 1..(b - 0)  BY <2>1, <3>0
    <3>2. \A x \in 1..Len(u) : u[x] # "CR" /\ u[x] # "NL"  BY <1>2, <2>4, <3>1
    <3> QED  BY <3>2 DEF SameChars, Blanks, Spaces
  <2>6. Trim(u, Blanks) = Trim(u, Spaces)  BY <2>4, <2>5, TrimSame
  <2> QED  BY <2>1, <2>2, <2>6 DEF u, b
<1>8. ASSUME c # 0, value # <<>>
      PROVE  EraseFromLast(value, Blanks) = Front(Trim(SubSeq(line, c + 1, Len(line)), Spaces))
  <2>1. c \in 0..Len(line2)  BY <1>1, <1>3
  <2>2. ~AllIn(line2, Blanks, c, Len(line2))  BY <1>1, <1>8, <2>1, NothingLeft
  <2>3. PICK a \in c..(Len(line2) - 1) : \E b \in (a + 1)..Len(line2) : Span(line2, Blanks, c, a, b)
    BY <1>1, <2>1, <2>2, SpanExists
  <2>4. PICK b \in (a + 1)..Len(line2) : Span(line2, Blanks, c, a, b)  BY <2>3
  <2>5. TrimsTo(line2, Blanks, c, a, b)  BY <1>1, <2>1, <2>4, TrimIs
  <2>6. /\ \A x \in (c + 1)..a : line2[x] \in Blanks
        /\ line2[a + 1] \notin Blanks /\ line2[b] \notin Blanks
        /\ \A x \in (b + 1)..Len(line2) : line2[x] \in Blanks
    BY <2>4 DEF Span, AllIn
  <2>7. b \in (a + 1)..n /\ a \in c..(n - 1)
    <3>1. "CR" \in Blanks /\ "NL" \in Blanks  BY DEF Blanks
    <3>2. b # n + 1 /\ b # n + 2  BY <1>1, <2>6, <3>1
    <3> QED  BY <1>1, <1>3, <3>2
  <2>8. Span(line, Spaces, c, a, b)
    <3>1. \A x \in (c + 1)..a : x \in 1..n  BY <1>1, <1>3, <2>7
    <3>2. \A x \in (b + 1)..n : x \in 1..n /\ x \in (b + 1)..Len(line2)  BY <1>1, <1>3, <2>7
    <3>3. a + 1 \in 1..n /\ b \in 1..n  BY <1>1, <1>3, <2>7
    <3>4. \A x \in 1..n : line[x] \in Spaces <=> line2[x] \in Blanks
      BY <1>1, <1>2 DEF Spaces, Blanks
    <3>5. AllIn(line, Spaces, c, a)  BY <2>6, <3>1, <3>4 DEF AllIn
    <3>6. AllIn(line, Spaces, b, Len(line))  BY <2>6, <3>2, <3>4 DEF AllIn, n
    <3> QED  BY <2>6, <3>3, <3>4, <3>5, <3>6 DEF Span
  <2>9. TrimsTo(line, Spaces, c, a, b)
    <3>1. c \in 0..Len(line) /\ a \in c..(Len(line) - 1) /\ b \in (a + 1)..Len(line)
      BY <1>3, <2>7 DEF n
    <3> QED  BY <2>8, <3>1, TrimIs
  <2>10. Front(SubSeq(line, a + 1, b)) = SubSeq(line, a + 1, b - 1)
    <3> DEFINE w == SubSeq(line, a + 1, b)
               d == (b - a) - 1
    <3>1. a \in 0..Len(line) /\ b \in a..Len(line) /\ 0 \in 0..(b - a) /\ d \in 0..(b - a)
          /\ 0 + 1 = 1 /\ a + 0 + 1 = a + 1 /\ a + d = b - 1
      BY <1>1, <1>3, <2>7 DEF n
    <3>2. IsCut(w, S, line, a, b)  BY <3>1, CutOut
    <3> HIDE DEF d
    <3>3. SubSeq(SubSeq(line, a + 1, b), 0 + 1, d) = SubSeq(line, a + 0 + 1, a + d)
      BY <3>1, CutOfCut
    <3>4. Front(w) = SubSeq(w, 1, Len(w) - 1)  BY DEF Front
    <3>5. Len(w) - 1 = d  BY <3>2 DEF IsCut, d
    <3> QED  BY <3>1, <3>3, <3>4, <3>5
  <2>11. SubSeq(line2, a + 1, b - 1) = SubSeq(line, a + 1, b - 1)
    <3> DEFINE d == b - 1
    <3>1. a \in Nat /\ d \in Int /\ d <= Len(line) /\ d <= Len(line2)
          /\ \A x \in 1..Len(line) : line2[x] = line[x]
      BY <1>1, <1>3, <2>7 DEF n
    <3> HIDE DEF d
    <3>2. SubSeq(line2, a + 1, d) = SubSeq(line, a + 1, d)
      BY <1>1, <3>1, SameCut
    <3> QED  BY <3>2 DEF d
  <2> QED  BY <2>5, <2>9, <2>10, <2>11 DEF TrimsTo
<1> HIDE DEF rest, value
<1> QED  BY <1>5, <1>6, <1>7, <1>8 DEF SameField, rest, value, line2, c

-------------------------------------------------------------------------------
(* Header lines, one after the other *)

\* What the client has collected.
Got(S) == [throws : BOOLEAN, headers : MapsOf(Seq(S))]

\* The parts of a field are texts.
LEMMA FieldType ==
    ASSUME NEW S, NEW s \in Seq(S), NEW c \in 0..Len(s), c # 0, NEW C
    PROVE  /\ SubSeq(s, 1, c - 1) \in Seq(S) /\ SubSeq(s, c + 1, Len(s)) \in Seq(S)
           /\ Trim(SubSeq(s, 1, c - 1), C) \in Seq(S)
           /\ Trim(SubSeq(s, c + 1, Len(s)), C) \in Seq(S)
<1> DEFINE b == c - 1
           n == Len(s)
<1>1. b \in Int /\ b <= Len(s) /\ c \in 0..Len(s) /\ n \in c..Len(s)  OBVIOUS
<1> HIDE DEF b, n
<1>2. SubSeq(s, 1, b) \in Seq(S)  BY <1>1, FrontPartType
<1>3. IsCut(SubSeq(s, c + 1, n), S, s, c, n)  BY <1>1, CutOut
<1>4. SubSeq(s, c + 1, n) \in Seq(S)  BY <1>3 DEF IsCut
<1> QED  BY <1>2, <1>4, EraseType DEF b, n

\* A header line makes a map of a map.
LEMMA PutHeaderType ==
    ASSUME NEW S, NEW map \in MapsOf(Seq(S)), NEW line \in Seq(S)
    PROVE  PutHeader(map, line) \in MapsOf(Seq(S))
<1> DEFINE c == Find(line, ":")
<1>1. c \in 0..Len(line)  BY FindIs
<1> HIDE DEF c
<1>2. CASE c = 0  BY <1>2 DEF PutHeader, c
<1>3. CASE c # 0
  <2> DEFINE k == Trim(SubSeq(line, 1, c - 1), Spaces)
             v == Trim(SubSeq(line, c + 1, Len(line)), Spaces)
  <2>1. k \in Seq(S) /\ v \in Seq(S)  BY <1>1, <1>3, FieldType
  <2> HIDE DEF k, v
  <2>2. Put(map, k, v) \in MapsOf(Seq(S))  BY <2>1, PutType
  <2> QED  BY <1>3, <2>2 DEF PutHeader, c, k, v
<1> QED  BY <1>2, <1>3

\* StripCR makes a text of a text.
LEMMA StripCRType ==
    ASSUME NEW S, NEW line \in Seq(S)  PROVE StripCR(line) \in Seq(S)
<1>1. CASE line = <<>>  BY <1>1 DEF StripCR
<1>2. CASE line # <<>>  BY <1>2, FrontIs DEF StripCR
<1> QED  BY <1>1, <1>2

\* The two together.
LEMMA PutStrippedType ==
    ASSUME NEW S, NEW map \in MapsOf(Seq(S)), NEW line \in Seq(S)
    PROVE  PutHeader(map, StripCR(line)) \in MapsOf(Seq(S))
<1> DEFINE l == StripCR(line)
<1>1. l \in Seq(S)  BY StripCRType
<1> HIDE DEF l
<1>2. PutHeader(map, l) \in MapsOf(Seq(S))  BY <1>1, PutHeaderType
<1> QED  BY <1>2 DEF l

\* The callback keeps what the client has collected well formed.
LEMMA CallBackType ==
    ASSUME NEW S, NEW got \in Got(S), NEW line \in Seq(S)
    PROVE  HeaderCallBack(got, line) \in Got(S)
<1> DEFINE c == Find(line, ":")
           value == EraseLeading(SubSeq(line, c + 1, Len(line)), Blanks)
           k == Trim(SubSeq(line, 1, c - 1), Blanks)
           v == EraseFromLast(value, Blanks)
           put == Put(got.headers, k, v)
<1>1. c \in 0..Len(line)  BY FindIs
<1>0. HeaderCallBack(got, line) =
        IF got.throws \/ c = 0 THEN got
        ELSE IF value = <<>> THEN [got EXCEPT !.throws = TRUE]
        ELSE [got EXCEPT !.headers = put]
  BY DEF HeaderCallBack
<1> HIDE DEF c
<1>2. CASE got.throws \/ c = 0  BY <1>0, <1>2
<1>3. CASE ~(got.throws \/ c = 0)
  <2>1. c # 0  BY <1>3
  <2>2. SubSeq(line, c + 1, Len(line)) \in Seq(S) /\ k \in Seq(S)  BY <1>1, <2>1, FieldType
  <2>3. value \in Seq(S)  BY <2>2, EraseType
  <2> HIDE DEF value
  <2>4. v \in Seq(S)  BY <2>3, EraseType
  <2>5. got.headers \in MapsOf(Seq(S))  BY DEF Got
  <2> HIDE DEF k, v
  <2>6. put \in MapsOf(Seq(S))  BY <2>2, <2>4, <2>5, PutType
  <2> HIDE DEF put
  <2>7. [got EXCEPT !.throws = TRUE] \in Got(S) /\ [got EXCEPT !.headers = put] \in Got(S)
    BY <2>6 DEF Got
  <2> QED  BY <1>0, <1>3, <2>7
<1> QED  BY <1>2, <1>3

\* The headers of the parser after i lines are P[i].
Parses(P, q) ==
    P[0] = NoMap /\ \A i \in 1..Len(q) : P[i] = PutHeader(P[i - 1], StripCR(q[i]))

\* What the client has collected after i calls of its callback is G[i].
Collects(G, q) ==
    /\ G[0] = [throws |-> FALSE, headers |-> NoMap]
    /\ \A i \in 1..Len(q) : G[i] = HeaderCallBack(G[i - 1], q[i])

\* The headers that parse makes of lines.
ParseHeaders(q) ==
    FoldLeft(LAMBDA h, line : PutHeader(h, StripCR(line)), NoMap, q)

\* The headers of the parser, line after line.
LEMMA HeadersAre ==
    ASSUME NEW S, NEW q \in Seq(Seq(S))
    PROVE  \E G \in [0..Len(q) -> MapsOf(Seq(S))] :
              Parses(G, q) /\ ParseHeaders(q) = G[Len(q)]
<1> DEFINE n == Len(q)
           A == MapsOf(Seq(S))
           a == NoMap
           Read(v, line) == PutHeader(v, StripCR(line))
           step == [i \in 1..n |-> [v \in A |-> Read(v, q[i])]]
<1>6. ParseHeaders(q) = FoldLeft(LAMBDA h, line : PutHeader(h, StripCR(line)), a, q)
  BY DEF ParseHeaders
<1>1. n \in Nat /\ a \in A /\ DOMAIN q = 1..n  BY NoMapType
<1>2. step \in StepFunctions(n, A)
  <2>1. ASSUME NEW i \in 1..n, NEW v \in A  PROVE Read(v, q[i]) \in A
    <3>1. q[i] \in Seq(S)  OBVIOUS
    <3> QED  BY <3>1, PutStrippedType
  <2> HIDE DEF A, Read
  <2> QED  BY <2>1 DEF StepFunctions
<1> DEFINE Is(h) == h = [t \in SUBSET DOMAIN q |->
                           IF t = {} THEN a
                           ELSE LET x == Max(t) IN Read(h[t \ {x}], q[x])]
<1>4. \E h : Is(h)
  <2> HIDE DEF a, A, step, n
  <2>1. PICK h \in [SUBSET (1..n) -> A] : Fold(h, n, a, step)
    BY <1>1, <1>2, FoldExists
  <2>2. ASSUME NEW t \in SUBSET (1..n), t # {}
        PROVE  step[Max(t)][h[t \ {Max(t)}]] = Read(h[t \ {Max(t)}], q[Max(t)])
    <3>1. t \in SUBSET (0..n)  OBVIOUS
    <3>2. Max(t) \in 1..n  BY <1>1, <2>2, <3>1, MaxIs
    <3> HIDE DEF Read
    <3> QED  BY <3>2 DEF step
  <2> HIDE DEF Read
  <2>3. h = [t \in SUBSET (1..n) |->
               IF t = {} THEN a ELSE Read(h[t \ {Max(t)}], q[Max(t)])]
    BY <2>1, <2>2 DEF Fold
  <2> QED  BY <1>1, <2>3
<1> DEFINE h == CHOOSE h : Is(h)
<1>5. Is(h)  BY <1>4
<1>16. ParseHeaders(q) = h[DOMAIN q]
  BY <1>6 DEF FoldLeft, MapThenFoldSet
<1> HIDE DEF h, Read
<1>7. h[{}] = a  BY <1>5
<1>8. ASSUME NEW i \in 1..n, h[1..(i - 1)] \in A  PROVE h[1..i] = step[i][h[1..(i - 1)]]
  <2>2. /\ 1..i \in SUBSET (1..n) /\ 1..i # {} /\ Max(1..i) = i
        /\ (1..i) \ {i} = 1..(i - 1)
    BY <1>1, FoldGoesOn
  <2>3. h[1..i] = Read(h[(1..i) \ {Max(1..i)}], q[Max(1..i)])
    BY <1>1, <1>5, <2>2
  <2> QED  BY <1>8, <2>2, <2>3
<1> HIDE DEF a, A, step, n
<1>9. PICK g \in [0..n -> A] : Recursion(g, n, a, step)  BY <1>1, <1>2, RecursionUpTo
<1>10. h[1..n] = g[n]
  <2>1. FoldSteps(h, n, A, step)  BY <1>8 DEF FoldSteps
  <2> QED  BY <1>1, <1>2, <1>7, <1>9, <2>1, FoldIs
<1>11. ASSUME NEW i \in 1..n  PROVE g[i] = Read(g[i - 1], q[i])
  <2>1. g[i] = step[i][g[i - 1]]  BY <1>9 DEF Recursion
  <2>2. i - 1 \in 0..n  BY <1>1
  <2>3. g[i - 1] \in A  BY <2>2
  <2> QED  BY <2>1, <2>3 DEF step
<1>12. Parses(g, q)  BY <1>9, <1>11 DEF Parses, Recursion, a, n, Read
<1> QED  BY <1>1, <1>9, <1>10, <1>12, <1>16 DEF n, A

\* What the client collects, line after line.
LEMMA RequestIs ==
    ASSUME NEW S, NEW q \in Seq(Seq(S))
    PROVE  \E G \in [0..Len(q) -> Got(S)] :
              Collects(G, q) /\ request(q) = G[Len(q)]
<1> DEFINE n == Len(q)
           A == Got(S)
           a == [throws |-> FALSE, headers |-> NoMap]
           Read(v, line) == HeaderCallBack(v, line)
           step == [i \in 1..n |-> [v \in A |-> Read(v, q[i])]]
<1>6. request(q) = FoldLeft(HeaderCallBack, a, q)
  BY DEF request
<1>1. n \in Nat /\ a \in A /\ DOMAIN q = 1..n  BY NoMapType DEF Got
<1>2. step \in StepFunctions(n, A)
  <2>1. ASSUME NEW i \in 1..n, NEW v \in A  PROVE Read(v, q[i]) \in A
    <3>1. q[i] \in Seq(S)  OBVIOUS
    <3> QED  BY <3>1, CallBackType
  <2> HIDE DEF A, Read
  <2> QED  BY <2>1 DEF StepFunctions
<1> DEFINE Is(h) == h = [t \in SUBSET DOMAIN q |->
                           IF t = {} THEN a
                           ELSE LET x == Max(t) IN Read(h[t \ {x}], q[x])]
<1>4. \E h : Is(h)
  <2> HIDE DEF a, A, step, n
  <2>1. PICK h \in [SUBSET (1..n) -> A] : Fold(h, n, a, step)
    BY <1>1, <1>2, FoldExists
  <2>2. ASSUME NEW t \in SUBSET (1..n), t # {}
        PROVE  step[Max(t)][h[t \ {Max(t)}]] = Read(h[t \ {Max(t)}], q[Max(t)])
    <3>1. t \in SUBSET (0..n)  OBVIOUS
    <3>2. Max(t) \in 1..n  BY <1>1, <2>2, <3>1, MaxIs
    <3> HIDE DEF Read
    <3> QED  BY <3>2 DEF step
  <2> HIDE DEF Read
  <2>3. h = [t \in SUBSET (1..n) |->
               IF t = {} THEN a ELSE Read(h[t \ {Max(t)}], q[Max(t)])]
    BY <2>1, <2>2 DEF Fold
  <2> QED  BY <1>1, <2>3
<1> DEFINE h == CHOOSE h : Is(h)
<1>5. Is(h)  BY <1>4
<1>16. request(q) = h[DOMAIN q]
  BY <1>6 DEF FoldLeft, MapThenFoldSet
<1> HIDE DEF h, Read
<1>7. h[{}] = a  BY <1>5
<1>8. ASSUME NEW i \in 1..n, h[1..(i - 1)] \in A  PROVE h[1..i] = step[i][h[1..(i - 1)]]
  <2>2. /\ 1..i \in SUBSET (1..n) /\ 1..i # {} /\ Max(1..i) = i
        /\ (1..i) \ {i} = 1..(i - 1)
    BY <1>1, FoldGoesOn
  <2>3. h[1..i] = Read(h[(1..i) \ {Max(1..i)}], q[Max(1..i)])
    BY <1>1, <1>5, <2>2
  <2> QED  BY <1>8, <2>2, <2>3
<1> HIDE DEF a, A, step, n
<1>9. PICK g \in [0..n -> A] : Recursion(g, n, a, step)  BY <1>1, <1>2, RecursionUpTo
<1>10. h[1..n] = g[n]
  <2>1. FoldSteps(h, n, A, step)  BY <1>8 DEF FoldSteps
  <2> QED  BY <1>1, <1>2, <1>7, <1>9, <2>1, FoldIs
<1>11. ASSUME NEW i \in 1..n  PROVE g[i] = Read(g[i - 1], q[i])
  <2>1. g[i] = step[i][g[i - 1]]  BY <1>9 DEF Recursion
  <2>2. i - 1 \in 0..n  BY <1>1
  <2>3. g[i - 1] \in A  BY <2>2
  <2> QED  BY <2>1, <2>3 DEF step
<1>12. Collects(g, q)  BY <1>9, <1>11 DEF Collects, Recursion, a, n, Read
<1> QED  BY <1>1, <1>9, <1>10, <1>12, <1>16 DEF n, A

\* StripCR takes the carriage return off again.
LEMMA StripEnd ==
    ASSUME NEW S, "CR" \in S, NEW l \in Seq(S)
    PROVE  StripCR(l \o <<"CR">>) = l /\ l \o <<"CR">> \in Seq(S)
<1> DEFINE u == l \o <<"CR">>
           n == Len(l)
<1>1. u \in Seq(S) /\ Len(u) = n + 1 /\ u[n + 1] = "CR" /\ n \in Nat /\ u # <<>>
      /\ \A x \in 1..n : u[x] = l[x]
  OBVIOUS
<1> HIDE DEF u
<1>2. Front(u) \in Seq(S) /\ Len(Front(u)) = n /\ Last(u) = "CR"
      /\ \A x \in 1..n : Front(u)[x] = u[x]
  <2>1. /\ Front(u) \in Seq(S) /\ Len(Front(u)) = Len(u) - 1
        /\ \A k \in 1..(Len(u) - 1) : Front(u)[k] = u[k]
        /\ Last(u) = u[Len(u)]
    BY <1>1, FrontIs
  <2>2. Len(u) - 1 = n  BY <1>1
  <2> QED  BY <1>1, <2>1, <2>2
<1>3. Front(u) = l
  <2> DEFINE f == Front(u)
  <2>1. f \in Seq(S) /\ Len(f) = Len(l) /\ \A x \in 1..Len(f) : f[x] = l[x]
    BY <1>1, <1>2
  <2> HIDE DEF f
  <2>2. f = l  BY <2>1, SeqEqual
  <2> QED  BY <2>2 DEF f
<1> QED  BY <1>1, <1>2, <1>3 DEF StripCR, u

\* No line is empty.
NoneEmpty(L) == \A i \in 1..Len(L) : L[i] # <<>>

\* q holds the lines of L, each with its carriage return.
HasCR(q, L) ==
    Len(q) = Len(L) /\ \A i \in 1..Len(L) : q[i] = L[i] \o <<"CR">>

\* The header lines of a response end where its lines do.
LEMMA HeaderLines ==
    ASSUME NEW S, "CR" \in S, NEW L \in Seq(Seq(S)), NoneEmpty(L)
    PROVE  LET lines == WithCR(L, Len(L)) IN
           /\ SubSeq(lines, 2, HeaderEnd(lines) - 1) \in Seq(Seq(S))
           /\ HasCR(SubSeq(lines, 2, HeaderEnd(lines) - 1), L)
<1> DEFINE n == Len(L)
           lines == WithCR(L, n)
           V(j) == IF j = 1 THEN <<>> ELSE L[j - 1] \o <<"CR">>
           H == {i \in 2..Len(lines) : StripCR(lines[i]) = <<>>} \cup {Len(lines) + 1}
<1>1. n \in Nat /\ \A i \in 1..n : L[i] \in Seq(S)  OBVIOUS
<1>2. lines = [j \in 1..(n + 1) |-> V(j)]  BY DEF WithCR
<1>3. \A j \in 1..(n + 1) : V(j) \in Seq(S)
  <2> SUFFICES ASSUME NEW j \in 1..(n + 1), j # 1 PROVE L[j - 1] \o <<"CR">> \in Seq(S)
    OBVIOUS
  <2>1. j - 1 \in 1..n  BY <1>1
  <2>2. L[j - 1] \in Seq(S)  BY <1>1, <2>1
  <2> QED  BY <2>2
<1>7. \A i \in 1..n : V(i + 1) = L[i] \o <<"CR">>
  <2>1. \A i \in 1..n : i + 1 # 1 /\ (i + 1) - 1 = i  BY <1>1
  <2> QED  BY <2>1
<1> HIDE DEF V, lines
<1>4. lines \in Seq(Seq(S)) /\ Len(lines) = n + 1 /\ \A j \in 1..(n + 1) : lines[j] = V(j)
  <2> DEFINE m == n + 1
  <2>1. m \in Nat  BY <1>1
  <2> HIDE DEF m
  <2>2. \A j \in 1..m : V(j) \in Seq(S)  BY <1>3 DEF m
  <2>3. lines = [j \in 1..m |-> V(j)]  BY <1>2 DEF m
  <2>4. lines \in [1..m -> Seq(S)]  BY <2>2, <2>3
  <2>5. lines \in Seq(Seq(S)) /\ Len(lines) = m  BY <2>1, <2>4
  <2> QED  BY <2>3, <2>5 DEF m
<1>5. H = {n + 2}
  <2>1. ASSUME NEW i \in 2..(n + 1)  PROVE StripCR(lines[i]) # <<>>
    <3> DEFINE k == i - 1
    <3>1. k \in 1..n /\ k + 1 = i /\ i \in 1..(n + 1)  BY <1>1
    <3> HIDE DEF k
    <3>2. lines[i] = L[k] \o <<"CR">>  BY <1>4, <1>7, <3>1
    <3>3. L[k] # <<>>  BY <3>1 DEF NoneEmpty, n
    <3>4. StripCR(L[k] \o <<"CR">>) = L[k]  BY <1>1, <3>1, StripEnd
    <3> QED  BY <3>2, <3>3, <3>4
  <2>2. Len(lines) + 1 = n + 2  BY <1>1, <1>4
  <2> QED  BY <1>4, <2>1, <2>2
<1>6. HeaderEnd(lines) = n + 2
  <2>1. n + 2 \in {n + 2} /\ {n + 2} \in SUBSET Nat /\ \A j \in {n + 2} : n + 2 <= j
    BY <1>1
  <2>2. Min({n + 2}) = n + 2  BY <2>1, MinEquals
  <2> QED  BY <1>5, <2>2 DEF HeaderEnd
<1> DEFINE q == SubSeq(lines, 1 + 1, n + 1)
           m == n + 1
<1>8. q \in Seq(Seq(S)) /\ Len(q) = n /\ \A i \in 1..n : q[i] = lines[i + 1]
  <2>1. 1 \in 0..Len(lines) /\ m \in 1..Len(lines) /\ m - 1 = n  BY <1>1, <1>4
  <2> HIDE DEF m
  <2>2. IsCut(SubSeq(lines, 1 + 1, m), Seq(S), lines, 1, m)  BY <1>4, <2>1, CutOut
  <2>3. IsCut(q, Seq(S), lines, 1, m)  BY <2>2 DEF m
  <2> HIDE DEF q
  <2>4. \A i \in 1..n : 1 + i = i + 1  BY <1>1
  <2> QED  BY <2>1, <2>3, <2>4 DEF IsCut
<1>9. HasCR(q, L)
  <2> HIDE DEF q
  <2>1. \A i \in 1..n : i + 1 \in 1..(n + 1)  BY <1>1
  <2>2. \A i \in 1..n : q[i] = L[i] \o <<"CR">>  BY <1>4, <1>7, <1>8, <2>1
  <2> QED  BY <1>8, <2>2 DEF HasCR, n
<1>10. 1 + 1 = 2 /\ HeaderEnd(lines) - 1 = n + 1  BY <1>1, <1>6
<1> QED  BY <1>8, <1>9, <1>10 DEF lines

\* What the parser makes of the lines, one after the other.
ParsesLines(P, L) ==
    P[0] = NoMap /\ \A i \in 1..Len(L) : P[i] = PutHeader(P[i - 1], L[i])

\* What the server sends: a status line, here an empty one, and the lines.
Response(L) == <<"NL">> \o FlattenSeq(WithEnds(L))

\* The parser puts the lines of the response one after the other.
LEMMA ParsedIs ==
    ASSUME NEW S, "CR" \in S, "NL" \in S, NEW L \in Seq(Seq(S)), NoneEmpty(L), NoNewline(L)
    PROVE  \E P \in [0..Len(L) -> MapsOf(Seq(S))] :
              ParsesLines(P, L) /\ Parse(Response(L)).headers = P[Len(L)]
<1> DEFINE lines == WithCR(L, Len(L))
           q == SubSeq(lines, 2, HeaderEnd(lines) - 1)
<1>1. Lines(Response(L)) = lines  BY LinesOfResponse DEF Response
<1>2. q \in Seq(Seq(S)) /\ HasCR(q, L)  BY HeaderLines
<1>3. Parse(Response(L)).headers = ParseHeaders(q)
  <2> HIDE DEF lines
  <2>1. Parse(Response(L)).headers
          = FoldLeft(LAMBDA h, line : PutHeader(h, StripCR(line)),
                     NoMap, SubSeq(Lines(Response(L)), 2, HeaderEnd(Lines(Response(L))) - 1))
    BY DEF Parse
  <2> QED  BY <1>1, <2>1 DEF ParseHeaders
<1> HIDE DEF q
<1>4. PICK P \in [0..Len(q) -> MapsOf(Seq(S))] : Parses(P, q) /\ ParseHeaders(q) = P[Len(q)]
  BY <1>2, HeadersAre
<1>5. Len(q) = Len(L) /\ \A i \in 1..Len(L) : q[i] = L[i] \o <<"CR">>  BY <1>2 DEF HasCR
<1>6. \A i \in 1..Len(L) : StripCR(q[i]) = L[i]
  <2> SUFFICES ASSUME NEW i \in 1..Len(L) PROVE StripCR(q[i]) = L[i]  OBVIOUS
  <2>1. L[i] \in Seq(S)  OBVIOUS
  <2>2. StripCR(L[i] \o <<"CR">>) = L[i]  BY <2>1, StripEnd
  <2> QED  BY <1>5, <2>2
<1>7. ParsesLines(P, L)  BY <1>4, <1>5, <1>6 DEF Parses, ParsesLines
<1> QED  BY <1>3, <1>4, <1>5, <1>7

\* v begins w.
IsBeginning(v, w) == v = SubSeq(w, 1, Len(v))

\* The client has the names of the parser, and beginnings of its values.
Agrees(got, parsed) ==
    /\ DOMAIN got = DOMAIN parsed
    /\ \A name \in DOMAIN parsed : IsBeginning(got[name], parsed[name])

\* What is left without the last character begins the text.
LEMMA FrontBegins ==
    ASSUME NEW S, NEW w \in Seq(S)
    PROVE  IsBeginning(Front(w), w)
<1>1. CASE w = <<>>
  <2>1. Front(w) = <<>>
    <3>1. SubSeq(w, 1, Len(w) - 1) = <<>>
      <4>1. Len(w) = 0 /\ Len(w) - 1 < 1 /\ Len(w) - 1 \in Int /\ 1 \in Int  BY <1>1
      <4> QED  BY <4>1, SubSeqEmpty
    <3> QED  BY <3>1 DEF Front
  <2>2. SubSeq(w, 1, 0) = <<>>  BY SubSeqEmpty, 0 < 1, 0 \in Int, 1 \in Int
  <2> QED  BY <2>1, <2>2 DEF IsBeginning
<1>2. CASE w # <<>>
  <2> DEFINE b == Len(w) - 1
  <2>1. b \in 0..Len(w) /\ 0 \in 0..Len(w) /\ b - 0 = b /\ 0 + 1 = 1  BY <1>2
  <2>2. IsCut(SubSeq(w, 0 + 1, b), S, w, 0, b)
    <3> HIDE DEF b
    <3> QED  BY <2>1, CutOut
  <2> HIDE DEF b
  <2>3. Len(SubSeq(w, 1, b)) = b  BY <2>1, <2>2 DEF IsCut
  <2>4. Front(w) = SubSeq(w, 1, b)  BY DEF Front, b
  <2> QED  BY <2>3, <2>4 DEF IsBeginning
<1> QED  BY <1>1, <1>2

\* One more line l, which the client gets as line2.
StaysInStep(got, parsed, l, line2) ==
    LET next == HeaderCallBack(got, line2) IN
    /\ got.throws => next.throws
    /\ ~next.throws /\ Agrees(got.headers, parsed)
          => Agrees(next.headers, PutHeader(parsed, l))

\* The same assignment keeps the headers in agreement.
LEMMA PutAgrees ==
    ASSUME NEW S, NEW got \in MapsOf(Seq(S)), NEW parsed \in MapsOf(Seq(S)), NEW key \in Seq(S),
           NEW value \in Seq(S), NEW front \in Seq(S), IsBeginning(front, value), Agrees(got, parsed)
    PROVE  Agrees(Put(got, key, front), Put(parsed, key, value))
<1>1. IsPut(Put(got, key, front), got, key, front)  BY PutType
<1>2. IsPut(Put(parsed, key, value), parsed, key, value)  BY PutType
<1> DEFINE g == Put(got, key, front)
           p == Put(parsed, key, value)
<1>3. DOMAIN g = DOMAIN p  BY <1>1, <1>2 DEF IsPut, Agrees
<1> HIDE DEF g, p
<1>4. ASSUME NEW name \in DOMAIN p  PROVE IsBeginning(g[name], p[name])
  <2>1. CASE name = key  BY <1>1, <1>2, <2>1 DEF IsPut, g, p
  <2>2. CASE name # key
    <3>1. name \in DOMAIN parsed /\ name \in DOMAIN got
      BY <1>2, <1>4, <2>2 DEF IsPut, Agrees, p
    <3>2. g[name] = got[name] /\ p[name] = parsed[name]
      BY <1>1, <1>2, <2>2, <3>1 DEF IsPut, g, p
    <3> QED  BY <3>1, <3>2 DEF Agrees
  <2> QED  BY <2>1, <2>2
<1> QED  BY <1>3, <1>4 DEF Agrees, g, p

\* One line keeps client and parser in step.
LEMMA OneLine ==
    ASSUME NEW S, "CR" \in S, "NL" \in S, NEW l \in Seq(S), NoneOf(l, {"CR", "NL"}),
           NEW got \in Got(S), NEW parsed \in MapsOf(Seq(S))
    PROVE  StaysInStep(got, parsed, l, l \o <<"CR", "NL">>)
<1> DEFINE line2 == l \o <<"CR", "NL">>
           c == Find(l, ":")
           rest == SubSeq(line2, c + 1, Len(line2))
           value == EraseLeading(rest, Blanks)
           key == Trim(SubSeq(l, 1, c - 1), Spaces)
           val == Trim(SubSeq(l, c + 1, Len(l)), Spaces)
           front == EraseFromLast(value, Blanks)
           next == HeaderCallBack(got, line2)
           put == Put(got.headers, Trim(SubSeq(line2, 1, c - 1), Blanks), front)
<1>1. SameField(l)  BY FieldsAgree
<1>2. /\ Find(line2, ":") = c /\ (Contains(line2, ":") <=> c # 0)
      /\ c # 0 =>
            /\ Trim(SubSeq(line2, 1, c - 1), Blanks) = key
            /\ value # <<>> => front = Front(val)
  BY <1>1 DEF SameField
<1>3. next = IF got.throws \/ Find(line2, ":") = 0 THEN got
             ELSE IF EraseLeading(SubSeq(line2, Find(line2, ":") + 1, Len(line2)), Blanks) = <<>>
             THEN [got EXCEPT !.throws = TRUE]
             ELSE [got EXCEPT !.headers =
                    Put(got.headers, Trim(SubSeq(line2, 1, Find(line2, ":") - 1), Blanks),
                        EraseFromLast(EraseLeading(SubSeq(line2, Find(line2, ":") + 1, Len(line2)),
                                                   Blanks), Blanks))]
  BY DEF HeaderCallBack
<1>5. PutHeader(parsed, l) = IF c = 0 THEN parsed ELSE Put(parsed, key, val)
  BY DEF PutHeader
<1>6. c \in 0..Len(l)  BY FindIs
<1>7. got.headers \in MapsOf(Seq(S)) /\ got.throws \in BOOLEAN
      /\ got = [throws |-> got.throws, headers |-> got.headers]
  BY DEF Got
<1>8. line2 \in Seq(S) /\ c \in 0..Len(line2)
  <2>1. line2 \in Seq(S) /\ Len(line2) = Len(l) + 2 /\ Len(l) \in Nat  OBVIOUS
  <2> HIDE DEF c, line2
  <2> QED  BY <1>6, <2>1
<1> HIDE DEF line2, c
<1>9. next = IF got.throws \/ c = 0 THEN got
             ELSE IF value = <<>> THEN [got EXCEPT !.throws = TRUE]
             ELSE [got EXCEPT !.headers = put]
  BY <1>2, <1>3
<1> HIDE DEF value, next, put, front, key, val
<1>10. CASE got.throws \/ c = 0
  <2>1. next = got  BY <1>9, <1>10
  <2>2. ~next.throws => PutHeader(parsed, l) = parsed  BY <1>5, <1>10, <2>1
  <2> QED  BY <1>10, <2>1, <2>2 DEF StaysInStep, next, line2
<1>11. CASE ~got.throws /\ c # 0 /\ value = <<>>
  <2>1. next.throws = TRUE  BY <1>7, <1>9, <1>11
  <2> QED  BY <1>11, <2>1 DEF StaysInStep, next, line2
<1>12. CASE ~got.throws /\ c # 0 /\ value # <<>>
  <2>1. next = [got EXCEPT !.headers = put]  BY <1>9, <1>12
  <2>2. next.throws = got.throws /\ next.headers = put  BY <1>7, <2>1
  <2>3. put = Put(got.headers, key, front)  BY <1>2, <1>12 DEF put
  <2>4. key \in Seq(S) /\ val \in Seq(S)  BY <1>6, <1>12, FieldType DEF key, val
  <2>5. front \in Seq(S)
    <3>1. rest \in Seq(S)  BY <1>8, <1>12, FieldType
    <3> HIDE DEF rest
    <3>2. value \in Seq(S)  BY <3>1, EraseType DEF value
    <3> QED  BY <3>2, EraseType DEF front
  <2>6. IsBeginning(front, val)  BY <1>2, <1>12, <2>4, FrontBegins
  <2>7. Agrees(got.headers, parsed) => Agrees(put, Put(parsed, key, val))
    <3> DEFINE h == got.headers
    <3>1. h \in MapsOf(Seq(S))  BY <1>7
    <3> HIDE DEF h
    <3>2. Agrees(h, parsed) => Agrees(Put(h, key, front), Put(parsed, key, val))
      BY <2>4, <2>5, <2>6, <3>1, PutAgrees
    <3> QED  BY <2>3, <3>2 DEF h
  <2>8. PutHeader(parsed, l) = Put(parsed, key, val)  BY <1>5, <1>12
  <2> QED  BY <1>12, <2>2, <2>7, <2>8 DEF StaysInStep, next, line2
<1> QED  BY <1>7, <1>10, <1>11, <1>12

\* All lines do.
LEMMA HeadersAgree ==
    ASSUME NEW S, "CR" \in S, "NL" \in S, NEW L \in Seq(Seq(S)), NoneEmpty(L),
           \A i \in 1..Len(L) : NoneOf(L[i], {"CR", "NL"})
    PROVE  LET got == request(WithEnds(L))
               parsed == Parse(Response(L)).headers IN
           ~got.throws => Agrees(got.headers, parsed)
<1> DEFINE n == Len(L)
           ends == WithEnds(L)
<1>1. n \in Nat /\ \A i \in 1..n : L[i] \in Seq(S)  OBVIOUS
<1>2. ends \in Seq(Seq(S)) /\ Len(ends) = n /\ \A i \in 1..n : ends[i] = L[i] \o <<"CR", "NL">>
  <2>1. \A i \in 1..n : L[i] \o <<"CR", "NL">> \in Seq(S)  OBVIOUS
  <2> QED  BY <2>1 DEF WithEnds
<1>3. NoNewline(L)
  <2>1. \A i \in 1..n : \A x \in 1..Len(L[i]) : L[i][x] # "NL"  BY DEF NoneOf
  <2> QED  BY <2>1 DEF NoNewline
<1> HIDE DEF ends
<1>4. PICK P \in [0..Len(L) -> MapsOf(Seq(S))] :
         ParsesLines(P, L) /\ Parse(Response(L)).headers = P[Len(L)]
  BY <1>3, ParsedIs
<1>5. PICK G \in [0..Len(ends) -> Got(S)] : Collects(G, ends) /\ request(ends) = G[Len(ends)]
  BY <1>2, RequestIs
<1> DEFINE T == {i \in 0..n : ~G[i].throws => Agrees(G[i].headers, P[i])}
<1>6. /\ \A i \in 0..n : G[i] \in Got(S) /\ P[i] \in MapsOf(Seq(S))
      /\ G[0] = [throws |-> FALSE, headers |-> NoMap] /\ P[0] = NoMap
      /\ \A i \in 1..n : P[i] = PutHeader(P[i - 1], L[i])
                         /\ G[i] = HeaderCallBack(G[i - 1], L[i] \o <<"CR", "NL">>)
  BY <1>2, <1>4, <1>5 DEF Collects, ParsesLines
<1> HIDE DEF n
<1>7. 0 \in T
  <2>1. 0 \in 0..n /\ 1..0 = {}  BY <1>1
  <2>2. G[0].throws = FALSE /\ G[0].headers = NoMap  BY <1>6
  <2>3. Agrees(NoMap, NoMap)
    <3>1. DOMAIN NoMap = {}  BY NoMapType
    <3> QED  BY <3>1 DEF Agrees
  <2> QED  BY <1>6, <2>1, <2>2, <2>3
<1>8. ASSUME NEW i \in 0..(n - 1), i \in T  PROVE i + 1 \in T
  <2> DEFINE j == i + 1
  <2>1. j \in 1..n /\ i \in 0..n /\ j - 1 = i /\ j \in 0..n  BY <1>1
  <2>2. ~G[i].throws => Agrees(G[i].headers, P[i])  BY <1>8
  <2> HIDE DEF j
  <2>4. P[j] = PutHeader(P[i], L[j]) /\ G[j] = HeaderCallBack(G[i], L[j] \o <<"CR", "NL">>)
    <3>1. P[j] = PutHeader(P[j - 1], L[j])
          /\ G[j] = HeaderCallBack(G[j - 1], L[j] \o <<"CR", "NL">>)
      BY <1>6, <2>1
    <3> QED  BY <2>1, <3>1
  <2>5. StaysInStep(G[i], P[i], L[j], L[j] \o <<"CR", "NL">>)
    <3>1. L[j] \in Seq(S) /\ G[i] \in Got(S) /\ P[i] \in MapsOf(Seq(S))
          /\ NoneOf(L[j], {"CR", "NL"})
      BY <1>1, <1>6, <2>1 DEF n
    <3> QED  BY <3>1, OneLine
  <2>6. /\ G[i].throws => G[j].throws
        /\ ~G[j].throws /\ Agrees(G[i].headers, P[i]) => Agrees(G[j].headers, P[j])
    BY <1>2, <2>1, <2>4, <2>5 DEF StaysInStep
  <2>8. ~G[j].throws => Agrees(G[j].headers, P[j])  BY <2>2, <2>6
  <2>9. j \in T  BY <2>1, <2>8
  <2> QED  BY <2>9 DEF j
<1> HIDE DEF T
<1>9. 0..n \subseteq T  BY <1>1, <1>7, <1>8, InductionUpTo
<1>10. n \in T  BY <1>1, <1>9
<1> QED  BY <1>2, <1>4, <1>5, <1>10 DEF T, n, ends

\* Lines of a text over other characters hold no control characters.
LEMMA LinesAreClean ==
    ASSUME NEW S, NEW s \in Seq(S), ~Contains(s, "CR")
    PROVE  /\ Lines(s) \in Seq(Seq(S))
           /\ \A i \in 1..Len(Lines(s)) : NoneOf(Lines(s)[i], {"CR", "NL"})
<1> DEFINE lines == Lines(s)
<1>1. lines \in Seq(Seq(S))  BY LinesAre
<1>2. PICK e : AreLines(s, e, lines)  BY LinesLie
<1> HIDE DEF lines
<1>3. ASSUME NEW i \in 1..Len(lines)  PROVE NoneOf(lines[i], {"CR", "NL"})
  <2> DEFINE a == e[i - 1]
             b == e[i] - 1
  <2>1. a \in 0..Len(s) /\ b \in a..Len(s) /\ IsLine(s, a, b)
        /\ lines[i] = SubSeq(s, a + 1, e[i] - 1)
    BY <1>2 DEF AreLines
  <2>2. lines[i] = SubSeq(s, a + 1, b)  BY <2>1
  <2> HIDE DEF a, b
  <2>3. IsCut(lines[i], S, s, a, b)  BY <2>1, <2>2, CutOut
  <2>4. a \in Nat /\ b \in Nat /\ b <= Len(s) /\ b - a \in Nat /\ Len(s) \in Nat  BY <2>1
  <2>5. \A x \in 1..(b - a) : a + x \in 1..Len(s) /\ a + x \in (a + 1)..b  BY <2>4
  <2>6. \A y \in 1..Len(s) : s[y] # "CR"  BY DEF Contains
  <2>7. \A y \in (a + 1)..b : s[y] # "NL"  BY <2>1 DEF IsLine
  <2>8. \A x \in 1..Len(lines[i]) : lines[i][x] # "CR" /\ lines[i][x] # "NL"
    BY <2>3, <2>5, <2>6, <2>7 DEF IsCut
  <2> QED  BY <2>8 DEF NoneOf
<1> QED  BY <1>1, <1>3 DEF lines

\* The client agrees with the parser on a text over any alphabet.
LEMMA ClientAgrees ==
    ASSUME NEW S, "CR" \in S, "NL" \in S, text \in Seq(S)
    PROVE  ValuesStayWithNames
<1> DEFINE L == Lines(text)
           got == request(WithEnds(L))
           parsed == Parse(Response(L)).headers
<1>1. ASSUME ~Contains(text, "CR"), <<>> \notin ToSet(L), ~got.throws
      PROVE  Agrees(got.headers, parsed)
  <2>1. L \in Seq(Seq(S)) /\ \A i \in 1..Len(L) : NoneOf(L[i], {"CR", "NL"})
    BY <1>1, LinesAreClean
  <2> HIDE DEF L
  <2>2. NoneEmpty(L)
    <3>1. DOMAIN L = 1..Len(L)  BY <2>1
    <3> QED  BY <1>1, <3>1 DEF NoneEmpty, ToSet
  <2> QED  BY <1>1, <2>1, <2>2, HeadersAgree
<1> QED
  <2> HIDE DEF L
  <2> SUFFICES ASSUME ~Contains(text, "CR"), <<>> \notin ToSet(L), ~got.throws
               PROVE  /\ DOMAIN got.headers = DOMAIN parsed
                      /\ \A name \in DOMAIN parsed :
                            got.headers[name] = SubSeq(parsed[name], 1, Len(got.headers[name]))
    BY DEF ValuesStayWithNames, WithEnds, Response, L
  <2> QED  BY <1>1 DEF Agrees, IsBeginning

\* HttpClient::HeaderCallBack files each value under the name under which
\* HttpRequestParser::parse files it, for any number of lines of any length.
THEOREM HeadersCorrect == TextSpec => []ValuesStayWithNames
<1>1. TextType => ValuesStayWithNames
  <2> DEFINE S == alphabet \cup {"CR", "NL"}
  <2>1. ASSUME TextType  PROVE "CR" \in S /\ "NL" \in S /\ text \in Seq(S)
    BY <2>1 DEF TextType
  <2> HIDE DEF S
  <2> QED  BY <2>1, ClientAgrees
<1> QED  BY <1>1, TextIsTyped, PTL

-------------------------------------------------------------------------------
(* Replacing a word of a text *)

\* Induction from the end of a text to its beginning.
LEMMA BackwardInduction ==
    ASSUME NEW N \in Nat, NEW T, \A i \in 1..N : (i + 1)..N \subseteq T => i \in T
    PROVE  1..N \subseteq T
<1> DEFINE U == {m \in 0..N : ((N - m) + 1)..N \subseteq T}
<1>1. 0 \in U
  <2>1. ((N - 0) + 1)..N = {} /\ 0 \in 0..N  OBVIOUS
  <2> QED  BY <2>1
<1>2. ASSUME NEW m \in 0..(N - 1), m \in U  PROVE m + 1 \in U
  <2> DEFINE k == N - m
  <2>1. k \in 1..N /\ (N - (m + 1)) + 1 = k /\ m + 1 \in 0..N  OBVIOUS
  <2>2. (k + 1)..N \subseteq T  BY <1>2
  <2>3. \A j \in k..N : j = k \/ j \in (k + 1)..N  OBVIOUS
  <2> HIDE DEF k
  <2>4. k \in T  BY <2>1, <2>2
  <2>5. k..N \subseteq T  BY <2>2, <2>3, <2>4
  <2> QED  BY <2>1, <2>5
<1> HIDE DEF U
<1>3. 0..N \subseteq U  BY <1>1, <1>2, InductionUpTo
<1>4. N \in U /\ (N - N) + 1 = 1
  <2>1. N \in 0..N  OBVIOUS
  <2> QED  BY <1>3, <2>1
<1> QED  BY <1>4 DEF U

\* What a loop over the places of a text yields, defined from the end backwards.
FunctionsUpTo(N, A) == [1..N -> A]
\* How each place is computed from the others.
OperatorsUpTo(N, A) == [1..N -> [FunctionsUpTo(N, A) -> A]]
\* f is what F defines.
Solves(f, F, N) == \A i \in 1..N : f[i] = F[i][f]

\* What follows i does not change when only what precedes it does.
LooksAhead(F, N, A) ==
    \A i \in 1..N : \A f, g \in FunctionsUpTo(N, A) :
        (\A j \in (i + 1)..N : f[j] = g[j]) => F[i][f] = F[i][g]

\* A definition that looks ahead only has a solution.
LEMMA BackwardFunction ==
    ASSUME NEW N \in Nat, NEW A, NEW a \in A, NEW F \in OperatorsUpTo(N, A),
           LooksAhead(F, N, A)
    PROVE  \E f \in FunctionsUpTo(N, A) : Solves(f, F, N)
<1> USE DEF FunctionsUpTo, OperatorsUpTo, Solves
<1> DEFINE Good(f, m) == \A i \in ((N - m) + 1)..N : f[i] = F[i][f]
           T == {m \in 0..N : \E f \in [1..N -> A] : Good(f, m)}
<1>1. 0 \in T
  <2>1. ((N - 0) + 1)..N = {} /\ 0 \in 0..N  OBVIOUS
  <2>2. [i \in 1..N |-> a] \in [1..N -> A]  OBVIOUS
  <2> QED  BY <2>1, <2>2
<1>2. ASSUME NEW m \in 0..(N - 1), m \in T  PROVE m + 1 \in T
  <2>1. PICK f \in [1..N -> A] : Good(f, m)  BY <1>2
  <2> DEFINE k == N - m
             v == F[k][f]
             g == [f EXCEPT ![k] = v]
  <2>2. k \in 1..N /\ (N - (m + 1)) + 1 = k /\ m + 1 \in 0..N /\ k + 1 = (N - m) + 1
    OBVIOUS
  <2>3. \A j \in k..N : j = k \/ (j \in (k + 1)..N /\ j \in 1..N /\ j # k)  OBVIOUS
  <2>4. \A i \in (k + 1)..N : f[i] = F[i][f]  BY <2>1, <2>2
  <2>5. v \in A  BY <2>2
  <2> HIDE DEF k, v
  <2>6. g \in [1..N -> A] /\ g[k] = v /\ \A j \in 1..N : j # k => g[j] = f[j]
    BY <2>2, <2>5
  <2>7. \A i \in k..N : \A j \in (i + 1)..N : j \in 1..N /\ j # k  BY <2>2
  <2> HIDE DEF g
  <2>8. \A i \in k..N : F[i][g] = F[i][f]
    <3>1. \A i \in k..N : i \in 1..N  BY <2>2
    <3>2. \A i \in k..N : \A j \in (i + 1)..N : f[j] = g[j]  BY <2>6, <2>7
    <3> QED  BY <2>6, <3>1, <3>2 DEF LooksAhead
  <2>9. \A i \in k..N : g[i] = F[i][g]
    <3>1. k \in k..N  BY <2>2
    <3>2. g[k] = F[k][g]  BY <2>6, <2>8, <3>1 DEF v
    <3>3. ASSUME NEW i \in k..N, i # k  PROVE g[i] = F[i][g]
      <4>1. i \in (k + 1)..N /\ i \in 1..N  BY <2>3, <3>3
      <4> QED  BY <2>4, <2>6, <2>8, <3>3, <4>1
    <3> QED  BY <3>2, <3>3
  <2>10. Good(g, m + 1)  BY <2>2, <2>9
  <2> QED  BY <2>2, <2>6, <2>10
<1> HIDE DEF T
<1>3. 0..N \subseteq T  BY <1>1, <1>2, InductionUpTo
<1>4. N \in T
  <2>1. N \in 0..N  OBVIOUS
  <2> QED  BY <1>3, <2>1
<1>5. PICK f \in [1..N -> A] : Good(f, N)  BY <1>4 DEF T
<1>6. (N - N) + 1 = 1  OBVIOUS
<1> QED  BY <1>5, <1>6

-------------------------------------------------------------------------------
\* word stands in s at i, letter by letter.
Spelt(word, s, i) ==
    i + Len(word) - 1 <= Len(s) /\ \A x \in 1..Len(word) : s[(i + x) - 1] = word[x]

\* OccursAt compares letter by letter.
LEMMA OccursIs ==
    ASSUME NEW S, NEW s \in Seq(S), NEW word \in Seq(S), NEW i \in Nat \ {0}
    PROVE  OccursAt(word, s, i) <=> Spelt(word, s, i)
<1> DEFINE a == i - 1
           b == a + Len(word)
           u == SubSeq(s, a + 1, b)
<1>1. a \in Nat /\ a + 1 = i /\ b = i + Len(word) - 1 /\ b - a = Len(word) /\ Len(s) \in Nat
      /\ Len(word) \in Nat /\ b \in Nat /\ a <= b
  OBVIOUS
<1>2. OccursAt(word, s, i) <=> b <= Len(s) /\ u = word  BY <1>1 DEF OccursAt
<1>3. \A x \in 1..Len(word) : a + x = (i + x) - 1  BY <1>1
<1> HIDE DEF a, b, u
<1>4. ASSUME b <= Len(s)  PROVE u = word <=> \A x \in 1..Len(word) : s[a + x] = word[x]
  <2>1. a \in 0..Len(s) /\ b \in a..Len(s)  BY <1>1, <1>4
  <2>2. IsCut(u, S, s, a, b)  BY <2>1, CutOut DEF u
  <2>3. u \in Seq(S) /\ Len(u) = Len(word) /\ \A x \in 1..Len(word) : u[x] = s[a + x]
    BY <1>1, <2>2 DEF IsCut
  <2>4. ASSUME \A x \in 1..Len(word) : s[a + x] = word[x]  PROVE u = word
    <3>1. \A x \in 1..Len(u) : u[x] = word[x]  BY <2>3, <2>4
    <3> QED  BY <2>3, <3>1, SeqEqual
  <2> QED  BY <2>3, <2>4
<1>5. (\A x \in 1..Len(word) : s[a + x] = word[x])
         <=> \A x \in 1..Len(word) : s[(i + x) - 1] = word[x]
  BY <1>3
<1> QED  BY <1>1, <1>2, <1>4, <1>5 DEF Spelt

-------------------------------------------------------------------------------
\* A replacement without a dollar is taken as it is.
LEMMA ExpandKeeps ==
    ASSUME NEW S, {"$", "1"} \subseteq S, NEW v \in Seq(S), ~Contains(v, "$")
    PROVE  Expand(v) = v
<1> DEFINE L == Len(v)
           Step(f, i) == IF i > L THEN <<>>
                         ELSE IF OccursAt(<<"$", "$">>, v, i) THEN <<"$">> \o f[i + 2]
                         ELSE IF OccursAt(<<"$", "1">>, v, i) THEN f[i + 2]
                         ELSE <<v[i]>> \o f[i + 1]
           To(i) == SubSeq(v, i, L)
<1>1. L \in Nat  OBVIOUS
<1>2. \A i \in 1..L : v[i] # "$"  BY DEF Contains
<1>3. ASSUME NEW i \in 1..L
      PROVE  ~OccursAt(<<"$", "$">>, v, i) /\ ~OccursAt(<<"$", "1">>, v, i)
  <2>1. i \in Nat \ {0}  BY <1>1
  <2>2. ASSUME NEW w \in Seq(S), Len(w) = 2, w[1] = "$"  PROVE ~OccursAt(w, v, i)
    <3>1. OccursAt(w, v, i) <=> Spelt(w, v, i)  BY <2>1, OccursIs
    <3>2. 1 \in 1..Len(w) /\ (i + 1) - 1 = i  BY <1>1, <2>2
    <3>3. Spelt(w, v, i) => v[i] = "$"  BY <2>2, <3>2 DEF Spelt
    <3> QED  BY <1>2, <3>1, <3>3
  <2>3. /\ <<"$", "$">> \in Seq(S) /\ Len(<<"$", "$">>) = 2 /\ <<"$", "$">>[1] = "$"
        /\ <<"$", "1">> \in Seq(S) /\ Len(<<"$", "1">>) = 2 /\ <<"$", "1">>[1] = "$"
    OBVIOUS
  <2> QED  BY <2>2, <2>3
<1>4. ASSUME NEW i \in 1..L  PROVE To(i) = <<v[i]>> \o To(i + 1) /\ To(i + 1) \in Seq(S)
  <2> DEFINE u == To(i + 1)
             t == <<v[i]>> \o u
             a == i - 1
  <2>1. a \in 0..L /\ a + 1 = i /\ i \in 0..L /\ L \in a..L /\ L \in i..L /\ v[i] \in S
    BY <1>1
  <2> HIDE DEF a, L
  <2>2. IsCut(SubSeq(v, i + 1, L), S, v, i, L)  BY <2>1, CutOut DEF L
  <2>3. IsCut(SubSeq(v, a + 1, L), S, v, a, L)  BY <2>1, CutOut DEF L
  <2>4. u \in Seq(S) /\ Len(u) = L - i /\ \A x \in 1..(L - i) : u[x] = v[i + x]
    BY <2>2 DEF IsCut
  <2>5. To(i) \in Seq(S) /\ Len(To(i)) = L - a /\ \A x \in 1..(L - a) : To(i)[x] = v[a + x]
    BY <2>1, <2>3 DEF IsCut
  <2> DEFINE w == To(i)
  <2> HIDE DEF u, w
  <2>6. t \in Seq(S) /\ Len(t) = 1 + Len(u) /\ t[1] = v[i]
        /\ \A x \in 1..Len(u) : t[1 + x] = u[x]
    BY <2>1, <2>4
  <2>7. ASSUME NEW x \in 1..Len(w)  PROVE w[x] = t[x]
    <3> HIDE DEF t
    <3>1. CASE x = 1
      <4>1. a + x = i  BY <2>1, <3>1
      <4>2. w[x] = v[a + x]  BY <2>5 DEF w
      <4> QED  BY <2>6, <3>1, <4>1, <4>2
    <3>2. CASE x # 1
      <4> DEFINE y == x - 1
      <4>1. y \in 1..(L - i) /\ 1 + y = x /\ i + y = a + x /\ x \in 1..(L - a)
        BY <1>1, <2>1, <2>5, <3>2 DEF w
      <4> HIDE DEF y
      <4>2. w[x] = v[a + x] /\ t[1 + y] = u[y] /\ u[y] = v[i + y]
        BY <2>4, <2>5, <2>6, <4>1 DEF w
      <4> QED  BY <4>1, <4>2
    <3> QED  BY <3>1, <3>2
  <2>8. Len(w) = Len(t) /\ w \in Seq(S)
    <3> HIDE DEF t
    <3>1. Len(w) = L - a /\ w \in Seq(S)  BY <2>5 DEF w
    <3>2. Len(t) = 1 + (L - i)  BY <2>4, <2>6
    <3>3. L - a = 1 + (L - i)  BY <1>1, <2>1
    <3> QED  BY <3>1, <3>2, <3>3
  <2> HIDE DEF t
  <2>9. w = t  BY <2>6, <2>7, <2>8, SeqEqual
  <2> QED  BY <2>4, <2>9 DEF w, t, u
<1>5. \A i \in (L + 1)..(L + 2) : To(i) = <<>>
  <2>1. ASSUME NEW i \in (L + 1)..(L + 2)  PROVE SubSeq(v, i, L) = <<>>
    <3>1. i \in Int /\ L \in Int /\ L < i  BY <1>1
    <3> QED  BY <3>1, SubSeqEmpty
  <2> QED  BY <2>1
<1>6. \A i \in 1..(L + 2) : i > L <=> i \notin 1..L  BY <1>1
<1> DEFINE Is(f) == f = [i \in 1..(L + 2) |-> Step(f, i)]
           to == [i \in 1..(L + 2) |-> To(i)]
<1> HIDE DEF To
<1>7. Is(to)
  <2>1. ASSUME NEW i \in 1..(L + 2)  PROVE to[i] = Step(to, i)
    <3>1. CASE i \in 1..L
      <4>1. i + 1 \in 1..(L + 2)  BY <1>1, <3>1
      <4>2. to[i] = To(i) /\ to[i + 1] = To(i + 1)  BY <4>1
      <4> HIDE DEF to
      <4> QED  BY <1>3, <1>4, <1>6, <3>1, <4>2
    <3>2. CASE i \notin 1..L
      <4>1. i \in (L + 1)..(L + 2)  BY <1>1, <3>2
      <4> QED  BY <1>5, <1>6, <3>2, <4>1
    <3> QED  BY <3>1, <3>2
  <2> HIDE DEF Step
  <2> QED  BY <2>1
<1> DEFINE rest == CHOOSE f : Is(f)
<1>8. Is(rest)  BY <1>7
<1>9. Expand(v) = rest[1]  BY DEF Expand
<1> HIDE DEF rest
<1> DEFINE T == {i \in 1..(L + 2) : rest[i] = To(i)}
           N == L + 2
<1>10. ASSUME NEW i \in 1..N, (i + 1)..N \subseteq T  PROVE i \in T
  <2>1. rest[i] = Step(rest, i)  BY <1>8
  <2>2. CASE i \in 1..L
    <3>1. i + 1 \in (i + 1)..N  BY <1>1, <2>2
    <3>2. rest[i + 1] = To(i + 1)  BY <1>10, <3>1
    <3>3. rest[i] = <<v[i]>> \o rest[i + 1]  BY <1>3, <1>6, <2>1, <2>2
    <3> QED  BY <1>4, <2>2, <3>2, <3>3
  <2>3. CASE i \notin 1..L
    <3>1. i \in (L + 1)..(L + 2)  BY <1>1, <2>3
    <3> QED  BY <1>5, <1>6, <2>1, <2>3, <3>1
  <2> QED  BY <2>2, <2>3
<1>11. N \in Nat /\ 1 \in 1..N  BY <1>1
<1> HIDE DEF T, N
<1>12. 1..N \subseteq T  BY <1>10, <1>11, BackwardInduction
<1>13. rest[1] = To(1)  BY <1>11, <1>12 DEF T
<1>14. To(1) = v
  <2>1. 0 \in 0..L /\ L \in 0..L /\ 0 + 1 = 1 /\ L - 0 = L /\ \A x \in 1..L : 0 + x = x
    BY <1>1
  <2>2. IsCut(SubSeq(v, 0 + 1, L), S, v, 0, L)  BY <2>1, CutOut
  <2> DEFINE u == To(1)
  <2>3. u \in Seq(S) /\ Len(u) = Len(v) /\ \A x \in 1..Len(u) : u[x] = v[x]
    BY <2>1, <2>2 DEF IsCut, To
  <2> HIDE DEF u
  <2>4. u = v  BY <2>3, SeqEqual
  <2> QED  BY <2>4 DEF u
<1> QED  BY <1>9, <1>13, <1>14

\* rest[i] is what the replacement makes of s from i on.
IsRest(rest, s, word, new) ==
    /\ rest[Len(s) + 1] = <<>>
    /\ \A i \in 1..Len(s) :
          /\ OccursAt(word, s, i) => rest[i] = new \o rest[i + Len(word)]
          /\ ~OccursAt(word, s, i) => rest[i] = <<s[i]>> \o rest[i + 1]

\* regex_replace is given by what it makes of the rest of the text.
LEMMA ReplaceFunction ==
    ASSUME NEW S, NEW s \in Seq(S), NEW word \in Seq(S), word # <<>>, NEW new \in Seq(S)
    PROVE  \E rest \in [1..(Len(s) + 1) -> Seq(S)] :
              IsRest(rest, s, word, new) /\ RegexReplace(s, word, new) = rest[1]
<1> DEFINE L == Len(s)
           N == L + 1
           A == Seq(S)
           Step(f, i) == IF i > L THEN <<>>
                         ELSE IF OccursAt(word, s, i) THEN new \o f[i + Len(word)]
                         ELSE <<s[i]>> \o f[i + 1]
           F == [i \in 1..N |-> [f \in [1..N -> A] |-> Step(f, i)]]
           Is(f) == f = [i \in 1..N |-> Step(f, i)]
<1>1. L \in Nat /\ N \in Nat /\ Len(word) \in Nat \ {0} /\ <<>> \in A  OBVIOUS
<1>2. \A i \in 1..N : i > L <=> i \notin 1..L  BY <1>1
<1>3. ASSUME NEW i \in 1..L
      PROVE  /\ i + 1 \in (i + 1)..N /\ i + 1 \in 1..N /\ s[i] \in S
             /\ OccursAt(word, s, i) => i + Len(word) \in (i + 1)..N /\ i + Len(word) \in 1..N
  <2>1. i \in Nat \ {0}  BY <1>1
  <2>2. OccursAt(word, s, i) <=> Spelt(word, s, i)  BY <2>1, OccursIs
  <2>3. OccursAt(word, s, i) => i + Len(word) - 1 <= L  BY <2>2 DEF Spelt
  <2>4. s[i] \in S  OBVIOUS
  <2> HIDE DEF L
  <2> QED  BY <1>1, <2>3, <2>4
<1> HIDE DEF L
<1>4. ASSUME NEW i \in 1..N, NEW f, \A j \in (i + 1)..N : f[j] \in A
      PROVE  Step(f, i) \in A
  <2>1. CASE i \notin 1..L  BY <1>1, <1>2, <2>1
  <2>2. CASE i \in 1..L
    <3>1. ~(i > L)  BY <1>2, <2>2
    <3>2. ~OccursAt(word, s, i) => Step(f, i) \in A
      <4>1. f[i + 1] \in A /\ s[i] \in S  BY <1>3, <1>4, <2>2
      <4> QED  BY <3>1, <4>1
    <3>3. OccursAt(word, s, i) => Step(f, i) \in A
      <4> SUFFICES ASSUME OccursAt(word, s, i) PROVE Step(f, i) \in A  OBVIOUS
      <4>1. f[i + Len(word)] \in A  BY <1>3, <1>4, <2>2
      <4> QED  BY <3>1, <4>1
    <3> QED  BY <3>2, <3>3
  <2> QED  BY <2>1, <2>2
<1>5. F \in [1..N -> [[1..N -> A] -> A]]
  <2>1. ASSUME NEW i \in 1..N, NEW f \in [1..N -> A]  PROVE Step(f, i) \in A
    <3>1. \A j \in (i + 1)..N : j \in 1..N  BY <1>1
    <3>2. \A j \in (i + 1)..N : f[j] \in A  BY <3>1
    <3> QED  BY <1>4, <3>2
  <2> HIDE DEF Step, A, N
  <2> QED  BY <2>1
<1>6. LooksAhead(F, N, A)
  <2>1. ASSUME NEW i \in 1..N, NEW f \in [1..N -> A], NEW g \in [1..N -> A],
               \A j \in (i + 1)..N : f[j] = g[j]
        PROVE  Step(f, i) = Step(g, i)
    <3>1. CASE i \notin 1..L  BY <1>2, <3>1
    <3>2. CASE i \in 1..L
      <4>1. f[i + 1] = g[i + 1]  BY <1>3, <2>1, <3>2
      <4>2. OccursAt(word, s, i) => f[i + Len(word)] = g[i + Len(word)]  BY <1>3, <2>1, <3>2
      <4> QED  BY <4>1, <4>2
    <3> QED  BY <3>1, <3>2
  <2> HIDE DEF Step, A, N
  <2> QED  BY <2>1 DEF LooksAhead, FunctionsUpTo
<1> HIDE DEF F
<1>7. \E f : Is(f)
  <2> DEFINE none == <<>>
  <2>0. none \in A  BY <1>1
  <2> HIDE DEF A, N, none
  <2>1. PICK f \in [1..N -> A] : \A i \in 1..N : f[i] = F[i][f]
    <3>1. F \in OperatorsUpTo(N, A) /\ LooksAhead(F, N, A)
      BY <1>5, <1>6 DEF OperatorsUpTo, FunctionsUpTo
    <3>2. \E f \in FunctionsUpTo(N, A) : Solves(f, F, N)
      BY <1>1, <2>0, <3>1, BackwardFunction
    <3>3. PICK f \in FunctionsUpTo(N, A) : Solves(f, F, N)  BY <3>2
    <3> QED  BY <3>3 DEF FunctionsUpTo, Solves
  <2>2. \A i \in 1..N : f[i] = Step(f, i)
    <3> HIDE DEF Step
    <3> QED  BY <2>1 DEF F
  <2> HIDE DEF Step
  <2>3. f = [i \in 1..N |-> Step(f, i)]  BY <2>2
  <2> QED  BY <2>3
<1> DEFINE rest == CHOOSE f : Is(f)
<1>8. Is(rest)  BY <1>7
<1>9. RegexReplace(s, word, new) = rest[1]  BY DEF RegexReplace, L
<1> HIDE DEF rest
<1>10. DOMAIN rest = 1..N /\ \A i \in 1..N : rest[i] = Step(rest, i)
  <2> HIDE DEF Step, N
  <2> QED  BY <1>8
<1> DEFINE T == {i \in 1..N : rest[i] \in A}
<1>11. ASSUME NEW i \in 1..N, (i + 1)..N \subseteq T  PROVE i \in T
  <2>1. \A j \in (i + 1)..N : rest[j] \in A  BY <1>11
  <2>2. Step(rest, i) \in A  BY <1>4, <2>1
  <2> HIDE DEF Step
  <2> QED  BY <1>10, <2>2
<1>12. 1..N \subseteq T
  <2> HIDE DEF T, N
  <2> QED  BY <1>1, <1>11, BackwardInduction
<1>13. rest \in [1..N -> A]
  <2>1. \A i \in 1..N : rest[i] \in A  BY <1>12
  <2>2. rest = [i \in 1..N |-> rest[i]]
    <3> HIDE DEF Step
    <3> QED  BY <1>8, <1>10
  <2> HIDE DEF A, N
  <2> QED  BY <2>1, <2>2
<1>14. IsRest(rest, s, word, new)
  <2>1. N \in 1..N /\ N \notin 1..L /\ \A i \in 1..L : i \in 1..N  BY <1>1
  <2>2. rest[N] = <<>>  BY <1>2, <1>10, <2>1
  <2>3. ASSUME NEW i \in 1..L
        PROVE  /\ OccursAt(word, s, i) => rest[i] = new \o rest[i + Len(word)]
               /\ ~OccursAt(word, s, i) => rest[i] = <<s[i]>> \o rest[i + 1]
    <3>1. i \in 1..N /\ ~(i > L)  BY <1>2, <2>1
    <3>2. rest[i] = Step(rest, i)  BY <1>10, <3>1
    <3> QED  BY <3>1, <3>2
  <2> QED  BY <2>2, <2>3 DEF IsRest, L
<1> QED  BY <1>9, <1>13, <1>14 DEF L

-------------------------------------------------------------------------------
(* Placeholders and values *)

\* The characters that the program puts in or looks for.
Marks == {":", "'", "$", "1"}

\* Keys and values are over S, and keys are words.
WordKeys(S, p) ==
    \A k \in DOMAIN p : /\ k \in Seq(S) /\ p[k] \in Seq(S)
                        /\ ~Contains(k, ":") /\ ~Contains(k, "'")

\* The placeholder of the key k stands in s at i.
Stands(k, s, i) ==
    i + Len(k) <= Len(s) /\ s[i] = ":" /\ \A x \in 1..Len(k) : s[i + x] = k[x]

\* The letters of a placeholder.
LEMMA PlaceholderIs ==
    ASSUME NEW S, Marks \subseteq S, NEW k \in Seq(S)
    PROVE  /\ k \in Seq(S) /\ Placeholder(k) \in Seq(S) /\ Placeholder(k) # <<>>
           /\ Len(Placeholder(k)) = Len(k) + 1 /\ Placeholder(k)[1] = ":"
           /\ \A x \in 1..Len(k) : Placeholder(k)[1 + x] = k[x]
<1>1. ":" \in Marks  BY DEF Marks
<1>2. k \in Seq(S) /\ ":" \in S  BY <1>1
<1> QED  BY <1>2 DEF Placeholder

\* A placeholder occurs where it stands.
LEMMA StandsIs ==
    ASSUME NEW S, Marks \subseteq S, NEW k \in Seq(S), NEW s \in Seq(S), NEW i \in Nat \ {0}
    PROVE  OccursAt(Placeholder(k), s, i) <=> Stands(k, s, i)
<1> DEFINE w == Placeholder(k)
<1>1. /\ k \in Seq(S) /\ w \in Seq(S)
      /\ Len(w) = Len(k) + 1 /\ w[1] = ":"
      /\ \A x \in 1..Len(k) : w[1 + x] = k[x]
  BY PlaceholderIs
<1> HIDE DEF w
<1>2. OccursAt(w, s, i) <=> Spelt(w, s, i)  BY <1>1, OccursIs
<1>3. Len(k) \in Nat /\ Len(s) \in Nat  BY <1>1
<1>4. i + Len(w) - 1 = i + Len(k)  BY <1>1, <1>3
<1>5. ASSUME \A x \in 1..Len(w) : s[(i + x) - 1] = w[x]
      PROVE  s[i] = ":" /\ \A x \in 1..Len(k) : s[i + x] = k[x]
  <2>1. 1 \in 1..Len(w) /\ (i + 1) - 1 = i  BY <1>1, <1>3
  <2>2. \A x \in 1..Len(k) : 1 + x \in 1..Len(w) /\ (i + (1 + x)) - 1 = i + x  BY <1>1, <1>3
  <2> QED  BY <1>1, <1>5, <2>1, <2>2
<1>6. ASSUME s[i] = ":", \A x \in 1..Len(k) : s[i + x] = k[x]
      PROVE  \A x \in 1..Len(w) : s[(i + x) - 1] = w[x]
  <2> SUFFICES ASSUME NEW x \in 1..Len(w) PROVE s[(i + x) - 1] = w[x]  OBVIOUS
  <2>1. CASE x = 1
    <3>1. (i + x) - 1 = i  BY <2>1
    <3> QED  BY <1>1, <1>6, <2>1, <3>1
  <2>2. CASE x # 1
    <3> DEFINE y == x - 1
    <3>1. y \in 1..Len(k) /\ 1 + y = x /\ (i + x) - 1 = i + y  BY <1>1, <1>3, <2>2
    <3> HIDE DEF y
    <3> QED  BY <1>1, <1>6, <3>1
  <2> QED  BY <2>1, <2>2
<1> QED  BY <1>2, <1>4, <1>5, <1>6 DEF Spelt, Stands, w

\* The letters of a quoted value.
LEMMA QuotedIs ==
    ASSUME NEW S, Marks \subseteq S, NEW v \in Seq(S)
    PROVE  /\ Quoted(v) \in Seq(S) /\ Len(Quoted(v)) = Len(v) + 2 /\ v \in Seq(S)
           /\ Quoted(v)[1] = "'" /\ Quoted(v)[Len(v) + 2] = "'"
           /\ \A x \in 1..Len(v) : Quoted(v)[x + 1] = v[x]
<1>1. "'" \in Marks  BY DEF Marks
<1>2. v \in Seq(S) /\ "'" \in S  BY <1>1
<1> DEFINE u == <<"'">> \o v
<1>3. u \in Seq(S) /\ Len(u) = Len(v) + 1 /\ u[1] = "'" /\ \A x \in 1..Len(v) : u[x + 1] = v[x]
  BY <1>2
<1> HIDE DEF u
<1>4. Len(v) \in Nat  BY <1>2
<1> DEFINE z == u \o <<"'">>
<1>5. z \in Seq(S) /\ Len(z) = Len(u) + 1 /\ z[Len(u) + 1] = "'"
      /\ \A x \in 1..Len(u) : z[x] = u[x]
  BY <1>2, <1>3
<1>6. Quoted(v) = z  BY DEF Quoted, z, u
<1> HIDE DEF z
<1>7. 1 \in 1..Len(u) /\ Len(u) + 1 = Len(v) + 2 /\ \A x \in 1..Len(v) : x + 1 \in 1..Len(u)
  BY <1>3, <1>4
<1>8. z[1] = "'" /\ z[Len(v) + 2] = "'"  BY <1>3, <1>5, <1>7
<1>9. \A x \in 1..Len(v) : z[x + 1] = v[x]  BY <1>3, <1>5, <1>7
<1> QED  BY <1>2, <1>5, <1>6, <1>7, <1>8, <1>9

-------------------------------------------------------------------------------
\* The template with the placeholders of the keys of K filled.
KeyAt(K, t, i) == {k \in K : Stands(k, t, i)}
\* Position i is inside a placeholder of a key of K.
Covered(K, t, i) ==
    \E j \in 1..Len(t) : \E k \in KeyAt(K, t, j) : i \in (j + 1)..(j + Len(k))
\* Some element of A.
AnyOf(A) == CHOOSE k \in A : TRUE
\* The i-th piece of it.
Piece(K, p, t, i) ==
    IF KeyAt(K, t, i) # {} THEN Quoted(p[AnyOf(KeyAt(K, t, i))])
    ELSE IF Covered(K, t, i) THEN <<>>
    ELSE <<t[i]>>
\* All pieces.
Fills(K, p, t) == [i \in 1..Len(t) |-> Piece(K, p, t, i)]

\* The three kinds of pieces.
PieceCases(K, p, t, i) ==
    /\ KeyAt(K, t, i) # {} => \E l \in KeyAt(K, t, i) : Piece(K, p, t, i) = Quoted(p[l])
    /\ KeyAt(K, t, i) = {} /\ Covered(K, t, i) => Piece(K, p, t, i) = <<>>
    /\ KeyAt(K, t, i) = {} /\ ~Covered(K, t, i) => Piece(K, p, t, i) = <<t[i]>>

\* Every piece is one of them.
LEMMA PieceIs ==
    ASSUME NEW S, Marks \subseteq S, NEW t \in Seq(S), NEW p, WordKeys(S, p),
           NEW K \in SUBSET DOMAIN p, NEW i \in 1..Len(t)
    PROVE  PieceCases(K, p, t, i) /\ Piece(K, p, t, i) \in Seq(S)
<1>1. CASE KeyAt(K, t, i) # {}
  <2> DEFINE l == CHOOSE k \in KeyAt(K, t, i) : TRUE
  <2>1. l \in KeyAt(K, t, i)  BY <1>1
  <2>2. Piece(K, p, t, i) = Quoted(p[l])  BY <1>1 DEF Piece, AnyOf
  <2> HIDE DEF l
  <2>3. p[l] \in Seq(S)  BY <2>1 DEF KeyAt, WordKeys
  <2>4. Quoted(p[l]) \in Seq(S)  BY <2>3, QuotedIs
  <2> QED  BY <1>1, <2>1, <2>2, <2>4 DEF PieceCases
<1>2. CASE KeyAt(K, t, i) = {}
  <2>1. <<>> \in Seq(S) /\ <<t[i]>> \in Seq(S)
    <3>1. t[i] \in S  OBVIOUS
    <3> QED  BY <3>1
  <2> QED  BY <1>2, <2>1 DEF PieceCases, Piece
<1> QED  BY <1>1, <1>2

\* There is one piece for every character of the template.
LEMMA FillsType ==
    ASSUME NEW S, Marks \subseteq S, NEW t \in Seq(S), NEW p, WordKeys(S, p),
           NEW K \in SUBSET DOMAIN p
    PROVE  /\ Fills(K, p, t) \in Seq(Seq(S)) /\ Len(Fills(K, p, t)) = Len(t)
           /\ \A i \in 1..Len(t) : Fills(K, p, t)[i] = Piece(K, p, t, i)
<1>1. \A i \in 1..Len(t) : Piece(K, p, t, i) \in Seq(S)  BY PieceIs
<1>2. Len(t) \in Nat  OBVIOUS
<1> QED  BY <1>1, <1>2 DEF Fills

-------------------------------------------------------------------------------
\* Placeholders do not overlap.
Distinct(k, i, l, j) == (i = j => k = l) /\ (i < j => i + Len(k) < j)

\* No key begins with another one, so only one placeholder stands at a place.
LEMMA SamePlace ==
    ASSUME NEW S, NEW t \in Seq(S), NEW p, WordKeys(S, p), Independent(p),
           NEW k \in DOMAIN p, NEW l \in DOMAIN p, NEW i \in 1..Len(t),
           Stands(k, t, i), Stands(l, t, i), Len(k) <= Len(l)
    PROVE  k = l
<1> DEFINE b == Len(k)
<1>1. k \in Seq(S) /\ l \in Seq(S)  BY DEF WordKeys
<1>2. b \in Nat /\ Len(l) \in Nat /\ 0 + 1 = 1 /\ b \in Int /\ 0 \in Nat  BY <1>1
<1>3. \A x \in 1..Len(k) : k[x] = l[x]
  <2>1. \A x \in 1..Len(k) : x \in 1..Len(l)  BY <1>2
  <2> QED  BY <2>1 DEF Stands
<1>4. SubSeq(k, 0 + 1, b) = SubSeq(l, 0 + 1, b)
  <2>1. b <= Len(k) /\ b <= Len(l) /\ \A x \in 1..Len(l) : x <= b => x \in 1..Len(k)
    BY <1>2
  <2>2. \A x \in 1..Len(l) : x <= b => k[x] = l[x]  BY <1>3, <2>1
  <2> HIDE DEF b
  <2> QED  BY <1>1, <1>2, <2>1, <2>2, SameCut
<1>5. IsPrefix(k, l)  BY <1>2, <1>4 DEF IsPrefix
<1> QED  BY <1>5 DEF Independent

\* Placeholders do not overlap, because no key holds a colon.
LEMMA Apart ==
    ASSUME NEW S, NEW t \in Seq(S), NEW p, WordKeys(S, p), Independent(p),
           NEW k \in DOMAIN p, NEW l \in DOMAIN p, NEW i \in 1..Len(t), NEW j \in 1..Len(t),
           Stands(k, t, i), Stands(l, t, j)
    PROVE  Distinct(k, i, l, j)
<1>1. k \in Seq(S) /\ l \in Seq(S)  BY DEF WordKeys
<1>2. Len(k) \in Nat /\ Len(l) \in Nat  BY <1>1
<1>3. ASSUME i = j  PROVE k = l
  <2>1. Stands(l, t, i)  BY <1>3
  <2>2. CASE Len(k) <= Len(l)  BY <2>1, <2>2, SamePlace
  <2>3. CASE Len(l) <= Len(k)  BY <2>1, <2>3, SamePlace
  <2> QED  BY <1>2, <2>2, <2>3
<1>4. ASSUME i < j, ~(i + Len(k) < j)  PROVE FALSE
  <2> DEFINE x == j - i
  <2>1. x \in 1..Len(k) /\ i + x = j  BY <1>2, <1>4
  <2> HIDE DEF x
  <2>2. t[j] = k[x] /\ t[j] = ":"  BY <2>1 DEF Stands
  <2>3. k[x] # ":"  BY <2>1 DEF WordKeys, Contains
  <2> QED  BY <2>2, <2>3
<1> QED  BY <1>3, <1>4 DEF Distinct

-------------------------------------------------------------------------------
(* The text that pieces make *)

\* s is made of the pieces q, and the i-th one ends at o[i].
Layout(o, q, s) ==
    /\ o[0] = 0 /\ o[Len(q)] = Len(s)
    /\ \A i \in 1..Len(q) :
          /\ o[i] = o[i - 1] + Len(q[i]) /\ o[i] <= Len(s)
          /\ \A x \in 1..Len(q[i]) : s[o[i - 1] + x] = q[i][x]

\* g[j] goes on where g[i] ends.
Extends(g, i, j) ==
    Len(g[i]) <= Len(g[j]) /\ \A x \in 1..Len(g[i]) : g[j][x] = g[i][x]

\* What FlattenSeq makes of pieces consists of them.
LEMMA LayoutExists ==
    ASSUME NEW S, NEW q \in Seq(Seq(S))
    PROVE  \E o \in [0..Len(q) -> Nat] : Layout(o, q, FlattenSeq(q)) /\ FlattenSeq(q) \in Seq(S)
<1> DEFINE n == Len(q)
<1>1. PICK g \in [0..Len(q) -> Seq(S)] :
         g[0] = <<>> /\ \A i \in 1..Len(q) : g[i] = g[i - 1] \o q[i]
  BY FlattenFunction
<1>2. FlattenSeq(q) = g[n]  BY <1>1, FlattenIs
<1>3. /\ n \in Nat /\ (\A i \in 1..n : q[i] \in Seq(S)) /\ (\A i \in 0..n : g[i] \in Seq(S))
      /\ g[0] = <<>> /\ \A i \in 1..n : g[i] = g[i - 1] \o q[i]
  <2>1. n \in Nat /\ \A i \in 1..n : q[i] \in Seq(S)  OBVIOUS
  <2>2. g \in [0..n -> Seq(S)] /\ g[0] = <<>> /\ \A i \in 1..n : g[i] = g[i - 1] \o q[i]
    BY <1>1
  <2> HIDE DEF n
  <2> QED  BY <2>1, <2>2
<1> DEFINE o == [i \in 0..n |-> Len(g[i])]
<1> HIDE DEF n
<1>4. o \in [0..n -> Nat] /\ \A i \in 0..n : o[i] = Len(g[i]) /\ Len(g[i]) \in Nat
  <2>1. \A i \in 0..n : Len(g[i]) \in Nat  BY <1>3
  <2> QED  BY <2>1
<1> HIDE DEF o
<1>5. ASSUME NEW i \in 1..n
      PROVE  /\ Len(g[i]) = Len(g[i - 1]) + Len(q[i])
             /\ \A x \in 1..Len(g[i - 1]) : g[i][x] = g[i - 1][x]
             /\ \A x \in 1..Len(q[i]) : g[i][Len(g[i - 1]) + x] = q[i][x]
             /\ i - 1 \in 0..n /\ i \in 0..n
  <2> DEFINE u == g[i - 1]
             w == q[i]
  <2>1. i - 1 \in 0..n /\ i \in 0..n  BY <1>3
  <2>2. u \in Seq(S) /\ w \in Seq(S) /\ g[i] = u \o w  BY <1>3, <2>1
  <2> HIDE DEF u, w
  <2>3. /\ Len(u \o w) = Len(u) + Len(w) /\ \A x \in 1..Len(u) : (u \o w)[x] = u[x]
        /\ \A x \in 1..Len(w) : (u \o w)[Len(u) + x] = w[x]
    BY <2>2
  <2> QED  BY <2>1, <2>2, <2>3 DEF u, w
<1> DEFINE T == {m \in 0..n : \A i \in 0..m : Extends(g, i, m)}
<1>6. 0 \in T
  <2>1. 0 \in 0..n /\ \A i \in 0..0 : i = 0  BY <1>3
  <2>2. Extends(g, 0, 0)  BY <1>4, <2>1 DEF Extends
  <2> QED  BY <2>1, <2>2
<1>7. ASSUME NEW m \in 0..(n - 1), m \in T  PROVE m + 1 \in T
  <2> DEFINE j == m + 1
  <2>1. j \in 1..n /\ j - 1 = m /\ j \in 0..n /\ m \in 0..n
        /\ \A i \in 0..j : i = j \/ i \in 0..m
    BY <1>3
  <2> HIDE DEF j
  <2>2. Len(g[j]) = Len(g[m]) + Len(q[j]) /\ (\A x \in 1..Len(g[m]) : g[j][x] = g[m][x])
    BY <1>5, <2>1
  <2>3. Len(g[m]) \in Nat /\ Len(g[j]) \in Nat /\ Len(q[j]) \in Nat
    <3>1. q[j] \in Seq(S)  BY <1>3, <2>1
    <3> QED  BY <1>4, <2>1, <3>1
  <2>4. ASSUME NEW i \in 0..m  PROVE Extends(g, i, j)
    <3>1. Len(g[i]) <= Len(g[m]) /\ \A x \in 1..Len(g[i]) : g[m][x] = g[i][x]
      BY <1>7 DEF Extends
    <3>2. Len(g[i]) \in Nat
      <4>1. i \in 0..n  BY <1>3, <2>1
      <4> QED  BY <1>4, <4>1
    <3>3. \A x \in 1..Len(g[i]) : x \in 1..Len(g[m])  BY <2>3, <3>1, <3>2
    <3>4. Len(g[i]) <= Len(g[j])
      <4> DEFINE a == Len(g[i])
                 b == Len(g[m])
                 c == Len(g[j])
                 d == Len(q[j])
      <4>1. a <= b /\ c = b + d /\ a \in Nat /\ b \in Nat /\ c \in Nat /\ d \in Nat
        BY <2>2, <2>3, <3>1, <3>2
      <4> HIDE DEF a, b, c, d
      <4>2. a <= c  BY <4>1
      <4> QED  BY <4>2 DEF a, c
    <3> QED  BY <2>2, <3>1, <3>3, <3>4 DEF Extends
  <2>5. Extends(g, j, j)  BY <2>3 DEF Extends
  <2>6. j \in T  BY <2>1, <2>4, <2>5
  <2> QED  BY <2>6 DEF j
<1> HIDE DEF T
<1>8. 0..n \subseteq T  BY <1>3, <1>6, <1>7, InductionUpTo
<1>9. \A i \in 0..n : Extends(g, i, n)
  <2>1. n \in T  BY <1>3, <1>8
  <2> QED  BY <2>1 DEF T
<1> DEFINE s == g[n]
<1>10. s \in Seq(S) /\ o[0] = 0 /\ o[n] = Len(s)
  <2>1. 0 \in 0..n /\ n \in 0..n /\ Len(<<>>) = 0  BY <1>3
  <2> QED  BY <1>3, <1>4, <2>1
<1>11. ASSUME NEW i \in 1..n
       PROVE  /\ o[i] = o[i - 1] + Len(q[i]) /\ o[i] <= Len(s)
              /\ \A x \in 1..Len(q[i]) : s[o[i - 1] + x] = q[i][x]
  <2>1. i - 1 \in 0..n /\ i \in 0..n /\ q[i] \in Seq(S)  BY <1>3, <1>5
  <2>2. o[i] = Len(g[i]) /\ o[i - 1] = Len(g[i - 1]) /\ o[i] \in Nat /\ o[i - 1] \in Nat
    BY <1>4, <2>1
  <2>3. o[i] = o[i - 1] + Len(q[i])  BY <1>5, <2>2
  <2>4. o[i] <= Len(s) /\ \A x \in 1..o[i] : s[x] = g[i][x]
    BY <1>9, <2>1, <2>2 DEF Extends
  <2>5. \A x \in 1..Len(q[i]) : o[i - 1] + x \in 1..o[i]
    <3> DEFINE a == o[i - 1]
               c == Len(q[i])
    <3>1. a \in Nat /\ c \in Nat /\ o[i] = a + c  BY <2>1, <2>2, <2>3
    <3> HIDE DEF a, c
    <3>2. \A x \in 1..c : a + x \in 1..(a + c)  BY <3>1
    <3> QED  BY <3>1, <3>2 DEF a, c
  <2>6. \A x \in 1..Len(q[i]) : g[i][o[i - 1] + x] = q[i][x]  BY <1>5, <2>2
  <2> QED  BY <2>3, <2>4, <2>5, <2>6
<1>12. Layout(o, q, s)  BY <1>10, <1>11 DEF Layout, n
<1> QED  BY <1>2, <1>4, <1>10, <1>12 DEF n

\* Where no word begins, the replacement keeps the text.
KeepsTo(rest, s, a, b) == rest[a + 1] = SubSeq(s, a + 1, b) \o rest[b + 1]

\* The replacement walks over a text in which no word begins.
LEMMA WalkOver ==
    ASSUME NEW S, NEW s \in Seq(S), NEW word, NEW new, NEW rest \in [1..(Len(s) + 1) -> Seq(S)],
           IsRest(rest, s, word, new), NEW a \in 0..Len(s), NEW b \in a..Len(s),
           \A i \in (a + 1)..b : ~OccursAt(word, s, i)
    PROVE  KeepsTo(rest, s, a, b)
<1> DEFINE L == Len(s)
           T == {m \in 0..(b - a) : KeepsTo(rest, s, a, a + m)}
<1>1. L \in Nat /\ a \in 0..L /\ b \in a..L /\ b - a \in Nat /\ a + (b - a) = b  OBVIOUS
<1>2. \A i \in 1..(L + 1) : rest[i] \in Seq(S)  OBVIOUS
<1> HIDE DEF L
<1>3. 0 \in T
  <2>1. 0 \in 0..(b - a) /\ a + 0 = a /\ a < a + 1 /\ a \in Int /\ a + 1 \in Int
        /\ a + 1 \in 1..(L + 1)
    BY <1>1
  <2>2. SubSeq(s, a + 1, a) = <<>>  BY <2>1, SubSeqEmpty
  <2>3. rest[a + 1] = <<>> \o rest[a + 1]
    <3> DEFINE v == rest[a + 1]
    <3>1. v \in Seq(S)  BY <1>2, <2>1
    <3> HIDE DEF v
    <3>2. v = <<>> \o v  BY <3>1
    <3> QED  BY <3>2 DEF v
  <2> QED  BY <2>1, <2>2, <2>3 DEF KeepsTo
<1>4. ASSUME NEW m \in 0..((b - a) - 1), m \in T  PROVE m + 1 \in T
  <2> DEFINE c == a + m
             d == c + 1
             u == SubSeq(s, a + 1, c)
             v == rest[d + 1]
             x == s[d]
  <2>1. /\ c \in a..b /\ d \in (a + 1)..b /\ d \in 1..L /\ a + (m + 1) = d
        /\ d \in a..L /\ c \in 0..L /\ c \in a..L
        /\ m + 1 \in 0..(b - a) /\ d + 1 \in 1..(L + 1) /\ c = d - 1
    BY <1>1
  <2>2. rest[a + 1] = u \o rest[d]  BY <1>4 DEF KeepsTo
  <2>3. rest[d] = <<x>> \o v
    <3>1. ~OccursAt(word, s, d) /\ d \in 1..Len(s)  BY <2>1 DEF L
    <3> QED  BY <3>1 DEF IsRest
  <2> HIDE DEF c, d
  <2>4. u \in Seq(S)
    <3>1. a \in 0..Len(s) /\ c \in a..Len(s)  BY <1>1, <2>1 DEF L
    <3>2. IsCut(SubSeq(s, a + 1, c), S, s, a, c)  BY <3>1, CutOut
    <3> QED  BY <3>2 DEF IsCut
  <2>5. SubSeq(s, a + 1, d) = u \o <<x>>
    <3> DEFINE w == SubSeq(s, a + 1, d)
               y == u \o <<x>>
    <3>1. IsCut(w, S, s, a, d)
      <4>1. a \in 0..Len(s) /\ d \in a..Len(s)  BY <1>1, <2>1 DEF L
      <4> QED  BY <4>1, CutOut
    <3>2. IsCut(u, S, s, a, c)
      <4>1. a \in 0..Len(s) /\ c \in a..Len(s)  BY <1>1, <2>1 DEF L
      <4> QED  BY <4>1, CutOut
    <3>3. x \in S  BY <2>1 DEF L
    <3> HIDE DEF u, x
    <3>4. y \in Seq(S) /\ Len(y) = Len(u) + 1 /\ y[Len(u) + 1] = x
          /\ \A z \in 1..Len(u) : y[z] = u[z]
      BY <2>4, <3>3
    <3>5. Len(u) = c - a /\ \A z \in 1..(c - a) : u[z] = s[a + z]  BY <3>2 DEF IsCut
    <3>6. w \in Seq(S) /\ Len(w) = d - a /\ \A z \in 1..(d - a) : w[z] = s[a + z]
      BY <3>1 DEF IsCut
    <3>7. Len(u) + 1 = d - a /\ a + (d - a) = d /\ c - a \in Nat
          /\ \A z \in 1..(d - a) : z = d - a \/ z \in 1..(c - a)
      BY <1>1, <2>1, <3>5
    <3> HIDE DEF y, w
    <3>8. \A z \in 1..Len(w) : w[z] = y[z]
      <4>1. y[d - a] = s[d]  BY <3>4, <3>7 DEF x
      <4>2. \A z \in 1..(c - a) : y[z] = s[a + z]  BY <3>4, <3>5
      <4> QED  BY <3>6, <3>7, <4>1, <4>2
    <3>9. w = y  BY <3>4, <3>6, <3>7, <3>8, SeqEqual
    <3> QED  BY <3>9 DEF w, y
  <2>6. v \in Seq(S) /\ <<x>> \in Seq(S)
    <3>1. x \in S  BY <2>1 DEF L
    <3> QED  BY <1>2, <2>1, <3>1
  <2> HIDE DEF u, v, x
  <2>7. u \o (<<x>> \o v) = (u \o <<x>>) \o v
    <3> DEFINE w == <<x>>
    <3>1. w \in Seq(S)  BY <2>6
    <3> HIDE DEF w
    <3>2. Associates(u, w, v)  BY <2>4, <2>6, <3>1, Associative
    <3> QED  BY <3>2 DEF Associates, w
  <2>8. KeepsTo(rest, s, a, d)  BY <2>2, <2>3, <2>5, <2>7 DEF KeepsTo, v
  <2> QED  BY <2>1, <2>8
<1> HIDE DEF T
<1>5. 0..(b - a) \subseteq T
  <2> DEFINE e == b - a
  <2>1. e \in Nat  BY <1>1
  <2>2. \A m \in 0..(e - 1) : m \in T => m + 1 \in T  BY <1>4
  <2> HIDE DEF e
  <2>3. 0..e \subseteq T  BY <1>3, <2>1, <2>2, InductionUpTo
  <2> QED  BY <2>3 DEF e
<1>6. b - a \in T  BY <1>1, <1>5
<1> QED  BY <1>1, <1>6 DEF T

-------------------------------------------------------------------------------
(* One round of get_sql *)

\* A quoted value holds no placeholder, nor does one begin in it.
LEMMA NotInValue ==
    ASSUME NEW S, Marks \subseteq S, NEW p, WordKeys(S, p), Independent(p),
           NEW k \in DOMAIN p, NEW l \in DOMAIN p, NEW s \in Seq(S), NEW d \in Nat,
           d + (Len(p[l]) + 2) <= Len(s),
           \A x \in 1..(Len(p[l]) + 2) : s[d + x] = Quoted(p[l])[x],
           NEW y \in 1..(Len(p[l]) + 2)
    PROVE  ~Stands(k, s, d + y)
<1> DEFINE v == p[l]
           m == Len(v)
           u == Quoted(v)
           z == d + y
           h == Len(k)
<1>1. k \in Seq(S) /\ v \in Seq(S) /\ m \in Nat /\ h \in Nat /\ Len(s) \in Nat
  BY DEF WordKeys
<1>2. u[1] = "'" /\ u[m + 2] = "'" /\ \A x \in 1..m : u[x + 1] = v[x]
  BY <1>1, QuotedIs
<1>3. \A x \in 1..(m + 2) : s[d + x] = u[x]  OBVIOUS
<1>4. \A x \in 1..h : k[x] # "'"  BY DEF WordKeys, Contains
<1>5. \A c \in 1..m : ~Stands(k, v, c)
  <2> SUFFICES ASSUME NEW c \in 1..m PROVE ~Stands(k, v, c)  OBVIOUS
  <2>1. ~OccursAt(Placeholder(k), v, c)  BY DEF Independent
  <2>2. c \in Nat \ {0}  BY <1>1
  <2> HIDE DEF v
  <2> QED  BY <1>1, <2>1, <2>2, StandsIs
<1>0. y \in 1..(m + 2)  OBVIOUS
<1> HIDE DEF v, m, u, h
<1> SUFFICES ASSUME Stands(k, s, z) PROVE FALSE  OBVIOUS
<1>6. z + h <= Len(s) /\ s[z] = ":" /\ \A x \in 1..h : s[z + x] = k[x]  BY DEF Stands, h
<1>7. u[y] = ":"  BY <1>0, <1>3, <1>6
<1>8. ":" # "'"  OBVIOUS
<1>9. y # 1 /\ y # m + 2  BY <1>2, <1>7, <1>8
<1> DEFINE c == y - 1
<1>10. c \in 1..m /\ c + 1 = y /\ c \in Nat  BY <1>0, <1>1, <1>9
<1>11. v[c] = ":"  BY <1>2, <1>7, <1>10
<1>12. CASE c + h <= m
  <2>1. \A x \in 1..h : y + x \in 1..(m + 2) /\ z + x = d + (y + x) /\ y + x = (c + x) + 1
                        /\ c + x \in 1..m
    BY <1>1, <1>10, <1>12
  <2> HIDE DEF c, z
  <2>2. \A x \in 1..h : v[c + x] = k[x]
    <3> SUFFICES ASSUME NEW x \in 1..h PROVE v[c + x] = k[x]  OBVIOUS
    <3>1. k[x] = s[d + (y + x)]  BY <1>6, <2>1
    <3>2. s[d + (y + x)] = u[y + x]  BY <1>3, <2>1
    <3>3. u[(c + x) + 1] = v[c + x]  BY <1>2, <2>1
    <3> QED  BY <2>1, <3>1, <3>2, <3>3
  <2>3. Stands(k, v, c)  BY <1>11, <1>12, <2>2 DEF Stands, h, m
  <2> QED  BY <1>5, <1>10, <2>3
<1>13. CASE ~(c + h <= m)
  <2> DEFINE x == (m + 1) - c
  <2>1. x \in 1..h /\ z + x = d + (m + 2) /\ m + 2 \in 1..(m + 2)  BY <1>1, <1>10, <1>13
  <2> HIDE DEF x, z, c
  <2>2. k[x] = s[d + (m + 2)]  BY <1>6, <2>1
  <2>3. s[d + (m + 2)] = u[m + 2]  BY <1>3, <2>1
  <2> QED  BY <1>2, <1>4, <2>1, <2>2, <2>3
<1> QED  BY <1>12, <1>13

\* The i-th piece is as in the template.
Plain(K, t, i) == KeyAt(K, t, i) = {} /\ ~Covered(K, t, i)

\* A placeholder that stands in the filled template where a letter of the
\* template is already stood in the template.
LEMMA NotAtLetter ==
    ASSUME NEW S, Marks \subseteq S, NEW t \in Seq(S), NEW p, WordKeys(S, p),
           NEW K \in SUBSET DOMAIN p, NEW k \in DOMAIN p, NEW s \in Seq(S),
           NEW o \in [0..Len(t) -> Nat], Layout(o, Fills(K, p, t), s),
           NEW i \in 1..Len(t), Plain(K, t, i), Stands(k, s, o[i])
    PROVE  Stands(k, t, i)
<1> DEFINE n == Len(t)
           q == Fills(K, p, t)
           h == Len(k)
           Fits(y) == i + y \in 1..n /\ Plain(K, t, i + y) /\ o[i + y] = o[i] + y
           T == {x \in 0..h : \A y \in 0..x : Fits(y)}
<1>1. q \in Seq(Seq(S)) /\ Len(q) = n /\ \A j \in 1..n : q[j] = Piece(K, p, t, j)
  BY FillsType
<1> HIDE DEF q
<1>2. /\ n \in Nat /\ o[n] = Len(s) /\ o[0] = 0
      /\ \A j \in 1..n : /\ o[j] = o[j - 1] + Len(q[j]) /\ o[j] <= Len(s)
                         /\ \A x \in 1..Len(q[j]) : s[o[j - 1] + x] = q[j][x]
  BY <1>1 DEF Layout, q
<1>3. k \in Seq(S) /\ h \in Nat  BY DEF WordKeys
<1>4. o[i] + h <= Len(s) /\ s[o[i]] = ":" /\ \A x \in 1..h : s[o[i] + x] = k[x]
  BY DEF Stands
<1>5. \A x \in 1..h : k[x] # "'"  BY DEF WordKeys, Contains
<1>6. \A j \in 0..n : o[j] \in Nat  OBVIOUS
<1> HIDE DEF n, h
<1>7. i \in 1..n /\ i \in Nat /\ \A j \in 1..n : j - 1 \in 0..n /\ j \in 0..n
  BY <1>2 DEF n
<1>8. \A j \in 1..n : Plain(K, t, j) => q[j] = <<t[j]>> /\ o[j] = o[j - 1] + 1 /\ s[o[j]] = t[j]
  <2> SUFFICES ASSUME NEW j \in 1..n, Plain(K, t, j)
               PROVE  q[j] = <<t[j]>> /\ o[j] = o[j - 1] + 1 /\ s[o[j]] = t[j]
    OBVIOUS
  <2>1. PieceCases(K, p, t, j)  BY PieceIs DEF n
  <2>2. q[j] = <<t[j]>>  BY <1>1, <2>1 DEF PieceCases, Plain
  <2>3. Len(q[j]) = 1 /\ q[j][1] = t[j] /\ 1 \in 1..1  BY <2>2
  <2>4. o[j] = o[j - 1] + 1 /\ s[o[j - 1] + 1] = t[j]  BY <1>2, <2>3
  <2> QED  BY <2>2, <2>4
<1>9. 0 \in T
  <2>1. i + 0 = i /\ o[i] + 0 = o[i] /\ 0 \in 0..h /\ \A y \in 0..0 : y = 0
    BY <1>3, <1>6, <1>7
  <2> QED  BY <1>7, <2>1
<1>10. ASSUME NEW x \in 0..(h - 1), x \in T  PROVE x + 1 \in T
  <2> DEFINE y == x + 1
             j == i + y
  <2>1. y \in 1..h /\ y \in 0..h /\ x \in 0..h /\ (\A z \in 0..y : z = y \/ z \in 0..x)
        /\ j - 1 = i + x /\ x \in Nat
    BY <1>3
  <2>2. i + x \in 1..n /\ o[i + x] = o[i] + x  BY <1>10, <2>1
  <2>3. j \in 1..n
    <3>1. o[i + x] # o[n]  BY <1>2, <1>3, <1>4, <1>6, <1>7, <2>1, <2>2
    <3>2. i + x # n  BY <3>1
    <3> QED  BY <1>2, <1>7, <2>1, <2>2, <3>2
  <2>4. o[j - 1] = o[i] + x /\ o[j - 1] + 1 = o[i] + y
    <3> DEFINE c == o[i]
               d == o[j - 1]
    <3>1. d = o[i + x]  BY <2>1
    <3>2. d = c + x /\ c \in Nat  BY <1>6, <1>7, <2>2, <3>1
    <3> HIDE DEF c, d
    <3>3. d + 1 = c + (x + 1)  BY <2>1, <3>2
    <3> QED  BY <3>2, <3>3 DEF c, d
  <2> HIDE DEF y, j
  <2>5. KeyAt(K, t, j) = {}
    <3> SUFFICES ASSUME KeyAt(K, t, j) # {} PROVE FALSE  OBVIOUS
    <3>1. PieceCases(K, p, t, j)  BY <2>3, PieceIs DEF n
    <3>2. PICK l \in KeyAt(K, t, j) : q[j] = Quoted(p[l])  BY <1>1, <2>3, <3>1 DEF PieceCases
    <3>3. p[l] \in Seq(S)  BY DEF WordKeys, KeyAt
    <3> DEFINE v == p[l]
    <3>4. v \in Seq(S) /\ q[j] = Quoted(v)  BY <3>2, <3>3
    <3> HIDE DEF v
    <3>8. Len(q[j]) = Len(v) + 2 /\ q[j][1] = "'"  BY <3>4, QuotedIs
    <3>5. 1 \in 1..Len(q[j])
      <4>1. Len(v) \in Nat  BY <3>4
      <4> QED  BY <3>8, <4>1
    <3>6. s[o[j - 1] + 1] = "'"  BY <1>2, <2>3, <3>8, <3>5
    <3>7. s[o[i] + y] = k[y]  BY <1>4, <2>1
    <3> QED  BY <1>5, <2>1, <2>4, <3>6, <3>7
  <2>6. ~Covered(K, t, j)
    <3> SUFFICES ASSUME Covered(K, t, j) PROVE FALSE  OBVIOUS
    <3>1. PICK m \in 1..n : \E l \in KeyAt(K, t, m) : j \in (m + 1)..(m + Len(l))
      BY DEF Covered, n
    <3>2. PICK l \in KeyAt(K, t, m) : j \in (m + 1)..(m + Len(l))  BY <3>1
    <3>3. Len(l) \in Nat
      <4>1. l \in Seq(S)  BY DEF WordKeys, KeyAt
      <4> QED  BY <4>1
    <3>4. CASE m < i
      <4>1. i \in (m + 1)..(m + Len(l))  BY <1>7, <2>1, <3>2, <3>3, <3>4 DEF j, y
      <4>2. Covered(K, t, i)  BY <4>1 DEF Covered, n
      <4> QED  BY <4>2 DEF Plain
    <3>5. CASE ~(m < i)
      <4> DEFINE z == m - i
      <4>1. z \in 0..x /\ i + z = m  BY <1>7, <2>1, <3>2, <3>3, <3>5 DEF j, y
      <4> HIDE DEF z
      <4>2. Plain(K, t, m)  BY <1>10, <4>1
      <4> QED  BY <3>2, <4>2 DEF Plain
    <3> QED  BY <3>4, <3>5
  <2>7. Plain(K, t, j)  BY <2>5, <2>6 DEF Plain
  <2>8. o[j] = o[i] + y  BY <1>8, <2>3, <2>4, <2>7
  <2>9. Fits(y)  BY <2>3, <2>7, <2>8 DEF j
  <2>10. \A z \in 0..y : Fits(z)  BY <1>10, <2>1, <2>9
  <2> QED  BY <2>1, <2>10 DEF y
<1> HIDE DEF T
<1>11. 0..h \subseteq T  BY <1>3, <1>9, <1>10, InductionUpTo
<1>12. \A y \in 0..h : Fits(y)
  <2>1. h \in T  BY <1>3, <1>11
  <2> QED  BY <2>1 DEF T
<1>13. t[i] = ":"  BY <1>4, <1>7, <1>8
<1>14. i + h <= n
  <2>1. h \in 0..h  BY <1>3
  <2>2. i + h \in 1..n  BY <1>12, <2>1
  <2> QED  BY <2>2
<1>15. ASSUME NEW x \in 1..h  PROVE t[i + x] = k[x]
  <2>1. x \in 0..h  BY <1>3
  <2>2. Fits(x)  BY <1>12, <2>1
  <2>3. s[o[i + x]] = t[i + x]  BY <1>8, <2>2
  <2> QED  BY <1>4, <2>2, <2>3
<1> QED  BY <1>13, <1>14, <1>15 DEF Stands, n, h

\* The keys of K are filled, which makes s, and k is the next one.
Halfway(S, t, p, K, k, s, o) ==
    /\ Marks \subseteq S /\ t \in Seq(S) /\ WordKeys(S, p) /\ Independent(p)
    /\ K \in SUBSET DOMAIN p /\ k \in DOMAIN p /\ k \notin K
    /\ s \in Seq(S) /\ o \in [0..Len(t) -> Nat] /\ Layout(o, Fills(K, p, t), s)

\* Where the placeholder of k stands in the template.
Replaced(K, k, p, t, j, y) ==
    /\ j + y \in 1..Len(t) /\ Plain(K, t, j + y)
    /\ y = 0 => Piece(K \cup {k}, p, t, j + y) = Quoted(p[k])
    /\ y # 0 => Piece(K \cup {k}, p, t, j + y) = <<>>

\* Filling k changes the pieces of its placeholder in that way.
LEMMA AtPlaceholder ==
    ASSUME NEW S, NEW t, NEW p, NEW K, NEW k, NEW s, NEW o, Halfway(S, t, p, K, k, s, o),
           NEW j \in 1..Len(t), Stands(k, t, j), NEW y \in 0..Len(k)
    PROVE  Replaced(K, k, p, t, j, y)
<1> USE DEF Halfway
<1> DEFINE n == Len(t)
           h == Len(k)
           i == j + y
           J == K \cup {k}
<1>1. k \in Seq(S) /\ h \in Nat /\ n \in Nat /\ j \in 1..n /\ y \in 0..h
  BY DEF WordKeys
<1>2. j + h <= n  BY DEF Stands
<1>3. i \in 1..n /\ (y = 0 => i = j) /\ (y # 0 => j < i /\ i \in (j + 1)..(j + h))
      /\ i <= j + h /\ i >= j
  BY <1>1, <1>2
<1>4. \A l \in DOMAIN p : Len(l) \in Nat
  <2>1. \A l \in DOMAIN p : l \in Seq(S)  BY DEF WordKeys
  <2> QED  BY <2>1
<1>5. ASSUME NEW l \in DOMAIN p, NEW m \in 1..n, Stands(l, t, m)
      PROVE  Distinct(k, j, l, m) /\ Distinct(l, m, k, j)
  BY <1>1, <1>5, Apart
<1> HIDE DEF n, h, i
<1>6. ASSUME NEW l \in DOMAIN p, Stands(l, t, i)  PROVE y = 0 /\ l = k
  <2>1. Distinct(k, j, l, i)  BY <1>3, <1>5, <1>6
  <2>2. ~(j < i)
    <3>1. j < i => j + h < i  BY <2>1 DEF Distinct, h
    <3>2. i \in Nat /\ j \in Nat /\ i <= j + h /\ h \in Nat  BY <1>1, <1>3
    <3> QED  BY <3>1, <3>2
  <2>3. i = j /\ y = 0  BY <1>1, <1>3, <2>2
  <2> QED  BY <2>1, <2>3 DEF Distinct
<1>7. KeyAt(K, t, i) = {}  BY <1>6 DEF KeyAt
<1>8. ~Covered(K, t, i)
  <2> SUFFICES ASSUME Covered(K, t, i) PROVE FALSE  OBVIOUS
  <2>1. PICK m \in 1..n : \E l \in KeyAt(K, t, m) : i \in (m + 1)..(m + Len(l))
    BY DEF Covered, n
  <2>2. PICK l \in KeyAt(K, t, m) : i \in (m + 1)..(m + Len(l))  BY <2>1
  <2>3. l \in K /\ l \in DOMAIN p /\ Stands(l, t, m) /\ Len(l) \in Nat  BY <1>4 DEF KeyAt
  <2>4. Distinct(k, j, l, m) /\ Distinct(l, m, k, j)  BY <1>5, <2>3
  <2>5. m # j  BY <2>3, <2>4 DEF Distinct
  <2>6. m < j => m + Len(l) < j  BY <2>4 DEF Distinct
  <2>7. j < m => j + h < m  BY <2>4 DEF Distinct, h
  <2> QED  BY <1>1, <1>3, <2>2, <2>3, <2>5, <2>6, <2>7
<1>9. ASSUME y = 0  PROVE Piece(J, p, t, i) = Quoted(p[k])
  <2>1. i = j  BY <1>3, <1>9
  <2>2. KeyAt(J, t, i) = {k}
    <3>1. k \in KeyAt(J, t, i)  BY <2>1 DEF KeyAt
    <3>2. \A l \in KeyAt(J, t, i) : l \in DOMAIN p /\ Stands(l, t, i)  BY DEF KeyAt
    <3> HIDE DEF J
    <3> QED  BY <1>6, <3>1, <3>2
  <2>3. AnyOf({k}) = k  BY DEF AnyOf
  <2> QED  BY <2>2, <2>3 DEF Piece
<1>10. ASSUME y # 0  PROVE Piece(J, p, t, i) = <<>>
  <2>1. KeyAt(J, t, i) = {}
    <3>1. \A l \in KeyAt(J, t, i) : l \in DOMAIN p /\ Stands(l, t, i)  BY DEF KeyAt
    <3> QED  BY <1>6, <1>10, <3>1
  <2>2. Covered(J, t, i)
    <3>1. k \in KeyAt(J, t, j) /\ i \in (j + 1)..(j + Len(k))  BY <1>3, <1>10 DEF KeyAt, h
    <3> QED  BY <3>1 DEF Covered
  <2> QED  BY <2>1, <2>2 DEF Piece
<1> QED  BY <1>3, <1>7, <1>8, <1>9, <1>10 DEF Replaced, Plain, i, n, J

\* Elsewhere nothing changes.
LEMMA SamePiece ==
    ASSUME NEW K, NEW k, NEW p, NEW t, NEW i, ~Stands(k, t, i), ~Covered({k}, t, i)
    PROVE  Piece(K \cup {k}, p, t, i) = Piece(K, p, t, i)
<1>1. KeyAt(K \cup {k}, t, i) = KeyAt(K, t, i)  BY DEF KeyAt
<1>2. Covered(K \cup {k}, t, i) <=> Covered(K, t, i)  BY DEF Covered, KeyAt
<1> QED  BY <1>1, <1>2 DEF Piece

\* Outside of its placeholders in the template k is not found.
LEMMA NoMatch ==
    ASSUME NEW S, NEW t, NEW p, NEW K, NEW k, NEW s, NEW o, Halfway(S, t, p, K, k, s, o),
           NEW i \in 1..Len(t), ~Stands(k, t, i), NEW z \in (o[i - 1] + 1)..o[i]
    PROVE  ~OccursAt(Placeholder(k), s, z)
<1> USE DEF Halfway
<1> DEFINE n == Len(t)
           q == Fills(K, p, t)
           d == o[i - 1]
           y == z - d
<1>1. q \in Seq(Seq(S)) /\ Len(q) = n /\ \A j \in 1..n : q[j] = Piece(K, p, t, j)
  BY FillsType
<1>2. n \in Nat /\ i - 1 \in 0..n /\ i \in 0..n /\ i \in 1..n  OBVIOUS
<1>3. d \in Nat /\ o[i] \in Nat /\ Len(q[i]) \in Nat
  <2>1. q[i] \in Seq(S)
    <3> HIDE DEF q
    <3> QED  BY <1>1, <1>2
  <2>2. d \in Nat /\ o[i] \in Nat  BY <1>2
  <2> HIDE DEF q, d
  <2> QED  BY <2>1, <2>2
<1>4. o[i] = d + Len(q[i]) /\ o[i] <= Len(s) /\ \A x \in 1..Len(q[i]) : s[d + x] = q[i][x]
  BY <1>1, <1>2 DEF Layout
<1>5. PieceCases(K, p, t, i)  BY PieceIs
<1>6. q[i] = Piece(K, p, t, i)  BY <1>1
<1>9. z \in (d + 1)..o[i]  OBVIOUS
<1> HIDE DEF n, q, d
<1>7. y \in 1..Len(q[i]) /\ d + y = z /\ z \in Nat \ {0}  BY <1>3, <1>4, <1>9
<1> HIDE DEF y
<1>8. ~Stands(k, s, z)
  <2>1. CASE KeyAt(K, t, i) # {}
    <3>1. PICK l \in KeyAt(K, t, i) : q[i] = Quoted(p[l])  BY <1>5, <1>6, <2>1 DEF PieceCases
    <3>2. l \in DOMAIN p /\ p[l] \in Seq(S)  BY DEF KeyAt, WordKeys
    <3>3. Len(q[i]) = Len(p[l]) + 2
      <4> DEFINE v == p[l]
      <4>1. v \in Seq(S) /\ q[i] = Quoted(v)  BY <3>1, <3>2
      <4> HIDE DEF v
      <4>2. Len(q[i]) = Len(v) + 2  BY <4>1, QuotedIs
      <4> QED  BY <4>2 DEF v
    <3>4. d + (Len(p[l]) + 2) <= Len(s)
          /\ \A x \in 1..(Len(p[l]) + 2) : s[d + x] = Quoted(p[l])[x]
      BY <1>4, <3>1, <3>3
    <3>5. y \in 1..(Len(p[l]) + 2)  BY <1>7, <3>3
    <3>6. ~Stands(k, s, d + y)  BY <1>3, <3>2, <3>4, <3>5, NotInValue
    <3> QED  BY <1>7, <3>6
  <2>2. CASE KeyAt(K, t, i) = {} /\ Covered(K, t, i)
    <3>1. Len(q[i]) = 0  BY <1>5, <1>6, <2>2 DEF PieceCases
    <3> QED  BY <1>7, <3>1
  <2>3. CASE KeyAt(K, t, i) = {} /\ ~Covered(K, t, i)
    <3>1. Len(q[i]) = 1  BY <1>5, <1>6, <2>3 DEF PieceCases
    <3>2. z = o[i]  BY <1>3, <1>4, <1>7, <3>1
    <3>3. Plain(K, t, i)  BY <2>3 DEF Plain
    <3>4. Stands(k, s, o[i]) => Stands(k, t, i)  BY <3>3, NotAtLetter
    <3> QED  BY <3>2, <3>4
  <2> QED  BY <2>1, <2>2, <2>3
<1>10. k \in Seq(S)  BY DEF WordKeys
<1> QED  BY <1>7, <1>8, <1>10, StandsIs

\* The replacement jumps over a placeholder.
Jumps(rest, o, k, new, j) == rest[o[j - 1] + 1] = new \o rest[o[j + Len(k)] + 1]

\* The replacement does so.
LEMMA Jump ==
    ASSUME NEW S, NEW t, NEW p, NEW K, NEW k, NEW s, NEW o, Halfway(S, t, p, K, k, s, o),
           NEW new, NEW rest, IsRest(rest, s, Placeholder(k), new),
           NEW j \in 1..Len(t), Stands(k, t, j)
    PROVE  Jumps(rest, o, k, new, j)
<1> USE DEF Halfway
<1> DEFINE n == Len(t)
           h == Len(k)
           q == Fills(K, p, t)
           d == o[j - 1]
           w == Placeholder(k)
           T == {y \in 0..h : o[j + y] = d + 1 + y}
<1>1. q \in Seq(Seq(S)) /\ Len(q) = n /\ \A i \in 1..n : q[i] = Piece(K, p, t, i)
  BY FillsType
<1>2. n \in Nat /\ h \in Nat /\ k \in Seq(S)  BY DEF WordKeys
<1>3. d \in Nat /\ j \in 1..n
  <2>1. j - 1 \in 0..n  BY <1>2
  <2> QED  BY <2>1
<1> HIDE DEF d
<1>4. ASSUME NEW y \in 0..h
      PROVE  /\ j + y \in 1..n /\ o[j + y] = o[(j + y) - 1] + 1 /\ o[j + y] <= Len(s)
             /\ s[o[(j + y) - 1] + 1] = t[j + y]
  <2>1. Replaced(K, k, p, t, j, y)  BY AtPlaceholder
  <2> DEFINE i == j + y
  <2>2. i \in 1..n /\ Plain(K, t, i)  BY <2>1 DEF Replaced
  <2> HIDE DEF i
  <2>3. PieceCases(K, p, t, i)  BY <2>2, PieceIs
  <2>4. q[i] = <<t[i]>>  BY <1>1, <2>2, <2>3 DEF PieceCases, Plain
  <2>5. Len(q[i]) = 1 /\ q[i][1] = t[i] /\ 1 \in 1..1  BY <2>4
  <2>6. o[i] = o[i - 1] + Len(q[i]) /\ o[i] <= Len(s)
        /\ \A x \in 1..Len(q[i]) : s[o[i - 1] + x] = q[i][x]
    BY <1>1, <2>2 DEF Layout
  <2> QED  BY <2>2, <2>5, <2>6 DEF i
<1> HIDE DEF q, n, h
<1>5. 0 \in T
  <2>1. j + 0 = j /\ 0 \in 0..h /\ d + 1 + 0 = d + 1  BY <1>2, <1>3
  <2> QED  BY <1>4, <2>1 DEF d
<1>6. ASSUME NEW y \in 0..(h - 1), y \in T  PROVE y + 1 \in T
  <2>1. y + 1 \in 0..h /\ (j + (y + 1)) - 1 = j + y /\ (d + 1 + y) + 1 = d + 1 + (y + 1)
    BY <1>2, <1>3
  <2>2. o[j + (y + 1)] = o[j + y] + 1  BY <1>4, <2>1
  <2>3. o[j + y] = d + 1 + y  BY <1>6
  <2> QED  BY <2>1, <2>2, <2>3
<1> HIDE DEF T
<1>7. 0..h \subseteq T  BY <1>2, <1>5, <1>6, InductionUpTo
<1>8. \A y \in 0..h : o[j + y] = d + 1 + y  BY <1>7 DEF T
<1>9. h \in 0..h /\ 0 \in 0..h  BY <1>2
<1>10. o[j + h] = d + 1 + h /\ d + 1 + h <= Len(s)
  <2>1. o[j + h] = d + 1 + h  BY <1>8, <1>9
  <2>2. o[j + h] <= Len(s)  BY <1>4, <1>9
  <2> QED  BY <2>1, <2>2
<1>11. s[d + 1] = ":"
  <2>1. j + 0 = j  BY <1>3
  <2>2. s[d + 1] = t[j]  BY <1>4, <1>9, <2>1 DEF d
  <2> QED  BY <2>2 DEF Stands
<1>12. ASSUME NEW x \in 1..h  PROVE s[(d + 1) + x] = k[x]
  <2>1. x \in 0..h /\ x - 1 \in 0..h /\ (j + x) - 1 = j + (x - 1)
        /\ (d + 1 + (x - 1)) + 1 = (d + 1) + x
    BY <1>2, <1>3
  <2>2. s[o[(j + x) - 1] + 1] = t[j + x]  BY <1>4, <2>1
  <2>3. o[j + (x - 1)] = d + 1 + (x - 1)  BY <1>8, <2>1
  <2>4. s[(d + 1) + x] = t[j + x]  BY <2>1, <2>2, <2>3
  <2>5. t[j + x] = k[x]  BY DEF Stands, h
  <2> QED  BY <2>4, <2>5
<1>13. Stands(k, s, d + 1)
  <2>1. (d + 1) + h <= Len(s)  BY <1>10
  <2> QED  BY <1>11, <1>12, <2>1 DEF Stands, h
<1>14. OccursAt(w, s, d + 1) /\ d + 1 \in 1..Len(s)
  <2>1. d + 1 \in Nat \ {0}  BY <1>3
  <2>2. d + 1 \in 1..Len(s)
    <3>1. Len(s) \in Nat  OBVIOUS
    <3> QED  BY <1>2, <1>3, <1>10, <3>1
  <2> QED  BY <1>2, <1>13, <2>1, <2>2, StandsIs
<1>15. rest[d + 1] = new \o rest[(d + 1) + Len(w)]  BY <1>14 DEF IsRest
<1>16. (d + 1) + Len(w) = (d + 1 + h) + 1
  <2>1. Len(w) = h + 1  BY <1>2, PlaceholderIs DEF h
  <2> HIDE DEF w
  <2> QED  BY <1>2, <1>3, <2>1
<1> QED  BY <1>10, <1>15, <1>16 DEF Jumps, d, h

\* It keeps every other piece.
Stays(rest, o, piece, i) == rest[o[i - 1] + 1] = piece \o rest[o[i] + 1]

\* It does.
LEMMA Stay ==
    ASSUME NEW S, NEW t, NEW p, NEW K, NEW k, NEW s, NEW o, Halfway(S, t, p, K, k, s, o),
           NEW new, NEW rest \in [1..(Len(s) + 1) -> Seq(S)],
           IsRest(rest, s, Placeholder(k), new), NEW i \in 1..Len(t), ~Stands(k, t, i)
    PROVE  Stays(rest, o, Piece(K, p, t, i), i)
<1> USE DEF Halfway
<1> DEFINE n == Len(t)
           q == Fills(K, p, t)
           a == o[i - 1]
           b == o[i]
           piece == Piece(K, p, t, i)
<1>1. q \in Seq(Seq(S)) /\ Len(q) = n /\ \A j \in 1..n : q[j] = Piece(K, p, t, j)
  BY FillsType
<1>2. q[i] = piece /\ piece \in Seq(S)  BY <1>1, PieceIs
<1>3. a \in Nat /\ b \in Nat
  <2>1. i - 1 \in 0..n /\ i \in 0..n  OBVIOUS
  <2> QED  BY <2>1
<1>4. b = a + Len(piece) /\ b <= Len(s) /\ \A x \in 1..Len(piece) : s[a + x] = piece[x]
  BY <1>1, <1>2 DEF Layout
<1>5. \A z \in (a + 1)..b : ~OccursAt(Placeholder(k), s, z)  BY NoMatch
<1>7. Len(piece) \in Nat /\ Len(s) \in Nat  BY <1>2
<1> HIDE DEF a, b, piece, q
<1>6. a \in 0..Len(s) /\ b \in a..Len(s) /\ b - a = Len(piece)
  BY <1>3, <1>4, <1>7
<1>8. KeepsTo(rest, s, a, b)  BY <1>5, <1>6, WalkOver
<1>9. SubSeq(s, a + 1, b) = piece
  <2> DEFINE u == SubSeq(s, a + 1, b)
  <2>1. IsCut(u, S, s, a, b)  BY <1>6, CutOut
  <2> HIDE DEF u
  <2>2. u \in Seq(S) /\ Len(u) = Len(piece) /\ \A x \in 1..Len(u) : u[x] = piece[x]
    BY <1>4, <1>6, <2>1 DEF IsCut
  <2>3. u = piece  BY <1>2, <2>2, SeqEqual
  <2> QED  BY <2>3 DEF u
<1> QED  BY <1>8, <1>9 DEF KeepsTo, Stays, a, b, piece

\* The placeholder of k ends before i, or stands behind it.
Between(t, k, i) == ~Covered({k}, t, i + 1)

\* What the placeholders of one key cover.
LEMMA CoveredBy ==
    ASSUME NEW t, NEW k, NEW i
    PROVE  Covered({k}, t, i)
              <=> \E j \in 1..Len(t) : Stands(k, t, j) /\ i \in (j + 1)..(j + Len(k))
  BY DEF Covered, KeyAt

\* r is made of the pieces g up to i and of the rest.
Made(r, g, rest, o, i) == r = g[i] \o rest[o[i] + 1]

\* One round of get_sql fills the placeholders of one more key.
LEMMA OneParameter ==
    ASSUME NEW S, NEW t, NEW p, NEW K, NEW k, NEW s, NEW o, Halfway(S, t, p, K, k, s, o)
    PROVE  RegexReplace(s, Placeholder(k), Quoted(p[k])) = FlattenSeq(Fills(K \cup {k}, p, t))
<1> USE DEF Halfway
<1> DEFINE n == Len(t)
           h == Len(k)
           J == K \cup {k}
           q == Fills(J, p, t)
           w == Placeholder(k)
           new == Quoted(p[k])
           L == Len(s)
<1>0. Len(Fills(K, p, t)) = Len(t)  BY FillsType
<1>1. k \in Seq(S) /\ p[k] \in Seq(S) /\ w \in Seq(S) /\ w # <<>> /\ new \in Seq(S)
      /\ h \in Nat /\ n \in Nat /\ L \in Nat
  <2>1. k \in Seq(S) /\ p[k] \in Seq(S)  BY DEF WordKeys
  <2>2. w \in Seq(S) /\ w # <<>>  BY <2>1, PlaceholderIs
  <2> DEFINE v == p[k]
  <2>3. v \in Seq(S)  BY <2>1
  <2> HIDE DEF v
  <2>4. Quoted(v) \in Seq(S)  BY <2>3, QuotedIs
  <2> QED  BY <2>1, <2>2, <2>4 DEF v
<1>2. q \in Seq(Seq(S)) /\ Len(q) = n /\ \A i \in 1..n : q[i] = Piece(J, p, t, i)
  <2>1. J \in SUBSET DOMAIN p  OBVIOUS
  <2> HIDE DEF J
  <2> QED  BY <2>1, FillsType
<1> HIDE DEF q, w, new
<1>3. PICK rest \in [1..(L + 1) -> Seq(S)] :
         IsRest(rest, s, w, new) /\ RegexReplace(s, w, new) = rest[1]
  BY <1>1, ReplaceFunction
<1>4. PICK g \in [0..Len(q) -> Seq(S)] :
         g[0] = <<>> /\ \A i \in 1..Len(q) : g[i] = g[i - 1] \o q[i]
  BY <1>2, FlattenFunction
<1>5. FlattenSeq(q) = g[n]  BY <1>2, <1>4, FlattenIs
<1>6. /\ g[0] = <<>> /\ (\A i \in 0..n : g[i] \in Seq(S))
      /\ \A i \in 1..n : g[i] = g[i - 1] \o Piece(J, p, t, i)
  BY <1>2, <1>4
<1>7. /\ o[0] = 0 /\ o[n] = L /\ \A i \in 0..n : o[i] \in 0..L
  <2>1. Len(Fills(K, p, t)) = n  BY <1>0
  <2>2. o[0] = 0 /\ o[n] = L /\ \A i \in 1..n : o[i] <= L  BY <2>1 DEF Layout
  <2>3. \A i \in 0..n : o[i] \in Nat  OBVIOUS
  <2> HIDE DEF n, L
  <2>4. \A i \in 0..n : i = 0 \/ i \in 1..n  BY <1>1
  <2>5. \A i \in 0..n : o[i] <= L
    <3>1. \A i \in 1..n : o[i] <= L  BY <2>2
    <3>2. o[0] <= L  BY <1>1, <2>2
    <3> QED  BY <2>4, <3>1, <3>2
  <2> QED  BY <1>1, <2>2, <2>3, <2>5
<1> DEFINE Goes(i) == Between(t, k, i) => Made(rest[1], g, rest, o, i)
           T == {i \in 0..n : \A j \in 0..i : Goes(j)}
<1> HIDE DEF n, L, h, J
<1>8. \A i \in 0..n : rest[o[i] + 1] \in Seq(S)
  <2>1. \A i \in 0..n : o[i] + 1 \in 1..(L + 1)
    <3>1. \A x \in 0..L : x + 1 \in 1..(L + 1)  BY <1>1
    <3>2. \A i \in 0..n : o[i] \in 0..L  BY <1>7
    <3> QED  BY <3>1, <3>2
  <2> QED  BY <1>3, <2>1
<1>9. 0 \in T
  <2>1. 0 \in 0..n /\ \A j \in 0..0 : j = 0  BY <1>1
  <2>2. rest[1] = <<>> \o rest[0 + 1]
    <3> DEFINE r == rest[1]
    <3>1. r \in Seq(S) /\ 0 + 1 = 1
      <4>1. 0 + 1 = 1  OBVIOUS
      <4> QED  BY <1>7, <1>8, <2>1, <4>1
    <3> HIDE DEF r
    <3>2. r = <<>> \o r  BY <3>1
    <3> QED  BY <3>1, <3>2 DEF r
  <2>3. Made(rest[1], g, rest, o, 0)  BY <1>6, <1>7, <2>2 DEF Made
  <2> HIDE DEF Goes
  <2>4. Goes(0)  BY <2>3 DEF Goes
  <2> QED  BY <2>1, <2>4
<1>10. ASSUME NEW b \in 0..(n - 1), b \in T, Between(t, k, b + 1)
       PROVE  Made(rest[1], g, rest, o, b + 1)
  <2> DEFINE i == b + 1
  <2>1. i \in 1..n /\ i - 1 = b /\ b \in 0..n /\ i \in 0..n /\ i \in Nat  BY <1>1
  <2>2. \A j \in 0..b : Goes(j)  BY <1>10
  <2>3. ~Covered({k}, t, i + 1)  BY <1>10 DEF Between
  <2> HIDE DEF i
  <2>4. CASE \E j \in 1..n : Stands(k, t, j) /\ i = j + h
    <3>1. PICK j \in 1..n : Stands(k, t, j) /\ i = j + h  BY <2>4
    <3> DEFINE c == j - 1
    <3>2. c \in 0..b /\ c + 1 = j /\ c \in 0..n /\ j \in Nat  BY <1>1, <2>1, <3>1
    <3> HIDE DEF c
    <3>3. Between(t, k, c)
      <4> SUFFICES ASSUME Covered({k}, t, j) PROVE FALSE  BY <3>2 DEF Between
      <4>1. PICK m \in 1..n : Stands(k, t, m) /\ j \in (m + 1)..(m + h)
        BY CoveredBy DEF n, h
      <4>2. Distinct(k, m, k, j)  BY <3>1, <4>1, Apart DEF n
      <4>3. m < j => m + h < j  BY <4>2 DEF Distinct, h
      <4> QED  BY <1>1, <3>2, <4>1, <4>3
    <3>4. Made(rest[1], g, rest, o, c)  BY <2>2, <3>2, <3>3
    <3>5. Jumps(rest, o, k, new, j)  BY <1>3, <3>1, Jump DEF n, w
    <3>6. rest[o[c] + 1] = new \o rest[o[i] + 1]  BY <3>1, <3>5 DEF Jumps, c, h
    <3>7. g[i] = g[c] \o new
      <4> DEFINE U == {y \in 0..h : g[j + y] = g[c] \o new}
      <4>1. \A y \in 0..h : Replaced(K, k, p, t, j, y)
        BY <3>1, AtPlaceholder DEF n, h
      <4>2. 0 \in U
        <5>1. 0 \in 0..h /\ j + 0 = j /\ j - 1 = c  BY <1>1, <3>2
        <5>2. Piece(J, p, t, j) = new  BY <4>1, <5>1 DEF Replaced, J, new
        <5>3. g[j] = g[c] \o new  BY <1>6, <5>1, <5>2
        <5> QED  BY <5>1, <5>3
      <4>3. ASSUME NEW y \in 0..(h - 1), y \in U  PROVE y + 1 \in U
        <5> DEFINE z == y + 1
        <5>1. z \in 0..h /\ z # 0 /\ (j + z) - 1 = j + y /\ y \in 0..h  BY <1>1, <3>2
        <5> HIDE DEF z
        <5>2. j + z \in 1..n /\ Piece(J, p, t, j + z) = <<>>
          BY <4>1, <5>1 DEF Replaced, J, n
        <5>3. g[j + z] = g[j + y] \o <<>>  BY <1>6, <5>1, <5>2
        <5>4. g[j + y] = g[c] \o new  BY <4>3
        <5>5. g[c] \o new \in Seq(S)  BY <1>1, <1>6, <3>2
        <5> DEFINE x == g[c] \o new
        <5>6. x \in Seq(S)  BY <5>5
        <5> HIDE DEF x
        <5>7. x \o <<>> = x  BY <5>6
        <5>8. g[j + z] = g[c] \o new  BY <5>3, <5>4, <5>7 DEF x
        <5> QED  BY <5>1, <5>8 DEF z
      <4> HIDE DEF U
      <4>4. 0..h \subseteq U  BY <1>1, <4>2, <4>3, InductionUpTo
      <4>5. h \in U  BY <1>1, <4>4
      <4> QED  BY <3>1, <4>5 DEF U
    <3>8. g[c] \in Seq(S) /\ rest[o[i] + 1] \in Seq(S) /\ new \in Seq(S)
      BY <1>1, <1>6, <1>8, <2>1, <3>2
    <3>9. rest[1] = g[c] \o rest[o[c] + 1]  BY <3>4 DEF Made
    <3>10. rest[1] = (g[c] \o new) \o rest[o[i] + 1]
      <4> DEFINE u == g[c]
                 v == rest[o[i] + 1]
                 x == rest[o[c] + 1]
                 r == rest[1]
      <4>1. u \in Seq(S) /\ v \in Seq(S) /\ x = new \o v /\ r = u \o x /\ new \in Seq(S)
        BY <3>6, <3>8, <3>9
      <4> HIDE DEF u, v, x, r, Halfway
      <4>4. u \in Seq(S) /\ v \in Seq(S) /\ new \in Seq(S)  BY <4>1
      <4>5. Associates(u, new, v)  BY <4>4, Associative
      <4>2. u \o (new \o v) = (u \o new) \o v  BY <4>5 DEF Associates
      <4>3. r = (u \o new) \o v  BY <4>1, <4>2
      <4> QED  BY <4>3 DEF u, v, r
    <3> QED  BY <3>7, <3>10 DEF Made, i
  <2>5. CASE ~\E j \in 1..n : Stands(k, t, j) /\ i = j + h
    <3>1. ~Stands(k, t, i)
      <4> SUFFICES ASSUME Stands(k, t, i) PROVE FALSE  OBVIOUS
      <4>1. h # 0  BY <2>1, <2>5
      <4>2. i + 1 \in (i + 1)..(i + h)  BY <1>1, <2>1, <4>1
      <4> QED  BY <2>1, <2>3, <4>2, CoveredBy DEF n, h
    <3>2. ~Covered({k}, t, i)
      <4> SUFFICES ASSUME Covered({k}, t, i) PROVE FALSE  OBVIOUS
      <4>1. PICK m \in 1..n : Stands(k, t, m) /\ i \in (m + 1)..(m + h)
        BY CoveredBy DEF n, h
      <4>2. i # m + h  BY <2>5, <4>1
      <4>3. i + 1 \in (m + 1)..(m + h)  BY <1>1, <2>1, <4>1, <4>2
      <4> QED  BY <2>3, <4>1, <4>3, CoveredBy DEF n, h
    <3> DEFINE piece == Piece(K, p, t, i)
    <3>3. Piece(J, p, t, i) = piece  BY <3>1, <3>2, SamePiece DEF J
    <3>4. Stays(rest, o, piece, i)  BY <1>3, <2>1, <3>1, Stay DEF n, L, w
    <3>5. piece \in Seq(S)  BY <2>1, PieceIs DEF n
    <3> HIDE DEF piece
    <3>6. rest[o[b] + 1] = piece \o rest[o[i] + 1] /\ g[i] = g[b] \o piece
      BY <1>6, <2>1, <3>3, <3>4 DEF Stays
    <3>7. Between(t, k, b)  BY <3>2 DEF Between, i
    <3>8. rest[1] = g[b] \o rest[o[b] + 1]
      <4>1. b \in 0..b  BY <2>1
      <4> QED  BY <2>2, <3>7, <4>1 DEF Made
    <3>9. g[b] \in Seq(S) /\ rest[o[i] + 1] \in Seq(S)  BY <1>6, <1>8, <2>1
    <3>10. rest[1] = (g[b] \o piece) \o rest[o[i] + 1]
      <4> DEFINE u == g[b]
                 v == rest[o[i] + 1]
                 x == rest[o[b] + 1]
      <4>1. x = piece \o v /\ rest[1] = u \o x  BY <3>6, <3>8
      <4>2. u \in Seq(S) /\ v \in Seq(S) /\ piece \in Seq(S)  BY <3>5, <3>9
      <4> HIDE DEF u, v, x
      <4>3. Associates(u, piece, v)  BY <4>2, Associative
      <4> QED  BY <4>1, <4>3 DEF Associates, u, v
    <3> QED  BY <3>6, <3>10 DEF Made, i
  <2> QED  BY <2>4, <2>5
<1>11. ASSUME NEW b \in 0..(n - 1), b \in T  PROVE b + 1 \in T
  <2>1. b + 1 \in 0..n /\ \A j \in 0..(b + 1) : j = b + 1 \/ j \in 0..b  BY <1>1
  <2>2. Goes(b + 1)  BY <1>10, <1>11
  <2> HIDE DEF Goes
  <2>3. \A j \in 0..b : Goes(j)  BY <1>11
  <2>4. \A j \in 0..(b + 1) : Goes(j)  BY <2>1, <2>2, <2>3
  <2> QED  BY <2>1, <2>4
<1> HIDE DEF T
<1>12. 0..n \subseteq T  BY <1>1, <1>9, <1>11, InductionUpTo
<1>13. Goes(n)
  <2>1. n \in T /\ n \in 0..n  BY <1>1, <1>12
  <2> QED  BY <2>1 DEF T
<1>14. Between(t, k, n)
  <2> SUFFICES ASSUME Covered({k}, t, n + 1) PROVE FALSE  BY DEF Between
  <2>1. PICK m \in 1..n : Stands(k, t, m) /\ n + 1 \in (m + 1)..(m + h)
    BY CoveredBy DEF n, h
  <2>2. m + h <= n  BY <2>1 DEF Stands, n, h
  <2> QED  BY <1>1, <2>1, <2>2
<1>15. rest[1] = g[n] \o rest[L + 1]  BY <1>7, <1>13, <1>14 DEF Made
<1>16. rest[L + 1] = <<>>  BY <1>3 DEF IsRest, L
<1>17. g[n] \o <<>> = g[n]
  <2> DEFINE x == g[n]
  <2>1. n \in 0..n  BY <1>1
  <2>2. x \in Seq(S)  BY <1>6, <2>1
  <2> HIDE DEF x
  <2>3. x \o <<>> = x  BY <2>2
  <2> QED  BY <2>3 DEF x
<1> QED  BY <1>3, <1>5, <1>15, <1>16, <1>17 DEF q, w, new, J

-------------------------------------------------------------------------------
(* All rounds of get_sql *)

\* With no key filled there is the template.
LEMMA NothingFilled ==
    ASSUME NEW S, NEW t \in Seq(S), NEW p
    PROVE  FlattenSeq(Fills({}, p, t)) = t
<1> DEFINE n == Len(t)
           q == Fills({}, p, t)
           To(i) == SubSeq(t, 1, i)
<1>1. n \in Nat /\ \A i \in 1..n : t[i] \in S  OBVIOUS
<1>2. q \in Seq(Seq(S)) /\ Len(q) = n /\ \A i \in 1..n : q[i] = <<t[i]>>
  <2>1. \A i \in 1..n : Piece({}, p, t, i) = <<t[i]>>  BY DEF Piece, KeyAt, Covered
  <2>2. q = [i \in 1..n |-> <<t[i]>>]  BY <2>1 DEF Fills
  <2>3. \A i \in 1..n : <<t[i]>> \in Seq(S)  BY <1>1
  <2> HIDE DEF q, n
  <2> QED  BY <1>1, <2>2, <2>3
<1> HIDE DEF q
<1>3. PICK g \in [0..Len(q) -> Seq(S)] :
         g[0] = <<>> /\ \A i \in 1..Len(q) : g[i] = g[i - 1] \o q[i]
  BY <1>2, FlattenFunction
<1>4. FlattenSeq(q) = g[n]  BY <1>2, <1>3, FlattenIs
<1>5. g[0] = <<>> /\ \A i \in 1..n : g[i] = g[i - 1] \o <<t[i]>>  BY <1>2, <1>3
<1> DEFINE T == {i \in 0..n : g[i] = To(i)}
<1> HIDE DEF n
<1>6. 0 \in T
  <2>1. SubSeq(t, 1, 0) = <<>>  BY SubSeqEmpty, 0 < 1, 0 \in Int, 1 \in Int
  <2>2. 0 \in 0..n  BY <1>1
  <2> QED  BY <1>5, <2>1, <2>2
<1>7. ASSUME NEW i \in 0..(n - 1), i \in T  PROVE i + 1 \in T
  <2> DEFINE j == i + 1
             u == SubSeq(t, 0 + 1, i)
             w == SubSeq(t, 0 + 1, j)
             x == t[j]
  <2>1. j \in 1..n /\ j - 1 = i /\ j \in 0..n /\ i \in 0..n /\ 0 + 1 = 1 /\ j - 0 = j /\ i - 0 = i
        /\ (\A z \in 1..j : z = j \/ z \in 1..i) /\ (\A z \in 1..j : 0 + z = z)
        /\ 0 \in 0..n /\ i \in Nat
    BY <1>1
  <2> HIDE DEF j
  <2>2. g[j] = u \o <<x>>
    <3>1. g[i] = To(i)  BY <1>7
    <3>2. g[j] = g[j - 1] \o <<x>>  BY <1>5, <2>1
    <3> QED  BY <2>1, <3>1, <3>2
  <2>3. IsCut(u, S, t, 0, i) /\ IsCut(w, S, t, 0, j)
    <3>1. 0 \in 0..Len(t) /\ i \in 0..Len(t) /\ j \in 0..Len(t)  BY <2>1 DEF n
    <3> QED  BY <3>1, CutOut
  <2>4. x \in S  BY <1>1, <2>1
  <2> DEFINE v == u \o <<x>>
  <2> HIDE DEF u, w, x
  <2>5. u \in Seq(S) /\ Len(u) = i /\ \A z \in 1..i : u[z] = t[0 + z]
    BY <2>1, <2>3 DEF IsCut
  <2>6. w \in Seq(S) /\ Len(w) = j /\ \A z \in 1..j : w[z] = t[0 + z]
    BY <2>1, <2>3 DEF IsCut
  <2>7. v \in Seq(S) /\ Len(v) = Len(u) + 1 /\ v[Len(u) + 1] = x
        /\ \A z \in 1..Len(u) : v[z] = u[z]
    <3>1. u \in Seq(S) /\ x \in S  BY <2>4, <2>5
    <3> QED  BY <3>1
  <2> HIDE DEF v
  <2>8. Len(u) + 1 = j  BY <2>5 DEF j
  <2>9. \A z \in 1..Len(w) : w[z] = v[z]
    <3>1. w[j] = t[j] /\ v[j] = t[j]
      <4>1. j \in 1..j /\ 0 + j = j  BY <2>1
      <4> QED  BY <2>6, <2>7, <2>8, <4>1 DEF x
    <3>2. \A z \in 1..i : w[z] = v[z]
      <4>1. \A z \in 1..i : z \in 1..j  BY <2>1, <2>8, <2>5
      <4> QED  BY <2>5, <2>6, <2>7, <4>1
    <3> QED  BY <2>1, <2>6, <3>1, <3>2
  <2>10. w = v  BY <2>6, <2>7, <2>8, <2>9, SeqEqual
  <2>11. g[j] = To(j)  BY <2>1, <2>2, <2>10 DEF w, v
  <2> QED  BY <2>1, <2>11 DEF j
<1> HIDE DEF T
<1>8. 0..n \subseteq T  BY <1>1, <1>6, <1>7, InductionUpTo
<1>9. g[n] = SubSeq(t, 1, n)
  <2>1. n \in T  BY <1>1, <1>8
  <2> QED  BY <2>1 DEF T
<1>10. SubSeq(t, 1, n) = t  BY DEF n
<1> QED  BY <1>4, <1>9, <1>10 DEF q

\* Filled is what all keys fill.
LEMMA FilledIs ==
    ASSUME NEW S, Marks \subseteq S, NEW t \in Seq(S), NEW p, WordKeys(S, p)
    PROVE  Filled(t, p) = FlattenSeq(Fills(DOMAIN p, p, t))
<1> DEFINE D == DOMAIN p
           n == Len(t)
           keyAt(i) == {k \in D : OccursAt(Placeholder(k), t, i)}
           covered == {i \in 1..n : \E j \in 1..n : \E k \in keyAt(j) : i \in (j + 1)..(j + Len(k))}
           piece(i) == IF keyAt(i) # {} THEN Quoted(p[CHOOSE k \in keyAt(i) : TRUE])
                       ELSE IF i \in covered THEN <<>>
                       ELSE <<t[i]>>
<1>1. n \in Nat  OBVIOUS
<1>2. \A i \in 1..n : keyAt(i) = KeyAt(D, t, i)
  <2>1. ASSUME NEW i \in 1..n, NEW k \in D
        PROVE  OccursAt(Placeholder(k), t, i) <=> Stands(k, t, i)
    <3>1. i \in Nat \ {0} /\ k \in Seq(S)  BY <1>1 DEF WordKeys
    <3> QED  BY <3>1, StandsIs
  <2> QED  BY <2>1 DEF KeyAt
<1> HIDE DEF n
<1>3. \A i \in 1..n : i \in covered <=> Covered(D, t, i)
  <2> HIDE DEF keyAt
  <2> QED  BY <1>2 DEF Covered, n
<1>4. \A i \in 1..n : piece(i) = Piece(D, p, t, i)
  <2> SUFFICES ASSUME NEW i \in 1..n PROVE piece(i) = Piece(D, p, t, i)  OBVIOUS
  <2>1. piece(i) = IF keyAt(i) # {} THEN Quoted(p[AnyOf(keyAt(i))])
                   ELSE IF i \in covered THEN <<>>
                   ELSE <<t[i]>>
    BY DEF AnyOf
  <2> HIDE DEF keyAt, covered, piece
  <2> QED  BY <1>2, <1>3, <2>1 DEF Piece
<1>5. Filled(t, p) = FlattenSeq([i \in 1..n |-> piece(i)])  BY DEF Filled, n
<1> HIDE DEF piece
<1>6. [i \in 1..n |-> piece(i)] = [i \in 1..n |-> Piece(D, p, t, i)]  BY <1>4
<1> QED  BY <1>5, <1>6 DEF Fills, n

-------------------------------------------------------------------------------
\* The replacement of a key is plain text: Expand changes nothing in it.
LEMMA ReplaceIs ==
    ASSUME NEW S, Marks \subseteq S, NEW p, WordKeys(S, p), Independent(p),
           NEW k \in DOMAIN p, NEW sql \in Seq(S)
    PROVE  /\ ReplaceParam(sql, k, p[k]) = RegexReplace(sql, Placeholder(k), Quoted(p[k]))
           /\ ReplaceParam(sql, k, p[k]) \in Seq(S)
<1> DEFINE v == p[k]
           u == Quoted(v)
           w == Placeholder(k)
<1>1. k \in Seq(S) /\ v \in Seq(S) /\ ~Contains(v, "$")  BY DEF WordKeys, Independent
<1>2. w \in Seq(S) /\ w # <<>>  BY <1>1, PlaceholderIs
<1> HIDE DEF v, w
<1>3. u \in Seq(S) /\ Len(u) = Len(v) + 2 /\ u[1] = "'" /\ u[Len(v) + 2] = "'"
      /\ \A x \in 1..Len(v) : u[x + 1] = v[x]
  BY <1>1, QuotedIs
<1> HIDE DEF u
<1>4. ~Contains(u, "$")
  <2>1. \A x \in 1..Len(v) : v[x] # "$"  BY <1>1 DEF Contains
  <2>2. "'" # "$"  OBVIOUS
  <2>3. Len(v) \in Nat  BY <1>1
  <2>4. ASSUME NEW x \in 1..Len(u)  PROVE u[x] # "$"
    <3>1. CASE x = 1 \/ x = Len(v) + 2  BY <1>3, <2>2, <3>1
    <3>2. CASE x # 1 /\ x # Len(v) + 2
      <4> DEFINE y == x - 1
      <4>1. y \in 1..Len(v) /\ y + 1 = x  BY <1>3, <2>3, <2>4, <3>2
      <4> HIDE DEF y
      <4> QED  BY <1>3, <2>1, <4>1
    <3> QED  BY <3>1, <3>2
  <2> QED  BY <2>4 DEF Contains
<1>5. Expand(u) = u
  <2>1. {"$", "1"} \subseteq S  BY DEF Marks
  <2> QED  BY <1>3, <1>4, <2>1, ExpandKeeps
<1>6. ReplaceParam(sql, k, v) = RegexReplace(sql, w, u)  BY <1>5 DEF ReplaceParam, u, w
<1>7. PICK rest \in [1..(Len(sql) + 1) -> Seq(S)] :
         IsRest(rest, sql, w, u) /\ RegexReplace(sql, w, u) = rest[1]
  BY <1>2, <1>3, ReplaceFunction
<1>8. rest[1] \in Seq(S)
  <2>1. 1 \in 1..(Len(sql) + 1)
    <3>1. Len(sql) \in Nat  OBVIOUS
    <3> QED  BY <3>1
  <2> QED  BY <2>1
<1> QED  BY <1>6, <1>7, <1>8 DEF u, v, w

\* The text after the first i parameters is G[i].
Replaces(G, t, p, q) ==
    G[0] = t /\ \A i \in 1..Len(q) : G[i] = ReplaceParam(G[i - 1], q[i], p[q[i]])

\* get_sql takes one parameter after the other.
LEMMA SQLIs ==
    ASSUME NEW S, Marks \subseteq S, NEW p, WordKeys(S, p), Independent(p),
           NEW t \in Seq(S), NEW q \in Seq(DOMAIN p)
    PROVE  \E G \in [0..Len(q) -> Seq(S)] :
              Replaces(G, t, p, q) /\ get_sql(t, p, q) = G[Len(q)]
<1> DEFINE n == Len(q)
           A == Seq(S)
           a == t
           Read(v, key) == ReplaceParam(v, key, p[key])
           step == [i \in 1..n |-> [v \in A |-> Read(v, q[i])]]
<1>6. get_sql(t, p, q) = FoldLeft(LAMBDA sql, key : ReplaceParam(sql, key, p[key]), a, q)
  BY DEF get_sql
<1>1. n \in Nat /\ a \in A /\ DOMAIN q = 1..n  OBVIOUS
<1>2. step \in StepFunctions(n, A)
  <2>1. ASSUME NEW i \in 1..n, NEW v \in A  PROVE Read(v, q[i]) \in A
    <3>1. q[i] \in DOMAIN p  OBVIOUS
    <3> QED  BY <3>1, ReplaceIs
  <2> HIDE DEF A, Read
  <2> QED  BY <2>1 DEF StepFunctions
<1> DEFINE Is(h) == h = [u \in SUBSET DOMAIN q |->
                           IF u = {} THEN a
                           ELSE LET x == Max(u) IN Read(h[u \ {x}], q[x])]
<1>4. \E h : Is(h)
  <2> HIDE DEF a, A, step, n
  <2>1. PICK h \in [SUBSET (1..n) -> A] : Fold(h, n, a, step)
    BY <1>1, <1>2, FoldExists
  <2>2. ASSUME NEW u \in SUBSET (1..n), u # {}
        PROVE  step[Max(u)][h[u \ {Max(u)}]] = Read(h[u \ {Max(u)}], q[Max(u)])
    <3>1. u \in SUBSET (0..n)  OBVIOUS
    <3>2. Max(u) \in 1..n  BY <1>1, <2>2, <3>1, MaxIs
    <3> HIDE DEF Read
    <3> QED  BY <3>2 DEF step
  <2> HIDE DEF Read
  <2>3. h = [u \in SUBSET (1..n) |->
               IF u = {} THEN a ELSE Read(h[u \ {Max(u)}], q[Max(u)])]
    BY <2>1, <2>2 DEF Fold
  <2> QED  BY <1>1, <2>3
<1> DEFINE h == CHOOSE h : Is(h)
<1>5. Is(h)  BY <1>4
<1>16. get_sql(t, p, q) = h[DOMAIN q]
  BY <1>6 DEF FoldLeft, MapThenFoldSet
<1> HIDE DEF h, Read
<1>7. h[{}] = a  BY <1>5
<1>8. ASSUME NEW i \in 1..n, h[1..(i - 1)] \in A  PROVE h[1..i] = step[i][h[1..(i - 1)]]
  <2>2. /\ 1..i \in SUBSET (1..n) /\ 1..i # {} /\ Max(1..i) = i
        /\ (1..i) \ {i} = 1..(i - 1)
    BY <1>1, FoldGoesOn
  <2>3. h[1..i] = Read(h[(1..i) \ {Max(1..i)}], q[Max(1..i)])
    BY <1>1, <1>5, <2>2
  <2> QED  BY <1>8, <2>2, <2>3
<1> HIDE DEF a, A, step, n
<1>9. PICK g \in [0..n -> A] : Recursion(g, n, a, step)  BY <1>1, <1>2, RecursionUpTo
<1>10. h[1..n] = g[n]
  <2>1. FoldSteps(h, n, A, step)  BY <1>8 DEF FoldSteps
  <2>2. n \in Nat /\ a \in A  BY <1>1
  <2> QED  BY <2>1, <2>2, <1>2, <1>7, <1>9, FoldIs
<1>11. ASSUME NEW i \in 1..n  PROVE g[i] = Read(g[i - 1], q[i])
  <2>1. g[i] = step[i][g[i - 1]]  BY <1>9 DEF Recursion
  <2>2. i - 1 \in 0..n  BY <1>1
  <2>3. g[i - 1] \in A  BY <2>2
  <2> QED  BY <2>1, <2>3 DEF step
<1>12. Replaces(g, t, p, q)  BY <1>9, <1>11 DEF Replaces, Recursion, a, n, Read
<1> QED  BY <1>1, <1>9, <1>10, <1>12, <1>16 DEF n, A

\* q is an order of D.
Order(q, D) ==
    /\ q \in Seq(D) /\ \A i, j \in 1..Len(q) : i # j => q[i] # q[j]
    /\ \A k \in D : \E i \in 1..Len(q) : q[i] = k

\* SetToSeqs gives orders.
LEMMA OrderIs ==
    ASSUME NEW D, IsFiniteSet(D), NEW q \in SetToSeqs(D)
    PROVE  Order(q, D)
<1> DEFINE c == Cardinality(D)
<1>1. c \in Nat  BY FS_CardinalityType
<1>2. q \in [1..c -> D] /\ \A i, j \in 1..c : i # j => q[i] # q[j]  BY DEF SetToSeqs
<1> HIDE DEF c
<1>3. q \in Seq(D) /\ Len(q) = c  BY <1>1, <1>2
<1>4. q \in Injection(1..c, D)  BY <1>2 DEF Injection, IsInjective
<1>5. Cardinality(1..c) = c
  <2>1. Cardinality(1..c) = IF 1 > c THEN 0 ELSE c - 1 + 1  BY <1>1, FS_Interval
  <2> QED  BY <1>1, <2>1
<1>6. q \in Surjection(1..c, D)  BY <1>4, <1>5, FS_Injection DEF c
<1> QED  BY <1>2, <1>3, <1>6 DEF Order, Surjection

\* After all parameters, in any order, all placeholders are filled.
LEMMA SQLFilled ==
    ASSUME NEW S, Marks \subseteq S, NEW p, WordKeys(S, p), Independent(p),
           NEW t \in Seq(S), NEW q, Order(q, DOMAIN p)
    PROVE  get_sql(t, p, q) = Filled(t, p)
<1> DEFINE D == DOMAIN p
           m == Len(q)
           Keys(i) == {q[j] : j \in 1..i}
           At0(i) == FlattenSeq(Fills(Keys(i), p, t))
<1>1. q \in Seq(D) /\ m \in Nat  BY DEF Order
<1>2. PICK G \in [0..Len(q) -> Seq(S)] : Replaces(G, t, p, q) /\ get_sql(t, p, q) = G[Len(q)]
  BY <1>1, SQLIs
<1> DEFINE T == {i \in 0..m : G[i] = At0(i)}
<1>3. 0 \in T
  <2>1. Keys(0) = {} /\ 0 \in 0..m  BY <1>1
  <2> HIDE DEF Keys
  <2>2. At0(0) = t  BY <2>1, NothingFilled
  <2> QED  BY <1>2, <2>1, <2>2 DEF Replaces
<1>4. ASSUME NEW i \in 0..(m - 1), i \in T  PROVE i + 1 \in T
  <2> DEFINE j == i + 1
             K == Keys(i)
             k == q[j]
             s == At0(i)
  <2>1. j \in 1..m /\ j - 1 = i /\ j \in 0..m /\ i \in Nat
        /\ (\A x \in 1..i : x \in 1..m /\ x # j) /\ 1..j = 1..i \cup {j}
    BY <1>1
  <2> HIDE DEF j
  <2>2. k \in D /\ k \notin K /\ K \in SUBSET D
    <3>1. k \in D  BY <1>1, <2>1
    <3>2. \A x \in 1..m : q[x] \in D  BY <1>1
    <3>3. \A x \in 1..m : x # j => q[x] # q[j]
      <4>1. \A x, y \in 1..Len(q) : x # y => q[x] # q[y]  BY DEF Order
      <4> QED  BY <2>1, <4>1
    <3> HIDE DEF m
    <3>4. \A x \in 1..i : q[x] # k /\ q[x] \in D  BY <2>1, <3>2, <3>3
    <3> QED  BY <3>1, <3>4
  <2>3. Keys(j) = K \cup {k}  BY <2>1
  <2> HIDE DEF K, k
  <2>4. Fills(K, p, t) \in Seq(Seq(S)) /\ Len(Fills(K, p, t)) = Len(t)
    BY <2>2, FillsType
  <2>5. PICK o \in [0..Len(Fills(K, p, t)) -> Nat] :
           Layout(o, Fills(K, p, t), FlattenSeq(Fills(K, p, t)))
           /\ FlattenSeq(Fills(K, p, t)) \in Seq(S)
    BY <2>4, LayoutExists
  <2>6. s = FlattenSeq(Fills(K, p, t))  BY DEF K
  <2> HIDE DEF s
  <2>7. s \in Seq(S)  BY <2>5, <2>6
  <2>8. Halfway(S, t, p, K, k, s, o)
    <3>1. o \in [0..Len(t) -> Nat]  BY <2>4, <2>5
    <3> QED  BY <2>2, <2>5, <2>6, <3>1 DEF Halfway
  <2>9. RegexReplace(s, Placeholder(k), Quoted(p[k])) = FlattenSeq(Fills(K \cup {k}, p, t))
    BY <2>8, OneParameter
  <2>10. ReplaceParam(s, k, p[k]) = RegexReplace(s, Placeholder(k), Quoted(p[k]))
    BY <2>2, <2>7, ReplaceIs
  <2>11. G[j] = ReplaceParam(s, k, p[k])
    <3>1. G[j] = ReplaceParam(G[j - 1], q[j], p[q[j]])  BY <1>2, <2>1 DEF Replaces
    <3>2. G[i] = s  BY <1>4 DEF s
    <3> QED  BY <2>1, <3>1, <3>2 DEF k
  <2>12. G[j] = At0(j)
    <3> HIDE DEF Keys
    <3> QED  BY <2>3, <2>9, <2>10, <2>11
  <2> QED  BY <2>1, <2>12 DEF j
<1> HIDE DEF T
<1>5. 0..m \subseteq T
  <2> HIDE DEF m
  <2> QED  BY <1>1, <1>3, <1>4, InductionUpTo
<1>6. G[m] = At0(m)
  <2>1. m \in 0..m  BY <1>1
  <2> QED  BY <1>5, <2>1 DEF T
<1>7. Keys(m) = D
  <2>1. \A j \in 1..m : q[j] \in D  BY <1>1
  <2>2. \A k \in D : \E j \in 1..m : q[j] = k  BY DEF Order
  <2> HIDE DEF m, D
  <2> QED  BY <2>1, <2>2
<1> HIDE DEF Keys
<1>8. Filled(t, p) = FlattenSeq(Fills(D, p, t))  BY FilledIs
<1> QED  BY <1>2, <1>6, <1>7, <1>8

\* A text over fewer characters is one over more.
LEMMA WidenSeq ==
    ASSUME NEW S, NEW k, k \in Seq(ToSet(k)), ToSet(k) \subseteq S
    PROVE  k \in Seq(S)
<1>1. Len(k) \in Nat /\ k \in [1..Len(k) -> ToSet(k)]  OBVIOUS
<1>2. k \in [1..Len(k) -> S]  BY <1>1
<1> QED  BY <1>1, <1>2

\* get_sql fills a template over any alphabet.
LEMMA AllFilled ==
    ASSUME NEW A, text \in Seq(A)  PROVE ParametersAreFilled
<1> SUFFICES ASSUME NEW p \in ParamMaps, Independent(p), NEW q \in SetToSeqs(DOMAIN p)
             PROVE  get_sql(text, p, q) = Filled(text, p)
  BY DEF ParametersAreFilled
<1> DEFINE D == DOMAIN p
           V == {ToSet(k) : k \in D}
           U == {ToSet(p[k]) : k \in D}
           S == A \cup Marks \cup UNION (V \cup U)
<1>1. /\ IsFiniteSet(D)
      /\ \A k \in D : /\ k \in Seq(ToSet(k)) /\ p[k] \in Seq(ToSet(p[k]))
                      /\ ~Contains(k, ":") /\ ~Contains(k, "'")
  BY ParamMapsAssumption
<1>2. Marks \subseteq S /\ A \subseteq S
      /\ \A k \in D : ToSet(k) \subseteq S /\ ToSet(p[k]) \subseteq S
  <2>1. \A k \in D : ToSet(k) \in V /\ ToSet(p[k]) \in U  OBVIOUS
  <2> HIDE DEF U, V, D
  <2>2. \A B \in V \cup U : B \subseteq S  OBVIOUS
  <2>3. Marks \subseteq S /\ A \subseteq S  OBVIOUS
  <2> HIDE DEF S
  <2> QED  BY <2>1, <2>2, <2>3
<1> HIDE DEF S
<1>3. text \in Seq(S)
  <2>1. Len(text) \in Nat /\ text \in [1..Len(text) -> A]  OBVIOUS
  <2>2. text \in [1..Len(text) -> S]  BY <1>2, <2>1
  <2> QED  BY <2>1, <2>2
<1>4. WordKeys(S, p)
  <2>1. ASSUME NEW k \in D  PROVE k \in Seq(S) /\ p[k] \in Seq(S)
    <3>1. k \in Seq(S)  BY <1>1, <1>2, WidenSeq
    <3> DEFINE v == p[k]
    <3>2. v \in Seq(ToSet(v)) /\ ToSet(v) \subseteq S  BY <1>1, <1>2
    <3> HIDE DEF v
    <3>3. v \in Seq(S)  BY <3>2, WidenSeq
    <3> QED  BY <3>1, <3>3 DEF v
  <2> QED  BY <1>1, <2>1 DEF WordKeys
<1>5. Order(q, D)
  <2> HIDE DEF D
  <2>1. q \in SetToSeqs(D)  BY DEF D
  <2> QED  BY <1>1, <2>1, OrderIs
<1> QED  BY <1>2, <1>3, <1>4, <1>5, SQLFilled

\* SQLTemplate::get_sql fills every placeholder with its own value, whatever the
\* order of the unordered_map: for any template, of any length over any
\* alphabet, and any number of independent parameters.
THEOREM SQLCorrect == TextSpec => []ParametersAreFilled
<1>1. TextType => ParametersAreFilled  BY AllFilled DEF TextType
<1> QED  BY <1>1, TextIsTyped, PTL
===============================================================================
