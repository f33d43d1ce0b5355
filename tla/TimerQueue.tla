------------------------------ MODULE TimerQueue ------------------------------
(***************************************************************************)
(* What sort_timer_list promises: timers wait in the order in which they   *)
(* expire, equals in the order in which they got their time, and a tick    *)
(* fires exactly the timers that have expired, in that order.              *)
(* SortTimerList.tla, the list with its pointers, implements this module.  *)
(***************************************************************************)
EXTENDS Naturals, Sequences, SequencesExt

CONSTANTS
    Timers,     \* the util_timer objects there can be
    MaxTime     \* bound of the clock and of every expiry

VARIABLES
    waiting,    \* the timers in the list, the first to expire first
    due,        \* the expiry of each waiting timer, 0 for the others
    clock,      \* time(nullptr)
    fired       \* the timers whose callback a tick just called, in order

queueVars == <<waiting, due, clock, fired>>

Active == {waiting[i] : i \in 1..Len(waiting)}

\* The timers of s in front of place k expire at e or before, those from k on later.
Parts(s, k, e) ==
    /\ \A i \in 1..(k - 1) : due[s[i]] <= e
    /\ \A i \in k..Len(s) : due[s[i]] > e

\* t joins s with expiry e, behind every timer that expires no later.
Enqueue(s, t, e) ==
    /\ \E k \in 1..(Len(s) + 1) : Parts(s, k, e) /\ waiting' = InsertAt(s, k, t)
    /\ due' = [due EXCEPT ![t] = e]
    /\ fired' = <<>>

\* Only the members of s go on waiting.
Keep(s) ==
    /\ waiting' = s
    /\ due' = [t \in Timers |-> IF \E i \in 1..Len(s) : s[i] = t THEN due[t] ELSE 0]

QueueInit ==
    /\ waiting = <<>>
    /\ due = [t \in Timers |-> 0]
    /\ clock = 0
    /\ fired = <<>>

Add(t, e) ==
    /\ t \notin Active
    /\ Enqueue(waiting, t, e)
    /\ UNCHANGED clock

\* A timer whose time is put off but still comes before its successor's keeps
\* its place: that is where Enqueue would put it.
Postpone(t, e) ==
    /\ \E k \in 1..Len(waiting) :
          /\ waiting[k] = t
          /\ e >= due[t]
          /\ Enqueue(RemoveAt(waiting, k), t, e)
    /\ UNCHANGED clock

Cancel(t) ==
    /\ \E k \in 1..Len(waiting) : waiting[k] = t /\ Keep(RemoveAt(waiting, k))
    /\ fired' = <<>>
    /\ UNCHANGED clock

Tick ==
    /\ \E k \in 1..(Len(waiting) + 1) :
          /\ Parts(waiting, k, clock)
          /\ fired' = SubSeq(waiting, 1, k - 1)
          /\ Keep(SubSeq(waiting, k, Len(waiting)))
    /\ UNCHANGED clock

TimePasses ==
    /\ clock' = clock + 1
    /\ fired' = <<>>
    /\ UNCHANGED <<waiting, due>>

QueueNext ==
    \/ \E t \in Timers, e \in 0..MaxTime : Add(t, e) \/ Postpone(t, e)
    \/ \E t \in Timers : Cancel(t)
    \/ Tick
    \/ TimePasses

QueueSpec == QueueInit /\ [][QueueNext]_queueVars
===============================================================================
