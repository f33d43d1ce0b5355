----------------------------- MODULE SortTimerList -----------------------------
(***************************************************************************)
(* sort_timer_list: a doubly linked list of util_timer cells kept in the   *)
(* order of expiry; and what Utils has of an alarm that is to drive it.    *)
(*                                                                         *)
(* The list belongs to one thread, so each operation is one step.  Its     *)
(* callers are not part of the repository: they add cells they just made,  *)
(* put times off (what adjust_timer is for), delete cells of the list, and *)
(* tick when they like.  Nothing but such a caller ticks: the list inside  *)
(* Utils is private and stays empty, and the handler of SIGALRM ends the   *)
(* process, because nothing ever sets Utils::_pipefd.                      *)
(***************************************************************************)
EXTENDS Naturals, Sequences, FiniteSets

CONSTANTS
    Timers,     \* the addresses of util_timer objects
    Null,       \* nullptr
    MaxTime     \* bound of the clock and of every expiry

ASSUME TimerAssumption ==
    /\ IsFiniteSet(Timers)
    /\ Null \notin Timers
    /\ MaxTime \in Nat

VARIABLES
    head, tail,     \* of sort_timer_list
    next, prev,     \* of each cell
    expire,         \* of each cell
    alive,          \* the cells that are not deleted
    clock,          \* time(nullptr)
    fired,          \* the timers whose callback a tick just called, in order
    alarm           \* alarm() of the process, until its signal has ended it

listVars == <<head, tail, next, prev, expire, alive>>
vars == <<listVars, clock, fired, alarm>>

Down == alarm = "crashed"

-------------------------------------------------------------------------------
\* delete, of the cells in gone, when the list is linked as nx and pv tell.  What
\* a deleted cell holds is never read, which TypeOK states: it is cleared here.
Delete(gone, nx, pv) ==
    /\ alive' = alive \ gone
    /\ next' = [c \in Timers |-> IF c \in gone THEN Null ELSE nx[c]]
    /\ prev' = [c \in Timers |-> IF c \in gone THEN Null ELSE pv[c]]
    /\ expire' = [c \in Timers |-> IF c \in gone THEN 0 ELSE expire[c]]

(* The private add_timer *)

\* Where its loop stops, from cell n on: the last cell, or the first one whose
\* successor expires after e.
StopCell(nx, n, e) ==
    LET walk[c \in Timers] ==
            IF nx[c] = Null \/ e < expire[nx[c]] THEN c ELSE walk[nx[c]]
    IN  walk[n]

\* Mutant of LinkAfter: tail is not moved.
LinkAfterKeepsTail(nx, pv, t, n) ==
    /\ next' = [nx EXCEPT ![n] = t, ![t] = nx[n]]
    /\ prev' = [c \in Timers |->
                   IF c = t THEN n ELSE IF c = nx[n] THEN t ELSE pv[c]]
    /\ tail' = tail

\* Link t behind n, in the middle of the list or at its end.
LinkAfter(nx, pv, t, n) ==
    /\ next' = [nx EXCEPT ![n] = t, ![t] = nx[n]]
    /\ prev' = [c \in Timers |->
                   IF c = t THEN n ELSE IF c = nx[n] THEN t ELSE pv[c]]
    /\ tail' = IF nx[n] = Null THEN t ELSE tail

-------------------------------------------------------------------------------
(* The operations, on the thread that owns the list *)

\* Mutant of AddTimer: <= in the place of < at the head.
AddTimerBeforeEqual(t, e) ==
    /\ ~Down
    /\ t \notin alive
    /\ alive' = alive \cup {t}
    /\ expire' = [expire EXCEPT ![t] = e]
    /\ LET nx == [next EXCEPT ![t] = Null]
           pv == [prev EXCEPT ![t] = Null] IN
       \/ /\ head = Null
          /\ head' = t
          /\ tail' = t
          /\ next' = nx
          /\ prev' = pv
       \/ /\ head # Null
          /\ e <= expire[head]
          /\ head' = t
          /\ next' = [nx EXCEPT ![t] = head]
          /\ prev' = [pv EXCEPT ![head] = t]
          /\ UNCHANGED tail
       \/ /\ head # Null
          /\ e > expire[head]
          /\ LinkAfter(nx, pv, t, StopCell(nx, head, e))
          /\ UNCHANGED head
    /\ fired' = <<>>
    /\ UNCHANGED <<clock, alarm>>

\* add_timer of a new cell, whose constructor cleared its pointers.
AddTimer(t, e) ==
    /\ ~Down
    /\ t \notin alive
    /\ alive' = alive \cup {t}
    /\ expire' = [expire EXCEPT ![t] = e]
    /\ LET nx == [next EXCEPT ![t] = Null]
           pv == [prev EXCEPT ![t] = Null] IN
       \/ /\ head = Null
          /\ head' = t
          /\ tail' = t
          /\ next' = nx
          /\ prev' = pv
       \/ /\ head # Null
          /\ e < expire[head]
          /\ head' = t
          /\ next' = [nx EXCEPT ![t] = head]
          /\ prev' = [pv EXCEPT ![head] = t]
          /\ UNCHANGED tail
       \/ /\ head # Null
          /\ e >= expire[head]
          /\ LinkAfter(nx, pv, t, StopCell(nx, head, e))
          /\ UNCHANGED head
    /\ fired' = <<>>
    /\ UNCHANGED <<clock, alarm>>

\* The caller put the expiry of t off, then called adjust_timer.
AdjustTimer(t, e) ==
    /\ ~Down
    /\ t \in alive
    /\ e >= expire[t]
    /\ expire' = [expire EXCEPT ![t] = e]
    /\ LET s == next[t] IN
       \/ /\ s = Null \/ (s # Null /\ e < expire[s])
          /\ UNCHANGED <<head, tail, next, prev>>
       \/ /\ s # Null /\ e >= expire[s]
          /\ t = head
          /\ head' = s
          /\ LET nx == [next EXCEPT ![t] = Null] IN
             LinkAfter(nx, [prev EXCEPT ![s] = Null], t, StopCell(nx, s, e))
       \/ /\ s # Null /\ e >= expire[s]
          /\ t # head
          /\ LET nx == [next EXCEPT ![prev[t]] = s] IN
             LinkAfter(nx, [prev EXCEPT ![s] = prev[t]], t, StopCell(nx, s, e))
          /\ UNCHANGED head
    /\ fired' = <<>>
    /\ UNCHANGED <<alive, clock, alarm>>

DelTimer(t) ==
    /\ ~Down
    /\ t \in alive
    /\ \/ /\ t = head /\ t = tail
          /\ head' = Null
          /\ tail' = Null
          /\ Delete({t}, next, prev)
       \/ /\ t = head /\ t # tail
          /\ head' = next[t]
          /\ Delete({t}, next, [prev EXCEPT ![next[t]] = Null])
          /\ UNCHANGED tail
       \/ /\ t # head /\ t = tail
          /\ tail' = prev[t]
          /\ Delete({t}, [next EXCEPT ![prev[t]] = Null], prev)
          /\ UNCHANGED head
       \/ /\ t # head /\ t # tail
          /\ Delete({t}, [next EXCEPT ![prev[t]] = next[t]],
                         [prev EXCEPT ![next[t]] = prev[t]])
          /\ UNCHANGED <<head, tail>>
    /\ fired' = <<>>
    /\ UNCHANGED <<clock, alarm>>

-------------------------------------------------------------------------------
(* tick *)

\* The cells from n on, in the order of next.
Chain(n) ==
    LET from[c \in Timers \cup {Null}] ==
            IF c = Null THEN <<>> ELSE <<c>> \o from[next[c]]
    IN  from[n]

\* The cells tick meets before the first that has not expired.
ExpiredPrefix ==
    LET from[c \in Timers \cup {Null}] ==
            IF c = Null \/ (c # Null /\ clock < expire[c])
            THEN <<>>
            ELSE <<c>> \o from[next[c]]
    IN  from[head]

CellsOf(s) == {s[i] : i \in 1..Len(s)}

\* Mutant of Tick: the new head keeps its prev.
TickKeepsPrev ==
    LET done == ExpiredPrefix
        first == IF done = <<>> THEN head ELSE next[done[Len(done)]] IN
    /\ ~Down
    /\ fired' = done
    /\ head' = first
    /\ Delete(CellsOf(done), next, prev)
    /\ UNCHANGED <<tail, clock, alarm>>

\* Each expired cell is called back and deleted.  tail keeps its value even when
\* the list is empty then.
Tick ==
    LET done == ExpiredPrefix
        first == IF done = <<>> THEN head ELSE next[done[Len(done)]] IN
    /\ ~Down
    /\ fired' = done
    /\ head' = first
    /\ Delete(CellsOf(done), next,
              [c \in Timers |-> IF done # <<>> /\ c = first THEN Null ELSE prev[c]])
    /\ UNCHANGED <<tail, clock, alarm>>

TimePasses ==
    /\ ~Down
    /\ clock < MaxTime
    /\ clock' = clock + 1
    /\ fired' = <<>>
    /\ UNCHANGED <<listVars, alarm>>

-------------------------------------------------------------------------------
(* Utils *)

\* timer_handler ticks the list inside Utils, to which nothing can add a timer, and
\* sets the alarm.
TimerHandler ==
    /\ ~Down
    /\ alarm' = "set"
    /\ UNCHANGED <<listVars, clock, fired>>

\* SIGALRM: signal_handle reads _pipefd[1], but _pipefd is a null pointer, private
\* and never assigned.
SignalHandle ==
    /\ alarm = "set"
    /\ alarm' = "crashed"
    /\ UNCHANGED <<listVars, clock, fired>>

Init ==
    /\ head = Null
    /\ tail = Null
    /\ next = [t \in Timers |-> Null]
    /\ prev = [t \in Timers |-> Null]
    /\ expire = [t \in Timers |-> 0]
    /\ alive = {}
    /\ clock = 0
    /\ fired = <<>>
    /\ alarm = "off"

Next ==
    \/ \E t \in Timers, e \in 0..MaxTime : AddTimer(t, e) \/ AdjustTimer(t, e)
    \/ \E t \in Timers : DelTimer(t)
    \/ Tick
    \/ TimePasses
    \/ TimerHandler
    \/ SignalHandle

Spec == Init /\ [][Next]_vars

-------------------------------------------------------------------------------
(* Properties *)

\* The values of every variable; what a cell of the list points to is not deleted.
TypeOK ==
    /\ head \in alive \cup {Null}
    /\ tail \in Timers \cup {Null}
    /\ next \in [Timers -> Timers \cup {Null}]
    /\ prev \in [Timers -> Timers \cup {Null}]
    /\ \A t \in alive : next[t] \in alive \cup {Null} /\ prev[t] \in alive \cup {Null}
    /\ expire \in [Timers -> 0..MaxTime]
    /\ alive \in SUBSET Timers
    /\ clock \in 0..MaxTime
    /\ fired \in Seq(Timers)
    /\ alarm \in {"off", "set", "crashed"}

\* Both directions of the list agree whatever the order of operations was: walked
\* from head it visits every timer once and ends in tail, and prev leads back.
LinksAgree ==
    LET chain == Chain(head) IN
    /\ Len(chain) = Cardinality(alive)
    /\ CellsOf(chain) = alive
    /\ chain # <<>> => tail = chain[Len(chain)] /\ prev[head] = Null
    /\ \A i \in 2..Len(chain) : prev[chain[i]] = chain[i - 1]

\* The list with its pointers is the queue of TimerQueue: nothing fires early,
\* late, twice or out of order, and a timer that was put off moves behind the
\* ones that now expire before it.
Queue == INSTANCE TimerQueue WITH
             waiting <- Chain(head), due <- expire
ImplementsTimerQueue == Queue!QueueSpec
===============================================================================
