----------------------------- MODULE ReactorProofs -----------------------------
(***************************************************************************)
(* The event loop keeps its safety properties for any number of clients,   *)
(* requests, descriptors and workers and any capacity of the pool; what    *)
(* becomes of replies is proved for patient clients, without which it is   *)
(* not true.                                                               *)
(***************************************************************************)
EXTENDS Reactor, FiniteSetTheorems, WellFoundedInduction, TLAPS

-------------------------------------------------------------------------------
(* The inductive invariant of connections and descriptors *)

\* A TcpConnection is made for a client that was accepted, and one that did not
\* leave is in _conns.
PeerInv ==
    /\ \A c \in alive : peer[c] \in {"open", "closed", "reset", "broken"}
    /\ \A c \in Conns : peer[c] \in {"open", "reset"} => \E f \in Fds : conns[f] = c

\* epoll watches the connections of _conns.
InterestInv == interest = {f \in Fds : conns[f] # NoConn}

\* EventIsCurrent, of a server that is down as well.
BatchInv == \A f \in batch \cap Fds : conns[f] # NoConn /\ Readable(conns[f])

\* The connection being read is in _conns, and its event was taken.
ReadInv ==
    io \in {"read", "push"} =>
        /\ at \in Conns
        /\ \E f \in Fds : conns[f] = at /\ f \notin batch

\* A worker holds a task exactly while it is in process().
DoingInv == \A w \in Workers : doing[w] # "idle" <=> cur[w] # NoTask

\* The tasks of a connection, with the one about to be handed over.
Made(c) == taken[c] + IF io = "push" /\ at = c THEN 1 ELSE 0

\* The end of the stream of a connection was seen in the middle of a packet.
Torn(c) == peer[c] \in {"closed", "broken"} /\ unread[c] = 0

\* Each task took two pieces, but for one that a torn packet made.
CountInv ==
    \A c \in Conns :
        /\ sent[c] <= 2 * Requests
        /\ \/ 2 * Made(c) + unread[c] <= sent[c]
           \/ /\ Torn(c) /\ 2 * Made(c) <= sent[c] + 2
              /\ ~(io = "read" /\ at = c)

ConnInv ==
    /\ TypeOK /\ PeerInv /\ InterestInv /\ BatchInv /\ ReadInv /\ DoingInv /\ CountInv
    /\ DescriptorHasOneOwner /\ WakeupIsNotLost

-------------------------------------------------------------------------------
(* The inductive invariant of tasks and replies *)

Distinct(s) == \A i, j \in 1..Len(s) : s[i] = s[j] => i = j

\* A task is in one place of the pool.
PlaceInv ==
    /\ Distinct(queue)
    /\ \A w \in Workers :
          cur[w] # NoTask => cur[w] \notin Elements(queue) \cup finished
    /\ \A v, w \in Workers : cur[v] = cur[w] /\ cur[v] # NoTask => v = w
    /\ Elements(queue) \cap finished = {}

\* The task of that reply is finished, or at the point of process() behind it.
Replied(t) ==
    t \in finished \/ \E w \in Workers : cur[w] = t /\ doing[w] \in {"wakeup", "return"}

\* A reply is queued once, by the task it answers, and gone from the queue when it
\* reached a client.
ReplyInv ==
    /\ Distinct(functors) /\ Distinct(pending)
    /\ Elements(functors) \cap Elements(pending) = {}
    /\ functors # <<>> => io = "run" \/ Down
    /\ \A t \in Elements(functors) \cup Elements(pending) : Replied(t)
    /\ \A c \in Conns, t \in Tasks :
          t \in replies[c] =>
              Replied(t) /\ t \notin Elements(functors) \cup Elements(pending)

-------------------------------------------------------------------------------
(* The inductive invariant of patient clients *)

\* The tasks whose reply is still to come.
Unanswered ==
    Elements(queue) \cup Elements(functors) \cup Elements(pending)
        \cup {cur[w] : w \in {v \in Workers : doing[v] = "process"}}

\* What a patient client has sent: its requests are answered but for the last one,
\* which is on its way to onMessage, or behind it.
PatientClient(c) ==
    /\ peer[c] \in {"away", "backlog", "open", "closed"}
    /\ peer[c] \in {"away", "backlog"} => sent[c] = 0
    /\ IsFiniteSet(replies[c])
    /\ \A t \in replies[c] : t[1] = c
    /\ LET k == Cardinality(replies[c]) IN
       /\ peer[c] = "closed" => sent[c] = 2 * k
       /\ taken[c] >= k
       /\ \/ sent[c] = 2 * k + unread[c] /\ unread[c] <= 2 /\ Made(c) = k
          \/ sent[c] = 2 * k + 2 /\ unread[c] = 0 /\ Made(c) = k + 1

\* A task whose reply is still to come is that of the last packet of its client.
LastOne(t) == t[2] = taken[t[1]] /\ t[2] = Cardinality(replies[t[1]]) + 1

PatientInv ==
    /\ ~Down
    /\ \A c \in Conns : PatientClient(c)
    /\ io = "read" => unread[at] > 0
    /\ \A t \in Unanswered : LastOne(t)

IInv == ConnInv /\ PlaceInv /\ ReplyInv /\ (Patient => PatientInv)

-------------------------------------------------------------------------------
(* Types *)

LEMMA ConnInit == Init => ConnInv
<1> SUFFICES ASSUME Init PROVE ConnInv
  OBVIOUS
<1> USE ReactorAssumption DEF Init, Pool!PoolInit
<1>1. TypeOK
  <2>1. functors \in Seq(Tasks) /\ pending \in Seq(Tasks) /\ queue \in Seq(Tasks)
    OBVIOUS
  <2>2. /\ sent \in [Conns -> 0..2 * Requests] /\ unread \in [Conns -> 0..2 * Requests]
        /\ taken \in [Conns -> 0..Requests + 1]
    OBVIOUS
  <2>3. /\ peer \in [Conns -> {"away", "backlog", "open", "closed", "reset", "broken"}]
        /\ replies \in [Conns -> SUBSET Tasks] /\ inbox \in [Conns -> 0..Window]
        /\ fd \in [Conns -> Fds \cup {0}]
        /\ conns \in [Fds -> Conns \cup {NoConn}]
    OBVIOUS
  <2>4. /\ doing \in [Workers -> {"idle", "process", "wakeup", "return"}]
        /\ cur \in [Workers -> Tasks \cup {NoTask}]
    OBVIOUS
  <2> QED  BY <2>1, <2>2, <2>3, <2>4 DEF TypeOK
<1>2. PeerInv /\ ReadInv  BY DEF PeerInv, ReadInv
<1>3. InterestInv /\ BatchInv  BY DEF InterestInv, BatchInv
<1>4. DoingInv  BY DEF DoingInv
<1>5. CountInv  BY DEF CountInv, Made
<1>6. DescriptorHasOneOwner  BY DEF DescriptorHasOneOwner, HeldBy
<1>7. WakeupIsNotLost  BY DEF WakeupIsNotLost
<1> QED  BY <1>1, <1>2, <1>3, <1>4, <1>5, <1>6, <1>7 DEF ConnInv

\* What the counters of a connection are known to be.
LEMMA Counters ==
    ASSUME ConnInv, NEW c \in Conns
    PROVE  /\ Requests \in Nat /\ sent[c] \in Nat /\ unread[c] \in Nat /\ taken[c] \in Nat
           /\ Made(c) = (IF io = "push" /\ at = c THEN taken[c] + 1 ELSE taken[c])
           /\ Made(c) \in Nat
           /\ sent[c] <= 2 * Requests /\ 2 * Made(c) <= sent[c] + 2
           /\ unread[c] > 0 \/ peer[c] \notin {"closed", "broken"} =>
                  unread[c] <= sent[c] /\ 2 * Made(c) + unread[c] <= sent[c]
<1>1. Requests \in Nat /\ sent[c] \in Nat /\ unread[c] \in Nat /\ taken[c] \in Nat
  BY ReactorAssumption DEF ConnInv, TypeOK
<1>2. /\ Made(c) = (IF io = "push" /\ at = c THEN taken[c] + 1 ELSE taken[c])
      /\ Made(c) \in Nat
  BY <1>1 DEF Made
<1>3. CountInv  BY DEF ConnInv
<1> QED  BY <1>1, <1>2, <1>3 DEF CountInv, Torn

\* addTask is called with the next task of a connection of _conns.
LEMMA AddTaskEffect ==
    ASSUME ConnInv, AddTask
    PROVE  /\ io = "push" /\ at \in Conns /\ taken[at] \in Nat
           /\ taken[at] + 1 \in 1..Requests + 1 /\ <<at, taken[at] + 1>> \in Tasks
           /\ <<at, taken[at] + 1>> \notin Pool!Queued \cup Pool!Executing \cup finished
           /\ queue' = Append(queue, <<at, taken[at] + 1>>)
           /\ taken' = [taken EXCEPT ![at] = @ + 1]
           /\ io' = "dispatch" /\ UNCHANGED <<cur, finished>>
           /\ UNCHANGED <<peer, sent, unread, replies, counter, at, batch, functors, conns,
                          alive, pending, doing>>
<1>1. io = "push" /\ at \in Conns  BY DEF AddTask, ConnInv, ReadInv
<1>2. taken[at] \in Nat /\ taken[at] + 1 \in 1..Requests + 1
  BY <1>1, Counters
<1>3. <<at, taken[at] + 1>> \in Tasks  BY <1>1, <1>2 DEF Tasks
<1> QED  BY <1>1, <1>2, <1>3 DEF AddTask, Pool!Submit, clientVars, ioVars

LEMMA TypeKept == ConnInv /\ Next => TypeOK'
<1> SUFFICES ASSUME ConnInv, Next PROVE TypeOK'
  OBVIOUS
<1>0. TypeOK /\ ReadInv /\ CountInv  BY DEF ConnInv
<1> USE ReactorAssumption, <1>0 DEF TypeOK, clientVars, ioVars, connVars, poolVars
<1>1. ASSUME NEW c \in Conns, Connect(c) PROVE TypeOK'
  BY <1>1 DEF Connect
<1>2. ASSUME NEW c \in Conns, SendPiece(c) PROVE TypeOK'
  <2>1. unread[c] < 2 * Requests /\ sent[c] < 2 * Requests
    <3>1. /\ unread[c] \in Nat /\ sent[c] \in Nat /\ unread[c] <= sent[c]
          /\ sent[c] < 2 * Requests
      BY <1>2, Counters DEF SendPiece
    <3> QED  BY <3>1
  <2> QED  BY <1>2, <2>1, SMTT(30) DEF SendPiece
<1>3. ASSUME NEW c \in Conns, Leave(c) PROVE TypeOK'
  BY <1>3 DEF Leave
<1>3r. ASSUME NEW c \in Conns, Receive(c) PROVE TypeOK'
  <2>1. inbox[c] - 1 \in 0..Window  BY <1>3r DEF Receive
  <2> QED  BY <1>3r, <2>1 DEF Receive
<1>4. CASE EpollWait
  BY <1>4 DEF EpollWait, Ready
<1>5. CASE EndBatch
  BY <1>5 DEF EndBatch
<1>6. CASE HandleNewConnection
  <2>1. CASE FreeFds = {}
    BY <1>6, <2>1 DEF HandleNewConnection
  <2>2. CASE FreeFds # {}
    <3>1. PICK c \in Conns, f \in Fds :
             /\ peer' = [peer EXCEPT ![c] = "open"]
             /\ fd' = [fd EXCEPT ![c] = f]
             /\ interest' = interest \cup {f}
             /\ alive' = alive \cup {c}
             /\ conns' = conns \/ conns' = [conns EXCEPT ![f] = c]
      BY <1>6, <2>2 DEF HandleNewConnection
    <3>2. /\ batch' = batch \ {Listen}
          /\ UNCHANGED <<sent, unread, replies, inbox, counter, io, at, functors, taken,
                         pending, doing, queue, cur, finished, closed>>
      BY <1>6 DEF HandleNewConnection
    <3> QED  BY <3>1, <3>2
  <2> QED  BY <2>1, <2>2
<1>7. CASE HandleEventFd
  BY <1>7 DEF HandleEventFd
<1>8. CASE SwapFunctors
  BY <1>8 DEF SwapFunctors
<1>9. CASE RunFunctor
  <2>1. functors' \in Seq(Tasks) /\ Head(functors) \in Tasks
    BY <1>9 DEF RunFunctor
  <2>2. \/ UNCHANGED <<io, peer, replies, inbox>>
        \/ io' = "crashed" /\ UNCHANGED <<peer, replies, inbox>>
        \/ \E c \in Conns : Send(c, Head(functors))
    BY <1>9, <2>1 DEF RunFunctor, Tasks
  <2>3. /\ io' \in {"run", "killed", "crashed"} /\ replies' \in [Conns -> SUBSET Tasks]
        /\ peer' \in [Conns -> {"away", "backlog", "open", "closed", "reset", "broken"}]
        /\ inbox' \in [Conns -> 0..Window]
    <3>1. ASSUME NEW c \in Conns, Send(c, Head(functors))
          PROVE  /\ io' \in {"run", "killed"} /\ replies' \in [Conns -> SUBSET Tasks]
                 /\ peer' = peer \/ peer' = [peer EXCEPT ![c] = "broken"]
                 /\ inbox' \in [Conns -> 0..Window]
      <4>1. /\ io' \in {"run", "killed"}
            /\ replies' = replies \/ replies' = [replies EXCEPT ![c] = @ \cup {Head(functors)}]
            /\ peer' = peer \/ peer' = [peer EXCEPT ![c] = "broken"]
        BY <3>1, SMTT(30) DEF Send
      <4>2. inbox' = inbox \/ (inbox[c] < Window /\ inbox' = [inbox EXCEPT ![c] = @ + 1])
        BY <3>1, SMTT(30) DEF Send
      <4>3. replies' \in [Conns -> SUBSET Tasks]
        <5>1. replies[c] \cup {Head(functors)} \in SUBSET Tasks  BY <2>1
        <5> QED  BY <4>1, <5>1
      <4>4. inbox[c] < Window => inbox[c] + 1 \in 0..Window  OBVIOUS
      <4>5. inbox' \in [Conns -> 0..Window]  BY <4>2, <4>4
      <4> QED  BY <4>1, <4>3, <4>5
    <3> QED  BY <1>9, <2>2, <3>1, ZenonT(30) DEF RunFunctor
  <2> QED  BY <1>9, <2>1, <2>3 DEF RunFunctor
<1>10. CASE FunctorsDone
  BY <1>10 DEF FunctorsDone
<1>11. ASSUME NEW f \in Fds, HandleClose(f) PROVE TypeOK'
  BY <1>11 DEF HandleClose, DestroyUnheld
<1>12. ASSUME NEW f \in Fds, HandleMessage(f) PROVE TypeOK'
  BY <1>12 DEF HandleMessage
<1>13. CASE ReadPacket
  <2>1. at \in Conns /\ unread[at] - 2 \in 0..2 * Requests
    BY <1>13 DEF ReadPacket, ReadInv
  <2> QED  BY <1>13, <2>1 DEF ReadPacket
<1>14. CASE ReadTorn
  BY <1>14 DEF ReadTorn, ReadInv
<1>15. CASE AddTask
  <2>1. /\ at \in Conns /\ taken[at] + 1 \in 1..Requests + 1
        /\ taken' = [taken EXCEPT ![at] = taken[at] + 1]
        /\ <<at, taken[at] + 1>> \in Tasks
        /\ queue' = Append(queue, <<at, taken[at] + 1>>)
    BY <1>15, AddTaskEffect
  <2>2. taken' \in [Conns -> 0..Requests + 1]  BY <2>1
  <2>3. queue' \in Seq(Tasks)  BY <2>1
  <2> QED  BY <1>15, <2>2, <2>3 DEF AddTask, Pool!Submit
<1>16. ASSUME NEW w \in Workers, StartTask(w) PROVE TypeOK'
  BY <1>16, SMTT(30) DEF StartTask, Pool!Start
<1>17. ASSUME NEW w \in Workers, QueueFunctor(w) PROVE TypeOK'
  <2>1. cur[w] \in Tasks  BY <1>17 DEF QueueFunctor, ConnInv, DoingInv
  <2>2. pending' \in Seq(Tasks)  BY <1>17, <2>1 DEF QueueFunctor
  <2> QED  BY <1>17, <2>2 DEF QueueFunctor
<1>18. ASSUME NEW w \in Workers, Wakeup(w) PROVE TypeOK'
  BY <1>18 DEF Wakeup
<1>19. ASSUME NEW w \in Workers, NoReply(w) PROVE TypeOK'
  BY <1>19 DEF NoReply
<1>20. ASSUME NEW w \in Workers, FinishTask(w) PROVE TypeOK'
  BY <1>20 DEF FinishTask, DestroyUnheld, Pool!Finish
<1>21. CASE UNCHANGED vars
  BY <1>21 DEF vars
<1> QED
  BY <1>1, <1>2, <1>3, <1>3r, <1>4, <1>5, <1>6, <1>7, <1>8, <1>9, <1>10, <1>11, <1>12,
     <1>13, <1>14, <1>15, <1>16, <1>17, <1>18, <1>19, <1>20, <1>21
  DEF Next, ClientStep, IOStep, WorkerStep, EpollTimeout, Halted
-------------------------------------------------------------------------------
(* What accept and handle_message do to connections *)

LEMMA SmallestMember ==
    ASSUME NEW T \in SUBSET Nat, T # {}
    PROVE  \E x \in T : \A y \in T : x <= y
<1>1. PICK x \in T : \A y \in T : <<y, x>> \notin OpToRel(<, Nat)
  BY NatLessThanWellFounded, WFMin
<1>2. \A y \in T : ~(y < x)
  BY <1>1 DEF OpToRel
<1> QED  BY <1>2

\* A connection of _conns is alive and has the key as its descriptor.
LEMMA InConns ==
    ASSUME ConnInv, NEW f \in Fds, conns[f] # NoConn
    PROVE  /\ conns[f] \in Conns /\ conns[f] \in alive /\ fd[conns[f]] = f
           /\ \A g \in Fds : conns[g] = conns[f] => g = f
<1>1. conns[f] \in Conns  BY DEF ConnInv, TypeOK
<1>2. \A g \in Fds : conns[g] # NoConn => conns[g] \in alive /\ fd[conns[g]] = g
  BY DEF ConnInv, DescriptorHasOneOwner
<1> QED  BY <1>1, <1>2

\* accept gives a client that is waiting a descriptor that nobody has.
LEMMA AcceptEffect ==
    ASSUME ConnInv, HandleNewConnection
    PROVE  \/ UNCHANGED <<peer, interest, conns, alive, fd>>
           \/ \E c \in Conns, f \in Fds :
                 /\ peer[c] = "backlog" /\ c \notin alive
                 /\ conns[f] = NoConn /\ \A d \in alive : fd[d] # f
                 /\ peer' = [peer EXCEPT ![c] = "open"]
                 /\ fd' = [fd EXCEPT ![c] = f]
                 /\ interest' = interest \cup {f}
                 /\ alive' = alive \cup {c}
                 /\ conns' = [conns EXCEPT ![f] = c]
<1>1. CASE FreeFds = {}  BY <1>1 DEF HandleNewConnection
<1>2. CASE FreeFds # {}
  <2>1. PICK c \in Conns, f \in Fds :
           /\ peer[c] = "backlog" /\ f = Lowest(FreeFds)
           /\ peer' = [peer EXCEPT ![c] = "open"]
           /\ fd' = [fd EXCEPT ![c] = f]
           /\ interest' = interest \cup {f}
           /\ alive' = alive \cup {c}
           /\ conns' = IF conns[f] = NoConn THEN [conns EXCEPT ![f] = c] ELSE conns
    BY <1>2 DEF HandleNewConnection, Accept
  <2>2. FreeFds \in SUBSET Nat  BY ReactorAssumption DEF FreeFds
  <2>3. \E x \in FreeFds : \A y \in FreeFds : x <= y  BY <1>2, <2>2, SmallestMember
  <2>4. f \in FreeFds  BY <2>1, <2>3 DEF Lowest
  <2>5. \A d \in alive : fd[d] # f  BY <2>4 DEF FreeFds
  <2>6. conns[f] = NoConn  BY <2>5, InConns
  <2>7. c \notin alive  BY <2>1 DEF ConnInv, PeerInv
  <2> QED  BY <2>1, <2>5, <2>6, <2>7
<1> QED  BY <1>1, <1>2

\* handle_message takes a connection out of _conns whose client has closed it and
\* destroys only connections that nothing holds.
LEMMA CloseEffect ==
    ASSUME ConnInv, NEW f \in Fds, HandleClose(f)
    PROVE  /\ conns[f] # NoConn
           /\ unread[conns[f]] = 0 /\ peer[conns[f]] \in {"closed", "broken"}
           /\ interest' = interest \ {f}
           /\ batch' = batch \ {f}
           /\ conns' = [conns EXCEPT ![f] = NoConn]
           /\ alive' = {c \in alive : c \in InMap(conns') \cup HeldBy(queue, cur)}
           /\ UNCHANGED <<peer, unread, sent, taken, fd, io, at, queue, cur, doing, pending>>
<1>1. conns[f] # NoConn /\ IsClosed(conns[f])  BY DEF HandleClose
<1>2. unread[conns[f]] \in Nat  BY <1>1, InConns, ReactorAssumption DEF ConnInv, TypeOK
<1>3. unread[conns[f]] = 0 /\ peer[conns[f]] \in {"closed", "broken"}
  BY <1>1, <1>2 DEF IsClosed, RecvPeek
<1> QED  BY <1>1, <1>3 DEF HandleClose, DestroyUnheld, clientVars, connVars, poolVars

\* handle_message goes on with a connection that has something to read, or an
\* error, which recv then reports.
LEMMA MessageEffect ==
    ASSUME ConnInv, NEW f \in Fds, HandleMessage(f)
    PROVE  /\ io = "dispatch" /\ batch' = batch \ {f}
           /\ UNCHANGED <<sent, unread, interest, counter, functors, conns, fd, taken, alive>>
           /\ UNCHANGED <<pending, doing, queue, cur>>
           /\ \/ UNCHANGED <<io, at, peer>>
              \/ \E c \in Conns :
                    /\ c = conns[f]
                    /\ at' = c /\ io' = "read"
                    /\ \/ unread[c] > 0 /\ peer' = peer
                       \/ peer[c] = "reset" /\ peer' = [peer EXCEPT ![c] = "broken"]
<1>1. /\ io = "dispatch" /\ batch' = batch \ {f}
      /\ UNCHANGED <<sent, unread, interest, counter, functors, conns, fd, taken, alive>>
      /\ UNCHANGED <<pending, doing, queue, cur>>
  BY DEF HandleMessage, clientVars, connVars, poolVars
<1>2. CASE conns[f] = NoConn  BY <1>1, <1>2 DEF HandleMessage
<1>3. CASE conns[f] # NoConn
  <2> DEFINE c == conns[f]
  <2>1. /\ Readable(c) /\ ~IsClosed(c) /\ at' = c /\ io' = "read"
        /\ peer' = IF unread[c] = 0 THEN [peer EXCEPT ![c] = "broken"] ELSE peer
    BY <1>3 DEF HandleMessage
  <2>2. c \in Conns /\ c \in alive  BY <1>3, InConns
  <2>3. /\ unread[c] \in Nat
        /\ peer[c] \in {"open", "closed", "reset", "broken"}
    BY <2>2, ReactorAssumption DEF ConnInv, TypeOK, PeerInv
  <2>4. unread[c] > 0 \/ (unread[c] = 0 /\ peer[c] = "reset")
    BY <2>1, <2>3 DEF Readable, IsClosed, RecvPeek
  <2> QED  BY <1>1, <2>1, <2>2, <2>4
<1> QED  BY <1>2, <1>3

\* A functor changes the state of a socket at most from closed or reset to broken.
LEMMA FunctorEffect ==
    ASSUME RunFunctor
    PROVE  /\ io = "run" /\ io' \in {"run", "killed", "crashed"}
           /\ functors # <<>> /\ functors' = Tail(functors)
           /\ UNCHANGED <<sent, unread, interest, counter, batch, at, conns, fd, taken>>
           /\ UNCHANGED <<alive, pending, doing, queue, cur, finished>>
           /\ \/ UNCHANGED peer
              \/ \E c : /\ peer[c] \in {"closed", "reset"}
                        /\ peer' = [peer EXCEPT ![c] = "broken"]
<1>1. \/ UNCHANGED <<io, peer>>
      \/ io' = "crashed" /\ UNCHANGED peer
      \/ \E c : Send(c, Head(functors))
  BY DEF RunFunctor
<1>2. ASSUME NEW c, Send(c, Head(functors))
      PROVE  /\ io' \in {"run", "killed"}
             /\ \/ UNCHANGED peer
                \/ peer[c] \in {"closed", "reset"} /\ peer' = [peer EXCEPT ![c] = "broken"]
  BY <1>2 DEF Send
<1>3. io = "run"  BY DEF RunFunctor
<1>4. io' \in {"run", "killed", "crashed"}  BY <1>1, <1>2, <1>3
<1>5. \/ UNCHANGED peer
      \/ \E c : peer[c] \in {"closed", "reset"} /\ peer' = [peer EXCEPT ![c] = "broken"]
  BY <1>1, <1>2
<1> QED  BY <1>3, <1>4, <1>5 DEF RunFunctor, connVars, poolVars
-------------------------------------------------------------------------------
(* Connections, the epoll set and the batch *)

\* What the other steps leave alone.
LEMMA OtherSteps ==
    ASSUME Next,
           ~HandleNewConnection, \A f \in Fds : ~HandleClose(f)
    PROVE  /\ UNCHANGED <<interest, conns, fd>>
           /\ UNCHANGED alive \/ \E w \in Workers : FinishTask(w)
<1> USE DEF clientVars, ioVars, connVars, poolVars
<1>1. ASSUME NEW c \in Conns, ClientStep(c) PROVE UNCHANGED <<interest, conns, fd, alive>>
  BY <1>1 DEF ClientStep, Connect, SendPiece, Receive, Leave
<1>2. CASE IOStep
  BY <1>2 DEF IOStep, EpollWait, EndBatch, HandleEventFd, SwapFunctors, RunFunctor,
     FunctorsDone, HandleMessage, ReadPacket, ReadTorn, AddTask
<1>3. ASSUME NEW w \in Workers, WorkerStep(w), ~FinishTask(w)
      PROVE  UNCHANGED <<interest, conns, fd, alive>>
  BY <1>3 DEF WorkerStep, StartTask, QueueFunctor, Wakeup, NoReply
<1>4. ASSUME NEW w \in Workers, FinishTask(w) PROVE UNCHANGED <<interest, conns, fd>>
  BY <1>4 DEF FinishTask
<1>5. CASE UNCHANGED vars  BY <1>5 DEF vars
<1> QED  BY <1>1, <1>2, <1>3, <1>4, <1>5 DEF Next, EpollTimeout, Halted

LEMMA InterestKept == ConnInv /\ Next => InterestInv'
<1> SUFFICES ASSUME ConnInv, Next PROVE InterestInv'
  OBVIOUS
<1>0. InterestInv /\ conns \in [Fds -> Conns \cup {NoConn}] /\ NoConn \notin Conns
  BY ReactorAssumption DEF ConnInv, TypeOK
<1>1. CASE HandleNewConnection  BY <1>0, <1>1, AcceptEffect DEF InterestInv
<1>2. ASSUME NEW f \in Fds, HandleClose(f) PROVE InterestInv'
  BY <1>0, <1>2, CloseEffect DEF InterestInv
<1>3. CASE UNCHANGED <<interest, conns>>  BY <1>0, <1>3 DEF InterestInv
<1> QED  BY <1>1, <1>2, <1>3, OtherSteps

\* Who still refers to a connection when the queue or a worker moves on.
LEMMA HeldByQueue ==
    ASSUME NEW q \in Seq(Tasks), NEW running \in [Workers -> Tasks \cup {NoTask}],
           NEW w \in Workers
    PROVE  /\ q # <<>> =>
                HeldBy(Tail(q), [running EXCEPT ![w] = Head(q)]) \subseteq HeldBy(q, running)
           /\ HeldBy(q, [running EXCEPT ![w] = NoTask]) \subseteq HeldBy(q, running)
<1>1. ASSUME q # <<>>
      PROVE  HeldBy(Tail(q), [running EXCEPT ![w] = Head(q)]) \subseteq HeldBy(q, running)
  <2>1. /\ Head(q) = q[1] /\ 1 \in 1..Len(q)
        /\ \A i \in 1..Len(Tail(q)) : i + 1 \in 1..Len(q) /\ Tail(q)[i] = q[i + 1]
    BY <1>1
  <2> QED  BY <2>1 DEF HeldBy
<1>2. HeldBy(q, [running EXCEPT ![w] = NoTask]) \subseteq HeldBy(q, running)
  BY DEF HeldBy
<1> QED  BY <1>1, <1>2

\* The queued and running tasks of connections: what a step adds is alive.
LEMMA HeldKept ==
    ConnInv /\ Next => HeldBy(queue, cur)' \subseteq HeldBy(queue, cur) \cup (alive \cap alive')
<1> SUFFICES ASSUME ConnInv, Next
             PROVE  HeldBy(queue, cur)' \subseteq HeldBy(queue, cur) \cup (alive \cap alive')
  OBVIOUS
<1>0. queue \in Seq(Tasks) /\ cur \in [Workers -> Tasks \cup {NoTask}]
  BY DEF ConnInv, TypeOK
<1> USE DEF clientVars, ioVars, connVars, poolVars
<1>1. CASE AddTask
  <2>1. at \in alive /\ alive' = alive
    BY <1>1, InConns, ReactorAssumption DEF AddTask, ConnInv, ReadInv
  <2>2. /\ cur' = cur /\ queue' = Append(queue, <<at, taken[at] + 1>>)
        /\ <<at, taken[at] + 1>> \in Tasks
    BY <1>1, AddTaskEffect
  <2>3. HeldBy(queue', cur) = HeldBy(queue, cur) \cup {at}
    <3>1. \A i \in 1..Len(queue') : queue'[i] = IF i <= Len(queue) THEN queue[i]
                                               ELSE <<at, taken[at] + 1>>
      BY <1>0, <2>2
    <3>2. Len(queue') = Len(queue) + 1 /\ Len(queue) \in Nat  BY <1>0, <2>2
    <3>3. {queue'[i][1] : i \in 1..Len(queue')} = {queue[i][1] : i \in 1..Len(queue)} \cup {at}
      BY <3>1, <3>2
    <3> QED  BY <3>3 DEF HeldBy
  <2> QED  BY <2>1, <2>2, <2>3 DEF HeldBy
<1>2. ASSUME NEW w \in Workers, StartTask(w)
      PROVE  HeldBy(queue, cur)' \subseteq HeldBy(queue, cur)
  <2>1. queue # <<>> /\ queue' = Tail(queue) /\ cur' = [cur EXCEPT ![w] = Head(queue)]
    BY <1>2 DEF StartTask, Pool!Start
  <2> QED  BY <1>0, <2>1, HeldByQueue DEF HeldBy
<1>3. ASSUME NEW w \in Workers, FinishTask(w)
      PROVE  HeldBy(queue, cur)' \subseteq HeldBy(queue, cur)
  <2>1. queue' = queue /\ cur' = [cur EXCEPT ![w] = NoTask]
    BY <1>3 DEF FinishTask, Pool!Finish
  <2> QED  BY <1>0, <2>1, HeldByQueue DEF HeldBy
<1>4. CASE UNCHANGED <<queue, cur>>  BY <1>4 DEF HeldBy
<1>5. ASSUME NEW c \in Conns, ClientStep(c) PROVE UNCHANGED <<queue, cur>>
  BY <1>5 DEF ClientStep, Connect, SendPiece, Receive, Leave
<1>6. ASSUME IOStep, ~AddTask PROVE UNCHANGED <<queue, cur>>
  BY <1>6 DEF IOStep, EpollWait, EndBatch, HandleNewConnection, HandleEventFd, SwapFunctors,
     RunFunctor, FunctorsDone, HandleClose, HandleMessage, ReadPacket, ReadTorn
<1>7. ASSUME NEW w \in Workers, QueueFunctor(w) \/ Wakeup(w) \/ NoReply(w)
      PROVE  UNCHANGED <<queue, cur>>
  BY <1>7 DEF QueueFunctor, Wakeup, NoReply
<1>8. CASE UNCHANGED vars  BY <1>4, <1>8 DEF vars
<1> QED
  BY <1>1, <1>2, <1>3, <1>4, <1>5, <1>6, <1>7, <1>8 DEF Next, WorkerStep, EpollTimeout, Halted

LEMMA OwnersKept == ConnInv /\ Next => DescriptorHasOneOwner'
<1> SUFFICES ASSUME ConnInv, Next PROVE DescriptorHasOneOwner'
  OBVIOUS
<1>0. /\ DescriptorHasOneOwner
      /\ conns \in [Fds -> Conns \cup {NoConn}] /\ NoConn \notin Conns
      /\ fd \in [Conns -> Fds \cup {0}] /\ alive \subseteq Conns
  BY ReactorAssumption DEF ConnInv, TypeOK
<1>1. CASE HandleNewConnection
  <2>1. HeldBy(queue, cur)' \subseteq alive'
    <3>1. UNCHANGED <<queue, cur>> /\ alive \subseteq alive'
      BY <1>1, AcceptEffect DEF HandleNewConnection, poolVars
    <3> QED  BY <1>0, <3>1 DEF DescriptorHasOneOwner, HeldBy
  <2>2. CASE UNCHANGED <<conns, alive, fd>>
    BY <1>0, <2>1, <2>2 DEF DescriptorHasOneOwner
  <2>3. CASE ~UNCHANGED <<conns, alive, fd>>
    <3>1. PICK c \in Conns, f \in Fds :
             /\ c \notin alive /\ \A d \in alive : fd[d] # f
             /\ fd' = [fd EXCEPT ![c] = f]
             /\ alive' = alive \cup {c}
             /\ conns' = [conns EXCEPT ![f] = c]
      BY <1>1, <2>3, AcceptEffect
    <3>2. fd'[c] = f /\ \A d \in alive : d \in Conns /\ fd'[d] = fd[d]
      BY <1>0, <3>1
    <3>3. \A d, e \in alive' : fd'[d] = fd'[e] => d = e
      BY <1>0, <3>1, <3>2 DEF DescriptorHasOneOwner
    <3>4. \A g \in Fds : conns'[g] # NoConn => conns'[g] \in alive' /\ fd'[conns'[g]] = g
      BY <1>0, <3>1, <3>2 DEF DescriptorHasOneOwner
    <3> QED  BY <2>1, <3>3, <3>4 DEF DescriptorHasOneOwner
  <2> QED  BY <2>2, <2>3
<1>2. ASSUME alive' = {c \in alive : c \in InMap(conns') \cup HeldBy(queue', cur')},
             HeldBy(queue', cur') \subseteq HeldBy(queue, cur),
             fd' = fd, \A g \in Fds : conns'[g] \in {conns[g], NoConn}
      PROVE  DescriptorHasOneOwner'
  <2>1. HeldBy(queue, cur)' \subseteq alive'
    BY <1>0, <1>2 DEF DescriptorHasOneOwner, HeldBy
  <2>2. \A g \in Fds : conns'[g] # NoConn => conns'[g] \in InMap(conns')
    BY DEF InMap
  <2>3. \A g \in Fds : conns'[g] # NoConn => conns'[g] \in alive' /\ fd'[conns'[g]] = g
    BY <1>0, <1>2, <2>2 DEF DescriptorHasOneOwner
  <2>4. \A c, d \in alive' : fd'[c] = fd'[d] => c = d
    BY <1>0, <1>2 DEF DescriptorHasOneOwner
  <2> QED  BY <2>1, <2>3, <2>4 DEF DescriptorHasOneOwner
<1>3. ASSUME NEW f \in Fds, HandleClose(f) PROVE DescriptorHasOneOwner'
  <2>1. /\ alive' = {c \in alive : c \in InMap(conns') \cup HeldBy(queue, cur)}
        /\ queue' = queue /\ cur' = cur /\ fd' = fd
        /\ conns' = [conns EXCEPT ![f] = NoConn]
    BY <1>3, CloseEffect
  <2>2. \A g \in Fds : conns'[g] \in {conns[g], NoConn}  BY <1>0, <2>1
  <2> QED  BY <1>2, <2>1, <2>2
<1>4. ASSUME NEW w \in Workers, FinishTask(w) PROVE DescriptorHasOneOwner'
  <2>1. queue' = queue /\ cur' = [cur EXCEPT ![w] = NoTask] /\ conns' = conns /\ fd' = fd
    BY <1>4 DEF FinishTask, Pool!Finish, DestroyUnheld, connVars
  <2>2. alive' = {c \in alive : c \in InMap(conns') \cup HeldBy(queue', cur')}
    BY <1>4, <2>1 DEF FinishTask, DestroyUnheld
  <2>3. HeldBy(queue', cur') \subseteq HeldBy(queue, cur)
    BY <2>1, HeldByQueue DEF ConnInv, TypeOK
  <2> QED  BY <1>2, <2>1, <2>2, <2>3
<1>5. CASE UNCHANGED <<conns, fd, alive>>
  <2>1. HeldBy(queue, cur)' \subseteq alive'
    BY <1>0, <1>5, HeldKept DEF DescriptorHasOneOwner
  <2> QED  BY <1>0, <1>5, <2>1 DEF DescriptorHasOneOwner
<1> QED  BY <1>1, <1>3, <1>4, <1>5, OtherSteps
-------------------------------------------------------------------------------
(* Sockets, the batch and the connection being read *)

\* What happens to a socket that was accepted: it never opens again, and epoll
\* goes on to report what it reported.
LEMMA SocketSteps ==
    ASSUME ConnInv, Next, NEW c \in Conns
    PROVE  /\ peer[c] \in {"open", "closed", "reset", "broken"} =>
                /\ peer'[c] \in {"open", "closed", "reset", "broken"}
                /\ peer[c] # "open" => peer'[c] # "open"
                /\ peer[c] \notin {"open", "reset"} => peer'[c] \notin {"open", "reset"}
           /\ peer'[c] \in {"open", "reset"} =>
                peer[c] \in {"open", "reset"} \/ (HandleNewConnection /\ peer[c] = "backlog")
           /\ unread'[c] >= unread[c] \/ (at = c /\ io = "read")
<1>0. /\ peer \in [Conns -> {"away", "backlog", "open", "closed", "reset", "broken"}]
      /\ unread \in [Conns -> 0..2 * Requests] /\ Requests \in Nat
  BY ReactorAssumption DEF ConnInv, TypeOK
<1> USE <1>0 DEF clientVars, ioVars, connVars, poolVars
<1>1. ASSUME NEW d \in Conns, ClientStep(d)
      PROVE  /\ \/ peer' = peer
                \/ peer[d] = "away" /\ peer' = [peer EXCEPT ![d] = "backlog"]
                \/ peer[d] = "open" /\ \E end \in {"closed", "reset"} :
                                           peer' = [peer EXCEPT ![d] = end]
             /\ unread'[c] >= unread[c]
  BY <1>1 DEF ClientStep, Connect, SendPiece, Receive, Leave
<1>2. CASE HandleNewConnection
  BY <1>2, AcceptEffect DEF HandleNewConnection
<1>3. CASE RunFunctor
  BY <1>3, FunctorEffect
<1>4. ASSUME NEW f \in Fds, HandleMessage(f)
      PROVE  /\ peer' = peer \/ \E d \in Conns : peer[d] = "reset"
                                             /\ peer' = [peer EXCEPT ![d] = "broken"]
             /\ unread' = unread
  BY <1>4, MessageEffect
<1>5. CASE ReadTorn
  <2>1. peer' = peer \/ (peer[at] = "reset" /\ peer' = [peer EXCEPT ![at] = "broken"])
    BY <1>5 DEF ReadTorn
  <2>2. unread'[c] >= unread[c] \/ (at = c /\ io = "read")
    BY <1>5 DEF ReadTorn
  <2> QED  BY <2>1, <2>2
<1>6. CASE ReadPacket
  BY <1>6 DEF ReadPacket
<1>7. CASE UNCHANGED <<peer, unread>>
  BY <1>7
<1>8. CASE EpollWait \/ EndBatch \/ HandleEventFd \/ SwapFunctors \/ FunctorsDone \/ AddTask
           \/ \E f \in Fds : HandleClose(f)
  BY <1>7, <1>8 DEF EpollWait, EndBatch, HandleEventFd, SwapFunctors, FunctorsDone, AddTask,
     HandleClose
<1>9. ASSUME NEW w \in Workers, WorkerStep(w) PROVE UNCHANGED <<peer, unread>>
  BY <1>9 DEF WorkerStep, StartTask, QueueFunctor, Wakeup, NoReply, FinishTask
<1>10. CASE UNCHANGED vars  BY <1>7, <1>10 DEF vars
<1> QED
  BY <1>1, <1>2, <1>3, <1>4, <1>5, <1>6, <1>7, <1>8, <1>9, <1>10
  DEF Next, IOStep, EpollTimeout, Halted

LEMMA PeerKept == ConnInv /\ Next => PeerInv'
<1> SUFFICES ASSUME ConnInv, Next PROVE PeerInv'
  OBVIOUS
<1>0. /\ PeerInv /\ conns \in [Fds -> Conns \cup {NoConn}] /\ NoConn \notin Conns
      /\ peer \in [Conns -> {"away", "backlog", "open", "closed", "reset", "broken"}]
      /\ alive \subseteq Conns
  BY ReactorAssumption DEF ConnInv, TypeOK
<1>1. CASE HandleNewConnection
  <2>1. CASE UNCHANGED <<peer, conns, alive>>  BY <1>0, <2>1 DEF PeerInv
  <2>2. ASSUME NEW c \in Conns, NEW f \in Fds,
               conns[f] = NoConn,
               peer' = [peer EXCEPT ![c] = "open"],
               alive' = alive \cup {c},
               conns' = [conns EXCEPT ![f] = c]
        PROVE  PeerInv'
    BY <1>0, <2>2 DEF PeerInv
  <2> QED  BY <1>1, <2>1, <2>2, AcceptEffect
<1>2. CASE ~HandleNewConnection
  <2>1. alive' \subseteq alive
    BY <1>2, OtherSteps, CloseEffect DEF FinishTask, DestroyUnheld
  <2>2. \A c \in alive' : peer'[c] \in {"open", "closed", "reset", "broken"}
    BY <1>0, <2>1, SocketSteps DEF PeerInv
  <2>3. ASSUME NEW c \in Conns, peer'[c] \in {"open", "reset"}
        PROVE  \E f \in Fds : conns'[f] = c
    <3>1. peer[c] \in {"open", "reset"}  BY <1>2, <2>3, SocketSteps
    <3>2. PICK f \in Fds : conns[f] = c  BY <1>0, <3>1 DEF PeerInv
    <3>3. ASSUME NEW g \in Fds, HandleClose(g) PROVE conns'[f] = c
      BY <1>0, <3>1, <3>2, <3>3, CloseEffect
    <3> QED  BY <1>2, <3>2, <3>3, OtherSteps
  <2> QED  BY <2>2, <2>3 DEF PeerInv
<1> QED  BY <1>1, <1>2

LEMMA BatchKept == ConnInv /\ Next => BatchInv'
<1> SUFFICES ASSUME ConnInv, Next PROVE BatchInv'
  OBVIOUS
<1>0. /\ BatchInv /\ conns \in [Fds -> Conns \cup {NoConn}] /\ NoConn \notin Conns
      /\ unread \in [Conns -> 0..2 * Requests] /\ Requests \in Nat
      /\ Listen \notin Fds /\ Event \notin Fds
  BY ReactorAssumption DEF ConnInv, TypeOK
<1>1. \A c \in alive : Readable(c) => Readable(c)' \/ (at = c /\ io = "read")
  <2> TAKE c \in alive
  <2>1. c \in Conns /\ unread[c] \in Nat /\ unread'[c] \in Nat
    BY <1>0, TypeKept DEF ConnInv, TypeOK
  <2>2. peer[c] \in {"open", "closed", "reset", "broken"}  BY DEF ConnInv, PeerInv
  <2> QED  BY <2>1, <2>2, SocketSteps DEF Readable
<1>2. CASE EpollWait
  <2>1. ASSUME NEW f \in interest, NEW c \in alive, fd[c] = f, Readable(c)
        PROVE  f \in Fds /\ conns[f] # NoConn /\ Readable(conns[f])
    <3>1. f \in Fds /\ conns[f] # NoConn  BY DEF ConnInv, InterestInv
    <3>2. conns[f] = c  BY <2>1, <3>1, InConns DEF ConnInv, DescriptorHasOneOwner
    <3> QED  BY <2>1, <3>1, <3>2
  <2>2. batch' = Ready /\ UNCHANGED <<conns, unread, peer>>
    BY <1>2 DEF EpollWait, clientVars, connVars
  <2> QED  BY <1>0, <2>1, <2>2 DEF BatchInv, Ready, Readable
<1>3. ASSUME batch' \subseteq batch, \A f \in batch' \cap Fds : conns'[f] = conns[f]
      PROVE  BatchInv'
  <2> SUFFICES ASSUME NEW f \in batch' \cap Fds
               PROVE  conns'[f] # NoConn /\ Readable(conns[f])'
    BY <1>3 DEF BatchInv, Readable
  <2>1. conns[f] # NoConn /\ Readable(conns[f]) /\ f \in batch
    BY <1>3 DEF ConnInv, BatchInv
  <2>2. ~(at = conns[f] /\ io = "read")
    BY <2>1, InConns DEF ConnInv, ReadInv
  <2> QED  BY <1>1, <1>3, <2>1, <2>2, InConns
<1>4. CASE HandleNewConnection
  <2>1. batch' \subseteq batch  BY <1>4 DEF HandleNewConnection
  <2>2. \A f \in batch \cap Fds : conns'[f] = conns[f]
    BY <1>0, <1>4, AcceptEffect DEF BatchInv
  <2> QED  BY <1>3, <2>1, <2>2
<1>5. ASSUME NEW f \in Fds, HandleClose(f) PROVE BatchInv'
  BY <1>0, <1>3, <1>5, CloseEffect
<1>6. ASSUME ~EpollWait PROVE batch' \subseteq batch
  <2> USE DEF clientVars, ioVars, connVars, poolVars
  <2>1. ASSUME NEW c \in Conns, ClientStep(c) PROVE batch' \subseteq batch
    BY <2>1 DEF ClientStep, Connect, SendPiece, Receive, Leave
  <2>2. CASE IOStep
    BY <1>6, <2>2 DEF IOStep, EndBatch, HandleNewConnection, HandleEventFd, SwapFunctors,
       RunFunctor, FunctorsDone, HandleClose, HandleMessage, ReadPacket, ReadTorn, AddTask
  <2>3. ASSUME NEW w \in Workers, WorkerStep(w) PROVE batch' \subseteq batch
    BY <2>3 DEF WorkerStep, StartTask, QueueFunctor, Wakeup, NoReply, FinishTask
  <2> QED  BY <2>1, <2>2, <2>3 DEF Next, EpollTimeout, Halted, vars
<1> QED  BY <1>2, <1>3, <1>4, <1>5, <1>6, OtherSteps

LEMMA ReadKept == ConnInv /\ Next => ReadInv'
<1> SUFFICES ASSUME ConnInv, Next, io' \in {"read", "push"}
             PROVE  at' \in Conns /\ \E f \in Fds : conns'[f] = at' /\ f \notin batch'
  BY DEF ReadInv
<1> USE DEF clientVars, ioVars, connVars, poolVars
<1>1. ASSUME NEW f \in Fds, HandleMessage(f)
      PROVE  at' \in Conns /\ \E g \in Fds : conns'[g] = at' /\ g \notin batch'
  <2>1. at' = conns[f] /\ at' \in Conns /\ batch' = batch \ {f} /\ conns' = conns
    BY <1>1, MessageEffect
  <2> QED  BY <2>1
<1>2. CASE io \in {"read", "push"} /\ UNCHANGED <<conns, batch, at>>
  BY <1>2 DEF ConnInv, ReadInv
<1>3. ASSUME NEW c \in Conns, ClientStep(c) PROVE UNCHANGED <<conns, batch, at, io>>
  BY <1>3 DEF ClientStep, Connect, SendPiece, Receive, Leave
<1>4. ASSUME IOStep, \A f \in Fds : ~HandleMessage(f)
      PROVE  io \in {"read", "push"} /\ UNCHANGED <<conns, batch, at>>
  BY <1>4 DEF IOStep, EpollWait, EndBatch, HandleNewConnection, HandleEventFd, SwapFunctors,
     RunFunctor, Send, FunctorsDone, HandleClose, ReadPacket, ReadTorn, AddTask
<1>5. ASSUME NEW w \in Workers, WorkerStep(w) PROVE UNCHANGED <<conns, batch, at, io>>
  BY <1>5 DEF WorkerStep, StartTask, QueueFunctor, Wakeup, NoReply, FinishTask
<1>6. CASE UNCHANGED vars  BY <1>2, <1>6 DEF vars
<1> QED  BY <1>1, <1>2, <1>3, <1>4, <1>5, <1>6 DEF Next, EpollTimeout, Halted

LEMMA DoingKept == ConnInv /\ Next => DoingInv'
<1> SUFFICES ASSUME ConnInv, Next PROVE DoingInv'
  OBVIOUS
<1>0. /\ DoingInv /\ doing \in [Workers -> {"idle", "process", "wakeup", "return"}]
      /\ cur \in [Workers -> Tasks \cup {NoTask}] /\ NoTask \notin Tasks /\ queue \in Seq(Tasks)
  BY ReactorAssumption DEF ConnInv, TypeOK
<1> USE DEF clientVars, ioVars, connVars, poolVars
<1>1. ASSUME NEW w \in Workers, StartTask(w) PROVE DoingInv'
  <2>1. /\ Head(queue) \in Tasks /\ cur' = [cur EXCEPT ![w] = Head(queue)]
        /\ doing' = [doing EXCEPT ![w] = "process"]
    BY <1>0, <1>1 DEF StartTask, Pool!Start
  <2> QED  BY <1>0, <2>1 DEF DoingInv
<1>2. ASSUME NEW w \in Workers, QueueFunctor(w) \/ Wakeup(w) \/ NoReply(w) PROVE DoingInv'
  BY <1>0, <1>2 DEF DoingInv, QueueFunctor, Wakeup, NoReply
<1>3. ASSUME NEW w \in Workers, FinishTask(w) PROVE DoingInv'
  BY <1>0, <1>3 DEF DoingInv, FinishTask, Pool!Finish
<1>4. CASE UNCHANGED <<doing, cur>>  BY <1>0, <1>4 DEF DoingInv
<1>5. ASSUME NEW c \in Conns, ClientStep(c) PROVE UNCHANGED <<doing, cur>>
  BY <1>5 DEF ClientStep, Connect, SendPiece, Receive, Leave
<1>6. CASE IOStep
  BY <1>4, <1>6 DEF IOStep, EpollWait, EndBatch, HandleNewConnection, HandleEventFd,
     SwapFunctors, RunFunctor, FunctorsDone, HandleClose, HandleMessage, ReadPacket, ReadTorn,
     AddTask, Pool!Submit
<1>7. CASE UNCHANGED vars  BY <1>4, <1>7 DEF vars
<1> QED
  BY <1>1, <1>2, <1>3, <1>4, <1>5, <1>6, <1>7 DEF Next, WorkerStep, EpollTimeout, Halted

LEMMA WakeupKept == ConnInv /\ Next => WakeupIsNotLost'
<1> SUFFICES ASSUME ConnInv, Next PROVE WakeupIsNotLost'
  OBVIOUS
<1>0. /\ WakeupIsNotLost /\ doing \in [Workers -> {"idle", "process", "wakeup", "return"}]
      /\ counter \in Nat
  BY DEF ConnInv, TypeOK
<1> USE DEF clientVars, ioVars, connVars, poolVars, WakeupIsNotLost, Down
<1>1. ASSUME NEW w \in Workers, QueueFunctor(w) PROVE WakeupIsNotLost'
  BY <1>0, <1>1 DEF QueueFunctor
<1>2. ASSUME NEW w \in Workers, Wakeup(w) PROVE WakeupIsNotLost'
  BY <1>0, <1>2 DEF Wakeup
<1>3. ASSUME NEW w \in Workers, StartTask(w) PROVE WakeupIsNotLost'
  <2>1. doing[w] = "idle"  BY <1>3 DEF ConnInv, DoingInv, StartTask, Pool!Start
  <2> QED  BY <1>0, <1>3, <2>1 DEF StartTask
<1>4. ASSUME NEW w \in Workers, NoReply(w) PROVE WakeupIsNotLost'
  BY <1>0, <1>4 DEF NoReply
<1>5. ASSUME NEW w \in Workers, FinishTask(w) PROVE WakeupIsNotLost'
  BY <1>0, <1>5 DEF FinishTask
<1>6. CASE HandleEventFd \/ SwapFunctors
  BY <1>6 DEF HandleEventFd, SwapFunctors
<1>7. CASE UNCHANGED <<pending, counter, doing>> /\ io # "swap" /\ (Down => Down')
  BY <1>0, <1>7
<1>8. CASE UNCHANGED <<pending, counter, doing, io>>
  BY <1>0, <1>8
<1>9. ASSUME NEW c \in Conns, ClientStep(c) PROVE UNCHANGED <<pending, counter, doing, io>>
  BY <1>9 DEF ClientStep, Connect, SendPiece, Receive, Leave
<1>10. ASSUME IOStep, ~HandleEventFd, ~SwapFunctors
       PROVE  UNCHANGED <<pending, counter, doing>> /\ io \notin {"swap", "killed", "crashed"}
  BY <1>10 DEF IOStep, EpollWait, EndBatch, HandleNewConnection, RunFunctor, FunctorsDone,
     HandleClose, HandleMessage, ReadPacket, ReadTorn, AddTask
<1>11. CASE UNCHANGED vars  BY <1>8, <1>11 DEF vars
<1> QED
  BY <1>1, <1>2, <1>3, <1>4, <1>5, <1>6, <1>7, <1>8, <1>9, <1>10, <1>11
  DEF Next, WorkerStep, EpollTimeout, Halted

\* The pieces of every connection are accounted for.
LEMMA CountKept == ConnInv /\ Next => CountInv'
<1> SUFFICES ASSUME ConnInv, Next, NEW c \in Conns
             PROVE  /\ sent'[c] <= 2 * Requests
                    /\ \/ 2 * Made(c)' + unread'[c] <= sent'[c]
                       \/ /\ Torn(c)' /\ 2 * Made(c)' <= sent'[c] + 2
                          /\ ~(io' = "read" /\ at' = c)
  BY DEF CountInv
<1>0. /\ peer \in [Conns -> {"away", "backlog", "open", "closed", "reset", "broken"}]
      /\ sent \in [Conns -> 0..2 * Requests] /\ unread \in [Conns -> 0..2 * Requests]
      /\ taken \in [Conns -> 0..Requests + 1] /\ Requests \in Nat
  BY ReactorAssumption DEF ConnInv, TypeOK
<1>a. /\ sent[c] <= 2 * Requests
       /\ \/ 2 * Made(c) + unread[c] <= sent[c]
          \/ Torn(c) /\ 2 * Made(c) <= sent[c] + 2 /\ ~(io = "read" /\ at = c)
  BY DEF ConnInv, CountInv
<1>b. sent[c] \in Nat /\ unread[c] \in Nat /\ taken[c] \in Nat /\ Made(c) \in Nat
  BY Counters
<1> DEFINE Goal == /\ sent'[c] <= 2 * Requests
                   /\ \/ 2 * Made(c)' + unread'[c] <= sent'[c]
                      \/ /\ Torn(c)' /\ 2 * Made(c)' <= sent'[c] + 2
                         /\ ~(io' = "read" /\ at' = c)
<1> USE DEF clientVars, ioVars, connVars, poolVars
<1>1. ASSUME sent'[c] = sent[c], unread'[c] = unread[c], Made(c)' = Made(c),
             Torn(c) => Torn(c)', io' = "read" /\ at' = c => io = "read" /\ at = c
      PROVE  Goal
  BY <1>a, <1>b, <1>1
<1>2. ASSUME NEW d \in Conns, SendPiece(d) PROVE Goal
  <2>1. /\ UNCHANGED <<io, at, taken, peer>>
        /\ sent' = [sent EXCEPT ![d] = sent[d] + 1]
        /\ unread' = [unread EXCEPT ![d] = unread[d] + 1]
        /\ peer[d] = "open" /\ sent[d] < 2 * Requests
    BY <1>2 DEF SendPiece
  <2>2. Made(c)' = Made(c)  BY <2>1 DEF Made
  <2>3. CASE c = d
    <3>1. /\ ~Torn(c) /\ sent'[c] = sent[c] + 1 /\ unread'[c] = unread[c] + 1
          /\ sent[c] < 2 * Requests /\ Requests \in Nat
      BY <1>0, <2>1, <2>3 DEF Torn
    <3> QED  BY <1>a, <1>b, <2>2, <3>1
  <2>4. CASE c # d
    <3>1. sent'[c] = sent[c] /\ unread'[c] = unread[c]  BY <1>0, <2>1, <2>4
    <3>2. Torn(c) => Torn(c)'  BY <2>1, <3>1 DEF Torn
    <3> QED  BY <1>1, <2>1, <2>2, <3>1, <3>2
  <2> QED  BY <2>3, <2>4
<1>3. ASSUME UNCHANGED <<sent, unread, taken, at>>,
             peer[c] \in {"closed", "broken"} => peer'[c] \in {"closed", "broken"},
             io' = io \/ (io \notin {"read", "push"} /\ io' \notin {"read", "push"})
      PROVE  Goal
  <2>1. Made(c)' = Made(c) /\ (Torn(c) => Torn(c)')  BY <1>3 DEF Made, Torn
  <2> QED  BY <1>1, <1>3, <2>1
<1>c. ASSUME UNCHANGED <<sent, unread, taken, at>>,
              io' = io \/ (io \notin {"read", "push"} /\ io' \notin {"read", "push"})
       PROVE  Goal
  <2>1. peer'[c] \in {"away", "backlog", "open", "closed", "reset", "broken"}
    BY TypeKept DEF TypeOK
  <2>2. peer[c] \in {"closed", "broken"} => peer'[c] \in {"closed", "broken"}
    BY <2>1, SocketSteps
  <2> QED  BY <1>3, <1>c, <2>2
<1>4. ASSUME NEW f \in Fds, HandleMessage(f) PROVE Goal
  <2>1. io = "dispatch" /\ UNCHANGED <<sent, unread, taken>>
    BY <1>4, MessageEffect
  <2>2. CASE UNCHANGED <<io, at>>  BY <1>c, <2>1, <2>2
  <2>3. CASE ~UNCHANGED <<io, at>>
    <3>1. PICK d \in Conns :
             /\ at' = d /\ io' = "read"
             /\ \/ unread[d] > 0 /\ peer' = peer
                \/ peer[d] = "reset" /\ peer' = [peer EXCEPT ![d] = "broken"]
      BY <1>4, <2>3, MessageEffect
    <3>2. Made(c)' = Made(c)  BY <2>1, <3>1 DEF Made
    <3>3. CASE c = d
      BY <1>a, <1>b, <2>1, <3>1, <3>2, <3>3 DEF Torn
    <3>4. CASE c # d
      BY <1>0, <1>a, <1>b, <2>1, <3>1, <3>2, <3>4 DEF Torn
    <3> QED  BY <3>3, <3>4
  <2> QED  BY <2>2, <2>3
<1>5. CASE ReadPacket
  <2>1. /\ io = "read" /\ io' = "push" /\ unread[at] >= 2 /\ at \in Conns
        /\ unread' = [unread EXCEPT ![at] = unread[at] - 2]
        /\ UNCHANGED <<sent, taken, at, peer>>
    BY <1>5 DEF ReadPacket, ConnInv, ReadInv
  <2>2. CASE c = at
    <3>1. /\ Made(c) = taken[c] /\ Made(c)' = taken[c] + 1
          /\ unread'[c] = unread[c] - 2 /\ sent'[c] = sent[c]
      BY <1>0, <1>b, <2>1, <2>2 DEF Made
    <3> QED  BY <1>a, <1>b, <2>1, <2>2, <3>1 DEF Torn
  <2>3. CASE c # at
    <3>1. Made(c)' = Made(c) /\ unread'[c] = unread[c] /\ (Torn(c) => Torn(c)')
      BY <1>0, <2>1, <2>3 DEF Made, Torn
    <3> QED  BY <1>1, <2>1, <2>3, <3>1
  <2> QED  BY <2>2, <2>3
<1>6. CASE ReadTorn
  <2>1. /\ io = "read" /\ io' \in {"push", "dispatch"} /\ at \in Conns
        /\ unread' = [unread EXCEPT ![at] = 0]
        /\ peer' = IF peer[at] = "reset" THEN [peer EXCEPT ![at] = "broken"] ELSE peer
        /\ peer[at] # "open"
        /\ UNCHANGED <<sent, taken, at>>
    BY <1>6 DEF ReadTorn, ConnInv, ReadInv, RecvnReturnsShort
  <2>2. peer[at] \in {"closed", "reset", "broken"}
    BY <2>1, InConns, ReactorAssumption DEF ConnInv, ReadInv, PeerInv
  <2>3. CASE c = at
    <3>1. Torn(c)'  BY <1>0, <2>1, <2>2, <2>3 DEF Torn
    <3>2. Made(c) = taken[c] /\ Made(c)' \in {taken[c], taken[c] + 1} /\ sent'[c] = sent[c]
      BY <1>b, <2>1, <2>3 DEF Made
    <3> QED  BY <1>a, <1>b, <2>1, <2>3, <3>1, <3>2
  <2>4. CASE c # at
    <3>1. Made(c)' = Made(c) /\ unread'[c] = unread[c] /\ peer'[c] = peer[c]
      BY <1>0, <2>1, <2>4 DEF Made
    <3>2. Torn(c) => Torn(c)'  BY <3>1 DEF Torn
    <3> QED  BY <1>1, <2>1, <2>4, <3>1, <3>2
  <2> QED  BY <2>3, <2>4
<1>7. CASE AddTask
  <2>1. /\ io = "push" /\ io' = "dispatch" /\ UNCHANGED <<peer, sent, unread, at>>
        /\ taken' = [taken EXCEPT ![at] = taken[at] + 1] /\ at \in Conns
    BY <1>7, AddTaskEffect
  <2>2. Made(c)' = Made(c)
    <3>1. taken'[c] = IF at = c THEN taken[c] + 1 ELSE taken[c]  BY <1>0, <2>1
    <3> QED  BY <1>b, <2>1, <3>1 DEF Made
  <2>3. Torn(c) => Torn(c)'  BY <2>1 DEF Torn
  <2> QED  BY <1>1, <2>1, <2>2, <2>3
<1>8. CASE RunFunctor
  BY <1>8, <1>c, FunctorEffect
<1>9. ASSUME NEW d \in Conns, Connect(d) \/ Receive(d) \/ Leave(d) PROVE Goal
  BY <1>9, <1>c DEF Connect, Receive, Leave
<1>10. CASE EpollWait \/ EndBatch \/ HandleNewConnection \/ HandleEventFd \/ SwapFunctors
            \/ FunctorsDone
  <2>1. UNCHANGED <<sent, unread, taken, at>>
    BY <1>10 DEF EpollWait, EndBatch, HandleNewConnection, HandleEventFd, SwapFunctors,
       FunctorsDone
  <2>2. io' = io \/ (io \notin {"read", "push"} /\ io' \notin {"read", "push"})
    BY <1>10 DEF EpollWait, EndBatch, HandleNewConnection, HandleEventFd, SwapFunctors,
       FunctorsDone
  <2> QED  BY <1>c, <2>1, <2>2
<1>11. ASSUME NEW f \in Fds, HandleClose(f) PROVE Goal
  BY <1>11, <1>c, CloseEffect
<1>12. ASSUME NEW w \in Workers, WorkerStep(w) PROVE Goal
  <2>1. UNCHANGED <<sent, unread, taken, at, io>>
    BY <1>12 DEF WorkerStep, StartTask, QueueFunctor, Wakeup, NoReply, FinishTask
  <2> QED  BY <1>c, <2>1
<1>13. CASE UNCHANGED vars  BY <1>c, <1>13 DEF vars
<1> QED
  BY <1>2, <1>4, <1>5, <1>6, <1>7, <1>8, <1>9, <1>10, <1>11, <1>12, <1>13
  DEF Next, ClientStep, IOStep, EpollTimeout, Halted

LEMMA ConnNext == ConnInv /\ [Next]_vars => ConnInv'
<1>1. ASSUME ConnInv, UNCHANGED vars PROVE ConnInv'
  BY <1>1 DEF vars, poolVars, ConnInv, TypeOK, PeerInv, InterestInv, BatchInv, Readable, ReadInv,
     DoingInv, CountInv, Made, Torn, DescriptorHasOneOwner, HeldBy, WakeupIsNotLost, Down
<1>2. ASSUME ConnInv, Next PROVE ConnInv'
  BY <1>2, TypeKept, PeerKept, InterestKept, BatchKept, ReadKept, DoingKept, CountKept,
     OwnersKept, WakeupKept DEF ConnInv
<1> QED  BY <1>1, <1>2

LEMMA ConnAlways == Spec => []ConnInv
<1> QED  BY ConnInit, ConnNext, PTL DEF Spec

\* Every variable keeps its type.
THEOREM TypeCorrect == Spec => []TypeOK
<1>1. ConnInv => TypeOK  BY DEF ConnInv
<1> QED  BY <1>1, ConnAlways, PTL

\* An event of a batch speaks of the connection it was raised for when its handler
\* runs: handle_message and isClosed find it in _conns with something to report.
THEOREM EventsCorrect == Spec => []EventIsCurrent
<1>1. ConnInv => EventIsCurrent  BY DEF ConnInv, BatchInv, EventIsCurrent
<1> QED  BY <1>1, ConnAlways, PTL

\* No two connections share a descriptor as long as something refers to them.
THEOREM DescriptorsCorrect == Spec => []DescriptorHasOneOwner
<1>1. ConnInv => DescriptorHasOneOwner  BY DEF ConnInv
<1> QED  BY <1>1, ConnAlways, PTL

\* The wakeup of run_in_loop is not lost between a worker and the I/O thread.
THEOREM WakeupsCorrect == Spec => []WakeupIsNotLost
<1>1. ConnInv => WakeupIsNotLost  BY DEF ConnInv
<1> QED  BY <1>1, ConnAlways, PTL

-------------------------------------------------------------------------------
(* Tasks are in one place *)

LEMMA AppendIsDistinct ==
    ASSUME NEW S, NEW s \in Seq(S), NEW x \in S
    PROVE  /\ Elements(Append(s, x)) = Elements(s) \cup {x}
           /\ Distinct(s) /\ x \notin Elements(s) => Distinct(Append(s, x))
<1> DEFINE longer == Append(s, x)
<1>1. /\ Len(longer) = Len(s) + 1 /\ Len(s) \in Nat
      /\ \A j \in 1..Len(s) : longer[j] = s[j]
      /\ longer[Len(s) + 1] = x
  OBVIOUS
<1> HIDE DEF longer
<1>2. Elements(longer) = Elements(s) \cup {x}  BY <1>1 DEF Elements
<1>3. ASSUME Distinct(s), x \notin Elements(s) PROVE Distinct(longer)
  BY <1>1, <1>3 DEF Distinct, Elements
<1> QED  BY <1>2, <1>3 DEF longer

LEMMA TailIsDistinct ==
    ASSUME NEW S, NEW s \in Seq(S), s # <<>>
    PROVE  /\ Head(s) \in S /\ Tail(s) \in Seq(S)
           /\ Elements(s) = Elements(Tail(s)) \cup {Head(s)}
           /\ Distinct(s) => Distinct(Tail(s)) /\ Head(s) \notin Elements(Tail(s))
<1> DEFINE rest == Tail(s)  first == Head(s)
<1>1. /\ first \in S /\ rest \in Seq(S)
      /\ Len(s) \in Nat /\ Len(s) >= 1 /\ Len(rest) = Len(s) - 1
      /\ first = s[1]
      /\ \A j \in 1..Len(rest) : rest[j] = s[j + 1]
  OBVIOUS
<1> HIDE DEF rest, first
<1>2. Elements(s) = Elements(rest) \cup {first}
  <2>1. ASSUME NEW i \in 1..Len(s) PROVE s[i] = first \/ \E j \in 1..Len(rest) : rest[j] = s[i]
    <3>1. CASE i = 1  BY <1>1, <3>1
    <3>2. CASE i # 1
      <4>1. i - 1 \in 1..Len(rest) /\ rest[i - 1] = s[i]  BY <1>1, <3>2
      <4> QED  BY <4>1
    <3> QED  BY <3>1, <3>2
  <2>2. Elements(s) \subseteq Elements(rest) \cup {first}  BY <2>1 DEF Elements
  <2>3. Elements(rest) \cup {first} \subseteq Elements(s)  BY <1>1 DEF Elements
  <2> QED  BY <2>2, <2>3
<1>3. ASSUME Distinct(s) PROVE Distinct(rest) /\ first \notin Elements(rest)
  BY <1>1, <1>3 DEF Distinct, Elements
<1> QED  BY <1>1, <1>2, <1>3 DEF rest, first

LEMMA PlaceKept == ConnInv /\ PlaceInv /\ Next => PlaceInv'
<1> SUFFICES ASSUME ConnInv, PlaceInv, Next PROVE PlaceInv'
  OBVIOUS
<1>0. /\ queue \in Seq(Tasks) /\ cur \in [Workers -> Tasks \cup {NoTask}] /\ NoTask \notin Tasks
  BY ReactorAssumption DEF ConnInv, TypeOK
<1> USE DEF clientVars, ioVars, connVars, poolVars
<1>1. CASE AddTask
  <2> DEFINE t == <<at, taken[at] + 1>>
  <2>1. /\ t \in Tasks /\ t \notin Elements(queue) \cup finished
        /\ \A w \in Workers : cur[w] # t
        /\ queue' = Append(queue, t) /\ UNCHANGED <<cur, finished>>
    BY <1>0, <1>1, AddTaskEffect DEF Pool!Queued, Pool!Executing, Elements
  <2> HIDE DEF t
  <2>2. Elements(queue') = Elements(queue) \cup {t} /\ Distinct(queue')
    BY <1>0, <2>1, AppendIsDistinct DEF PlaceInv
  <2> QED  BY <2>1, <2>2 DEF PlaceInv
<1>2. ASSUME NEW w \in Workers, StartTask(w) PROVE PlaceInv'
  <2>1. /\ queue # <<>> /\ queue' = Tail(queue) /\ cur[w] = NoTask /\ finished' = finished
        /\ cur' = [cur EXCEPT ![w] = Head(queue)]
    BY <1>2 DEF StartTask, Pool!Start
  <2>2. /\ Elements(queue) = Elements(queue') \cup {Head(queue)}
        /\ Distinct(queue') /\ Head(queue) \notin Elements(queue') /\ Head(queue) \in Tasks
    BY <1>0, <2>1, TailIsDistinct DEF PlaceInv
  <2> QED  BY <1>0, <2>1, <2>2 DEF PlaceInv
<1>3. ASSUME NEW w \in Workers, FinishTask(w) PROVE PlaceInv'
  <2>1. /\ queue' = queue /\ cur' = [cur EXCEPT ![w] = NoTask] /\ cur[w] # NoTask
        /\ finished' = finished \cup {cur[w]}
    BY <1>3 DEF FinishTask, Pool!Finish
  <2> QED  BY <1>0, <2>1 DEF PlaceInv
<1>4. CASE UNCHANGED <<queue, cur, finished>>  BY <1>4 DEF PlaceInv
<1>5. ASSUME NEW c \in Conns, ClientStep(c) PROVE UNCHANGED <<queue, cur, finished>>
  BY <1>5 DEF ClientStep, Connect, SendPiece, Receive, Leave
<1>6. ASSUME IOStep, ~AddTask PROVE UNCHANGED <<queue, cur, finished>>
  BY <1>6 DEF IOStep, EpollWait, EndBatch, HandleNewConnection, HandleEventFd, SwapFunctors,
     RunFunctor, FunctorsDone, HandleClose, HandleMessage, ReadPacket, ReadTorn
<1>7. ASSUME NEW w \in Workers, QueueFunctor(w) \/ Wakeup(w) \/ NoReply(w)
      PROVE  UNCHANGED <<queue, cur, finished>>
  BY <1>7 DEF QueueFunctor, Wakeup, NoReply
<1>8. CASE UNCHANGED vars  BY <1>4, <1>8 DEF vars
<1> QED
  BY <1>1, <1>2, <1>3, <1>4, <1>5, <1>6, <1>7, <1>8 DEF Next, WorkerStep, EpollTimeout, Halted

-------------------------------------------------------------------------------
(* A reply is queued once *)

\* What was replied stays replied, and a task in process() was not.
LEMMA RepliedGrows ==
    ASSUME ConnInv, PlaceInv, Next, NEW t \in Tasks, Replied(t)
    PROVE  Replied(t)'
<1>0. /\ cur \in [Workers -> Tasks \cup {NoTask}] /\ NoTask \notin Tasks
      /\ doing \in [Workers -> {"idle", "process", "wakeup", "return"}]
  BY ReactorAssumption DEF ConnInv, TypeOK
<1> USE DEF clientVars, ioVars, connVars, poolVars
<1>1. CASE t \in finished
  <2>1. finished \subseteq finished'
    <3>1. ASSUME NEW c \in Conns, ClientStep(c) PROVE finished' = finished
      BY <3>1 DEF ClientStep, Connect, SendPiece, Receive, Leave
    <3>2. ASSUME IOStep PROVE finished' = finished
      BY <3>2, AddTaskEffect DEF IOStep, EpollWait, EndBatch, HandleNewConnection, HandleEventFd,
         SwapFunctors, RunFunctor, FunctorsDone, HandleClose, HandleMessage, ReadPacket, ReadTorn
    <3>3. ASSUME NEW w \in Workers, WorkerStep(w) PROVE finished \subseteq finished'
      BY <3>3 DEF WorkerStep, StartTask, QueueFunctor, Wakeup, NoReply, FinishTask, Pool!Start,
         Pool!Finish
    <3> QED  BY <3>1, <3>2, <3>3 DEF Next, EpollTimeout, Halted, vars
  <2> QED  BY <1>1, <2>1 DEF Replied
<1>2. CASE t \notin finished
  <2>1. PICK v \in Workers : cur[v] = t /\ doing[v] \in {"wakeup", "return"}
    BY <1>2 DEF Replied
  <2>2. CASE UNCHANGED <<cur, doing>>  BY <2>1, <2>2 DEF Replied
  <2>3. ASSUME NEW c \in Conns, ClientStep(c) PROVE UNCHANGED <<cur, doing>>
    BY <2>3 DEF ClientStep, Connect, SendPiece, Receive, Leave
  <2>4. ASSUME IOStep PROVE UNCHANGED <<cur, doing>>
    BY <2>4, AddTaskEffect DEF IOStep, EpollWait, EndBatch, HandleNewConnection, HandleEventFd,
       SwapFunctors, RunFunctor, FunctorsDone, HandleClose, HandleMessage, ReadPacket, ReadTorn
  <2>5. ASSUME NEW w \in Workers, QueueFunctor(w) \/ NoReply(w) \/ Wakeup(w) PROVE Replied(t)'
    <3>1. /\ cur' = cur
          /\ \E place \in {"wakeup", "return"} : doing' = [doing EXCEPT ![w] = place]
      BY <2>5 DEF QueueFunctor, NoReply, Wakeup
    <3>2. cur'[v] = t /\ doing'[v] \in {"wakeup", "return"}  BY <1>0, <2>1, <3>1
    <3> QED  BY <3>2 DEF Replied
  <2>6. ASSUME NEW w \in Workers, StartTask(w) PROVE Replied(t)'
    <3>1. cur[w] = NoTask /\ cur' = [cur EXCEPT ![w] = Head(queue)]
          /\ doing' = [doing EXCEPT ![w] = "process"]
      BY <2>6 DEF StartTask, Pool!Start
    <3>2. cur'[v] = t /\ doing'[v] \in {"wakeup", "return"}  BY <1>0, <2>1, <3>1
    <3> QED  BY <3>2 DEF Replied
  <2>7. ASSUME NEW w \in Workers, FinishTask(w) PROVE Replied(t)'
    <3>1. /\ cur' = [cur EXCEPT ![w] = NoTask] /\ doing' = [doing EXCEPT ![w] = "idle"]
          /\ finished' = finished \cup {cur[w]}
      BY <2>7 DEF FinishTask, Pool!Finish
    <3>2. CASE v = w  BY <2>1, <3>1, <3>2 DEF Replied
    <3>3. CASE v # w
      <4>1. cur'[v] = t /\ doing'[v] \in {"wakeup", "return"}  BY <1>0, <2>1, <3>1, <3>3
      <4> QED  BY <4>1 DEF Replied
    <3> QED  BY <3>2, <3>3
  <2> QED  BY <2>2, <2>3, <2>4, <2>5, <2>6, <2>7 DEF Next, WorkerStep, EpollTimeout, Halted, vars
<1> QED  BY <1>1, <1>2

LEMMA NotYetReplied ==
    ASSUME ConnInv, PlaceInv, NEW w \in Workers, doing[w] = "process"
    PROVE  cur[w] \in Tasks /\ ~Replied(cur[w])
<1>1. cur[w] \in Tasks /\ cur[w] # NoTask
  BY ReactorAssumption DEF ConnInv, TypeOK, DoingInv
<1> QED  BY <1>1 DEF PlaceInv, Replied

LEMMA ReplyKept == ConnInv /\ PlaceInv /\ ReplyInv /\ Next => ReplyInv'
<1> SUFFICES ASSUME ConnInv, PlaceInv, ReplyInv, Next PROVE ReplyInv'
  OBVIOUS
<1>0. /\ functors \in Seq(Tasks) /\ pending \in Seq(Tasks)
      /\ replies \in [Conns -> SUBSET Tasks] /\ replies' \in [Conns -> SUBSET Tasks]
  BY TypeKept DEF ConnInv, TypeOK
<1>a. Elements(functors) \subseteq Tasks /\ Elements(pending) \subseteq Tasks
  BY <1>0 DEF Elements
<1>b. \A t \in Tasks : Replied(t) => Replied(t)'
  BY RepliedGrows
<1> USE DEF clientVars, ioVars, connVars, poolVars
<1>1. CASE UNCHANGED <<functors, pending, replies>> /\ (functors # <<>> => io' = "run" \/ Down')
  BY <1>a, <1>b, <1>1, <1>0 DEF ReplyInv
<1>2. CASE SwapFunctors
  <2>1. functors = <<>>  BY <1>2 DEF ReplyInv, SwapFunctors, Down
  <2>2. functors' = pending /\ pending' = functors /\ replies' = replies /\ io' = "run"
    BY <1>2, <2>1 DEF SwapFunctors
  <2> QED  BY <1>a, <1>b, <2>2, <1>0 DEF ReplyInv
<1>3. CASE RunFunctor
  <2> DEFINE t == Head(functors)
  <2>1. functors # <<>> /\ functors' = Tail(functors) /\ pending' = pending
    BY <1>3, FunctorEffect
  <2>2. /\ t \in Tasks /\ Elements(functors) = Elements(functors') \cup {t}
        /\ Distinct(functors') /\ t \notin Elements(functors')
    BY <1>0, <2>1, TailIsDistinct DEF ReplyInv
  <2>3. \/ replies' = replies
        \/ \E c \in Conns : replies' = [replies EXCEPT ![c] = replies[c] \cup {t}]
    <3>1. replies' = replies \/ \E c \in Conns : Send(c, t)
      BY <1>3, <2>2 DEF RunFunctor, Tasks, ConnInv, TypeOK
    <3> QED  BY <3>1 DEF Send
  <2>4. \A c \in Conns, u \in Tasks : u \in replies'[c] => u \in replies[c] \/ u = t
    BY <1>0, <2>3
  <2>5. io' = "run" \/ Down'  BY <1>3, FunctorEffect DEF Down
  <2> HIDE DEF t
  <2> QED  BY <1>a, <1>b, <2>1, <2>2, <2>4, <2>5 DEF ReplyInv
<1>4. ASSUME NEW w \in Workers, QueueFunctor(w) PROVE ReplyInv'
  <2>a. doing[w] = "process"  BY <1>4 DEF QueueFunctor
  <2>1. PICK t \in Tasks : t = cur[w] /\ ~Replied(t)  BY <2>a, NotYetReplied
  <2>2. /\ pending' = Append(pending, t) /\ doing' = [doing EXCEPT ![w] = "wakeup"]
        /\ UNCHANGED <<functors, replies, io, cur, finished>>
    BY <1>4, <2>1 DEF QueueFunctor
  <2>3. Replied(t)'
    <3>1. doing'[w] = "wakeup"  BY <2>2 DEF ConnInv, TypeOK
    <3> QED  BY <2>1, <2>2, <3>1 DEF Replied
  <2>4. t \notin Elements(functors) \cup Elements(pending)  BY <2>1 DEF ReplyInv
  <2>5. Elements(pending') = Elements(pending) \cup {t} /\ Distinct(pending')
    BY <1>0, <2>1, <2>2, <2>4, AppendIsDistinct DEF ReplyInv
  <2>6. \A c \in Conns : t \notin replies[c]  BY <2>1 DEF ReplyInv
  <2>7. /\ Distinct(functors') /\ Elements(functors') \cap Elements(pending') = {}
        /\ functors' # <<>> => io' = "run" \/ Down'
    BY <2>2, <2>4, <2>5 DEF ReplyInv, Down
  <2>8. \A u \in Elements(functors') \cup Elements(pending') : Replied(u)'
    BY <1>a, <1>b, <2>2, <2>3, <2>5 DEF ReplyInv
  <2>9. \A c \in Conns, u \in Tasks : u \in replies'[c] =>
           Replied(u)' /\ u \notin Elements(functors') \cup Elements(pending')
    BY <1>b, <2>2, <2>5, <2>6 DEF ReplyInv
  <2> QED  BY <2>5, <2>7, <2>8, <2>9 DEF ReplyInv
<1>5. ASSUME UNCHANGED <<functors, pending, replies, io>> PROVE ReplyInv'
  BY <1>1, <1>5 DEF ReplyInv, Down
<1>6. ASSUME NEW c \in Conns, ClientStep(c) PROVE UNCHANGED <<functors, pending, replies, io>>
  BY <1>6 DEF ClientStep, Connect, SendPiece, Receive, Leave
<1>7. ASSUME IOStep, ~SwapFunctors, ~RunFunctor
      PROVE  UNCHANGED <<functors, pending, replies>> /\ functors = <<>>
  <2>1. UNCHANGED <<functors, pending, replies>> /\ io \notin {"killed", "crashed"}
    BY <1>7 DEF IOStep, EpollWait, EndBatch, HandleNewConnection, HandleEventFd,
       FunctorsDone, HandleClose, HandleMessage, ReadPacket, ReadTorn, AddTask
  <2>2. io # "run" \/ functors = <<>>
    BY <1>7 DEF IOStep, EpollWait, EndBatch, HandleNewConnection, HandleEventFd,
       FunctorsDone, HandleClose, HandleMessage, ReadPacket, ReadTorn, AddTask
  <2> QED  BY <2>1, <2>2 DEF ReplyInv, Down
<1>8. ASSUME NEW w \in Workers, StartTask(w) \/ Wakeup(w) \/ NoReply(w) \/ FinishTask(w)
      PROVE  UNCHANGED <<functors, pending, replies, io>>
  BY <1>8 DEF StartTask, Wakeup, NoReply, FinishTask
<1>9. CASE UNCHANGED vars  BY <1>5, <1>9 DEF vars
<1> QED
  BY <1>1, <1>2, <1>3, <1>4, <1>5, <1>6, <1>7, <1>8, <1>9
  DEF Next, WorkerStep, EpollTimeout, Halted
-------------------------------------------------------------------------------
(* Patient clients *)

\* A client that waits for the reply of t is still there, and gets it.
LEMMA PatientReply ==
    ASSUME ConnInv, PlaceInv, ReplyInv, PatientInv, RunFunctor
    PROVE  \E t \in Tasks :
              /\ t = Head(functors) /\ t \in Unanswered /\ LastOne(t) /\ t[1] \in Conns
              /\ t \notin replies[t[1]]
              /\ sent[t[1]] = 2 * Cardinality(replies[t[1]]) + 2
              /\ replies' = [replies EXCEPT ![t[1]] = replies[t[1]] \cup {t}]
              /\ peer' = peer /\ io' = "run"
<1>0. functors \in Seq(Tasks) /\ functors # <<>>
  BY FunctorEffect DEF ConnInv, TypeOK
<1>1. PICK t \in Tasks : t = Head(functors) /\ t \in Elements(functors)
  BY <1>0, TailIsDistinct
<1>2. PICK c \in Conns : c = t[1]  BY <1>1 DEF Tasks
<1>3. t \in Unanswered /\ LastOne(t) /\ t \notin replies[c]
  BY <1>1, <1>2 DEF Unanswered, PatientInv, ReplyInv
<1>4. PatientClient(c)  BY DEF PatientInv
<1>5. IsFiniteSet(replies[c]) /\ Cardinality(replies[c]) \in Nat
  BY <1>4, FS_CardinalityType DEF PatientClient
<1>6. taken[c] = Cardinality(replies[c]) + 1  BY <1>2, <1>3 DEF LastOne
<1>7. sent[c] = 2 * Cardinality(replies[c]) + 2
  <2>1. Made(c) # Cardinality(replies[c])  BY <1>5, <1>6, Counters
  <2> QED  BY <1>4, <2>1 DEF PatientClient
<1>8. peer[c] = "open"
  <2>1. sent[c] # 0 /\ sent[c] # 2 * Cardinality(replies[c])  BY <1>5, <1>7
  <2> QED  BY <1>4, <2>1 DEF PatientClient
<1>9. c \in alive
  <2>1. PICK f \in Fds : conns[f] = c  BY <1>8 DEF ConnInv, PeerInv
  <2> QED  BY <2>1, InConns, ReactorAssumption
<1>10. Send(c, t)  BY <1>1, <1>2, <1>9 DEF RunFunctor
<1>11. /\ replies' = [replies EXCEPT ![c] = replies[c] \cup {t}]
       /\ peer' = peer /\ io' = "run"
  BY <1>8, <1>10 DEF Send
<1> QED  BY <1>1, <1>2, <1>3, <1>7, <1>11

\* Nothing but a functor can bring the server down.
LEMMA PatientUp == ConnInv /\ PlaceInv /\ ReplyInv /\ PatientInv /\ Next => ~Down'
<1> SUFFICES ASSUME ConnInv, PlaceInv, ReplyInv, PatientInv, Next PROVE ~Down'
  OBVIOUS
<1>0. ~Down  BY DEF PatientInv
<1>1. CASE RunFunctor  BY <1>1, PatientReply DEF Down
<1>2. ASSUME NEW c \in Conns, ClientStep(c) PROVE io' = io
  BY <1>2 DEF ClientStep, Connect, SendPiece, Receive, Leave, ioVars, connVars, clientVars, poolVars
<1>3. ASSUME IOStep, ~RunFunctor PROVE ~Down'
  BY <1>0, <1>3 DEF IOStep, EpollWait, EndBatch, HandleNewConnection, HandleEventFd,
     SwapFunctors, FunctorsDone, HandleClose, HandleMessage, ReadPacket, ReadTorn, AddTask, Down
<1>4. ASSUME NEW w \in Workers, WorkerStep(w) PROVE io' = io
  BY <1>4 DEF WorkerStep, StartTask, QueueFunctor, Wakeup, NoReply, FinishTask
<1> QED  BY <1>0, <1>1, <1>2, <1>3, <1>4 DEF Next, EpollTimeout, Halted, vars, Down

\* The reads of readPacket have something to read.
LEMMA PatientRead == ConnInv /\ PatientInv /\ Next => (io' = "read" => unread'[at'] > 0)
<1> SUFFICES ASSUME ConnInv, PatientInv, Next, io' = "read" PROVE unread'[at'] > 0
  OBVIOUS
<1> USE DEF clientVars, ioVars, connVars, poolVars
<1>1. ASSUME NEW f \in Fds, HandleMessage(f) PROVE unread'[at'] > 0
  <2>1. io = "dispatch" /\ unread' = unread  BY <1>1, MessageEffect
  <2>2. \A c \in Conns : peer[c] # "reset"  BY DEF PatientInv, PatientClient
  <2> QED  BY <1>1, <2>1, <2>2, MessageEffect
<1>2. ASSUME NEW c \in Conns, ClientStep(c) PROVE unread'[at'] > 0
  <2>1. UNCHANGED <<io, at>> /\ at \in Conns /\ unread[at] > 0
    BY <1>2 DEF ClientStep, Connect, SendPiece, Receive, Leave, ConnInv, ReadInv, PatientInv
  <2>2. unread[at] \in Nat /\ unread'[at] \in Nat
    BY <2>1, TypeKept, ReactorAssumption, SMTT(30) DEF ConnInv, TypeOK
  <2>3. unread' = unread \/ unread' = [unread EXCEPT ![c] = unread[c] + 1]
    BY <1>2 DEF ClientStep, Connect, SendPiece, Receive, Leave
  <2>4. unread[c] \in Nat /\ unread \in [Conns -> Nat]
    BY ReactorAssumption DEF ConnInv, TypeOK
  <2> QED  BY <2>1, <2>2, <2>3, <2>4
<1>3. ASSUME IOStep, \A f \in Fds : ~HandleMessage(f) PROVE FALSE
  BY <1>3 DEF IOStep, EpollWait, EndBatch, HandleNewConnection, HandleEventFd, SwapFunctors,
     RunFunctor, Send, FunctorsDone, HandleClose, ReadPacket, ReadTorn, AddTask
<1>4. ASSUME NEW w \in Workers, WorkerStep(w) PROVE UNCHANGED <<io, unread, at>>
  BY <1>4 DEF WorkerStep, StartTask, QueueFunctor, Wakeup, NoReply, FinishTask
<1>5. CASE UNCHANGED <<io, unread, at>>  BY <1>5 DEF PatientInv
<1> QED  BY <1>1, <1>2, <1>3, <1>4, <1>5 DEF Next, EpollTimeout, Halted, vars

\* Every client stays patient.
LEMMA PatientClientKept ==
    ASSUME Patient, ConnInv, PlaceInv, ReplyInv, PatientInv, Next, NEW c \in Conns
    PROVE  PatientClient(c)'
<1>0. /\ peer \in [Conns -> {"away", "backlog", "open", "closed", "reset", "broken"}]
      /\ sent \in [Conns -> 0..2 * Requests] /\ unread \in [Conns -> 0..2 * Requests]
      /\ taken \in [Conns -> 0..Requests + 1] /\ replies \in [Conns -> SUBSET Tasks]
  BY DEF ConnInv, TypeOK
<1>a. PatientClient(c)  BY DEF PatientInv
<1> DEFINE k == Cardinality(replies[c])
<1>b. /\ sent[c] \in Nat /\ unread[c] \in Nat /\ taken[c] \in Nat /\ Made(c) \in Nat
      /\ Made(c) = (IF io = "push" /\ at = c THEN taken[c] + 1 ELSE taken[c])
      /\ k \in Nat
  BY <1>a, Counters, FS_CardinalityType DEF PatientClient
<1> USE DEF clientVars, ioVars, connVars, poolVars
<1>1. ASSUME sent'[c] = sent[c], unread'[c] = unread[c], replies'[c] = replies[c],
             taken'[c] >= taken[c], Made(c)' = Made(c),
             \/ peer'[c] = peer[c]
             \/ peer[c] = "away" /\ peer'[c] = "backlog"
             \/ peer[c] = "backlog" /\ peer'[c] = "open"
             \/ sent[c] = 2 * k /\ peer[c] = "open" /\ peer'[c] = "closed",
             taken'[c] \in Nat
      PROVE  PatientClient(c)'
  BY <1>a, <1>b, <1>1 DEF PatientClient
<1>2. ASSUME UNCHANGED <<sent, unread, replies, taken, at, peer>>,
             io' = io \/ (io # "push" /\ io' # "push")
      PROVE  PatientClient(c)'
  BY <1>1, <1>2, <1>b DEF Made
<1>3. ASSUME NEW d \in Conns, SendPiece(d) PROVE PatientClient(c)'
  <2>1. /\ sent' = [sent EXCEPT ![d] = sent[d] + 1] /\ unread' = [unread EXCEPT ![d] = unread[d] + 1]
        /\ UNCHANGED <<replies, taken, at, peer, io>>
        /\ peer[d] = "open" /\ (Answered(d) \/ sent[d] % 2 = 1)
    BY <1>3 DEF SendPiece
  <2>2. CASE c = d
    <3>1. /\ sent'[c] = sent[c] + 1 /\ unread'[c] = unread[c] + 1 /\ Made(c)' = Made(c)
          /\ peer'[c] = "open" /\ replies'[c] = replies[c] /\ taken'[c] = taken[c]
      BY <1>0, <2>1, <2>2 DEF Made
    <3>2. sent[c] = 2 * k \/ sent[c] % 2 = 1  BY <2>1, <2>2 DEF Answered
    <3>3. sent[c] = 2 * k + unread[c] /\ unread[c] < 2 /\ Made(c) = k
      <4>1. \/ sent[c] = 2 * k + unread[c] /\ unread[c] <= 2 /\ Made(c) = k
            \/ sent[c] = 2 * k + 2 /\ unread[c] = 0
        BY <1>a DEF PatientClient
      <4> HIDE DEF k
      <4> QED  BY <1>b, <3>2, <4>1
    <3> QED  BY <1>a, <1>b, <3>1, <3>3 DEF PatientClient
  <2>3. CASE c # d
    <3>1. sent'[c] = sent[c] /\ unread'[c] = unread[c] /\ Made(c)' = Made(c)
      BY <1>0, <2>1, <2>3 DEF Made
    <3> QED  BY <1>1, <1>b, <2>1, <3>1
  <2> QED  BY <2>2, <2>3
<1>4. ASSUME NEW d \in Conns, Connect(d) \/ Leave(d) PROVE PatientClient(c)'
  <2>1. /\ UNCHANGED <<sent, unread, replies, taken, at, io>>
        /\ \/ peer[d] = "away" /\ peer' = [peer EXCEPT ![d] = "backlog"]
           \/ peer[d] = "open" /\ Answered(d) /\ peer' = [peer EXCEPT ![d] = "closed"]
    BY <1>4 DEF Connect, Leave
  <2>2. Made(c)' = Made(c)  BY <2>1 DEF Made
  <2> QED  BY <1>0, <1>1, <1>b, <2>1, <2>2 DEF Answered
<1>5. CASE HandleNewConnection
  <2>1. /\ UNCHANGED <<sent, unread, replies, taken, at, io>>
        /\ \/ peer' = peer
           \/ \E d \in Conns : peer[d] = "backlog" /\ peer' = [peer EXCEPT ![d] = "open"]
    BY <1>5, AcceptEffect DEF HandleNewConnection
  <2>2. Made(c)' = Made(c)  BY <2>1 DEF Made
  <2> QED  BY <1>0, <1>1, <1>b, <2>1, <2>2
<1>6. CASE RunFunctor
  <2>1. PICK t \in Tasks :
           /\ LastOne(t) /\ t[1] \in Conns /\ t \notin replies[t[1]]
           /\ sent[t[1]] = 2 * Cardinality(replies[t[1]]) + 2
           /\ replies' = [replies EXCEPT ![t[1]] = replies[t[1]] \cup {t}]
           /\ peer' = peer /\ io' = "run"
    BY <1>6, PatientReply
  <2>2. UNCHANGED <<sent, unread, taken, at>> /\ io = "run"  BY <1>6, FunctorEffect
  <2>3. Made(c)' = Made(c)  BY <2>1, <2>2 DEF Made
  <2>4. CASE c = t[1]
    <3>1. replies'[c] = replies[c] \cup {t}  BY <1>0, <2>1, <2>4
    <3>2. IsFiniteSet(replies'[c]) /\ Cardinality(replies'[c]) = k + 1
      BY <1>a, <2>1, <2>4, <3>1, FS_AddElement DEF PatientClient
    <3>3. sent[c] = 2 * k + 2 /\ taken[c] = k + 1  BY <2>1, <2>4 DEF LastOne
    <3>4. \A u \in replies'[c] : u[1] = c  BY <1>a, <2>4, <3>1 DEF PatientClient
    <3>5. /\ peer[c] \in {"away", "backlog", "open", "closed"}
          /\ peer[c] \in {"away", "backlog"} => sent[c] = 0
          /\ unread[c] = 0 /\ Made(c) = k + 1
      <4>1. /\ peer[c] \in {"away", "backlog", "open", "closed"}
            /\ peer[c] \in {"away", "backlog"} => sent[c] = 0
            /\ \/ sent[c] = 2 * k + unread[c] /\ Made(c) = k
               \/ unread[c] = 0 /\ Made(c) = k + 1
        BY <1>a DEF PatientClient
      <4> HIDE DEF k
      <4> QED  BY <1>b, <2>2, <3>3, <4>1
    <3>6. /\ sent'[c] = 2 * (k + 1) + unread'[c] /\ unread'[c] <= 2 /\ Made(c)' = k + 1
          /\ taken'[c] >= k + 1
      BY <1>b, <2>2, <2>3, <3>3, <3>5
    <3>7. sent'[c] = 2 * (k + 1)  BY <1>b, <2>2, <3>3
    <3> HIDE DEF k
    <3> QED  BY <2>1, <2>2, <3>2, <3>4, <3>5, <3>6, <3>7 DEF PatientClient
  <2>5. CASE c # t[1]
    <3>1. replies'[c] = replies[c]  BY <1>0, <2>1, <2>5
    <3> QED  BY <1>1, <1>b, <2>1, <2>2, <2>3, <3>1
  <2> QED  BY <2>4, <2>5
<1>7. ASSUME NEW f \in Fds, HandleMessage(f) PROVE PatientClient(c)'
  <2>1. \A d \in Conns : peer[d] # "reset"  BY DEF PatientInv, PatientClient
  <2>2. peer' = peer  BY <1>7, <2>1, MessageEffect
  <2>3. /\ UNCHANGED <<sent, unread, replies, taken>>
        /\ io = "dispatch" /\ io' \in {"dispatch", "read"}
    BY <1>7, MessageEffect DEF HandleMessage
  <2>4. Made(c)' = Made(c)  BY <2>3 DEF Made
  <2> QED  BY <1>1, <1>b, <2>2, <2>3, <2>4
<1>8. CASE ReadPacket
  <2>1. /\ io = "read" /\ io' = "push" /\ unread[at] >= 2 /\ at \in Conns
        /\ unread' = [unread EXCEPT ![at] = unread[at] - 2]
        /\ UNCHANGED <<sent, taken, at, peer, replies>>
    BY <1>8 DEF ReadPacket, ConnInv, ReadInv
  <2>2. CASE c = at
    <3>1. /\ Made(c) = taken[c] /\ Made(c)' = taken[c] + 1 /\ unread'[c] = unread[c] - 2
          /\ sent'[c] = sent[c] /\ unread[c] >= 2
      BY <1>0, <1>b, <2>1, <2>2 DEF Made
    <3>2. sent[c] = 2 * k + 2 /\ unread[c] = 2 /\ Made(c) = k
      <4>1. \/ sent[c] = 2 * k + unread[c] /\ unread[c] <= 2 /\ Made(c) = k
            \/ sent[c] = 2 * k + 2 /\ unread[c] = 0
        BY <1>a DEF PatientClient
      <4> HIDE DEF k
      <4> QED  BY <1>b, <3>1, <4>1
    <3>3. unread'[c] = 0 /\ Made(c)' = k + 1  BY <3>1, <3>2
    <3> QED  BY <1>a, <2>1, <3>2, <3>3 DEF PatientClient
  <2>3. CASE c # at
    <3>1. Made(c)' = Made(c) /\ unread'[c] = unread[c]
      BY <1>0, <2>1, <2>3 DEF Made
    <3> QED  BY <1>1, <1>b, <2>1, <3>1
  <2> QED  BY <2>2, <2>3
<1>9. CASE ReadTorn
  <2>1. io = "read" /\ at \in Conns /\ unread[at] > 0 /\ unread[at] < 2 /\ peer[at] # "open"
    BY <1>9 DEF ReadTorn, RecvnReturnsShort, ConnInv, ReadInv, PatientInv
  <2>2. PatientClient(at) /\ peer[at] \in {"open", "closed", "reset", "broken"}
    <3>1. PatientClient(at)  BY <2>1 DEF PatientInv
    <3>2. peer[at] \in {"open", "closed", "reset", "broken"}
      BY <2>1, InConns, ReactorAssumption DEF ConnInv, ReadInv, PeerInv
    <3> QED  BY <3>1, <3>2
  <2>3. Cardinality(replies[at]) \in Nat /\ unread[at] \in Nat
    BY <2>1, <2>2, FS_CardinalityType, Counters DEF PatientClient
  <2>4. FALSE  BY <2>1, <2>2, <2>3 DEF PatientClient
  <2> QED  BY <2>4
<1>10. CASE AddTask
  <2>1. /\ io = "push" /\ io' = "dispatch"
        /\ UNCHANGED <<peer, sent, unread, at, replies>>
        /\ taken' = [taken EXCEPT ![at] = taken[at] + 1] /\ at \in Conns
    BY <1>10, AddTaskEffect
  <2>2. taken'[c] = IF at = c THEN taken[c] + 1 ELSE taken[c]  BY <1>0, <2>1
  <2>3. Made(c)' = Made(c)  BY <1>b, <2>1, <2>2 DEF Made
  <2> QED  BY <1>1, <1>b, <2>1, <2>2, <2>3
<1>11. CASE EpollWait \/ EndBatch \/ HandleEventFd \/ SwapFunctors \/ FunctorsDone
            \/ \E f \in Fds : HandleClose(f)
  BY <1>2, <1>11 DEF EpollWait, EndBatch, HandleEventFd, SwapFunctors, FunctorsDone, HandleClose
<1>12. ASSUME NEW w \in Workers, WorkerStep(w) PROVE PatientClient(c)'
  BY <1>2, <1>12 DEF WorkerStep, StartTask, QueueFunctor, Wakeup, NoReply, FinishTask
<1>13. ASSUME NEW d \in Conns, Receive(d) PROVE PatientClient(c)'
  BY <1>2, <1>13 DEF Receive
<1>14. CASE UNCHANGED vars  BY <1>2, <1>14 DEF vars
<1> QED
  BY <1>3, <1>4, <1>5, <1>6, <1>7, <1>8, <1>9, <1>10, <1>11, <1>12, <1>13, <1>14
  DEF Next, ClientStep, IOStep, EpollTimeout, Halted

\* No task of a client waits for its reply but that of its last packet.
LEMMA UnansweredKept ==
    ConnInv /\ PlaceInv /\ ReplyInv /\ PatientInv /\ Next => \A t \in Unanswered' : LastOne(t)'
<1> SUFFICES ASSUME ConnInv, PlaceInv, ReplyInv, PatientInv, Next
             PROVE  \A t \in Unanswered' : LastOne(t)'
  OBVIOUS
<1>0. /\ functors \in Seq(Tasks) /\ pending \in Seq(Tasks) /\ queue \in Seq(Tasks)
      /\ replies \in [Conns -> SUBSET Tasks] /\ taken \in [Conns -> 0..Requests + 1]
      /\ cur \in [Workers -> Tasks \cup {NoTask}]
      /\ doing \in [Workers -> {"idle", "process", "wakeup", "return"}]
  BY DEF ConnInv, TypeOK
<1> USE DEF clientVars, ioVars, connVars, poolVars
<1>a. Unanswered \subseteq Tasks
  <2>1. \A w \in Workers : doing[w] = "process" => cur[w] \in Tasks  BY NotYetReplied
  <2> QED  BY <1>0, <2>1 DEF Unanswered, Elements
<1>b. \A t \in Unanswered : LastOne(t)  BY DEF PatientInv
<1>1. ASSUME UNCHANGED <<taken, replies>>, Unanswered' \subseteq Unanswered
      PROVE  \A t \in Unanswered' : LastOne(t)'
  BY <1>b, <1>1 DEF LastOne
<1>2. CASE AddTask
  <2>1. PICK n \in Tasks :
           /\ n = <<at, taken[at] + 1>> /\ queue' = Append(queue, n)
           /\ taken' = [taken EXCEPT ![at] = taken[at] + 1] /\ at \in Conns
           /\ io = "push" /\ UNCHANGED <<replies, functors, pending, cur, doing>>
    BY <1>2, AddTaskEffect
  <2>2. Unanswered' = Unanswered \cup {n}
    <3>1. Elements(queue') = Elements(queue) \cup {n}  BY <1>0, <2>1, AppendIsDistinct, SMTT(30)
    <3> QED  BY <2>1, <3>1 DEF Unanswered
  <2> DEFINE k == Cardinality(replies[at])
  <2>3. taken[at] \in Nat /\ k \in Nat /\ taken[at] = k
    <3>1. Made(at) = taken[at] + 1 /\ taken[at] \in Nat  BY <2>1, Counters
    <3>2. /\ taken[at] >= k /\ Made(at) \in {k, k + 1} /\ IsFiniteSet(replies[at])
      BY <2>1 DEF PatientInv, PatientClient
    <3>3. k \in Nat  BY <3>2, FS_CardinalityType
    <3> HIDE DEF k
    <3> QED  BY <3>1, <3>2, <3>3
  <2>4. LastOne(n)'
    <3>1. n[1] = at /\ n[2] = taken[at] + 1 /\ taken'[at] = taken[at] + 1  BY <1>0, <2>1
    <3> QED  BY <2>1, <2>3, <3>1 DEF LastOne
  <2>5. ASSUME NEW t \in Unanswered PROVE LastOne(t)'
    <3>1. t[1] # at
      <4>1. t[1] = at => taken[at] = k + 1  BY <1>b DEF LastOne
      <4> HIDE DEF k
      <4> QED  BY <2>3, <4>1
    <3>2. t[1] \in Conns  BY <1>a DEF Tasks
    <3>3. taken'[t[1]] = taken[t[1]]  BY <1>0, <2>1, <3>1, <3>2
    <3> QED  BY <1>b, <2>1, <3>3 DEF LastOne
  <2> QED  BY <2>2, <2>4, <2>5
<1>3. CASE RunFunctor
  <2>1. PICK n \in Tasks :
           /\ n = Head(functors) /\ n \in Unanswered /\ LastOne(n) /\ n[1] \in Conns
           /\ replies' = [replies EXCEPT ![n[1]] = replies[n[1]] \cup {n}]
    BY <1>3, PatientReply
  <2>2. /\ functors # <<>> /\ functors' = Tail(functors)
        /\ UNCHANGED <<taken, pending, doing, queue, cur>>
    BY <1>3, FunctorEffect
  <2>3. Elements(functors) = Elements(functors') \cup {n} /\ n \notin Elements(functors')
    BY <1>0, <2>1, <2>2, TailIsDistinct DEF ReplyInv
  <2>4. n \notin Elements(pending) /\ Replied(n)  BY <2>3 DEF ReplyInv
  <2>5. n \notin Elements(queue)
    BY <2>4, ReactorAssumption DEF Replied, PlaceInv
  <2>6. \A w \in Workers : doing[w] = "process" => cur[w] # n  BY <2>4, NotYetReplied
  <2>7. n \notin Unanswered' /\ Unanswered' \subseteq Unanswered
    BY <2>2, <2>3, <2>4, <2>5, <2>6 DEF Unanswered
  <2>8. ASSUME NEW t \in Unanswered' PROVE LastOne(t)'
    <3>1. t # n /\ t \in Tasks /\ LastOne(t)  BY <1>a, <1>b, <2>7
    <3>2. t[1] # n[1]  BY <2>1, <3>1 DEF LastOne, Tasks
    <3>3. replies'[t[1]] = replies[t[1]]  BY <1>0, <2>1, <3>1, <3>2 DEF Tasks
    <3> QED  BY <2>2, <3>1, <3>3 DEF LastOne
  <2> QED  BY <2>8
<1>4. CASE SwapFunctors
  <2>1. functors' = pending /\ pending' = <<>> /\ UNCHANGED <<queue, cur, doing, taken, replies>>
    BY <1>4 DEF SwapFunctors
  <2>2. Elements(pending') = {}  BY <2>1 DEF Elements
  <2>3. Unanswered' \subseteq Unanswered  BY <2>1, <2>2 DEF Unanswered
  <2> QED  BY <1>1, <2>1, <2>3
<1>5. ASSUME NEW w \in Workers, StartTask(w) PROVE \A t \in Unanswered' : LastOne(t)'
  <2>1. /\ queue # <<>> /\ queue' = Tail(queue) /\ cur' = [cur EXCEPT ![w] = Head(queue)]
        /\ doing' = [doing EXCEPT ![w] = "process"] /\ UNCHANGED <<functors, pending, taken, replies>>
    BY <1>5 DEF StartTask, Pool!Start
  <2>2. Elements(queue) = Elements(queue') \cup {Head(queue)}  BY <1>0, <2>1, TailIsDistinct
  <2>3. Unanswered' \subseteq Unanswered  BY <1>0, <2>1, <2>2 DEF Unanswered
  <2> QED  BY <1>1, <2>1, <2>3
<1>6. ASSUME NEW w \in Workers, QueueFunctor(w) PROVE \A t \in Unanswered' : LastOne(t)'
  <2>1. /\ doing[w] = "process" /\ pending' = Append(pending, cur[w])
        /\ doing' = [doing EXCEPT ![w] = "wakeup"] /\ UNCHANGED <<functors, queue, cur, taken, replies>>
    BY <1>6 DEF QueueFunctor
  <2>2. Elements(pending') = Elements(pending) \cup {cur[w]}
    BY <1>0, <2>1, NotYetReplied, AppendIsDistinct
  <2>3. Unanswered' \subseteq Unanswered  BY <1>0, <2>1, <2>2 DEF Unanswered
  <2> QED  BY <1>1, <2>1, <2>3
<1>7. ASSUME NEW w \in Workers, Wakeup(w) \/ NoReply(w) \/ FinishTask(w)
      PROVE  \A t \in Unanswered' : LastOne(t)'
  <2>1. /\ UNCHANGED <<functors, pending, queue, taken, replies>>
        /\ \/ cur' = cur /\ doing' = [doing EXCEPT ![w] = "return"]
           \/ cur' = [cur EXCEPT ![w] = NoTask] /\ doing' = [doing EXCEPT ![w] = "idle"]
    BY <1>7 DEF Wakeup, NoReply, FinishTask, Pool!Finish
  <2>2. Unanswered' \subseteq Unanswered  BY <1>0, <2>1 DEF Unanswered
  <2> QED  BY <1>1, <2>1, <2>2
<1>8. CASE UNCHANGED <<functors, pending, queue, cur, doing, taken, replies>>
  BY <1>b, <1>8 DEF Unanswered, LastOne
<1>9. ASSUME NEW c \in Conns, ClientStep(c)
      PROVE  UNCHANGED <<functors, pending, queue, cur, doing, taken, replies>>
  BY <1>9 DEF ClientStep, Connect, SendPiece, Receive, Leave
<1>10. ASSUME IOStep, ~AddTask, ~RunFunctor, ~SwapFunctors
       PROVE  UNCHANGED <<functors, pending, queue, cur, doing, taken, replies>>
  BY <1>10 DEF IOStep, EpollWait, EndBatch, HandleNewConnection, HandleEventFd, FunctorsDone,
     HandleClose, HandleMessage, ReadPacket, ReadTorn
<1>11. CASE UNCHANGED vars  BY <1>8, <1>11 DEF vars
<1> QED
  BY <1>2, <1>3, <1>4, <1>5, <1>6, <1>7, <1>8, <1>9, <1>10, <1>11
  DEF Next, WorkerStep, EpollTimeout, Halted

-------------------------------------------------------------------------------
(* The theorems about replies *)

LEMMA IInvInit == Init => IInv
<1> SUFFICES ASSUME Init PROVE IInv
  OBVIOUS
<1> USE ReactorAssumption DEF Init, Pool!PoolInit
<1>1. ConnInv  BY ConnInit
<1>2. Elements(queue) = {} /\ Elements(functors) = {} /\ Elements(pending) = {}
  BY DEF Elements
<1>3. PlaceInv  BY <1>2 DEF PlaceInv, Distinct
<1>4. ReplyInv  BY <1>2 DEF ReplyInv, Distinct
<1>5. PatientInv
  <2>1. ASSUME NEW c \in Conns PROVE PatientClient(c)
    <3>1. IsFiniteSet(replies[c]) /\ Cardinality(replies[c]) = 0  BY FS_EmptySet
    <3>2. Made(c) = 0 /\ taken[c] = 0 /\ sent[c] = 0 /\ unread[c] = 0  BY DEF Made
    <3> QED  BY <3>1, <3>2 DEF PatientClient
  <2>2. Unanswered = {}  BY <1>2 DEF Unanswered
  <2> QED  BY <2>1, <2>2 DEF PatientInv, Down
<1> QED  BY <1>1, <1>3, <1>4, <1>5 DEF IInv

LEMMA IInvNext == IInv /\ [Next]_vars => IInv'
<1>1. ASSUME IInv, UNCHANGED vars PROVE IInv'
  <2>1. ConnInv'  BY <1>1, ConnNext DEF IInv
  <2>2. PlaceInv' /\ ReplyInv'
    BY <1>1 DEF IInv, vars, poolVars, PlaceInv, ReplyInv, Replied, Down
  <2>3. PatientInv => PatientInv'
    BY <1>1 DEF vars, poolVars, PatientInv, PatientClient, Made, Unanswered, LastOne, Down
  <2> QED  BY <1>1, <2>1, <2>2, <2>3 DEF IInv
<1>2. ASSUME IInv, Next PROVE IInv'
  <2>1. ConnInv'  BY <1>2, ConnNext DEF IInv
  <2>2. PlaceInv' /\ ReplyInv'  BY <1>2, PlaceKept, ReplyKept DEF IInv
  <2>3. Patient => PatientInv'
    BY <1>2, PatientUp, PatientRead, PatientClientKept, UnansweredKept DEF IInv, PatientInv
  <2> QED  BY <2>1, <2>2, <2>3 DEF IInv
<1> QED  BY <1>1, <1>2

LEMMA ConcatIsDistinct ==
    ASSUME NEW S, NEW s \in Seq(S), NEW u \in Seq(S),
           Distinct(s), Distinct(u), Elements(s) \cap Elements(u) = {}
    PROVE  Distinct(s \o u) /\ Elements(s \o u) = Elements(s) \cup Elements(u)
<1> DEFINE all == s \o u
<1>1. /\ Len(s) \in Nat /\ Len(u) \in Nat /\ Len(all) = Len(s) + Len(u)
      /\ \A i \in 1..Len(s) : all[i] = s[i]
      /\ \A i \in 1..Len(u) : all[Len(s) + i] = u[i]
  OBVIOUS
<1> HIDE DEF all
<1>2. \A i \in 1..Len(all) : i > Len(s) => i - Len(s) \in 1..Len(u) /\ all[i] = u[i - Len(s)]
  BY <1>1
<1>3. ASSUME NEW i \in 1..Len(all), NEW j \in 1..Len(all), all[i] = all[j] PROVE i = j
  <2>1. CASE i <= Len(s) /\ j <= Len(s)  BY <1>1, <1>3, <2>1 DEF Distinct
  <2>2. CASE i > Len(s) /\ j > Len(s)
    <3> DEFINE m == i - Len(s)  n == j - Len(s)
    <3>1. m \in 1..Len(u) /\ n \in 1..Len(u) /\ u[m] = u[n]  BY <1>2, <1>3, <2>2
    <3> HIDE DEF m, n
    <3>2. m = n  BY <3>1 DEF Distinct
    <3> QED  BY <1>1, <3>2 DEF m, n
  <2>3. \A g, h \in 1..Len(all) : g <= Len(s) /\ h > Len(s) => all[g] # all[h]
    <3> TAKE g, h \in 1..Len(all)
    <3> HAVE g <= Len(s) /\ h > Len(s)
    <3>1. all[g] \in Elements(s)  BY <1>1 DEF Elements
    <3>2. all[h] \in Elements(u)  BY <1>2 DEF Elements
    <3> QED  BY <3>1, <3>2
  <2> QED  BY <1>1, <1>3, <2>1, <2>2, <2>3
<1>4. Elements(all) \subseteq Elements(s) \cup Elements(u)  BY <1>1, <1>2 DEF Elements
<1>5. Elements(s) \cup Elements(u) \subseteq Elements(all)
  <2>1. \A i \in 1..Len(s) : i \in 1..Len(all) /\ all[i] = s[i]  BY <1>1
  <2>2. \A i \in 1..Len(u) : Len(s) + i \in 1..Len(all) /\ all[Len(s) + i] = u[i]  BY <1>1
  <2> QED  BY <2>1, <2>2 DEF Elements
<1> QED  BY <1>3, <1>4, <1>5 DEF Distinct, all

\* Clients that wait for their replies never bring the server down, neither by
\* SIGPIPE nor by a functor of a connection that is gone.
THEOREM PatientClientsAreSafe ==
    ASSUME Patient
    PROVE  Spec => []ServerSurvives
<1>1. IInv => ServerSurvives  BY DEF IInv, PatientInv, ServerSurvives
<1> QED  BY <1>1, IInvInit, IInvNext, PTL DEF Spec

\* To such a client the reply to each of its requests goes out once, whatever
\* order workers and I/O thread take, and to no other client.
THEOREM RepliesCorrect ==
    ASSUME Patient
    PROVE  Spec => []ReplyGoesOutOnce
<1>1. ASSUME IInv PROVE ReplyGoesOutOnce
  <2>1. functors \in Seq(Tasks) /\ pending \in Seq(Tasks) /\ replies \in [Conns -> SUBSET Tasks]
    BY <1>1 DEF IInv, ConnInv, TypeOK
  <2>2. /\ Distinct(functors \o pending)
        /\ Elements(functors \o pending) = Elements(functors) \cup Elements(pending)
    BY <1>1, <2>1, ConcatIsDistinct DEF IInv, ReplyInv
  <2>3. \A c \in Conns : \A t \in replies[c] :
           t[1] = c /\ t \notin Elements(functors \o pending)
    BY <1>1, <2>1, <2>2 DEF IInv, ReplyInv, PatientInv, PatientClient
  <2> QED  BY <2>2, <2>3 DEF ReplyGoesOutOnce, Distinct
<1> QED  BY <1>1, IInvInit, IInvNext, PTL DEF Spec

===============================================================================
