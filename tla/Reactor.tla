-------------------------------- MODULE Reactor --------------------------------
(***************************************************************************)
(* EventLoop, TcpConnection and MonitorServer::onMessage around the thread *)
(* pool: one I/O thread waits on epoll, reads packets and hands them over; *)
(* the workers answer by queueing functors that the I/O thread runs.       *)
(*                                                                         *)
(* The pool is TaskPool, which Threadpool implements.  The kernel          *)
(* (sockets, epoll, eventfd, descriptors) is modelled from what the code   *)
(* calls.  A request travels in two pieces, header and body, as the client *)
(* sends it in several calls; what it asks for is left to the session.     *)
(* The sockets block: a read waits for the rest of a packet and a send for *)
(* a client that reads, and with either the one I/O thread waits.          *)
(***************************************************************************)
EXTENDS Integers, Sequences, FiniteSets

CONSTANTS
    Conns,      \* the clients; each connects at most once
    Requests,   \* how many packets a client sends
    Fds,        \* the descriptors connections can have, lowest first
    Window,     \* the replies a client can leave unread before send blocks
    Workers, Capacity, NoTask,      \* see TaskPool
    NoConn,     \* no connection
    Listen,     \* the listening descriptor
    Event,      \* _event_fd
    Patient     \* every client waits for the reply before it goes on or leaves

\* The i-th packet of a connection that onMessage handed over; a last one is the
\* Packet onMessage left uninitialised.
Tasks == Conns \X (1..Requests + 1)

ASSUME ReactorAssumption ==
    /\ Requests \in Nat
    /\ Fds \subseteq Nat
    /\ Window \in Nat \ {0}
    /\ NoConn \notin Conns
    /\ NoTask \notin Tasks
    /\ Listen \notin Fds /\ Event \notin Fds
    /\ Patient \in BOOLEAN

VARIABLES
    \* the clients and the kernel
    peer,       \* the client end of each socket
    sent,       \* the pieces each client sent
    unread,     \* the pieces in the receive buffer of each socket
    replies,    \* the tasks whose reply went out to each client
    inbox,      \* how many of its replies each client has not read
    interest,   \* the descriptors of connections in the epoll set
    counter,    \* the value of _event_fd
    \* the I/O thread
    io,         \* where it stands
    batch,      \* the rest of _ready_events
    at,         \* the connection it reads from
    functors,   \* temp_vec of doPendingFunctors
    \* shared
    conns,      \* _conns
    alive,      \* the TcpConnection objects not yet destroyed
    fd,         \* the descriptor of each
    taken,      \* the tasks made of each connection
    pending,    \* _pendingFunctors, each a send of the reply to a task
    \* the workers
    doing,      \* where each stands in process()
    queue, cur, finished, closed    \* the pool

clientVars == <<sent, replies, inbox>>
ioVars == <<batch, at, functors>>
connVars == <<conns, fd, taken>>
poolVars == <<queue, cur, finished, closed>>
vars == <<peer, sent, unread, replies, inbox, interest, counter, io, batch, at,
          functors, conns, alive, fd, taken, pending, doing, poolVars>>

Pool == INSTANCE TaskPool

-------------------------------------------------------------------------------
(* Helpers *)

\* The members of a list of functors.
Elements(s) == {s[i] : i \in 1..Len(s)}

Down == io \in {"killed", "crashed"}

\* There is data, an end of file or an error for recv.
Readable(c) == unread[c] > 0 \/ peer[c] # "open"

\* recvPeek on a readable socket, by the sign of its result: data comes before
\* the end of file, and a reset that was not reported yet is an error.
RecvPeek(c) == IF unread[c] > 0 THEN 1
               ELSE IF peer[c] \in {"closed", "broken"} THEN 0 ELSE -1

\* TcpConnection::isClosed.  An error counts as open.
IsClosed(c) == RecvPeek(c) = 0

\* recvn gives up before it has header and body: end of file or an error.
RecvnReturnsShort(c) == unread[c] < 2 /\ peer[c] # "open"

FreeFds == Fds \ {fd[c] : c \in alive}
Lowest(S) == CHOOSE x \in S : \A y \in S : x <= y

\* Acceptor::accept returns the lowest free descriptor for a waiting client.
Accept(c, f) ==
    /\ peer[c] = "backlog"
    /\ FreeFds # {}
    /\ f = Lowest(FreeFds)

\* The shared_ptrs to a connection in queued tasks and in those of workers.
HeldBy(q, running) ==
    {q[i][1] : i \in 1..Len(q)}
        \cup {running[w][1] : w \in {v \in Workers : running[v] # NoTask}}
InMap(m) == {m[f] : f \in Fds} \ {NoConn}

\* ~TcpConnection closes the descriptor.  epoll forgets a closed descriptor too,
\* but handle_message has removed it long before.
DestroyUnheld(m, q, running) ==
    alive' = {c \in alive : c \in InMap(m) \cup HeldBy(q, running)}

\* send(): what the kernel does with a reply for the socket of c.  It blocks
\* while the client is there and its window is full.
Send(c, t) ==
    \/ /\ peer[c] = "open"
       /\ inbox[c] < Window
       /\ replies' = [replies EXCEPT ![c] = @ \cup {t}]
       /\ inbox' = [inbox EXCEPT ![c] = @ + 1]
       /\ io' = "run"
       /\ UNCHANGED peer
    \* The client is gone: the first reply provokes a reset, sooner or later.
    \/ /\ peer[c] = "closed"
       /\ peer' \in {peer, [peer EXCEPT ![c] = "broken"]}
       /\ io' = "run"
       /\ UNCHANGED <<replies, inbox>>
    \* A reset not yet reported is an error, and is reported once.
    \/ /\ peer[c] = "reset"
       /\ peer' = [peer EXCEPT ![c] = "broken"]
       /\ io' = "run"
       /\ UNCHANGED <<replies, inbox>>
    \* After that the signal SIGPIPE, which nothing in the server handles.
    \/ /\ peer[c] = "broken"
       /\ io' = "killed"
       /\ UNCHANGED <<peer, replies, inbox>>

-------------------------------------------------------------------------------
(* The clients *)

Connect(c) ==
    /\ peer[c] = "away"
    /\ peer' = [peer EXCEPT ![c] = "backlog"]
    /\ UNCHANGED <<clientVars, unread, interest, counter, io, ioVars, connVars,
                   alive, pending, doing, poolVars>>

\* The client has read the reply to everything it sent.
Answered(c) == sent[c] = 2 * Cardinality(replies[c]) /\ inbox[c] = 0

SendPiece(c) ==
    /\ peer[c] = "open"
    /\ sent[c] < 2 * Requests
    /\ Patient => Answered(c) \/ sent[c] % 2 = 1
    /\ sent' = [sent EXCEPT ![c] = @ + 1]
    /\ unread' = [unread EXCEPT ![c] = @ + 1]
    /\ UNCHANGED <<peer, replies, inbox, interest, counter, io, ioVars, connVars,
                   alive, pending, doing, poolVars>>

\* recv of a reply, which makes room for another.
Receive(c) ==
    /\ peer[c] = "open"
    /\ inbox[c] > 0
    /\ inbox' = [inbox EXCEPT ![c] = @ - 1]
    /\ UNCHANGED <<peer, sent, replies, unread, interest, counter, io, ioVars,
                   connVars, alive, pending, doing, poolVars>>

\* close() of a client that read everything it got sends a FIN, any other a RST.
Leave(c) ==
    /\ peer[c] = "open"
    /\ IF Patient
       THEN /\ Answered(c)
            /\ peer' = [peer EXCEPT ![c] = "closed"]
       ELSE \E end \in {"closed", "reset"} : peer' = [peer EXCEPT ![c] = end]
    /\ UNCHANGED <<clientVars, unread, interest, counter, io, ioVars, connVars,
                   alive, pending, doing, poolVars>>

-------------------------------------------------------------------------------
(* EventLoop::wait_epoll_fd and its handlers, on the I/O thread *)

Ready ==
    (IF \E c \in Conns : peer[c] = "backlog" THEN {Listen} ELSE {})
        \cup (IF counter > 0 THEN {Event} ELSE {})
        \cup {f \in interest : \E c \in alive : fd[c] = f /\ Readable(c)}

\* The order of _ready_events is the kernel's: an element of batch is picked by
\* each handler.  More than MAX_EVENTS at once is beyond the model.
EpollWait ==
    /\ io = "wait"
    /\ Ready # {}
    /\ batch' = Ready
    /\ io' = "dispatch"
    /\ UNCHANGED <<clientVars, peer, unread, interest, counter, at, functors,
                   connVars, alive, pending, doing, poolVars>>

EpollTimeout ==
    /\ io = "wait"
    /\ Ready = {}
    /\ UNCHANGED vars

EndBatch ==
    /\ io = "dispatch"
    /\ batch = {}
    /\ io' = "wait"
    /\ UNCHANGED <<clientVars, peer, unread, interest, counter, ioVars, connVars,
                   alive, pending, doing, poolVars>>

\* handle_new_connection.  accept fails when no descriptor is left, and the
\* object for descriptor -1 it then makes is reached by no event.
HandleNewConnection ==
    /\ io = "dispatch"
    /\ Listen \in batch
    /\ batch' = batch \ {Listen}
    /\ IF FreeFds = {}
       THEN UNCHANGED <<peer, interest, conns, alive, fd>>
       ELSE \E c \in Conns, f \in Fds :
               /\ Accept(c, f)
               /\ peer' = [peer EXCEPT ![c] = "open"]
               /\ fd' = [fd EXCEPT ![c] = f]
               /\ interest' = interest \cup {f}
               /\ alive' = alive \cup {c}
               \* insert does nothing when the key is taken
               /\ conns' = IF conns[f] = NoConn
                           THEN [conns EXCEPT ![f] = c]
                           ELSE conns
    /\ UNCHANGED <<clientVars, unread, counter, io, at, functors, taken, pending,
                   doing, poolVars>>

\* handleReadEvent, then doPendingFunctors up to its lock.
HandleEventFd ==
    /\ io = "dispatch"
    /\ Event \in batch
    /\ batch' = batch \ {Event}
    /\ counter' = 0
    /\ io' = "swap"
    /\ UNCHANGED <<clientVars, peer, unread, interest, at, functors, connVars,
                   alive, pending, doing, poolVars>>

\* Mutant of SwapFunctors: the list is copied and not cleared.
SwapFunctorsCopies ==
    /\ io = "swap"
    /\ functors' = pending
    /\ pending' = pending
    /\ io' = "run"
    /\ UNCHANGED <<clientVars, peer, unread, interest, counter, batch, at,
                   connVars, alive, doing, poolVars>>

SwapFunctors ==
    /\ io = "swap"
    /\ functors' = pending
    /\ pending' = <<>>
    /\ io' = "run"
    /\ UNCHANGED <<clientVars, peer, unread, interest, counter, batch, at,
                   connVars, alive, doing, poolVars>>

\* func() is TcpConnection::send bound to a plain this.  On a destroyed object
\* the descriptor it reads may be anything: the process fails, or it is the old
\* number, whoever owns it by now.
RunFunctor ==
    /\ io = "run"
    /\ functors # <<>>
    /\ functors' = Tail(functors)
    /\ LET t == Head(functors)
           owners == {c \in alive : fd[c] = fd[t[1]]} IN
       \/ /\ t[1] \in alive
          /\ Send(t[1], t)
       \/ /\ t[1] \notin alive
          /\ io' = "crashed"
          /\ UNCHANGED <<peer, replies, inbox>>
       \/ /\ t[1] \notin alive
          /\ IF owners = {}
             THEN UNCHANGED <<io, peer, replies, inbox>>
             ELSE \E c \in owners : Send(c, t)
    /\ UNCHANGED <<sent, unread, interest, counter, batch, at, connVars, alive,
                   pending, doing, poolVars>>

\* Mutant of FunctorsDone: _event_fd is read after the functors, not before.
FunctorsDoneDrains ==
    /\ io = "run"
    /\ functors = <<>>
    /\ counter' = 0
    /\ io' = "dispatch"
    /\ UNCHANGED <<clientVars, peer, unread, interest, ioVars, connVars,
                   alive, pending, doing, poolVars>>

FunctorsDone ==
    /\ io = "run"
    /\ functors = <<>>
    /\ io' = "dispatch"
    /\ UNCHANGED <<clientVars, peer, unread, interest, counter, ioVars, connVars,
                   alive, pending, doing, poolVars>>

\* Mutant of HandleClose: no EPOLL_CTL_DEL.
HandleCloseKeepsEvents(f) ==
    /\ io = "dispatch"
    /\ f \in batch
    /\ conns[f] # NoConn /\ IsClosed(conns[f])
    /\ batch' = batch \ {f}
    /\ interest' = interest
    /\ conns' = [conns EXCEPT ![f] = NoConn]
    /\ DestroyUnheld(conns', queue, cur)
    /\ UNCHANGED <<clientVars, peer, unread, counter, io, at, functors, fd, taken,
                   pending, doing, poolVars>>

\* Mutant of HandleClose: the descriptor is closed under the tasks that hold it.
HandleCloseAtOnce(f) ==
    /\ io = "dispatch"
    /\ f \in batch
    /\ conns[f] # NoConn /\ IsClosed(conns[f])
    /\ batch' = batch \ {f}
    /\ interest' = interest \ {f}
    /\ conns' = [conns EXCEPT ![f] = NoConn]
    /\ alive' = alive \ {conns[f]}
    /\ UNCHANGED <<clientVars, peer, unread, counter, io, at, functors, fd, taken,
                   pending, doing, poolVars>>


\* handle_message of a connection the client has closed: _onClose, EPOLL_CTL_DEL
\* and erase, which destroys the connection unless a task holds it.
HandleClose(f) ==
    /\ io = "dispatch"
    /\ f \in batch
    /\ conns[f] # NoConn /\ IsClosed(conns[f])
    /\ batch' = batch \ {f}
    /\ interest' = interest \ {f}
    /\ conns' = [conns EXCEPT ![f] = NoConn]
    /\ DestroyUnheld(conns', queue, cur)
    /\ UNCHANGED <<clientVars, peer, unread, counter, io, at, functors, fd, taken,
                   pending, doing, poolVars>>

\* handle_message otherwise: onMessage up to the recv calls of readPacket.  The
\* peek of isClosed blocks without data and reports a reset, once.
HandleMessage(f) ==
    /\ io = "dispatch"
    /\ f \in batch
    /\ batch' = batch \ {f}
    /\ IF conns[f] = NoConn
       THEN UNCHANGED <<io, at, peer>>
       ELSE LET c == conns[f] IN
            /\ Readable(c)
            /\ ~IsClosed(c)
            /\ at' = c
            /\ io' = "read"
            /\ peer' = IF unread[c] = 0 THEN [peer EXCEPT ![c] = "broken"] ELSE peer
    /\ UNCHANGED <<clientVars, unread, interest, counter, functors, connVars, alive,
                   pending, doing, poolVars>>

\* Mutant of ReadPacket: it does not wait for the body.
ReadPacketEarly ==
    /\ io = "read"
    /\ unread[at] >= 1
    /\ unread' = [unread EXCEPT ![at] = @ - 2]
    /\ io' = "push"
    /\ UNCHANGED <<clientVars, peer, interest, counter, ioVars, connVars, alive,
                   pending, doing, poolVars>>

\* readPacket gets header and body; it blocks while a piece is missing.
ReadPacket ==
    /\ io = "read"
    /\ unread[at] >= 2
    /\ unread' = [unread EXCEPT ![at] = @ - 2]
    /\ io' = "push"
    /\ UNCHANGED <<clientVars, peer, interest, counter, ioVars, connVars, alive,
                   pending, doing, poolVars>>

\* readPacket returns -1, which onMessage ignores: packet.type was never set, and
\* the switch makes a task of it or not.
ReadTorn ==
    /\ io = "read"
    /\ RecvnReturnsShort(at)
    /\ unread' = [unread EXCEPT ![at] = 0]
    /\ peer' = IF peer[at] = "reset" THEN [peer EXCEPT ![at] = "broken"] ELSE peer
    /\ io' \in {"push", "dispatch"}
    /\ UNCHANGED <<clientVars, interest, counter, ioVars, connVars, alive, pending,
                   doing, poolVars>>

\* addTask, which blocks while the queue is full.
AddTask ==
    /\ io = "push"
    /\ LET t == <<at, taken[at] + 1>> IN
       /\ Pool!Submit(t)
       /\ taken' = [taken EXCEPT ![at] = @ + 1]
    /\ io' = "dispatch"
    /\ UNCHANGED <<clientVars, peer, unread, interest, counter, ioVars, conns, fd,
                   alive, pending, doing>>

-------------------------------------------------------------------------------
(* A worker of the pool in process() of one of the sections *)

StartTask(w) ==
    /\ ~Down
    /\ Pool!Start(w)
    /\ doing' = [doing EXCEPT ![w] = "process"]
    /\ UNCHANGED <<clientVars, peer, unread, interest, counter, io, ioVars,
                   connVars, alive, taken, pending>>

\* sendInLoop and run_in_loop: the functor is queued under _mutex ...
QueueFunctor(w) ==
    /\ ~Down
    /\ doing[w] = "process"
    /\ pending' = Append(pending, cur[w])
    /\ doing' = [doing EXCEPT ![w] = "wakeup"]
    /\ UNCHANGED <<clientVars, peer, unread, interest, counter, io, ioVars,
                   connVars, alive, poolVars>>

\* Mutant of Wakeup: _event_fd is not written.
WakeupSilent(w) ==
    /\ ~Down
    /\ doing[w] = "wakeup"
    /\ counter' = counter
    /\ doing' = [doing EXCEPT ![w] = "return"]
    /\ UNCHANGED <<clientVars, peer, unread, interest, io, ioVars, connVars, alive,
                   pending, poolVars>>

\* ... and the I/O thread is woken after it.
Wakeup(w) ==
    /\ ~Down
    /\ doing[w] = "wakeup"
    /\ counter' = counter + 1
    /\ doing' = [doing EXCEPT ![w] = "return"]
    /\ UNCHANGED <<clientVars, peer, unread, interest, io, ioVars, connVars, alive,
                   pending, poolVars>>

\* The paths of UserLoginSection2 that return without a reply.
NoReply(w) ==
    /\ ~Down
    /\ doing[w] = "process"
    /\ doing' = [doing EXCEPT ![w] = "return"]
    /\ UNCHANGED <<clientVars, peer, unread, interest, counter, io, ioVars,
                   connVars, alive, pending, poolVars>>

\* Mutant of FinishTask: run_in_loop waits until its functor ran.
FinishTaskOnceSent(w) ==
    /\ ~Down
    /\ doing[w] = "return"
    /\ cur[w] \notin Elements(pending) \cup Elements(functors)
    /\ Pool!Finish(w)
    /\ doing' = [doing EXCEPT ![w] = "idle"]
    /\ DestroyUnheld(conns, queue, cur')
    /\ UNCHANGED <<clientVars, peer, unread, interest, counter, io, ioVars,
                   connVars, pending>>

\* The task is destroyed, and with it what may be the last shared_ptr.
FinishTask(w) ==
    /\ ~Down
    /\ doing[w] = "return"
    /\ Pool!Finish(w)
    /\ doing' = [doing EXCEPT ![w] = "idle"]
    /\ DestroyUnheld(conns, queue, cur')
    /\ UNCHANGED <<clientVars, peer, unread, interest, counter, io, ioVars,
                   connVars, pending>>

-------------------------------------------------------------------------------
\* The process is gone.
Halted ==
    /\ Down
    /\ UNCHANGED vars

Init ==
    /\ peer = [c \in Conns |-> "away"]
    /\ sent = [c \in Conns |-> 0]
    /\ unread = [c \in Conns |-> 0]
    /\ replies = [c \in Conns |-> {}]
    /\ inbox = [c \in Conns |-> 0]
    /\ interest = {}
    /\ counter = 0
    /\ io = "wait"
    /\ batch = {}
    /\ at = NoConn
    /\ functors = <<>>
    /\ conns = [f \in Fds |-> NoConn]
    /\ alive = {}
    /\ fd = [c \in Conns |-> 0]
    /\ taken = [c \in Conns |-> 0]
    /\ pending = <<>>
    /\ doing = [w \in Workers |-> "idle"]
    /\ Pool!PoolInit

ClientStep(c) == Connect(c) \/ SendPiece(c) \/ Receive(c) \/ Leave(c)

IOStep ==
    \/ EpollWait
    \/ EndBatch
    \/ HandleNewConnection
    \/ HandleEventFd
    \/ SwapFunctors
    \/ RunFunctor
    \/ FunctorsDone
    \/ \E f \in Fds : HandleClose(f) \/ HandleMessage(f)
    \/ ReadPacket
    \/ ReadTorn
    \/ AddTask

WorkerStep(w) ==
    \/ StartTask(w)
    \/ QueueFunctor(w)
    \/ Wakeup(w)
    \/ NoReply(w)
    \/ FinishTask(w)

Next ==
    \/ \E c \in Conns : ClientStep(c)
    \/ IOStep
    \/ EpollTimeout
    \/ \E w \in Workers : WorkerStep(w)
    \/ Halted

Spec == Init /\ [][Next]_vars

\* Every thread of the server that can run does.  Clients owe nothing.
Fairness ==
    /\ WF_vars(IOStep)
    /\ \A w \in Workers : WF_vars(WorkerStep(w))

FairSpec == Spec /\ Fairness

\* What the blocking socket calls of the I/O thread expect of every client: that it
\* finishes the packet it began and reads its replies.
ClientsGoOn ==
    \A c \in Conns :
        /\ WF_vars(SendPiece(c) /\ sent[c] % 2 = 1)
        /\ WF_vars(Receive(c))

FairSpecOfGoodClients == FairSpec /\ ClientsGoOn
-------------------------------------------------------------------------------
(* Properties *)

\* The values of every variable; the pool is never closed, since nothing calls
\* EventLoop::unloop.
TypeOK ==
    /\ peer \in [Conns -> {"away", "backlog", "open", "closed", "reset", "broken"}]
    /\ sent \in [Conns -> 0..2 * Requests]
    /\ unread \in [Conns -> 0..2 * Requests]
    /\ replies \in [Conns -> SUBSET Tasks]
    /\ inbox \in [Conns -> 0..Window]
    /\ interest \in SUBSET Fds
    /\ counter \in Nat
    /\ io \in {"wait", "dispatch", "read", "push", "swap", "run", "killed", "crashed"}
    /\ batch \in SUBSET (Fds \cup {Listen, Event})
    /\ at \in Conns \cup {NoConn}
    /\ functors \in Seq(Tasks)
    /\ conns \in [Fds -> Conns \cup {NoConn}]
    /\ alive \in SUBSET Conns
    /\ fd \in [Conns -> Fds \cup {0}]
    /\ taken \in [Conns -> 0..Requests + 1]
    /\ pending \in Seq(Tasks)
    /\ doing \in [Workers -> {"idle", "process", "wakeup", "return"}]
    /\ queue \in Seq(Tasks)
    /\ cur \in [Workers -> Tasks \cup {NoTask}]
    /\ finished \in SUBSET Tasks
    /\ closed = FALSE

\* An event left in _ready_events still speaks of the connection it was raised
\* for: the earlier events of its batch neither removed that connection nor gave
\* its descriptor to another, so the peek of isClosed never blocks the I/O thread.
EventIsCurrent ==
    ~Down => \A f \in batch \cap Fds : conns[f] # NoConn /\ Readable(conns[f])

\* While a task, a worker or _conns refers to a connection its descriptor stays
\* its own: accept cannot hand the number to another client in between.
DescriptorHasOneOwner ==
    /\ \A c, d \in alive : fd[c] = fd[d] => c = d
    /\ HeldBy(queue, cur) \subseteq alive
    /\ \A f \in Fds : conns[f] # NoConn => conns[f] \in alive /\ fd[conns[f]] = f

\* A queued functor is never forgotten: _event_fd is readable, or about to be, or
\* the I/O thread is about to swap.
WakeupIsNotLost ==
    pending # <<>> =>
        \/ counter > 0
        \/ io = "swap"
        \/ \E w \in Workers : doing[w] = "wakeup"
        \/ Down

\* The reply to a request goes out once, and to the client that asked.
ReplyGoesOutOnce ==
    LET out == functors \o pending IN
    /\ \A i, j \in 1..Len(out) : out[i] = out[j] => i = j
    /\ \A c \in Conns :
          \A t \in replies[c] : t[1] = c /\ t \notin Elements(out)

\* Clients that wait for their replies never bring the server down.
ServerSurvives == ~Down

\* "Safely submit a Functor to the I/O thread" (EventLoop.cpp:118): the object a
\* functor is bound to exists when it runs.
FunctorTargetExists ==
    io = "run" /\ functors # <<>> => Head(functors)[1] \in alive

\* A reply that was queued goes out to a client that waits for it, if all clients
\* go on (ClientsGoOn): one that does not can stop the replies of the others.  A
\* client for which accept finds no descriptor, over and over, does not.
ReplyIsSent ==
    \A t \in Tasks : t \in Elements(pending) ~> t \in replies[t[1]]

\* The I/O thread is in a blocking call that only c can end, by going on or leaving:
\* c stopped in the middle of a packet, or does not read its replies.
BlockedBy(c) ==
    /\ peer[c] = "open"
    /\ \/ io = "read" /\ at = c /\ unread[c] < 2
       \/ io = "run" /\ functors # <<>> /\ Head(functors)[1] = c /\ inbox[c] = Window

\* Whatever the clients do, nothing but one client that stops for ever keeps the
\* I/O thread in a handler: not the full queue of the pool, whose workers must not
\* wait for the I/O thread in turn, and not a client that left in the middle of a
\* packet or with its replies unread.
HandlersReturn ==
    io # "wait" ~> (io = "wait" \/ Down \/ \E c \in Conns : []BlockedBy(c))

===============================================================================
