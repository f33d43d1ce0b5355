-------------------------------- MODULE SocketIO --------------------------------
(***************************************************************************)
(* SocketIO and its callers: messages over a byte stream that delivers any *)
(* part of what was written.                                               *)
(*                                                                         *)
(* One direction of one connection, in one of the four formats in use:     *)
(*   request   three sends of Client_Demo, read by readPacket              *)
(*   reply     sendInLoop of a TLV, read by Client_Demo, one recv a field  *)
(*   prefix    sendWithPrefix, read by receiveWithPrefix                   *)
(*   line      send of a text, read by receive, which is readline          *)
(*                                                                         *)
(* An int has Word bytes of Base values each instead of 4 of 256, in       *)
(* two's complement; MAX_PACKET_SIZE and the socket buffer shrink with it. *)
(* A recv that EINTR interrupts is repeated, hence no step of its own.     *)
(***************************************************************************)
EXTENDS Integers, SequencesExt

CONSTANTS
    Base, Word,         \* the values of a byte, the bytes of an int
    MAX_PACKET_SIZE,
    Room,               \* what the kernel buffers of one direction
    MaxLine,            \* maxlen of readline
    NewLine,
    Scripts             \* what writers send: sequences of messages of one format

ASSUME SocketIOAssumption ==
    /\ Base \in Nat /\ Word \in Nat \ {0} /\ Room \in Nat \ {0}
    /\ MAX_PACKET_SIZE \in Nat /\ MaxLine \in Nat
    /\ NewLine \in 1..(Base - 1)

Bytes == 0..(Base - 1)

\* Base to the power of k, and what fits an int.
Power[k \in 0..Word] == IF k = 0 THEN 1 ELSE Base * Power[k - 1]
Ints == (Power[Word] \div 2 - Power[Word])..(Power[Word] \div 2 - 1)

\* What the callers send: a length that fits an int (a request's may become negative),
\* a text of one line.  Only TLVs have a type.
MessageType ==
    {m \in [format : {"request", "reply", "prefix", "line"}, type : Ints, body : Seq(Bytes)] :
        /\ m.format = "request" => Len(m.body) < Power[Word]
        /\ m.format \in {"reply", "prefix"} => Len(m.body) \in Ints
        /\ m.format \in {"prefix", "line"} => m.type = 0
        /\ m.format = "line" => \A i \in 1..Len(m.body) : m.body[i] # NewLine}

ASSUME ScriptAssumption ==
    \A s \in Scripts :
        /\ s \in Seq(MessageType)
        /\ \A i \in 1..Len(s) : s[i].format = s[1].format

VARIABLES
    todo,       \* the messages the writer has not begun
    out,        \* the bytes left in its send
    sent,       \* the messages it began
    whole,      \* how many of them the kernel got entirely
    wire,       \* the bytes the reader has not taken
    ended,      \* the writer closed its end, or died
    stage,      \* the field the reader waits for
    buf,        \* what it has of that field
    type, length,
    read,       \* the messages it returned
    gaveUp      \* it returned -1, or ""

writerVars == <<todo, out, sent, whole>>
readerVars == <<stage, buf, type, length, read, gaveUp>>
vars == <<writerVars, wire, ended, readerVars>>

-------------------------------------------------------------------------------
(* Encoding *)

\* htonl, of an int or of a size_t that is assigned to one.
Htonl(n) == [i \in 1..Word |-> (n \div Power[Word - i]) % Base]

\* ntohl into a uint32_t, and into an int.
Ntohl(b) ==
    LET value[i \in 0..Len(b)] == IF i = 0 THEN 0 ELSE Base * value[i - 1] + b[i]
    IN  value[Len(b)]
Signed(n) == IF n < Power[Word] \div 2 THEN n ELSE n - Power[Word]

Encode(m) ==
    CASE m.format \in {"request", "reply"} ->
            Htonl(m.type) \o Htonl(Len(m.body)) \o m.body
      [] m.format = "prefix" -> Htonl(Len(m.body)) \o m.body
      [] m.format = "line" -> Append(m.body, NewLine)

\* The format of the connection, once there is something to read.
Format == sent[1].format

-------------------------------------------------------------------------------
(* The writer *)

Begin ==
    /\ ~ended
    /\ out = <<>>
    /\ todo # <<>>
    /\ out' = Encode(Head(todo))
    /\ todo' = Tail(todo)
    /\ sent' = Append(sent, Head(todo))
    /\ UNCHANGED <<whole, wire, ended, readerVars>>

\* Mutant of Send: sendn does not send what the first send left.
SendOnce(k) ==
    /\ k <= Len(out)
    /\ Len(wire) + k <= Room
    /\ wire' = wire \o SubSeq(out, 1, k)
    /\ out' = <<>>
    /\ whole' = whole + 1
    /\ UNCHANGED <<todo, sent, ended, readerVars>>

\* One send of the loop of sendn: the kernel takes k bytes.
Send(k) ==
    /\ k <= Len(out)
    /\ Len(wire) + k <= Room
    /\ wire' = wire \o SubSeq(out, 1, k)
    /\ out' = SubSeq(out, k + 1, Len(out))
    /\ whole' = IF k = Len(out) THEN whole + 1 ELSE whole
    /\ UNCHANGED <<todo, sent, ended, readerVars>>

\* In the middle of a message or after it.
HangUp ==
    /\ ~ended
    /\ ended' = TRUE
    /\ todo' = <<>>
    /\ out' = <<>>
    /\ UNCHANGED <<sent, whole, wire, readerVars>>

-------------------------------------------------------------------------------
(* readPacket, receiveWithPrefix and the client's reads, field by field *)

Call ==
    /\ stage = "idle"
    /\ wire # <<>>
    /\ Format # "line"
    /\ stage' = IF Format = "prefix" THEN "length" ELSE "type"
    /\ buf' = <<>>
    /\ UNCHANGED <<writerVars, wire, ended, type, length, read, gaveUp>>

\* The bytes of the field: recvn of a count that is not positive reads nothing.
FieldSize == IF stage = "value" THEN length ELSE Word
Missing == FieldSize - Len(buf)
Reading == stage \in {"type", "length", "value"}

\* Mutant of Recv: recvn is content with what the first recv returns.
RecvOnce(k) ==
    /\ Reading
    /\ k <= Missing /\ k <= Len(wire)
    /\ buf' = buf \o SubSeq(wire, 1, k) \o [i \in 1..(Missing - k) |-> 0]
    /\ wire' = SubSeq(wire, k + 1, Len(wire))
    /\ UNCHANGED <<writerVars, ended, stage, type, length, read, gaveUp>>

\* One recv returns k bytes.  recvn goes on for the rest; the client does not,
\* and is out of step: what it makes of the field is not followed any further.
Recv(k) ==
    /\ Reading
    /\ k <= Missing /\ k <= Len(wire)
    /\ buf' = buf \o SubSeq(wire, 1, k)
    /\ wire' = SubSeq(wire, k + 1, Len(wire))
    /\ stage' = IF Format = "reply" /\ k < Missing THEN "torn" ELSE stage
    /\ UNCHANGED <<writerVars, ended, type, length, read, gaveUp>>

\* End of file or a reset in the middle of a field.
RecvShort ==
    /\ Reading
    /\ Missing > 0
    /\ wire = <<>>
    /\ ended
    /\ stage' = IF Format = "reply" THEN "torn" ELSE "idle"
    /\ gaveUp' = TRUE
    /\ UNCHANGED <<writerVars, wire, ended, buf, type, length, read>>

TypeRead ==
    /\ stage = "type"
    /\ Missing = 0
    /\ type' = Signed(Ntohl(buf))
    /\ stage' = "length"
    /\ buf' = <<>>
    /\ UNCHANGED <<writerVars, wire, ended, length, read, gaveUp>>

\* Mutant of LengthRead: the length is not looked at.
LengthReadUnchecked ==
    /\ stage = "length"
    /\ Missing = 0
    /\ length' = Signed(Ntohl(buf))
    /\ stage' = "value"
    /\ buf' = <<>>
    /\ UNCHANGED <<writerVars, wire, ended, type, read, gaveUp>>

\* readPacket rejects a bad length, and leaves the body on the wire.
LengthRead ==
    /\ stage = "length"
    /\ Missing = 0
    /\ length' = Signed(Ntohl(buf))
    /\ buf' = <<>>
    /\ IF Format = "request" /\ (length' < 0 \/ length' > MAX_PACKET_SIZE)
       THEN stage' = "idle" /\ gaveUp' = TRUE
       ELSE stage' = "value" /\ UNCHANGED gaveUp
    /\ UNCHANGED <<writerVars, wire, ended, type, read>>

\* The message is returned.  What comes after a failure is not recorded.
Return(m) ==
    /\ stage' = "idle"
    /\ read' = IF gaveUp THEN read ELSE Append(read, m)

ValueRead ==
    /\ stage = "value"
    /\ Missing <= 0
    /\ Return([format |-> Format, type |-> type, body |-> buf])
    /\ UNCHANGED <<writerVars, wire, ended, buf, type, length, gaveUp>>

-------------------------------------------------------------------------------
(* readline *)

\* The first newline among the bytes recvPeek sees.
Peeked == SubSeq(wire, 1, IF Len(wire) < MaxLine THEN Len(wire) ELSE MaxLine)
LineEnd == SelectInSeq(Peeked, LAMBDA b : b = NewLine)

\* Mutant of ReadLine: recvn takes the line without its newline.
ReadLineShort ==
    /\ stage = "idle"
    /\ wire # <<>>
    /\ Format = "line"
    /\ LineEnd > 0
    /\ Return([format |-> "line", type |-> 0, body |-> SubSeq(wire, 1, LineEnd - 1)])
    /\ wire' = SubSeq(wire, LineEnd, Len(wire))
    /\ UNCHANGED <<writerVars, ended, buf, type, length, gaveUp>>

\* The line is there: recvn takes it with its newline.
ReadLine ==
    /\ stage = "idle"
    /\ wire # <<>>
    /\ Format = "line"
    /\ LineEnd > 0
    /\ Return([format |-> "line", type |-> 0, body |-> SubSeq(wire, 1, LineEnd - 1)])
    /\ wire' = SubSeq(wire, LineEnd + 1, Len(wire))
    /\ UNCHANGED <<writerVars, ended, buf, type, length, gaveUp>>

\* Only a part of it is: that part is taken, the next peek goes to the start of
\* the buffer while the search goes on behind it, and at the end of the stream
\* the loop never ends.  What the buffer then holds is not followed any further.
ReadLinePart ==
    /\ stage = "idle"
    /\ wire # <<>>
    /\ Format = "line"
    /\ LineEnd = 0
    /\ wire' = SubSeq(wire, Len(Peeked) + 1, Len(wire))
    /\ stage' = "torn"
    /\ UNCHANGED <<writerVars, ended, buf, type, length, read, gaveUp>>

-------------------------------------------------------------------------------
Init ==
    /\ todo \in Scripts
    /\ out = <<>> /\ sent = <<>> /\ whole = 0
    /\ wire = <<>> /\ ended = FALSE
    /\ stage = "idle" /\ buf = <<>>
    /\ type = 0 /\ length = 0
    /\ read = <<>> /\ gaveUp = FALSE

WriterStep ==
    \/ Begin
    \/ \E k \in 1..Room : Send(k)

ReaderStep ==
    \/ Call
    \/ \E k \in 1..Room : Recv(k)
    \/ RecvShort
    \/ TypeRead
    \/ LengthRead
    \/ ValueRead
    \/ ReadLine
    \/ ReadLinePart

\* Nothing more to come and nobody reads, or the reader never returns.
Terminated ==
    /\ stage = "torn" \/ (ended /\ wire = <<>>)
    /\ UNCHANGED vars

Next == WriterStep \/ HangUp \/ ReaderStep \/ Terminated

Spec == Init /\ [][Next]_vars

\* A blocked send goes on when there is room; the event loop calls readPacket
\* again while the socket is readable.
FairSpec == Spec /\ WF_vars(WriterStep) /\ WF_vars(ReaderStep)

-------------------------------------------------------------------------------
(* Properties *)

\* The values of every variable; an unread stream never outgrows its buffer, and
\* a field never gets more bytes than it has.
TypeOK ==
    /\ wire \in Seq(Bytes) /\ Len(wire) <= Room
    /\ out \in Seq(Bytes)
    /\ whole <= Len(sent) /\ Len(read) <= whole
    /\ ended \in BOOLEAN /\ gaveUp \in BOOLEAN
    /\ stage \in {"idle", "type", "length", "value", "torn"}
    /\ Reading => Len(buf) <= (IF FieldSize < 0 THEN 0 ELSE FieldSize)
    /\ type \in -Power[Word]..Power[Word]
    /\ length \in -Power[Word]..Power[Word]

\* The messages of s behind the first k, as bytes.
StreamOf(s, k) == FlattenSeq([i \in 1..(Len(s) - k) |-> Encode(s[k + i])])

\* Between two calls the stream stands at the start of a message: what is left of
\* it is the messages not yet read, byte for byte, however they were cut up.
StreamInStep ==
    LET unread == StreamOf(sent, Len(read))
    IN  stage = "idle" /\ ~gaveUp =>
            IF ended THEN IsPrefix(wire, unread) ELSE wire \o out = unread

\* The messages whose reader may lose them: a length readPacket rejects, and
\* whatever relies on a message arriving in one piece.
Sendable == UNION {ToSet(s) : s \in Scripts}
FragileMessages ==
    {m \in Sendable :
        \/ m.format \in {"reply", "line"}
        \/ /\ m.format = "request"
           /\ Signed(Ntohl(Htonl(Len(m.body)))) \notin 0..MAX_PACKET_SIZE}

\* Requests and prefixed messages come out as they went in, and readPacket fails
\* only at an oversized packet or when the writer left: a channel of messages.
Channel == INSTANCE PacketChannel WITH
              Messages <- Sendable, Fragile <- FragileMessages,
              closed <- ended, broken <- (gaveUp \/ stage = "torn")
ImplementsChannel == Channel!ChannelSpec

\* A message the kernel got entirely is read, even if its writer left then,
\* unless the reader gave up.
EveryMessageIsRead ==
    \A i \in 1..Max({Len(s) : s \in Scripts}) :
        whole >= i ~> (Len(read) >= i \/ gaveUp \/ stage = "torn")
===============================================================================
