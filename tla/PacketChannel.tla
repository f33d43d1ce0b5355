---------------------------- MODULE PacketChannel ----------------------------
(***************************************************************************)
(* What framing promises about one direction of a connection: messages     *)
(* come out as they went in, in their order, until the reader gives up.    *)
(* It gives up for a reason: the writer left, or the message that is next  *)
(* is one the format does not carry safely.                                *)
(***************************************************************************)
EXTENDS Naturals, Sequences

CONSTANTS
    Messages,   \* what may be sent
    Fragile     \* the messages a reader may give up on

VARIABLES
    sent,       \* the messages the writer began, in order
    read,       \* the messages the reader returned, in order
    closed,     \* the writer left
    broken      \* the reader gave up

vars == <<sent, read, closed, broken>>

Init ==
    /\ sent = <<>>
    /\ read = <<>>
    /\ closed = FALSE
    /\ broken = FALSE

NextMessage == sent[Len(read) + 1]

Send(m) ==
    /\ ~closed
    /\ sent' = Append(sent, m)
    /\ UNCHANGED <<read, closed, broken>>

Deliver ==
    /\ ~broken
    /\ Len(read) < Len(sent)
    /\ read' = Append(read, NextMessage)
    /\ UNCHANGED <<sent, closed, broken>>

Close ==
    /\ closed' = TRUE
    /\ UNCHANGED <<sent, read, broken>>

GiveUp ==
    /\ Len(read) < Len(sent)
    /\ closed \/ NextMessage \in Fragile
    /\ broken' = TRUE
    /\ UNCHANGED <<sent, read, closed>>

Next == (\E m \in Messages : Send(m)) \/ Deliver \/ Close \/ GiveUp

ChannelSpec == Init /\ [][Next]_vars
===============================================================================
