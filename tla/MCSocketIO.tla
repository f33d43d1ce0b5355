------------------------------- MODULE MCSocketIO -------------------------------
(* Two messages of each format, of every length that matters. *)
EXTENDS SocketIO

Message(f, t, b) == [format |-> f, type |-> t, body |-> b]

\* An int has 16 values, 7 is the largest and 8 bytes of body make a negative
\* length.
MCMessages(f) ==
    CASE f = "request" ->
            {Message(f, 1, <<>>), Message(f, 2, <<1>>), Message(f, 1, <<1, 2>>),
             Message(f, 2, <<0, 1, 0>>), Message(f, 1, <<0, 1, 0, 1, 2, 0, 0, 1>>)}
      [] f = "reply" -> {Message(f, 2, <<>>), Message(f, 1, <<2, 1>>)}
      [] f = "prefix" -> {Message(f, 0, <<>>), Message(f, 0, <<1, 2, 3>>)}
      [] f = "line" -> {Message(f, 0, <<>>), Message(f, 0, <<2, 1>>),
                        Message(f, 0, <<1, 1, 2, 2>>)}

MCScripts ==
    UNION {{<<m, n>> : m, n \in MCMessages(f)} :
              f \in {"request", "reply", "prefix", "line"}}
===============================================================================
