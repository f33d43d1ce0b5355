----------------------------------- MODULE Http -----------------------------------
(***************************************************************************)
(* HttpRequestParser::parse, and HttpClient::HeaderCallBack, which libcurl *)
(* calls with each header line of a response.                              *)
(***************************************************************************)
EXTENDS Text

Spaces == {" "}     \* " \t"

-------------------------------------------------------------------------------
(* HttpRequestParser::parse *)

StripCR(line) == IF line # <<>> /\ Last(line) = "CR" THEN Front(line) ELSE line

\* Mutant of PutHeader: insert in place of operator[], the first value of a name stays.
PutHeaderOnce(headers, line) ==
    LET colon == Find(line, ":")
        key == Trim(SubSeq(line, 1, colon - 1), Spaces)
    IN  IF colon = 0 \/ key \in DOMAIN headers THEN headers
        ELSE Put(headers, key, Trim(SubSeq(line, colon + 1, Len(line)), Spaces))

\* A header line; one without a colon is skipped.
PutHeader(headers, line) ==
    LET colon == Find(line, ":") IN
    IF colon = 0 THEN headers
    ELSE Put(headers, Trim(SubSeq(line, 1, colon - 1), Spaces),
                      Trim(SubSeq(line, colon + 1, Len(line)), Spaces))

\* The number of the empty line that ends the headers, or the last line but one.
HeaderEnd(lines) ==
    Min({i \in 2..Len(lines) : StripCR(lines[i]) = <<>>} \cup {Len(lines) + 1})

Join(lines) ==
    FoldLeft(LAMBDA body, line : body \o line \o <<"NL">>, <<>>, lines)

\* Mutant of Body: the final newline stays.
BodyOf(lines) == Join(lines)

\* The lines behind the headers, each with a newline, but for the last one.
Body(lines) == IF lines = <<>> THEN <<>> ELSE Front(Join(lines))

Parse(raw) ==
    LET lines == Lines(raw)
        end == HeaderEnd(lines)
        line1 == IF lines = <<>> THEN <<>> ELSE lines[1]
    IN  [method |-> Word(line1, 1), path |-> Word(line1, 2), version |-> Word(line1, 3),
         headers |-> FoldLeft(LAMBDA h, line : PutHeader(h, StripCR(line)),
                              NoMap, SubSeq(lines, 2, end - 1)),
         body |-> Body(SubSeq(lines, end + 1, Len(lines)))]

-------------------------------------------------------------------------------
(* HttpClient::HeaderCallBack *)

\* value.erase(value.find_last_not_of(...)), without the + 1: the last character
\* goes too, and erase throws at npos.
EraseFromLast(s, C) == SubSeq(s, 1, LastNotOf(s, C) - 1)

\* The headers after one line; throws stays set once value.erase threw.
HeaderCallBack(got, line) ==
    LET colon == Find(line, ":")
        value == EraseLeading(SubSeq(line, colon + 1, Len(line)), Blanks)
    IN  IF got.throws \/ colon = 0 THEN got
        ELSE IF value = <<>> THEN [got EXCEPT !.throws = TRUE]
        ELSE [got EXCEPT !.headers =
                  Put(@, Trim(SubSeq(line, 1, colon - 1), Blanks),
                         EraseFromLast(value, Blanks))]

\* What request collects: libcurl passes the lines one after the other.
request(lines) ==
    FoldLeft(HeaderCallBack, [throws |-> FALSE, headers |-> NoMap], lines)

-------------------------------------------------------------------------------
(* Properties *)

\* Where the body of text begins: behind the first empty line after the first
\* line, if there is one.
EndsHeaders(i) ==
    /\ text[i] = "NL"
    /\ \/ i > 1 /\ text[i - 1] = "NL"
       \/ i > 2 /\ text[i - 1] = "CR" /\ text[i - 2] = "NL"
BodyStart == Min({i \in 1..Len(text) : EndsHeaders(i)} \cup {Len(text)}) + 1

\* A body goes through the parser as it is, carriage returns and empty lines
\* included, but for one final newline, which it loses.
BodyIsKept ==
    LET body == SubSeq(text, BodyStart, Len(text)) IN
    Parse(text).body =
        IF body # <<>> /\ Last(body) = "NL" THEN Front(body) ELSE body

\* The client files each value under the name the parser files it under, also when a
\* name comes twice: as long as its callback has not thrown, it has the names the
\* parser has, and under each of them a beginning of the parser's value.
ValuesStayWithNames ==
    LET lines == [i \in 1..Len(Lines(text)) |-> Lines(text)[i] \o <<"CR", "NL">>]
        parsed == Parse(<<"NL">> \o FlattenSeq(lines)).headers
        got == request(lines)
    IN  ~Contains(text, "CR") /\ <<>> \notin ToSet(Lines(text)) /\ ~got.throws =>
            /\ DOMAIN got.headers = DOMAIN parsed
            /\ \A name \in DOMAIN parsed :
                  got.headers[name] = SubSeq(parsed[name], 1, Len(got.headers[name]))

\* "Remove blanks and newlines at both ends" (HttpClient.hpp:66): the callback stores
\* the value of a header line without them, and with everything else.
HeadersAreStripped ==
    LET colon == Find(text, ":") IN
    colon # 0 =>
        request(<<text>>) =
            [throws |-> FALSE,
             headers |-> Put(NoMap, Trim(SubSeq(text, 1, colon - 1), Blanks),
                                    Trim(SubSeq(text, colon + 1, Len(text)), Blanks))]
===============================================================================
