---------------------------------- MODULE Text ----------------------------------
(***************************************************************************)
(* The parts of std::string and std::istringstream that the small text     *)
(* programs of the repository use, and every text up to a length as their  *)
(* input: it is typed one character after the other.                       *)
(*                                                                         *)
(* A character is a string of TLA+, "CR" and "NL" the control characters;  *)
(* a position is an index from 1, and 0 stands for npos.                   *)
(***************************************************************************)
EXTENDS Naturals, SequencesExt

CONSTANTS
    Alphabets,  \* sets of characters; a text is over one of them
    MaxText     \* bound of its length

VARIABLES alphabet, text

textVars == <<alphabet, text>>

Blanks == {" ", "CR", "NL"}

\* Whether word stands in s at i.
OccursAt(word, s, i) ==
    i + Len(word) - 1 <= Len(s) /\ SubSeq(s, i, i + Len(word) - 1) = word

\* find, find_first_not_of, find_last_not_of
Find(s, c) == SelectInSeq(s, LAMBDA x : x = c)
FirstNotOf(s, C) == SelectInSeq(s, LAMBDA x : x \notin C)
LastNotOf(s, C) == SelectLastInSeq(s, LAMBDA x : x \notin C)

\* erase(0, find_first_not_of(C)), which erases everything if there is none.
EraseLeading(s, C) ==
    IF FirstNotOf(s, C) = 0 THEN <<>> ELSE SubSeq(s, FirstNotOf(s, C), Len(s))

\* erase(find_last_not_of(C) + 1)
EraseTrailing(s, C) == SubSeq(s, 1, LastNotOf(s, C))

Trim(s, C) == EraseTrailing(EraseLeading(s, C), C)

\* The pieces of s between the characters of C, the empty ones included.
Split(s, C) ==
    FoldLeft(LAMBDA parts, c : IF c \in C
                               THEN Append(parts, <<>>)
                               ELSE Append(Front(parts), Append(Last(parts), c)),
             << <<>> >>, s)

\* What getline returns until it fails: no line after a last newline.
Lines(s) ==
    LET parts == Split(s, {"NL"}) IN
    IF Last(parts) = <<>> THEN Front(parts) ELSE parts

\* What operator>> reads, one word after the other, and nothing at the end.
Words(line) ==
    FoldLeft(LAMBDA words, w : IF w = <<>> THEN words ELSE Append(words, w),
             <<>>, Split(line, Blanks))
Word(line, i) == IF i <= Len(Words(line)) THEN Words(line)[i] ELSE <<>>

\* std::map: an assignment through operator[].
Put(map, key, value) ==
    [k \in DOMAIN map \cup {key} |-> IF k = key THEN value ELSE map[k]]

NoMap == [k \in {} |-> <<>>]

-------------------------------------------------------------------------------
TextInit ==
    /\ alphabet \in Alphabets
    /\ text = <<>>

Type(c) ==
    /\ Len(text) < MaxText
    /\ text' = Append(text, c)
    /\ UNCHANGED alphabet

TextNext == \E c \in alphabet : Type(c)

TextSpec == TextInit /\ [][TextNext]_textVars
===============================================================================
