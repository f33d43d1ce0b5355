----------------------------- MODULE Configuration -----------------------------
(***************************************************************************)
(* Configuration::readConfiguration of the server, and the lookups through *)
(* operator[] that main and the workers make afterwards.  The text typed   *)
(* is the file.                                                            *)
(***************************************************************************)
EXTENDS Text

\* Mutant of readConfiguration: a value ends with its line, not with a blank.
readConfigurationToEnd(file) ==
    FoldLeft(LAMBDA map, line : Put(map, Word(line, 1),
                                    SubSeq(line, Len(Word(line, 1)) + 2, Len(line))),
             NoMap, Lines(file))

\* iss >> key >> value of each line; a line without words sets the empty key.
readConfiguration(file) ==
    FoldLeft(LAMBDA map, line : Put(map, Word(line, 1), Word(line, 2)),
             NoMap, Lines(file))

\* getConfigMap()[key]: the map afterwards, and the value.
Lookup(map, key) ==
    LET after == IF key \in DOMAIN map THEN map ELSE Put(map, key, <<>>)
    IN  [map |-> after, value |-> after[key]]

-------------------------------------------------------------------------------
(* Properties *)

\* s without what follows the first of the characters C.
UpTo(s, C) ==
    SubSeq(s, 1, Min({i \in 1..Len(s) : s[i] \in C} \cup {Len(s) + 1}) - 1)

\* The positions where the first word of a line begins, and the word there.
KeyStarts ==
    {i \in 1..Len(text) :
        /\ text[i] \notin Blanks
        /\ \E j \in 0..(i - 1) :
              /\ j = 0 \/ text[j] = "NL"
              /\ \A k \in (j + 1)..(i - 1) : text[k] \in Blanks \ {"NL"}}
WordAt(i) == UpTo(SubSeq(text, i, Len(text)), Blanks)

\* What is left of its line behind the word at i.
RestOfLine(i) ==
    UpTo(SubSeq(text, i + Len(WordAt(i)), Len(text)), {"NL"})

\* A lookup of a key that some line of the file begins with finds the value of the
\* last such line and leaves the map alone, so that workers that look such keys up
\* at the same time only read; and the map has no other keys but the empty one.
LookupsOnlyRead ==
    LET map == readConfiguration(text) IN
    /\ \A i \in KeyStarts :
          LET key == WordAt(i)
              last == Max({j \in KeyStarts : WordAt(j) = key}) IN
          /\ Lookup(map, key).map = map
          /\ Lookup(map, key).value =
                UpTo(EraseLeading(RestOfLine(last), Blanks), Blanks)
    /\ DOMAIN map \ {<<>>} = {WordAt(i) : i \in KeyStarts}
===============================================================================
