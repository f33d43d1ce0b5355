------------------------------ MODULE SQLTemplate ------------------------------
(***************************************************************************)
(* SQLTemplate::get_sql: the placeholders of a template are replaced one   *)
(* parameter after the other, each over the whole text, in the order of an *)
(* unordered_map, which is any order.  The text typed is the template;     *)
(* keys are words, so that they mean themselves as regular expressions.    *)
(***************************************************************************)
EXTENDS Text, FiniteSets

CONSTANT ParamMaps      \* the parameters: functions from keys to values

\* Keys are words; the map is a std::unordered_map of strings.
ASSUME ParamMapsAssumption ==
    \A params \in ParamMaps :
        /\ IsFiniteSet(DOMAIN params)
        /\ \A k \in DOMAIN params :
              /\ k \in Seq(ToSet(k)) /\ params[k] \in Seq(ToSet(params[k]))
              /\ ~Contains(k, ":") /\ ~Contains(k, "'")

\* What regex_replace makes of a replacement: $$ is a dollar, $1 a group that the
\* pattern does not have.
Expand(value) ==
    LET rest[i \in 1..(Len(value) + 2)] ==
            IF i > Len(value) THEN <<>>
            ELSE IF OccursAt(<<"$", "$">>, value, i) THEN <<"$">> \o rest[i + 2]
            ELSE IF OccursAt(<<"$", "1">>, value, i) THEN rest[i + 2]
            ELSE <<value[i]>> \o rest[i + 1]
    IN  rest[1]

Placeholder(key) == <<":">> \o key
Quoted(value) == <<"'">> \o value \o <<"'">>

\* Mutant of RegexReplace: only the first match is replaced.
RegexReplaceFirst(s, word, new) ==
    LET at == {i \in 1..Len(s) : OccursAt(word, s, i)} IN
    IF at = {} THEN s
    ELSE SubSeq(s, 1, Min(at) - 1) \o new \o SubSeq(s, Min(at) + Len(word), Len(s))

\* Every match from the left, and matches do not overlap.
RegexReplace(s, word, new) ==
    LET rest[i \in 1..(Len(s) + 1)] ==
            IF i > Len(s) THEN <<>>
            ELSE IF OccursAt(word, s, i) THEN new \o rest[i + Len(word)]
            ELSE <<s[i]>> \o rest[i + 1]
    IN  rest[1]

\* One round of the loop of get_sql.
ReplaceParam(sql, key, value) ==
    RegexReplace(sql, Placeholder(key), Expand(Quoted(value)))

get_sql(template, params, order) ==
    FoldLeft(LAMBDA sql, key : ReplaceParam(sql, key, params[key]), template, order)

-------------------------------------------------------------------------------
(* Properties *)

\* No key begins with another one, no value holds a placeholder or a dollar.
Independent(params) ==
    /\ \A k, l \in DOMAIN params : IsPrefix(k, l) => k = l
    /\ \A k \in DOMAIN params :
          /\ ~Contains(params[k], "$")
          /\ \A l \in DOMAIN params, i \in 1..Len(params[k]) :
                ~OccursAt(Placeholder(l), params[k], i)

\* The template with all its placeholders filled at the same time.
Filled(template, params) ==
    LET keyAt(i) == {k \in DOMAIN params : OccursAt(Placeholder(k), template, i)}
        covered == {i \in 1..Len(template) :
                       \E j \in 1..Len(template) : \E k \in keyAt(j) : i \in (j + 1)..(j + Len(k))}
        piece(i) == IF keyAt(i) # {} THEN Quoted(params[CHOOSE k \in keyAt(i) : TRUE])
                    ELSE IF i \in covered THEN <<>>
                    ELSE <<template[i]>>
    IN  FlattenSeq([i \in 1..Len(template) |-> piece(i)])

\* With independent parameters the order in which the unordered_map happens to
\* give them does not matter: every placeholder gets its own value, quoted.
ParametersAreFilled ==
    \A params \in ParamMaps :
        Independent(params) =>
            \A order \in SetToSeqs(DOMAIN params) :
                get_sql(text, params, order) = Filled(text, params)
===============================================================================
