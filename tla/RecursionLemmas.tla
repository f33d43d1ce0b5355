---------------------------- MODULE RecursionLemmas ----------------------------
(***************************************************************************)
(* Induction and recursion up to a bound, stated of sets and functions     *)
(* instead of operators, walks along a function, folds, and what follows   *)
(* for the concatenation of sequences and for division.                    *)
(***************************************************************************)
EXTENDS Integers, SequencesExt, SequenceTheorems, WellFoundedInduction, TLAPS

\* A set of naturals that is not empty has a least element.
LEMMA LeastElement ==
    ASSUME NEW T \in SUBSET Nat, T # {}
    PROVE  \E k \in T : \A j \in T : k <= j
<1>1. PICK k \in T : \A j \in T : ~(<<j, k>> \in OpToRel(<, Nat))
  BY WFMin, NatLessThanWellFounded
<1>2. ASSUME NEW j \in T  PROVE k <= j
  <2> DEFINE p == <<j, k>>
  <2>1. ~(p \in {ss \in Nat \X Nat : ss[1] < ss[2]})  BY <1>1 DEF OpToRel
  <2>2. p \in Nat \X Nat /\ p[1] = j /\ p[2] = k  OBVIOUS
  <2> HIDE DEF p
  <2>3. ~(p[1] < p[2])  BY <2>1, <2>2
  <2> QED  BY <2>2, <2>3
<1> QED  BY <1>2

\* Induction up to n.
LEMMA InductionUpTo ==
    ASSUME NEW n \in Nat, NEW T, 0 \in T,
           \A k \in 0..(n - 1) : k \in T => k + 1 \in T
    PROVE  0..n \subseteq T
<1> DEFINE Bad == {k \in 0..n : k \notin T}
<1> SUFFICES ASSUME Bad # {} PROVE FALSE  OBVIOUS
<1>1. PICK k \in Bad : \A j \in Bad : k <= j
  <2>1. Bad \in SUBSET Nat  OBVIOUS
  <2> HIDE DEF Bad
  <2> QED  BY <2>1, LeastElement
<1>2. k # 0 /\ k - 1 \in 0..(n - 1)  BY DEF Bad
<1>3. k - 1 \in T  BY <1>1, <1>2
<1>4. k \in T  BY <1>2, <1>3
<1> QED  BY <1>4

\* f starts with a, and each step takes one value to the next.
StepFunctions(n, S) == [1..n -> [S -> S]]
Recursion(f, n, a, step) == f[0] = a /\ \A i \in 1..n : f[i] = step[i][f[i - 1]]

\* Any steps define a function.
LEMMA RecursionUpTo ==
    ASSUME NEW n \in Nat, NEW S, NEW a \in S, NEW step \in StepFunctions(n, S)
    PROVE  \E f : f \in [0..n -> S] /\ Recursion(f, n, a, step)
<1> USE DEF StepFunctions, Recursion
<1> DEFINE Good(f, k) == f[0] = a /\ \A i \in 1..k : f[i] = step[i][f[i - 1]]
           T == {k \in 0..n : \E f \in [0..k -> S] : Good(f, k)}
<1>1. 0 \in T
  <2>1. Good([i \in 0..0 |-> a], 0) /\ [i \in 0..0 |-> a] \in [0..0 -> S]  OBVIOUS
  <2>2. \E f \in [0..0 -> S] : Good(f, 0)  BY <2>1
  <2> QED  BY <2>2
<1>2. ASSUME NEW k \in 0..(n - 1), k \in T  PROVE k + 1 \in T
  <2>1. PICK f \in [0..k -> S] : Good(f, k)  BY <1>2
  <2> DEFINE g == [i \in 0..(k + 1) |-> IF i = k + 1 THEN step[k + 1][f[k]] ELSE f[i]]
  <2>2. f[k] \in S /\ step[k + 1] \in [S -> S]  OBVIOUS
  <2>3. g \in [0..(k + 1) -> S]  BY <2>2
  <2>4. Good(g, k + 1)
    <3>1. g[0] = a  BY <2>1
    <3>2. ASSUME NEW i \in 1..(k + 1)  PROVE g[i] = step[i][g[i - 1]]
      <4>1. CASE i = k + 1  BY <4>1
      <4>2. CASE i # k + 1
        <5>1. i \in 1..k /\ i - 1 \in 0..k  BY <4>2
        <5>2. f[i] = step[i][f[i - 1]]  BY <2>1, <5>1
        <5> QED  BY <5>1, <5>2, <4>2
      <4> QED  BY <4>1, <4>2
    <3> QED  BY <3>1, <3>2
  <2> HIDE DEF g, Good
  <2>5. \E h \in [0..(k + 1) -> S] : Good(h, k + 1)  BY <2>3, <2>4
  <2>6. k + 1 \in 0..n  OBVIOUS
  <2> QED  BY <2>5, <2>6
<1> HIDE DEF T
<1>3. 0..n \subseteq T  BY <1>1, <1>2, InductionUpTo
<1> QED  BY <1>3 DEF T

\* A walk from each element of D along nx until it stops: base is what it says
\* there, comb how an element changes what the walk from the next one said.
Walk(f, D, stop, nx, base, comb) ==
    f = [c \in D |-> IF c \in stop THEN base[c] ELSE comb[c][f[nx[c]]]]

WalkFunctions(D, S) == [D -> [S -> S]]

\* There is one where each step is nearer to the end.
LEMMA WalkExists ==
    ASSUME NEW D, NEW S, NEW stop \in SUBSET D, NEW nx, NEW N \in Nat,
           NEW rank \in [D -> 0..N],
           \A c \in D \ stop : nx[c] \in D /\ rank[nx[c]] < rank[c],
           NEW base \in [D -> S], NEW comb \in WalkFunctions(D, S)
    PROVE  \E f : f \in [D -> S] /\ Walk(f, D, stop, nx, base, comb)
<1> DEFINE A == [D -> S]
           Again(f) == [c \in D |-> IF c \in stop THEN base[c] ELSE comb[c][f[nx[c]]]]
           n == N + 1
           again == [i \in 1..n |-> [f \in A |-> Again(f)]]
<1>1. n \in Nat /\ base \in A  OBVIOUS
<1>2. ASSUME NEW f \in A  PROVE Again(f) \in A
  <2>1. ASSUME NEW c \in D, c \notin stop  PROVE comb[c][f[nx[c]]] \in S
    <3>1. f[nx[c]] \in S  BY <2>1
    <3>2. comb[c] \in [S -> S]  BY DEF WalkFunctions
    <3> QED  BY <3>1, <3>2
  <2> QED  BY <2>1
<1> HIDE DEF Again
<1>3. again \in StepFunctions(n, A)  BY <1>2 DEF StepFunctions
<1> HIDE DEF again, A, n
<1>4. PICK F : F \in [0..n -> A] /\ Recursion(F, n, base, again)
  BY <1>1, <1>3, RecursionUpTo
<1>5. ASSUME NEW i \in 1..n  PROVE F[i - 1] \in A /\ F[i] = Again(F[i - 1])
  <2>1. i - 1 \in 0..n  BY <1>1
  <2>2. F[i] = again[i][F[i - 1]]  BY <1>4 DEF Recursion
  <2>3. F[i - 1] \in A  BY <1>4, <2>1
  <2> QED  BY <2>2, <2>3 DEF again
<1> DEFINE T == {k \in 0..N : \A c \in D : rank[c] <= k => F[k + 1][c] = F[k][c]}
<1>6. ASSUME NEW i \in 1..n, NEW c \in D
      PROVE  F[i][c] = IF c \in stop THEN base[c] ELSE comb[c][F[i - 1][nx[c]]]
  <2>1. PICK g : g = F[i - 1]  OBVIOUS
  <2>2. F[i] = Again(g)  BY <1>5, <2>1
  <2>3. Again(g)[c] = IF c \in stop THEN base[c] ELSE comb[c][g[nx[c]]]  BY DEF Again
  <2> QED  BY <2>1, <2>2, <2>3
<1>7. 0 \in T
  <2>1. ASSUME NEW c \in D, rank[c] <= 0  PROVE F[1][c] = F[0][c]
    <3>1. rank[c] = 0  BY <2>1
    <3>2. c \in stop
      <4> SUFFICES ASSUME c \notin stop PROVE FALSE  OBVIOUS
      <4>1. nx[c] \in D /\ rank[nx[c]] < rank[c]  OBVIOUS
      <4>2. rank[nx[c]] \in 0..N  BY <4>1
      <4> QED  BY <3>1, <4>1, <4>2
    <3>3. 1 \in 1..n  BY DEF n
    <3>4. F[1][c] = base[c]  BY <1>6, <3>2, <3>3
    <3>5. F[0][c] = base[c]  BY <1>4 DEF Recursion
    <3> QED  BY <3>4, <3>5
  <2>2. 0 \in 0..N /\ 0 + 1 = 1  OBVIOUS
  <2> QED  BY <2>1, <2>2
<1>8. ASSUME NEW k \in 0..(N - 1), k \in T  PROVE k + 1 \in T
  <2>1. k + 1 \in 1..n /\ (k + 1) + 1 \in 1..n /\ k + 1 \in 0..N
        /\ (k + 1) - 1 = k /\ ((k + 1) + 1) - 1 = k + 1
    BY DEF n
  <2>2. ASSUME NEW c \in D, rank[c] <= k + 1  PROVE F[(k + 1) + 1][c] = F[k + 1][c]
    <3>1. CASE c \in stop
      <4>1. F[(k + 1) + 1][c] = base[c] /\ F[k + 1][c] = base[c]  BY <1>6, <2>1, <3>1
      <4> QED  BY <4>1
    <3>2. CASE c \notin stop
      <4>1. nx[c] \in D /\ rank[nx[c]] < rank[c]  BY <3>2
      <4>2. rank[nx[c]] \in 0..N /\ rank[c] \in 0..N  BY <4>1
      <4>3. rank[nx[c]] <= k  BY <2>2, <4>1, <4>2
      <4>4. F[k + 1][nx[c]] = F[k][nx[c]]  BY <1>8, <4>1, <4>3
      <4>5. F[(k + 1) + 1][c] = comb[c][F[((k + 1) + 1) - 1][nx[c]]]  BY <1>6, <2>1, <3>2
      <4>6. F[k + 1][c] = comb[c][F[(k + 1) - 1][nx[c]]]  BY <1>6, <2>1, <3>2
      <4>7. F[(k + 1) + 1][c] = comb[c][F[k + 1][nx[c]]]  BY <2>1, <4>5
      <4>8. F[k + 1][c] = comb[c][F[k][nx[c]]]  BY <2>1, <4>6
      <4> QED  BY <4>4, <4>7, <4>8
    <3> QED  BY <3>1, <3>2
  <2> QED  BY <2>1, <2>2
<1> HIDE DEF T
<1>9. 0..N \subseteq T  BY <1>7, <1>8, InductionUpTo
<1> DEFINE f == F[N]
<1>10. N \in 0..n /\ n \in 1..n /\ n - 1 = N /\ N \in 0..N  BY DEF n
<1>11. f \in A  BY <1>4, <1>10
<1>12. ASSUME NEW c \in D
       PROVE  f[c] = IF c \in stop THEN base[c] ELSE comb[c][f[nx[c]]]
  <2>1. F[N + 1][c] = f[c]  BY <1>9, <1>10 DEF T
  <2>2. F[n][c] = IF c \in stop THEN base[c] ELSE comb[c][F[n - 1][nx[c]]]  BY <1>6, <1>10
  <2> QED  BY <1>10, <2>1, <2>2 DEF n
<1> HIDE DEF f
<1>13. f = [c \in D |-> IF c \in stop THEN base[c] ELSE comb[c][f[nx[c]]]]
  BY <1>11, <1>12 DEF A
<1> QED  BY <1>11, <1>13 DEF Walk, A

-------------------------------------------------------------------------------
(* The concatenation of a sequence of sequences *)

\* What any function says that starts empty and takes one sequence after the other.
LEMMA FlattenIs ==
    ASSUME NEW S, NEW seqs \in Seq(Seq(S)), NEW g \in [0..Len(seqs) -> Seq(S)],
           g[0] = <<>>, \A i \in 1..Len(seqs) : g[i] = g[i - 1] \o seqs[i]
    PROVE  FlattenSeq(seqs) = g[Len(seqs)]
<1>1. CASE Len(seqs) = 0
  <2>1. seqs = <<>>  BY <1>1
  <2> QED  BY <1>1, <2>1 DEF FlattenSeq
<1>2. CASE Len(seqs) # 0
  <2> DEFINE n == Len(seqs)
             flatten[i \in 1..Len(seqs)] ==
                 IF i = 1 THEN seqs[i] ELSE flatten[i - 1] \o seqs[i]
             h == [i \in 1..n |-> g[i]]
             T == {k \in 0..n : k > 0 => flatten[k] = g[k]}
  <2>0. n \in Nat \ {0}  BY <1>2
  <2>1. FlattenSeq(seqs) = flatten[n]  BY <1>2 DEF FlattenSeq
  <2>2. ASSUME NEW i \in 1..n
        PROVE  h[i] = IF i = 1 THEN seqs[i] ELSE h[i - 1] \o seqs[i]
    <3>1. CASE i = 1
      <4>0. 1 \in 1..Len(seqs)  BY <2>0
      <4>1. seqs[1] \in Seq(S) /\ g[1] = g[0] \o seqs[1]
        <5>1. g[1] = g[1 - 1] \o seqs[1]  BY <4>0
        <5>2. seqs[1] \in Seq(S)  BY <4>0
        <5>3. 1 - 1 = 0  OBVIOUS
        <5> QED  BY <5>1, <5>2, <5>3
      <4>2. <<>> \o seqs[1] = seqs[1]  BY <4>1
      <4> QED  BY <3>1, <4>1, <4>2
    <3>2. CASE i # 1
      <4>1. i - 1 \in 1..n  BY <3>2
      <4> QED  BY <3>2, <4>1
    <3> QED  BY <3>1, <3>2
  <2>3. h = [i \in 1..Len(seqs) |-> IF i = 1 THEN seqs[i] ELSE h[i - 1] \o seqs[i]]
    BY <2>2
  <2>4. flatten = [i \in 1..Len(seqs) |->
                      IF i = 1 THEN seqs[i] ELSE flatten[i - 1] \o seqs[i]]
    <3> HIDE DEF h
    <3>1. \E f : f = [i \in 1..Len(seqs) |-> IF i = 1 THEN seqs[i] ELSE f[i - 1] \o seqs[i]]
      BY <2>3
    <3> QED  BY <3>1
  <2> HIDE DEF flatten
  <2>5. 0 \in T  BY <2>0
  <2>6. ASSUME NEW k \in 0..(n - 1), k \in T  PROVE k + 1 \in T
    <3>1. k + 1 \in 1..n /\ k + 1 \in 0..n  BY <2>0
    <3>0. (k + 1) - 1 = k  OBVIOUS
    <3>2. flatten[k + 1] = IF k + 1 = 1 THEN seqs[k + 1] ELSE flatten[k] \o seqs[k + 1]
      <4>1. flatten[k + 1] = IF k + 1 = 1 THEN seqs[k + 1]
                             ELSE flatten[(k + 1) - 1] \o seqs[k + 1]
        BY <2>4, <3>1
      <4> QED  BY <3>0, <4>1
    <3>3. h[k + 1] = IF k + 1 = 1 THEN seqs[k + 1] ELSE h[k] \o seqs[k + 1]
      <4> HIDE DEF h
      <4>1. h[k + 1] = IF k + 1 = 1 THEN seqs[k + 1]
                       ELSE h[(k + 1) - 1] \o seqs[k + 1]
        BY <2>2, <3>1
      <4> QED  BY <3>0, <4>1
    <3>4. k # 0 => flatten[k] = h[k]  BY <2>6
    <3>5. h[k + 1] = g[k + 1]  BY <3>1
    <3>6. flatten[k + 1] = g[k + 1]  BY <3>2, <3>3, <3>4, <3>5
    <3> QED  BY <3>1, <3>6
  <2> HIDE DEF T
  <2>7. 0..n \subseteq T  BY <2>0, <2>5, <2>6, InductionUpTo
  <2>8. flatten[n] = g[n]  BY <2>0, <2>7 DEF T
  <2> QED  BY <2>1, <2>8
<1> QED  BY <1>1, <1>2

\* \o, under a name that keeps its definition from the provers.
Cat(s, t) == s \o t

LEMMA CatAssociates ==
    \A S : \A r, s, t \in Seq(S) : Cat(r, Cat(s, t)) = Cat(Cat(r, s), t)
  BY DEF Cat

\* There is such a function.
LEMMA FlattenFunction ==
    ASSUME NEW S, NEW seqs \in Seq(Seq(S))
    PROVE  \E g \in [0..Len(seqs) -> Seq(S)] :
               g[0] = <<>> /\ \A i \in 1..Len(seqs) : g[i] = g[i - 1] \o seqs[i]
<1> DEFINE n == Len(seqs)
           A == Seq(S)
           e == <<>>
           step == [i \in 1..n |-> [s \in Seq(S) |-> s \o seqs[i]]]
<1>1. n \in Nat /\ <<>> \in Seq(S)  OBVIOUS
<1>2. step \in [1..n -> [Seq(S) -> Seq(S)]]
  <2>1. ASSUME NEW i \in 1..n, NEW s \in Seq(S)  PROVE s \o seqs[i] \in Seq(S)
    OBVIOUS
  <2> QED  BY <2>1
<1>0. n \in Nat /\ e \in A /\ step \in StepFunctions(n, A)
  BY <1>1, <1>2 DEF StepFunctions
<1> HIDE DEF step, n, A, e
<1>6. \E g : g \in [0..n -> A] /\ Recursion(g, n, e, step)  BY <1>0, RecursionUpTo
<1>3. PICK g \in [0..n -> A] : g[0] = e /\ \A i \in 1..n : g[i] = step[i][g[i - 1]]
  BY <1>6 DEF Recursion
<1> USE DEF A, e
<1>4. ASSUME NEW i \in 1..n  PROVE g[i] = g[i - 1] \o seqs[i]
  <2>1. i - 1 \in 0..n  BY <1>1
  <2>2. g[i - 1] \in Seq(S)  BY <2>1
  <2>3. g[i] = step[i][g[i - 1]]  BY <1>3
  <2> QED  BY <2>2, <2>3 DEF step
<1> QED  BY <1>3, <1>4 DEF n

LEMMA FlattenType ==
    ASSUME NEW S, NEW seqs \in Seq(Seq(S))
    PROVE  FlattenSeq(seqs) \in Seq(S)
<1>1. PICK g \in [0..Len(seqs) -> Seq(S)] :
         g[0] = <<>> /\ \A i \in 1..Len(seqs) : g[i] = g[i - 1] \o seqs[i]
  BY FlattenFunction
<1>2. FlattenSeq(seqs) = g[Len(seqs)]  BY <1>1, FlattenIs
<1>3. Len(seqs) \in 0..Len(seqs)  OBVIOUS
<1> QED  BY <1>2, <1>3

LEMMA FlattenEmpty == FlattenSeq(<<>>) = <<>>
  BY DEF FlattenSeq

\* One more at the end.
LEMMA FlattenAppend ==
    ASSUME NEW S, NEW seqs \in Seq(Seq(S)), NEW last \in Seq(S)
    PROVE  FlattenSeq(Append(seqs, last)) = FlattenSeq(seqs) \o last
<1>1. PICK g \in [0..Len(seqs) -> Seq(S)] :
         g[0] = <<>> /\ \A i \in 1..Len(seqs) : g[i] = g[i - 1] \o seqs[i]
  BY FlattenFunction
<1> DEFINE n == Len(seqs)
           longer == Append(seqs, last)
           h == [i \in 0..(n + 1) |-> IF i = n + 1 THEN g[n] \o last ELSE g[i]]
<1>2. /\ n \in Nat /\ longer \in Seq(Seq(S)) /\ Len(longer) = n + 1
      /\ longer[n + 1] = last /\ \A i \in 1..n : longer[i] = seqs[i]
  OBVIOUS
<1>3. g[n] \in Seq(S) /\ g[n] \o last \in Seq(S)  BY <1>2
<1>10. \A i \in 1..n : g[i] = g[i - 1] \o seqs[i]  BY <1>1
<1>4. h \in [0..(n + 1) -> Seq(S)]  BY <1>2, <1>3
<1>5. h[0] = <<>>  BY <1>1, <1>2
<1> HIDE DEF longer, n
<1>6. ASSUME NEW i \in 1..(n + 1)  PROVE h[i] = h[i - 1] \o longer[i]
  <2>1. CASE i = n + 1
    <3>1. h[i] = g[n] \o last /\ h[i - 1] = g[n]  BY <1>2, <2>1
    <3> QED  BY <1>2, <2>1, <3>1
  <2>2. CASE i # n + 1
    <3>1. i \in 1..n /\ i - 1 \in 0..n  BY <1>2, <2>2
    <3>2. g[i] = g[i - 1] \o seqs[i]  BY <1>10, <3>1
    <3>3. h[i] = g[i] /\ h[i - 1] = g[i - 1]  BY <1>2, <2>2, <3>1
    <3> QED  BY <1>2, <3>1, <3>2, <3>3
  <2> QED  BY <2>1, <2>2
<1>7. h[n + 1] = g[n] \o last  BY <1>2
<1> HIDE DEF h
<1>8. FlattenSeq(longer) = h[n + 1]  BY <1>2, <1>4, <1>5, <1>6, FlattenIs
<1>9. FlattenSeq(seqs) = g[n]  BY <1>1, FlattenIs DEF n
<1> QED  BY <1>7, <1>8, <1>9 DEF longer

\* One more at the beginning.
LEMMA FlattenCons ==
    ASSUME NEW S, NEW seqs \in Seq(Seq(S)), seqs # <<>>
    PROVE  FlattenSeq(seqs) = Head(seqs) \o FlattenSeq(Tail(seqs))
<1> DEFINE first == Head(seqs)
           rest == Tail(seqs)
           n == Len(rest)
<1>2. /\ n \in Nat /\ rest \in Seq(Seq(S)) /\ first \in Seq(S) /\ Len(seqs) = n + 1
      /\ seqs[1] = first /\ \A i \in 1..n : seqs[i + 1] = rest[i]
  OBVIOUS
<1> HIDE DEF first, rest, n
<1>1. PICK g \in [0..n -> Seq(S)] :
         g[0] = <<>> /\ \A i \in 1..n : g[i] = g[i - 1] \o rest[i]
  BY FlattenFunction, <1>2 DEF n
<1> DEFINE h == [i \in 0..(n + 1) |-> IF i = 0 THEN <<>> ELSE first \o g[i - 1]]
<1>4. h \in [0..(n + 1) -> Seq(S)]
  <2>1. ASSUME NEW i \in 0..(n + 1), i # 0  PROVE first \o g[i - 1] \in Seq(S)
    <3>1. i - 1 \in 0..n  BY <1>2, <2>1
    <3>2. g[i - 1] \in Seq(S)  BY <3>1
    <3> QED  BY <1>2, <3>2
  <2>2. <<>> \in Seq(S)  OBVIOUS
  <2> QED  BY <2>1, <2>2
<1>5. h[0] = <<>>  BY <1>2
<1>6. ASSUME NEW i \in 1..(n + 1)  PROVE h[i] = h[i - 1] \o seqs[i]
  <2>1. h[i] = first \o g[i - 1]  BY <1>2, SMTT(30)
  <2>2. CASE i = 1
    <3>1. h[i] = first /\ h[i - 1] = <<>>  BY <1>1, <1>2, <2>1, <2>2
    <3> QED  BY <1>2, <2>2, <3>1
  <2>3. CASE i # 1
    <3>1. i - 1 \in 1..n /\ i - 2 \in 0..n /\ i - 1 \in 0..(n + 1)  BY <1>2, <2>3
    <3>2. g[i - 1] = g[i - 2] \o rest[i - 1] /\ rest[i - 1] = seqs[i]
      <4>1. g[i - 1] = g[(i - 1) - 1] \o rest[i - 1]  BY <1>1, <3>1
      <4>2. seqs[(i - 1) + 1] = rest[i - 1]  BY <1>2, <3>1
      <4> QED  BY <4>1, <4>2
    <3>3. h[i - 1] = first \o g[i - 2]  BY <3>1
    <3>4. g[i - 2] \in Seq(S) /\ rest[i - 1] \in Seq(S)
      <4>1. g[i - 2] \in Seq(S)  BY <3>1
      <4>2. rest[i - 1] \in Seq(S)  BY <1>2, <3>1 DEF n
      <4> QED  BY <4>1, <4>2
    <3>6. first \in Seq(S)  BY <1>2
    <3>5. first \o (g[i - 2] \o rest[i - 1]) = (first \o g[i - 2]) \o rest[i - 1]
      <4>1. Cat(first, Cat(g[i - 2], rest[i - 1])) = Cat(Cat(first, g[i - 2]), rest[i - 1])
        BY <3>4, <3>6, CatAssociates
      <4> QED  BY <4>1 DEF Cat
    <3> QED  BY <2>1, <3>2, <3>3, <3>5
  <2> QED  BY <2>2, <2>3
<1>7. h[n + 1] = first \o g[n]  BY <1>2
<1> HIDE DEF h
<1>8. FlattenSeq(seqs) = h[n + 1]
  <2>1. h \in [0..Len(seqs) -> Seq(S)]  BY <1>2, <1>4
  <2>2. \A i \in 1..Len(seqs) : h[i] = h[i - 1] \o seqs[i]  BY <1>2, <1>6
  <2>3. FlattenSeq(seqs) = h[Len(seqs)]  BY <1>5, <2>1, <2>2, FlattenIs
  <2> QED  BY <1>2, <2>3
<1>9. FlattenSeq(rest) = g[n]  BY <1>1, <1>2, FlattenIs DEF n
<1> QED  BY <1>7, <1>8, <1>9 DEF first, rest

-------------------------------------------------------------------------------
(* Division by what is not a numeral *)

LEMMA Product ==
    ASSUME NEW d \in Nat, NEW k \in Nat, k >= 1
    PROVE  d * k >= d
  OBVIOUS

LEMMA ProductGrows ==
    ASSUME NEW d \in Nat, NEW x \in Nat, NEW y \in Nat, x < y
    PROVE  d * x + d <= d * y
<1>1. PICK k \in Nat : y = x + 1 + k
  <2>1. y - x - 1 \in Nat /\ y = x + 1 + (y - x - 1)  OBVIOUS
  <2> QED  BY <2>1
<1>2. d * (x + 1 + k) = d * (x + 1) + d * k  OBVIOUS
<1>3. d * (x + 1) = d * x + d  OBVIOUS
<1>4. d * k \in Nat /\ d * x \in Nat  OBVIOUS
<1> QED  BY <1>1, <1>2, <1>3, <1>4

LEMMA DivisionWithRest ==
    ASSUME NEW d \in Nat \ {0}, NEW n \in Int
    PROVE  n \div d \in Int /\ n % d \in 0..(d - 1) /\ n = d * (n \div d) + (n % d)
  OBVIOUS

LEMMA QuotientIsUnique ==
    ASSUME NEW d \in Nat \ {0}, NEW q \in Int, NEW p \in Int,
           NEW r \in 0..(d - 1), NEW s \in 0..(d - 1), d * q + r = d * p + s
    PROVE  q = p
<1>1. ASSUME NEW x \in Int, NEW y \in Int, NEW u \in 0..(d - 1), NEW v \in 0..(d - 1),
             d * x + u = d * y + v
      PROVE  x <= y
  <2> SUFFICES ASSUME x > y PROVE FALSE  OBVIOUS
  <2>1. PICK k \in Nat : k >= 1 /\ x = y + k
    <3>1. x - y \in Nat /\ x - y >= 1 /\ x = y + (x - y)  OBVIOUS
    <3> QED  BY <3>1
  <2>2. d * x = d * y + d * k  BY <2>1
  <2>3. d * k >= d  BY <2>1, Product
  <2>4. d * x \in Int /\ d * y \in Int /\ d * k \in Int  OBVIOUS
  <2> QED  BY <1>1, <2>2, <2>3, <2>4
<1> QED  BY <1>1

LEMMA NestedQuotient ==
    ASSUME NEW d \in Nat \ {0}, NEW e \in Nat \ {0}, NEW n \in Int
    PROVE  n \div (d * e) = (n \div d) \div e
<1> DEFINE q == n \div d
           p == q \div e
           r == n % d
           s == q % e
<1>1. /\ d * q + r = n /\ q \in Int /\ r \in 0..(d - 1)
      /\ e * p + s = q /\ p \in Int /\ s \in 0..(e - 1)
  BY DivisionWithRest
<1> HIDE DEF q, p, r, s
<1>2. (d * e) * p + (d * s + r) = n  BY <1>1
<1>3. d * s + r \in 0..(d * e - 1)
  <2>1. d * s + d <= d * e
    <3>1. PICK k \in Nat : e = s + 1 + k  BY <1>1
    <3>2. d * e = d * s + d + d * k /\ d * k >= 0  BY <3>1, <1>1
    <3> QED  BY <3>2, <1>1
  <2>2. d * s \in Nat /\ d * e \in Nat  BY <1>1
  <2> QED  BY <1>1, <2>1, <2>2
<1>4. d * e \in Nat \ {0}  OBVIOUS
<1>5. /\ (d * e) * (n \div (d * e)) + (n % (d * e)) = n
      /\ n % (d * e) \in 0..(d * e - 1) /\ n \div (d * e) \in Int
  BY <1>4, DivisionWithRest
<1> DEFINE de == d * e
           m == n \div de
           t == n % de
           ds == d * s + r
<1>6. de \in Nat \ {0} /\ p \in Int /\ ds \in 0..(de - 1) /\ m \in Int /\ t \in 0..(de - 1)
      /\ de * p + ds = de * m + t
  BY <1>1, <1>2, <1>3, <1>4, <1>5
<1> HIDE DEF de, m, t, ds
<1>7. p = m  BY <1>6, QuotientIsUnique
<1> QED  BY <1>7 DEF p, q, m, de

-------------------------------------------------------------------------------
(* Least and greatest elements *)

\* The least and the greatest element of some naturals.
LEMMA MinIs ==
    ASSUME NEW T \in SUBSET Nat, T # {}
    PROVE  Min(T) \in T /\ \A j \in T : Min(T) <= j
<1>1. \E k \in T : \A j \in T : k <= j  BY LeastElement
<1> QED  BY <1>1 DEF Min

LEMMA MaxIs ==
    ASSUME NEW n \in Nat, NEW T \in SUBSET (0..n), T # {}
    PROVE  Max(T) \in T /\ \A j \in T : Max(T) >= j
<1> DEFINE U == {n - j : j \in T}
<1>0. ASSUME NEW j \in T  PROVE n - j \in Nat
  <2>1. j \in 0..n  OBVIOUS
  <2> QED  BY <2>1
<1>1. U \in SUBSET Nat /\ U # {}  BY <1>0
<1>2. PICK k \in U : \A j \in U : k <= j  BY <1>1, LeastElement
<1>3. PICK m \in T : k = n - m  BY <1>2
<1>4. ASSUME NEW j \in T  PROVE m >= j
  <2>1. n - j \in U  OBVIOUS
  <2>2. n - m <= n - j  BY <1>2, <1>3, <2>1
  <2> QED  BY <2>2
<1>5. \E x \in T : \A j \in T : x >= j  BY <1>4
<1> QED  BY <1>5 DEF Max

-------------------------------------------------------------------------------
(* Folds over a sequence *)

\* What FoldLeft makes of the indices s when step[i] is what it does at index i.
Fold(f, n, a, step) ==
    f = [s \in SUBSET (1..n) |-> IF s = {} THEN a ELSE step[Max(s)][f[s \ {Max(s)}]]]

\* There is such a function.
LEMMA FoldExists ==
    ASSUME NEW n \in Nat, NEW A, NEW a \in A, NEW step \in StepFunctions(n, A)
    PROVE  \E f \in [SUBSET (1..n) -> A] : Fold(f, n, a, step)
<1> DEFINE D == SUBSET (1..n)
           nx == [s \in D |-> s \ {Max(s)}]
           rank == [s \in D |-> IF s = {} THEN 0 ELSE Max(s)]
           base == [s \in D |-> a]
           comb == [s \in D |-> IF s = {} THEN [v \in A |-> v] ELSE step[Max(s)]]
           stop == {{}}
<1>1. ASSUME NEW s \in D, s # {}
      PROVE  Max(s) \in s /\ Max(s) \in 1..n /\ \A j \in s : Max(s) >= j
  <2>1. s \in SUBSET (0..n)  OBVIOUS
  <2>2. Max(s) \in s /\ \A j \in s : Max(s) >= j  BY <1>1, <2>1, MaxIs
  <2> QED  BY <2>2
<1>2. rank \in [D -> 0..n]  BY <1>1
<1>3. ASSUME NEW s \in D \ stop  PROVE nx[s] \in D /\ rank[nx[s]] < rank[s]
  <2>1. nx[s] \in D /\ nx[s] \subseteq s /\ Max(s) \notin nx[s]  OBVIOUS
  <2>2. CASE nx[s] = {}  BY <1>1, <2>1, <2>2
  <2>3. CASE nx[s] # {}
    <3>1. Max(nx[s]) \in nx[s] /\ Max(nx[s]) \in 1..n  BY <1>1, <2>1, <2>3
    <3>2. Max(s) \in 1..n /\ Max(s) >= Max(nx[s])  BY <1>1, <2>1, <3>1
    <3>3. Max(s) # Max(nx[s])  BY <2>1, <3>1
    <3> QED  BY <2>1, <2>3, <3>1, <3>2, <3>3
  <2> QED  BY <2>2, <2>3
<1>4. base \in [D -> A] /\ stop \in SUBSET D  OBVIOUS
<1>5. comb \in WalkFunctions(D, A)
  <2>1. ASSUME NEW s \in D, s # {}  PROVE step[Max(s)] \in [A -> A]
    BY <1>1, <2>1 DEF StepFunctions
  <2> QED  BY <2>1 DEF WalkFunctions
<1> HIDE DEF D, nx, rank, base, comb, stop
<1>6. PICK f : f \in [D -> A] /\ Walk(f, D, stop, nx, base, comb)
  BY <1>2, <1>3, <1>4, <1>5, WalkExists
<1>7. ASSUME NEW s \in D
      PROVE  f[s] = IF s = {} THEN a ELSE step[Max(s)][f[s \ {Max(s)}]]
  <2>1. f[s] = IF s \in stop THEN base[s] ELSE comb[s][f[nx[s]]]  BY <1>6 DEF Walk
  <2> QED  BY <2>1 DEF nx, base, comb, stop
<1>8. f = [s \in D |-> IF s = {} THEN a ELSE step[Max(s)][f[s \ {Max(s)}]]]
  BY <1>6, <1>7
<1> QED  BY <1>6, <1>8 DEF D, Fold

\* It takes the indices from left to right.
LEMMA FoldGoesOn ==
    ASSUME NEW n \in Nat, NEW i \in 1..n
    PROVE  /\ 1..i \in SUBSET (1..n) /\ 1..i # {}
           /\ Max(1..i) = i /\ (1..i) \ {i} = 1..(i - 1)
<1> DEFINE T == 1..i
<1>1. T \in SUBSET (0..n) /\ T # {} /\ i \in T  OBVIOUS
<1> HIDE DEF T
<1>2. Max(T) \in T /\ \A j \in T : Max(T) >= j  BY <1>1, MaxIs
<1>3. Max(T) = i  BY <1>1, <1>2 DEF T
<1> QED  BY <1>1, <1>3 DEF T

\* h is the fold on the first indices, one after the other.
FoldSteps(h, n, A, step) ==
    \A i \in 1..n : h[1..(i - 1)] \in A => h[1..i] = step[i][h[1..(i - 1)]]

\* So the steps of the recursion give its value.
LEMMA FoldIs ==
    ASSUME NEW n \in Nat, NEW A, NEW a \in A, NEW step \in StepFunctions(n, A),
           NEW h, h[{}] = a, FoldSteps(h, n, A, step),
           NEW g \in [0..n -> A], Recursion(g, n, a, step)
    PROVE  h[1..n] = g[n]
<1> DEFINE T == {k \in 0..n : h[1..k] = g[k]}
<1>1. 0 \in T
  <2>1. 1..0 = {} /\ 0 \in 0..n  OBVIOUS
  <2> QED  BY <2>1 DEF Recursion
<1>2. ASSUME NEW k \in 0..(n - 1), k \in T  PROVE k + 1 \in T
  <2>1. k + 1 \in 1..n /\ (k + 1) - 1 = k /\ k \in 0..n /\ k + 1 \in 0..n  OBVIOUS
  <2>2. h[1..k] = g[k] /\ g[k] \in A  BY <1>2, <2>1
  <2>3. h[1..(k + 1)] = step[k + 1][h[1..k]]
    <3>1. h[1..((k + 1) - 1)] \in A => h[1..(k + 1)] = step[k + 1][h[1..((k + 1) - 1)]]
      BY <2>1 DEF FoldSteps
    <3> QED  BY <3>1, <2>1, <2>2
  <2>4. g[k + 1] = step[k + 1][g[(k + 1) - 1]]  BY <2>1 DEF Recursion
  <2> QED  BY <2>1, <2>2, <2>3, <2>4
<1> HIDE DEF T
<1>3. 0..n \subseteq T  BY <1>1, <1>2, InductionUpTo
<1>4. n \in 0..n  OBVIOUS
<1> QED  BY <1>3, <1>4 DEF T
===============================================================================
