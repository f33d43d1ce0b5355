-------------------------- MODULE SortTimerListProofs --------------------------
(***************************************************************************)
(* Proofs about SortTimerList for any cells and any time: the pointers     *)
(* link one sequence of timers, sorted by expiry, whatever was done to the *)
(* list, and that sequence is the queue of TimerQueue.                     *)
(***************************************************************************)
EXTENDS SortTimerList, RecursionLemmas, FiniteSetTheorems, FunctionTheorems

-------------------------------------------------------------------------------
(* The inductive invariant *)

\* q is a sequence of different timers.
Row(q) == q \in Seq(Timers) /\ \A i, j \in 1..Len(q) : q[i] = q[j] => i = j

First(q) == IF q = <<>> THEN Null ELSE q[1]

\* The pointers nx lead from the first cell of q to the last, and pv back.
Forward(q, nx) == \A i \in 1..Len(q) : nx[q[i]] = IF i = Len(q) THEN Null ELSE q[i + 1]
Backward(q, pv) == \A i \in 1..Len(q) : pv[q[i]] = IF i = 1 THEN Null ELSE q[i - 1]

Sorted(q, ex) == \A i, j \in 1..Len(q) : i <= j => ex[q[i]] <= ex[q[j]]

\* The list is the cells of q in that order.
List(q) ==
    /\ Row(q)
    /\ CellsOf(q) = alive
    /\ head = First(q)
    /\ q # <<>> => tail = q[Len(q)]
    /\ Forward(q, next)
    /\ Backward(q, prev)
    /\ Sorted(q, expire)

ValueInv ==
    /\ tail \in Timers \cup {Null}
    /\ next \in [Timers -> Timers \cup {Null}]
    /\ prev \in [Timers -> Timers \cup {Null}]
    /\ expire \in [Timers -> 0..MaxTime]
    /\ clock \in 0..MaxTime
    /\ fired \in Seq(Timers)
    /\ alarm \in {"off", "set", "crashed"}

\* A deleted cell is cleared.
DeadInv == \A t \in Timers \ alive : next[t] = Null /\ expire[t] = 0

ListInv == \E q \in Seq(Timers) : List(q)

IInv == ValueInv /\ DeadInv /\ ListInv

-------------------------------------------------------------------------------
(* One more, and one less *)

\* r is q with t at place k; r is q without its element at place k.
IsInsertion(r, q, k, t) ==
    /\ Len(r) = Len(q) + 1
    /\ \A i \in 1..(Len(q) + 1) :
          r[i] = IF i < k THEN q[i] ELSE IF i = k THEN t ELSE q[i - 1]

IsRemoval(r, q, k) ==
    /\ Len(r) = Len(q) - 1
    /\ \A i \in 1..(Len(q) - 1) : r[i] = IF i < k THEN q[i] ELSE q[i + 1]

\* What InsertAt of the community modules does.
LEMMA Inserted ==
    ASSUME NEW S, NEW q \in Seq(S), NEW t \in S, NEW k \in 1..(Len(q) + 1)
    PROVE  InsertAt(q, k, t) \in Seq(S) /\ IsInsertion(InsertAt(q, k, t), q, k, t)
<1> DEFINE a == SubSeq(q, 1, k - 1)
           b == SubSeq(q, k, Len(q))
<1>1. /\ a \in Seq(S) /\ Len(a) = k - 1 /\ \A i \in 1..(k - 1) : a[i] = q[i]
  OBVIOUS
<1>2. /\ b \in Seq(S) /\ Len(b) = Len(q) + 1 - k
      /\ \A i \in 1..(Len(q) + 1 - k) : b[i] = q[k + i - 1]
  OBVIOUS
<1>3. InsertAt(q, k, t) = (a \o <<t>>) \o b  BY DEF InsertAt
<1>4. Len(q) \in Nat  OBVIOUS
<1> HIDE DEF a, b
<1> DEFINE c == a \o <<t>>
<1>5. /\ c \in Seq(S) /\ Len(c) = k
      /\ \A i \in 1..k : c[i] = IF i = k THEN t ELSE q[i]
  BY <1>1
<1> HIDE DEF c
<1>6. /\ c \o b \in Seq(S) /\ Len(c \o b) = Len(q) + 1
      /\ \A i \in 1..(Len(q) + 1) : (c \o b)[i] = IF i <= k THEN c[i] ELSE b[i - k]
  <2>1. /\ c \o b \in Seq(S) /\ Len(c \o b) = Len(c) + Len(b)
        /\ \A i \in 1..(Len(c) + Len(b)) :
              (c \o b)[i] = IF i <= Len(c) THEN c[i] ELSE b[i - Len(c)]
    BY Zenon, <1>2, <1>5, ConcatProperties
  <2>2. Len(c) + Len(b) = Len(q) + 1  BY <1>2, <1>4, <1>5
  <2> QED  BY <1>5, <2>1, <2>2
<1>7. InsertAt(q, k, t) = c \o b  BY <1>3 DEF c
<1> DEFINE r == InsertAt(q, k, t)
<1>8. ASSUME NEW i \in 1..(Len(q) + 1)
      PROVE  r[i] = IF i < k THEN q[i] ELSE IF i = k THEN t ELSE q[i - 1]
  <2>1. CASE i <= k  BY <1>4, <1>5, <1>6, <1>7, <2>1
  <2>2. CASE i > k
    <3>1. i - k \in 1..(Len(q) + 1 - k) /\ k + (i - k) - 1 = i - 1  BY <1>4, <2>2
    <3>2. b[i - k] = q[k + (i - k) - 1]  BY <1>2, <3>1
    <3>3. b[i - k] = q[i - 1]  BY Zenon, <3>1, <3>2
    <3> QED  BY <1>4, <1>6, <1>7, <2>2, <3>3
  <2> QED  BY <1>4, <2>1, <2>2
<1> QED  BY <1>6, <1>7, <1>8 DEF IsInsertion

\* What RemoveAt of the community modules does.
LEMMA Removed ==
    ASSUME NEW S, NEW q \in Seq(S), NEW k \in 1..Len(q)
    PROVE  RemoveAt(q, k) \in Seq(S) /\ IsRemoval(RemoveAt(q, k), q, k)
<1> DEFINE a == SubSeq(q, 1, k - 1)
           b == SubSeq(q, k + 1, Len(q))
<1>1. /\ a \in Seq(S) /\ Len(a) = k - 1 /\ \A i \in 1..(k - 1) : a[i] = q[i]
  OBVIOUS
<1>2. /\ b \in Seq(S) /\ Len(b) = Len(q) - k
      /\ \A i \in 1..(Len(q) - k) : b[i] = q[k + i]
  OBVIOUS
<1>3. RemoveAt(q, k) = a \o b  BY DEF RemoveAt
<1>4. Len(q) \in Nat  OBVIOUS
<1> HIDE DEF a, b
<1>6. /\ a \o b \in Seq(S) /\ Len(a \o b) = Len(q) - 1
      /\ \A i \in 1..(Len(q) - 1) : (a \o b)[i] = IF i <= k - 1 THEN a[i] ELSE b[i - (k - 1)]
  <2>1. /\ a \o b \in Seq(S) /\ Len(a \o b) = Len(a) + Len(b)
        /\ \A i \in 1..(Len(a) + Len(b)) :
              (a \o b)[i] = IF i <= Len(a) THEN a[i] ELSE b[i - Len(a)]
    BY Zenon, <1>1, <1>2, ConcatProperties
  <2>2. Len(a) + Len(b) = Len(q) - 1  BY <1>1, <1>2, <1>4
  <2> QED  BY <1>1, <2>1, <2>2
<1> DEFINE r == RemoveAt(q, k)
<1>8. ASSUME NEW i \in 1..(Len(q) - 1)
      PROVE  r[i] = IF i < k THEN q[i] ELSE q[i + 1]
  <2>1. CASE i < k  BY <1>1, <1>3, <1>4, <1>6, <2>1
  <2>2. CASE i >= k
    <3>1. i - (k - 1) \in 1..(Len(q) - k) /\ k + (i - (k - 1)) = i + 1  BY <1>4, <2>2
    <3>2. b[i - (k - 1)] = q[k + (i - (k - 1))]  BY <1>2, <3>1
    <3>3. b[i - (k - 1)] = q[i + 1]  BY <3>1, <3>2
    <3> QED  BY SMTT(30), <1>3, <1>4, <1>6, <2>2, <3>3
  <2> QED  BY <1>4, <2>1, <2>2
<1> QED  BY <1>3, <1>6, <1>8 DEF IsRemoval

\* What was taken out, put back.
LEMMA PutBack ==
    ASSUME NEW S, NEW q \in Seq(S), NEW k \in 1..Len(q)
    PROVE  InsertAt(RemoveAt(q, k), k, q[k]) = q
<1>1. Len(q) \in Nat /\ q[k] \in S  OBVIOUS
<1> PICK t \in S : t = q[k]  BY <1>1
<1>2. PICK p \in Seq(S) : p = RemoveAt(q, k) /\ IsRemoval(p, q, k)  BY Removed
<1>3. k \in 1..(Len(p) + 1) /\ Len(p) + 1 = Len(q)  BY <1>1, <1>2 DEF IsRemoval
<1>4. PICK r \in Seq(S) : r = InsertAt(p, k, t) /\ IsInsertion(r, p, k, t)
  BY <1>3, Inserted
<1>5. ASSUME NEW i \in 1..Len(q)  PROVE r[i] = q[i]
  <2>0. r[i] = IF i < k THEN p[i] ELSE IF i = k THEN t ELSE p[i - 1]
    BY <1>3, <1>4 DEF IsInsertion
  <2>1. CASE i < k
    <3>1. i \in 1..(Len(q) - 1)  BY <1>1, <2>1
    <3>2. p[i] = q[i]  BY <1>2, <2>1, <3>1 DEF IsRemoval
    <3> QED  BY <2>0, <2>1, <3>2
  <2>2. CASE i = k  BY <2>0, <2>2
  <2>3. CASE i > k
    <3>1. i - 1 \in 1..(Len(q) - 1) /\ ~(i - 1 < k) /\ (i - 1) + 1 = i  BY <1>1, <2>3
    <3>2. p[i - 1] = q[(i - 1) + 1]  BY <1>2, <3>1 DEF IsRemoval
    <3> QED  BY <2>0, <2>3, <3>1, <3>2
  <2> QED  BY <1>1, <2>1, <2>2, <2>3
<1>6. Len(r) = Len(q)  BY <1>3, <1>4 DEF IsInsertion
<1>7. r = q  BY <1>5, <1>6, SeqEqual
<1> QED  BY <1>2, <1>4, <1>7

-------------------------------------------------------------------------------
(* Cells of a row *)

\* What a row gives to every proof.
LEMMA RowType ==
    ASSUME NEW q, Row(q)
    PROVE  /\ q \in Seq(Timers) /\ Len(q) \in Nat
           /\ \A i \in 1..Len(q) : q[i] \in Timers /\ q[i] \in CellsOf(q)
           /\ \A i, j \in 1..Len(q) : q[i] = q[j] => i = j
           /\ \A c \in CellsOf(q) : \E i \in 1..Len(q) : c = q[i]
           /\ CellsOf(q) \subseteq Timers
  BY DEF Row, CellsOf

\* A new timer put into a row makes a row.
LEMMA RowInsertion ==
    ASSUME NEW q, Row(q), NEW t \in Timers \ CellsOf(q), NEW k \in 1..(Len(q) + 1),
           NEW r \in Seq(Timers), IsInsertion(r, q, k, t)
    PROVE  Row(r) /\ CellsOf(r) = CellsOf(q) \cup {t}
<1>1. Len(r) = Len(q) + 1 /\ Len(q) \in Nat  BY RowType DEF IsInsertion
<1>2. ASSUME NEW i \in 1..Len(r)
      PROVE  /\ i < k => i \in 1..Len(q) /\ r[i] = q[i]
             /\ i = k => r[i] = t
             /\ i > k => i - 1 \in 1..Len(q) /\ r[i] = q[i - 1]
  BY <1>1 DEF IsInsertion
<1>3. ASSUME NEW i \in 1..Len(q)
      PROVE  /\ i < k => i \in 1..Len(r) /\ r[i] = q[i]
             /\ i >= k => i + 1 \in 1..Len(r) /\ r[i + 1] = q[i]
  <2>1. CASE i < k  BY <1>1, <1>2, <2>1
  <2>2. CASE i >= k
    <3>1. i + 1 \in 1..Len(r) /\ i + 1 > k /\ (i + 1) - 1 = i  BY <1>1, <2>2
    <3>2. r[i + 1] = q[(i + 1) - 1]  BY <1>2, <3>1
    <3> QED  BY <2>2, <3>1, <3>2
  <2> QED  BY <1>1, <2>1, <2>2
<1>4. \A i \in 1..Len(q) : q[i] # t  BY RowType
<1>5. ASSUME NEW i \in 1..Len(r), NEW j \in 1..Len(r), r[i] = r[j]  PROVE i = j
  <2>1. CASE i = k  BY <1>1, <1>2, <1>4, <1>5, <2>1
  <2>2. CASE j = k  BY <1>1, <1>2, <1>4, <1>5, <2>2
  <2>3. CASE i < k /\ j < k  BY <1>2, <1>5, <2>3, RowType
  <2>4. CASE i < k /\ j > k
    <3>1. i = j - 1  BY <1>2, <1>5, <2>4, RowType
    <3> QED  BY <1>1, <2>4, <3>1
  <2>5. CASE i > k /\ j < k
    <3>1. i - 1 = j  BY <1>2, <1>5, <2>5, RowType
    <3> QED  BY <1>1, <2>5, <3>1
  <2>6. CASE i > k /\ j > k
    <3>1. i - 1 = j - 1  BY SMTT(30), <1>2, <1>5, <2>6, RowType
    <3> QED  BY <1>1, <3>1
  <2> QED  BY <1>1, <2>1, <2>2, <2>3, <2>4, <2>5, <2>6
<1>6. Row(r)  BY <1>5 DEF Row
<1>7. ASSUME NEW c \in CellsOf(r)  PROVE c \in CellsOf(q) \cup {t}
  <2>1. PICK i \in 1..Len(r) : c = r[i]  BY DEF CellsOf
  <2> QED  BY <1>1, <1>2, <2>1, RowType
<1>8. ASSUME NEW c \in CellsOf(q)  PROVE c \in CellsOf(r)
  <2>1. PICK i \in 1..Len(q) : c = q[i]  BY DEF CellsOf
  <2>2. \E j \in 1..Len(r) : r[j] = c  BY <1>1, <1>3, <2>1
  <2> QED  BY <2>2 DEF CellsOf
<1>9. t \in CellsOf(r)
  <2>1. k \in 1..Len(r) /\ r[k] = t  BY <1>1, <1>2
  <2> QED  BY <2>1 DEF CellsOf
<1> QED  BY <1>6, <1>7, <1>8, <1>9

\* A timer taken out of a row leaves a row.
LEMMA RowRemoval ==
    ASSUME NEW q, Row(q), NEW k \in 1..Len(q), NEW r \in Seq(Timers), IsRemoval(r, q, k)
    PROVE  Row(r) /\ CellsOf(r) = CellsOf(q) \ {q[k]}
<1>1. Len(r) = Len(q) - 1 /\ Len(q) \in Nat  BY RowType DEF IsRemoval
<1>2. ASSUME NEW i \in 1..Len(r)
      PROVE  /\ i \in 1..Len(q) /\ i + 1 \in 1..Len(q)
             /\ r[i] = IF i < k THEN q[i] ELSE q[i + 1]
  BY <1>1 DEF IsRemoval
<1>3. ASSUME NEW i \in 1..Len(q), i # k
      PROVE  \E j \in 1..Len(r) : r[j] = q[i]
  <2>1. CASE i < k
    <3>1. i \in 1..Len(r)  BY <1>1, <2>1
    <3> QED  BY <1>2, <2>1, <3>1
  <2>2. CASE i > k
    <3>1. i - 1 \in 1..Len(r) /\ ~(i - 1 < k) /\ (i - 1) + 1 = i  BY <1>1, <2>2
    <3>2. r[i - 1] = q[(i - 1) + 1]  BY <1>2, <3>1
    <3> QED  BY <3>1, <3>2
  <2> QED  BY <1>1, <1>3, <2>1, <2>2
<1>4. ASSUME NEW i \in 1..Len(r)
      PROVE  \E a \in 1..Len(q) : r[i] = q[a] /\ a = IF i < k THEN i ELSE i + 1
  BY Zenon, <1>1, <1>2
<1>5. ASSUME NEW i \in 1..Len(r), NEW j \in 1..Len(r), r[i] = r[j]  PROVE i = j
  <2>1. PICK a \in 1..Len(q) : r[i] = q[a] /\ a = IF i < k THEN i ELSE i + 1  BY <1>4
  <2>2. PICK b \in 1..Len(q) : r[j] = q[b] /\ b = IF j < k THEN j ELSE j + 1  BY <1>4
  <2>3. a = b  BY ZenonT(30), <1>5, <2>1, <2>2, RowType
  <2> QED  BY <1>1, <2>1, <2>2, <2>3
<1>6. Row(r)  BY <1>5 DEF Row
<1>7. ASSUME NEW c \in CellsOf(r)  PROVE c \in CellsOf(q) \ {q[k]}
  <2>1. PICK i \in 1..Len(r) : c = r[i]  BY DEF CellsOf
  <2>2. PICK j \in 1..Len(q) : j # k /\ c = q[j]
    <3>1. CASE i < k  BY <1>1, <1>2, <2>1, <3>1
    <3>2. CASE i >= k
      <4>1. i + 1 # k  BY <1>1, <3>2
      <4> QED  BY <1>1, <1>2, <2>1, <3>2, <4>1
    <3> QED  BY <1>1, <3>1, <3>2
  <2> QED  BY <2>2, RowType
<1>8. ASSUME NEW c \in CellsOf(q) \ {q[k]}  PROVE c \in CellsOf(r)
  <2>1. PICK i \in 1..Len(q) : c = q[i]  BY DEF CellsOf
  <2>2. \E j \in 1..Len(r) : r[j] = c  BY <1>3, <2>1
  <2> QED  BY <2>2 DEF CellsOf
<1> QED  BY <1>6, <1>7, <1>8

\* The rest of a row.
IsRest(r, q, k) ==
    /\ Len(r) = Len(q) - (k - 1)
    /\ \A i \in 1..Len(r) : r[i] = q[i + (k - 1)]

\* What SubSeq does, up to the end.
LEMMA Rest ==
    ASSUME NEW q \in Seq(Timers), NEW k \in 1..(Len(q) + 1)
    PROVE  SubSeq(q, k, Len(q)) \in Seq(Timers) /\ IsRest(SubSeq(q, k, Len(q)), q, k)
<1>1. Len(q) \in Nat  OBVIOUS
<1>2. PICK r \in Seq(Timers) : r = SubSeq(q, k, Len(q))
  <2>1. \A i \in k..Len(q) : q[i] \in Timers  BY <1>1
  <2>2. SubSeq(q, k, Len(q)) \in Seq(Timers)  BY <1>1, <2>1
  <2> QED  BY Zenon, <2>2
<1>3. Len(r) = Len(q) - (k - 1)  BY <1>1, <1>2
<1>4. ASSUME NEW i \in 1..Len(r)  PROVE r[i] = q[i + (k - 1)]
  <2>1. r[i] = q[k + i - 1] /\ k + i - 1 = i + (k - 1)  BY <1>1, <1>2, <1>3
  <2> QED  BY <2>1
<1> QED  BY <1>2, <1>3, <1>4 DEF IsRest

\* The rest of a row is a row, of the timers that were not in front of it.
LEMMA RowRest ==
    ASSUME NEW q, Row(q), NEW k \in 1..(Len(q) + 1), NEW r \in Seq(Timers), IsRest(r, q, k)
    PROVE  /\ Row(r)
           /\ CellsOf(r) = {q[i] : i \in k..Len(q)}
           /\ CellsOf(r) = CellsOf(q) \ {q[i] : i \in 1..(k - 1)}
<1>1. Len(r) = Len(q) - (k - 1) /\ Len(q) \in Nat  BY RowType DEF IsRest
<1>2. ASSUME NEW i \in 1..Len(r)
      PROVE  \E a \in k..Len(q) : r[i] = q[a] /\ a = i + (k - 1) /\ a \in 1..Len(q)
  BY <1>1 DEF IsRest
<1>3. ASSUME NEW a \in k..Len(q)  PROVE \E i \in 1..Len(r) : r[i] = q[a]
  <2>1. a - (k - 1) \in 1..Len(r) /\ (a - (k - 1)) + (k - 1) = a  BY <1>1
  <2>2. r[a - (k - 1)] = q[(a - (k - 1)) + (k - 1)]  BY <2>1 DEF IsRest
  <2> QED  BY <2>1, <2>2
<1>4. ASSUME NEW i \in 1..Len(r), NEW j \in 1..Len(r), r[i] = r[j]  PROVE i = j
  <2>1. PICK a \in 1..Len(q) : r[i] = q[a] /\ a = i + (k - 1)  BY Zenon, <1>2
  <2>2. PICK b \in 1..Len(q) : r[j] = q[b] /\ b = j + (k - 1)  BY Zenon, <1>2
  <2>3. a = b  BY Zenon, <1>4, <2>1, <2>2, RowType
  <2> QED  BY <1>1, <2>1, <2>2, <2>3
<1>5. Row(r)  BY <1>4 DEF Row
<1>6. CellsOf(r) = {q[i] : i \in k..Len(q)}
  <2>1. ASSUME NEW c \in CellsOf(r)  PROVE c \in {q[i] : i \in k..Len(q)}
    <3>1. PICK i \in 1..Len(r) : c = r[i]  BY DEF CellsOf
    <3>2. PICK a \in k..Len(q) : r[i] = q[a]  BY <1>2
    <3> QED  BY <3>1, <3>2
  <2>2. ASSUME NEW a \in k..Len(q)  PROVE q[a] \in CellsOf(r)
    <3>1. PICK i \in 1..Len(r) : r[i] = q[a]  BY Zenon, <1>3
    <3> QED  BY <3>1 DEF CellsOf
  <2> QED  BY <2>1, <2>2
<1>7. {q[i] : i \in k..Len(q)} = CellsOf(q) \ {q[i] : i \in 1..(k - 1)}
  <2>1. ASSUME NEW a \in k..Len(q)
        PROVE  q[a] \in CellsOf(q) \ {q[i] : i \in 1..(k - 1)}
    <3>1. a \in 1..Len(q) /\ 1..(k - 1) \subseteq 1..Len(q) /\ a \notin 1..(k - 1)
      BY <1>1
    <3> QED  BY <3>1, RowType
  <2>2. ASSUME NEW c \in CellsOf(q), c \notin {q[i] : i \in 1..(k - 1)}
        PROVE  c \in {q[i] : i \in k..Len(q)}
    <3>1. PICK i \in 1..Len(q) : c = q[i]  BY RowType
    <3>2. i \notin 1..(k - 1)  BY <2>2, <3>1
    <3>3. i \in k..Len(q)  BY <1>1, <3>2
    <3> QED  BY <3>1, <3>3
  <2> QED  BY <2>1, <2>2
<1> QED  BY Zenon, <1>5, <1>6, <1>7

-------------------------------------------------------------------------------
(* Pointers *)

\* What LinkAfter makes of the pointers.
LEMMA LinkedForward ==
    ASSUME NEW q, Row(q), NEW t \in Timers \ CellsOf(q), NEW k \in 1..Len(q),
           NEW r \in Seq(Timers), IsInsertion(r, q, k + 1, t),
           NEW nx \in [Timers -> Timers \cup {Null}], Forward(q, nx)
    PROVE  Forward(r, [nx EXCEPT ![q[k]] = t, ![t] = nx[q[k]]])
<1> PICK n \in Timers : n = q[k]  BY RowType
<1> DEFINE new == [nx EXCEPT ![n] = t, ![t] = nx[n]]
<1>1. Len(r) = Len(q) + 1 /\ Len(q) \in Nat  BY RowType DEF IsInsertion
<1>2. n # t  BY RowType
<1>3. \A c \in Timers : new[c] = IF c = t THEN nx[n] ELSE IF c = n THEN t ELSE nx[c]
  BY <1>2
<1>4. ASSUME NEW i \in 1..Len(r)
      PROVE  r[i] = IF i < k + 1 THEN q[i] ELSE IF i = k + 1 THEN t ELSE q[i - 1]
  BY <1>1, <1>4 DEF IsInsertion
<1>5. \A i \in 1..Len(q) : nx[q[i]] = IF i = Len(q) THEN Null ELSE q[i + 1]
  BY DEF Forward
<1>6. \A i \in 1..Len(q) : q[i] \in Timers /\ q[i] # t /\ (q[i] = n => i = k)
  BY RowType
<1> HIDE DEF new
<1>7. ASSUME NEW i \in 1..Len(r)
      PROVE  new[r[i]] = IF i = Len(r) THEN Null ELSE r[i + 1]
  <2>1. CASE i < k
    <3>1. i \in 1..Len(q) /\ i + 1 \in 1..Len(r) /\ i # Len(r) /\ i # Len(q)  BY <1>1, <2>1
    <3>2. r[i] = q[i] /\ r[i + 1] = q[i + 1]  BY <1>1, <1>4, <2>1, <3>1
    <3>3. new[q[i]] = nx[q[i]]  BY <1>3, <1>6, <2>1, <3>1
    <3> QED  BY <1>5, <3>1, <3>2, <3>3
  <2>2. CASE i = k
    <3>1. k + 1 \in 1..Len(r) /\ k # Len(r)  BY <1>1
    <3>2. r[k] = n /\ r[k + 1] = t  BY <1>1, <1>4, <3>1
    <3>3. new[n] = t  BY <1>2, <1>3
    <3> QED  BY <2>2, <3>1, <3>2, <3>3
  <2>3. CASE i = k + 1
    <3>1. r[i] = t /\ new[t] = nx[n]  BY <1>1, <1>3, <1>4, <2>3
    <3>2. CASE k = Len(q)  BY <1>1, <1>5, <2>3, <3>1, <3>2
    <3>3. CASE k # Len(q)
      <4>1. i + 1 \in 1..Len(r) /\ (i + 1) - 1 = k + 1  BY <1>1, <2>3, <3>3
      <4>2. r[i + 1] = q[k + 1]
        <5>1. r[i + 1] = q[(i + 1) - 1]  BY <1>1, <1>4, <2>3, <4>1
        <5> QED  BY <4>1, <5>1
      <4> QED  BY <1>1, <1>5, <2>3, <3>1, <3>3, <4>2
    <3> QED  BY <3>2, <3>3
  <2>4. CASE i > k + 1
    <3>1. i - 1 \in 1..Len(q) /\ i - 1 # k /\ (i - 1 = Len(q) <=> i = Len(r))
          /\ (i - 1) + 1 = i
      BY <1>1, <2>4
    <3>2. r[i] = q[i - 1]  BY <1>1, <1>4, <2>4
    <3>3. new[r[i]] = nx[q[i - 1]]  BY <1>3, <1>6, <3>1, <3>2
    <3>4. nx[q[i - 1]] = IF i - 1 = Len(q) THEN Null ELSE q[i]
      <4>1. nx[q[i - 1]] = IF i - 1 = Len(q) THEN Null ELSE q[(i - 1) + 1]  BY <1>5, <3>1
      <4> QED  BY <3>1, <4>1
    <3>5. i # Len(r) => r[i + 1] = q[i]
      <4> SUFFICES ASSUME i # Len(r) PROVE r[i + 1] = q[i]  OBVIOUS
      <4>1. i + 1 \in 1..Len(r) /\ (i + 1) - 1 = i  BY <1>1
      <4>2. r[i + 1] = q[(i + 1) - 1]  BY <1>1, <1>4, <2>4, <4>1
      <4> QED  BY <4>1, <4>2
    <3> QED  BY <3>1, <3>3, <3>4, <3>5
  <2> QED  BY <1>1, <2>1, <2>2, <2>3, <2>4
<1> QED  BY Zenon, <1>7 DEF Forward, new

\* The same of the pointers back; s is the cell behind the k-th, if any.
LEMMA LinkedBackward ==
    ASSUME NEW q, Row(q), NEW t \in Timers \ CellsOf(q), NEW k \in 1..Len(q),
           NEW r \in Seq(Timers), IsInsertion(r, q, k + 1, t),
           NEW s, s = IF k = Len(q) THEN Null ELSE q[k + 1],
           NEW pv, Backward(q, pv)
    PROVE  Backward(r, [c \in Timers |->
                           IF c = t THEN q[k] ELSE IF c = s THEN t ELSE pv[c]])
<1> PICK n \in Timers : n = q[k]  BY RowType
<1> DEFINE new == [c \in Timers |-> IF c = t THEN n ELSE IF c = s THEN t ELSE pv[c]]
<1>1. Len(r) = Len(q) + 1 /\ Len(q) \in Nat  BY RowType DEF IsInsertion
<1>3. \A c \in Timers : new[c] = IF c = t THEN n ELSE IF c = s THEN t ELSE pv[c]
  OBVIOUS
<1>4. ASSUME NEW i \in 1..Len(r)
      PROVE  r[i] = IF i < k + 1 THEN q[i] ELSE IF i = k + 1 THEN t ELSE q[i - 1]
  BY <1>1, <1>4 DEF IsInsertion
<1>5. \A i \in 1..Len(q) : pv[q[i]] = IF i = 1 THEN Null ELSE q[i - 1]
  BY DEF Backward
<1>6. ASSUME NEW i \in 1..Len(q)
      PROVE  q[i] \in Timers /\ q[i] # t /\ (q[i] = s <=> i = k + 1)
  <2>1. q[i] \in Timers /\ q[i] # t  BY RowType
  <2>2. q[i] # Null  BY <2>1, TimerAssumption
  <2>3. CASE k = Len(q)  BY <1>1, <2>1, <2>2, <2>3
  <2>4. CASE k # Len(q)
    <3>1. k + 1 \in 1..Len(q)  BY <1>1, <2>4
    <3> QED  BY <2>1, <2>4, <3>1, RowType
  <2> QED  BY <2>3, <2>4
<1> HIDE DEF new
<1>7. ASSUME NEW i \in 1..Len(r)
      PROVE  new[r[i]] = IF i = 1 THEN Null ELSE r[i - 1]
  <2>1. CASE i <= k
    <3>1. i \in 1..Len(q) /\ i # k + 1 /\ (i # 1 => i - 1 \in 1..Len(r) /\ i - 1 < k + 1)
      BY <1>1, <2>1
    <3>2. r[i] = q[i] /\ (i # 1 => r[i - 1] = q[i - 1])
      <4>1. i < k + 1  BY <1>1, <2>1
      <4> QED  BY <1>4, <3>1, <4>1
    <3>3. new[q[i]] = pv[q[i]]  BY <1>3, <1>6, <3>1
    <3> QED  BY <1>5, <3>1, <3>2, <3>3
  <2>2. CASE i = k + 1
    <3>1. k \in 1..Len(r) /\ i # 1 /\ i - 1 = k  BY <1>1, <2>2
    <3>2. r[i] = t /\ r[k] = n  BY <1>1, <1>4, <2>2, <3>1
    <3>3. new[t] = n  BY <1>3
    <3> QED  BY <3>1, <3>2, <3>3
  <2>3. CASE i > k + 1
    <3>1. i - 1 \in 1..Len(q) /\ i - 1 \in 1..Len(r) /\ i # 1 /\ i - 1 # 1
      BY <1>1, <2>3
    <3>2. r[i] = q[i - 1]  BY <1>1, <1>4, <2>3
    <3>3. CASE i - 1 = k + 1
      <4>1. r[i - 1] = t  BY <1>1, <1>4, <3>1, <3>3
      <4>2. new[q[i - 1]] = t  BY <1>3, <1>6, <3>1, <3>3
      <4> QED  BY <3>1, <3>2, <4>1, <4>2
    <3>4. CASE i - 1 # k + 1
      <4>1. r[i - 1] = q[i - 2]
        <5>1. i - 1 > k + 1 /\ (i - 1) - 1 = i - 2  BY <1>1, <2>3, <3>4
        <5>2. r[i - 1] = q[(i - 1) - 1]  BY <1>1, <1>4, <3>1, <5>1
        <5> QED  BY <5>1, <5>2
      <4>2. new[q[i - 1]] = pv[q[i - 1]]  BY <1>3, <1>6, <3>1, <3>4
      <4>3. pv[q[i - 1]] = q[i - 2]
        <5>1. pv[q[i - 1]] = q[(i - 1) - 1] /\ (i - 1) - 1 = i - 2  BY <1>5, <3>1
        <5> QED  BY <5>1
      <4> QED  BY <3>1, <3>2, <4>1, <4>2, <4>3
    <3> QED  BY <3>3, <3>4
  <2> QED  BY <1>1, <2>1, <2>2, <2>3
<1> QED  BY <1>7 DEF Backward, new

\* A cell in front of all others.
LEMMA LinkedFront ==
    ASSUME NEW q, Row(q), q # <<>>, NEW t \in Timers \ CellsOf(q),
           NEW r \in Seq(Timers), IsInsertion(r, q, 1, t),
           NEW nx \in [Timers -> Timers \cup {Null}], Forward(q, nx),
           NEW pv \in [Timers -> Timers \cup {Null}], Backward(q, pv), pv[t] = Null
    PROVE  /\ Forward(r, [nx EXCEPT ![t] = q[1]])
           /\ Backward(r, [pv EXCEPT ![q[1]] = t])
<1>1. Len(r) = Len(q) + 1 /\ Len(q) \in Nat /\ 1 \in 1..Len(q)  BY RowType DEF IsInsertion
<1> PICK h \in Timers : h = q[1]  BY <1>1, RowType
<1> DEFINE nnx == [nx EXCEPT ![t] = h]
           npv == [pv EXCEPT ![h] = t]
<1>3. \A c \in Timers : /\ nnx[c] = IF c = t THEN h ELSE nx[c]
                        /\ npv[c] = IF c = h THEN t ELSE pv[c]
  OBVIOUS
<1>4. ASSUME NEW i \in 1..Len(r)  PROVE r[i] = IF i = 1 THEN t ELSE q[i - 1]
  BY <1>1, <1>4 DEF IsInsertion
<1>5. \A i \in 1..Len(q) : /\ nx[q[i]] = IF i = Len(q) THEN Null ELSE q[i + 1]
                           /\ pv[q[i]] = IF i = 1 THEN Null ELSE q[i - 1]
  BY DEF Forward, Backward
<1>6. \A i \in 1..Len(q) : q[i] \in Timers /\ q[i] # t /\ (q[i] = h <=> i = 1)
  BY <1>1, RowType
<1>7. t # h  BY <1>1, <1>6
<1> HIDE DEF nnx, npv
<1>8. ASSUME NEW i \in 1..Len(r)
      PROVE  nnx[r[i]] = IF i = Len(r) THEN Null ELSE r[i + 1]
  <2>1. CASE i = 1
    <3>1. 2 \in 1..Len(r) /\ i # Len(r)  BY <1>1, <2>1
    <3>2. r[1] = t /\ r[2] = q[2 - 1]  BY <1>1, <1>4, <2>1, <3>1
    <3>3. r[2] = h  BY <3>2
    <3> QED  BY <1>3, <2>1, <3>1, <3>2, <3>3
  <2>2. CASE i # 1
    <3>1. i - 1 \in 1..Len(q) /\ (i - 1 = Len(q) <=> i = Len(r)) /\ (i - 1) + 1 = i
      BY <1>1, <2>2
    <3>2. r[i] = q[i - 1]  BY <1>4, <2>2
    <3>3. nnx[r[i]] = nx[q[i - 1]]  BY <1>3, <1>6, <3>1, <3>2
    <3>4. nx[q[i - 1]] = IF i - 1 = Len(q) THEN Null ELSE q[(i - 1) + 1]  BY <1>5, <3>1
    <3>5. i # Len(r) => r[i + 1] = q[i]
      <4> SUFFICES ASSUME i # Len(r) PROVE r[i + 1] = q[i]  OBVIOUS
      <4>1. i + 1 \in 1..Len(r) /\ (i + 1) - 1 = i /\ i + 1 # 1  BY <1>1
      <4>2. r[i + 1] = q[(i + 1) - 1]  BY <1>4, <4>1
      <4> QED  BY <4>1, <4>2
    <3> QED  BY <3>1, <3>3, <3>4, <3>5
  <2> QED  BY <2>1, <2>2
<1>9. ASSUME NEW i \in 1..Len(r)
      PROVE  npv[r[i]] = IF i = 1 THEN Null ELSE r[i - 1]
  <2>1. CASE i = 1  BY <1>3, <1>4, <1>7, <2>1
  <2>2. CASE i = 2
    <3>1. 1 \in 1..Len(r) /\ i - 1 = 1  BY <1>1, <2>2
    <3>2. r[i] = h /\ r[i - 1] = t
      <4>1. r[i] = q[i - 1] /\ r[1] = t  BY <1>4, <2>2, <3>1
      <4> QED  BY <3>1, <4>1
    <3> QED  BY <1>3, <2>2, <3>2
  <2>3. CASE i # 1 /\ i # 2
    <3>1. i - 1 \in 1..Len(q) /\ i - 1 \in 1..Len(r) /\ i - 1 # 1  BY <1>1, <2>3
    <3>2. r[i] = q[i - 1] /\ r[i - 1] = q[(i - 1) - 1]  BY Zenon, <1>4, <2>3, <3>1
    <3>3. npv[r[i]] = pv[q[i - 1]]  BY <1>3, <1>6, <3>1, <3>2
    <3>4. pv[q[i - 1]] = q[(i - 1) - 1]  BY <1>5, <3>1
    <3> QED  BY <2>3, <3>2, <3>3, <3>4
  <2> QED  BY <2>1, <2>2, <2>3
<1> QED  BY <1>8, <1>9 DEF Forward, Backward, nnx, npv

\* What pointed to the k-th cell points to where its own pointer did.
Bypasses(q, k, nx, pv, nnx, npv) ==
    \A i \in 1..Len(q) :
        /\ i # k => nnx[q[i]] = IF i = k - 1 THEN nx[q[k]] ELSE nx[q[i]]
        /\ i # k => npv[q[i]] = IF i = k + 1 THEN pv[q[k]] ELSE pv[q[i]]

\* Pointers that bypass a cell link the row without it.
LEMMA Unlinked ==
    ASSUME NEW q, Row(q), NEW k \in 1..Len(q), NEW r \in Seq(Timers), IsRemoval(r, q, k),
           NEW nx, Forward(q, nx), NEW pv, Backward(q, pv), NEW nnx, NEW npv,
           Bypasses(q, k, nx, pv, nnx, npv)
    PROVE  Forward(r, nnx) /\ Backward(r, npv)
<1>0. \A i \in 1..Len(q) :
         /\ i # k => nnx[q[i]] = IF i = k - 1 THEN nx[q[k]] ELSE nx[q[i]]
         /\ i # k => npv[q[i]] = IF i = k + 1 THEN pv[q[k]] ELSE pv[q[i]]
  BY DEF Bypasses
<1>1. Len(r) = Len(q) - 1 /\ Len(q) \in Nat  BY RowType DEF IsRemoval
<1>2. ASSUME NEW i \in 1..Len(r)  PROVE r[i] = IF i < k THEN q[i] ELSE q[i + 1]
  BY <1>1, <1>2 DEF IsRemoval
<1>3. \A i \in 1..Len(q) : /\ nx[q[i]] = IF i = Len(q) THEN Null ELSE q[i + 1]
                           /\ pv[q[i]] = IF i = 1 THEN Null ELSE q[i - 1]
  BY DEF Forward, Backward
<1>4. ASSUME NEW i \in 1..Len(r)
      PROVE  nnx[r[i]] = IF i = Len(r) THEN Null ELSE r[i + 1]
  <2>1. CASE i < k - 1
    <3>1. i \in 1..Len(q) /\ i + 1 \in 1..Len(r) /\ i + 1 < k /\ i # k /\ i # k - 1
          /\ i # Len(q) /\ i # Len(r)
      BY <1>1, <2>1
    <3>2. r[i] = q[i] /\ r[i + 1] = q[i + 1]  BY <1>1, <1>2, <2>1, <3>1
    <3> QED  BY <1>0, <1>3, <3>1, <3>2
  <2>2. CASE i = k - 1
    <3>1. i \in 1..Len(q) /\ i < k /\ i # k /\ (i = Len(r) <=> k = Len(q))  BY <1>1, <2>2
    <3>2. r[i] = q[i]  BY <1>2, <3>1
    <3>3. nnx[r[i]] = nx[q[k]]  BY <1>0, <2>2, <3>1, <3>2
    <3>4. i # Len(r) => r[i + 1] = q[k + 1]
      <4> SUFFICES ASSUME i # Len(r) PROVE r[i + 1] = q[k + 1]  OBVIOUS
      <4>1. i + 1 = k /\ k \in 1..Len(r) /\ ~(k < k)  BY <1>1, <2>2
      <4>2. r[k] = q[k + 1]  BY <1>2, <4>1
      <4> QED  BY <4>1, <4>2
    <3> QED  BY <1>3, <3>1, <3>3, <3>4
  <2>3. CASE i >= k
    <3>1. i + 1 \in 1..Len(q) /\ i + 1 # k /\ i + 1 # k - 1 /\ ~(i < k)
          /\ (i + 1 = Len(q) <=> i = Len(r))
      BY <1>1, <2>3
    <3>2. r[i] = q[i + 1]  BY <1>2, <3>1
    <3>3. nnx[r[i]] = nx[q[i + 1]]  BY <1>0, <3>1, <3>2
    <3>4. i # Len(r) => r[i + 1] = q[(i + 1) + 1]
      <4> SUFFICES ASSUME i # Len(r) PROVE r[i + 1] = q[(i + 1) + 1]  OBVIOUS
      <4>1. i + 1 \in 1..Len(r) /\ ~(i + 1 < k)  BY <1>1, <2>3
      <4> QED  BY <1>2, <4>1
    <3> QED  BY <1>3, <3>1, <3>3, <3>4
  <2> QED  BY <1>1, <2>1, <2>2, <2>3
<1>5. ASSUME NEW i \in 1..Len(r)
      PROVE  npv[r[i]] = IF i = 1 THEN Null ELSE r[i - 1]
  <2>1. CASE i < k
    <3>1. i \in 1..Len(q) /\ i # k /\ i # k + 1 /\ (i # 1 => i - 1 \in 1..Len(r) /\ i - 1 < k)
      BY <1>1, <2>1
    <3>2. r[i] = q[i] /\ (i # 1 => r[i - 1] = q[i - 1])  BY Zenon, <1>2, <2>1, <3>1
    <3> QED  BY <1>0, <1>3, <3>1, <3>2
  <2>2. CASE i = k
    <3>1. i + 1 \in 1..Len(q) /\ i + 1 = k + 1 /\ i + 1 # k /\ ~(i < k)  BY <1>1, <2>2
    <3>2. r[i] = q[i + 1]  BY <1>2, <3>1
    <3>3. npv[r[i]] = pv[q[k]]  BY <1>0, <3>1, <3>2
    <3>4. i # 1 => r[i - 1] = q[i - 1]
      <4> SUFFICES ASSUME i # 1 PROVE r[i - 1] = q[i - 1]  OBVIOUS
      <4>1. i - 1 \in 1..Len(r) /\ i - 1 < k  BY <1>1, <2>2
      <4> QED  BY <1>2, <4>1
    <3> QED  BY <1>3, <2>2, <3>3, <3>4
  <2>3. CASE i > k
    <3>1. i + 1 \in 1..Len(q) /\ i + 1 # k /\ i + 1 # k + 1 /\ i + 1 # 1 /\ i # 1
          /\ ~(i < k) /\ i - 1 \in 1..Len(r) /\ ~(i - 1 < k)
          /\ (i - 1) + 1 = i /\ (i + 1) - 1 = i
      BY <1>1, <2>3
    <3>2. r[i] = q[i + 1] /\ r[i - 1] = q[(i - 1) + 1]  BY Zenon, <1>2, <3>1
    <3>3. npv[r[i]] = pv[q[i + 1]]  BY <1>0, <3>1, <3>2
    <3>4. pv[q[i + 1]] = q[(i + 1) - 1]  BY Zenon, <1>3, <3>1
    <3> QED  BY <3>1, <3>2, <3>3, <3>4
  <2> QED  BY <1>1, <2>1, <2>2, <2>3
<1> QED  BY Zenon, <1>4, <1>5 DEF Forward, Backward

\* The cells from the k-th on keep their pointers, but nothing is in front of the k-th.
KeepsFrom(q, k, nx, pv, nnx, npv) ==
    \A i \in k..Len(q) :
        /\ nnx[q[i]] = nx[q[i]]
        /\ npv[q[i]] = IF i = k THEN Null ELSE pv[q[i]]

\* Pointers that are kept from a cell on link the row from there on.
LEMMA RestLinked ==
    ASSUME NEW q, Row(q), NEW k \in 1..(Len(q) + 1), NEW r \in Seq(Timers), IsRest(r, q, k),
           NEW nx, Forward(q, nx), NEW pv, Backward(q, pv), NEW nnx, NEW npv,
           KeepsFrom(q, k, nx, pv, nnx, npv)
    PROVE  Forward(r, nnx) /\ Backward(r, npv)
<1>1. Len(r) = Len(q) - (k - 1) /\ Len(q) \in Nat  BY RowType DEF IsRest
<1>2. ASSUME NEW i \in 1..Len(r)
      PROVE  /\ i + (k - 1) \in k..Len(q) /\ i + (k - 1) \in 1..Len(q)
             /\ r[i] = q[i + (k - 1)]
  BY <1>1 DEF IsRest
<1>3. \A i \in 1..Len(q) : /\ nx[q[i]] = IF i = Len(q) THEN Null ELSE q[i + 1]
                           /\ pv[q[i]] = IF i = 1 THEN Null ELSE q[i - 1]
  BY DEF Forward, Backward
<1>4. ASSUME NEW i \in 1..Len(r)
      PROVE  /\ nnx[r[i]] = IF i = Len(r) THEN Null ELSE r[i + 1]
             /\ npv[r[i]] = IF i = 1 THEN Null ELSE r[i - 1]
  <2> DEFINE j == i + (k - 1)
  <2>1. /\ j \in k..Len(q) /\ j \in 1..Len(q) /\ r[i] = q[j]
        /\ (j = Len(q) <=> i = Len(r)) /\ (j = k <=> i = 1)
    BY <1>1, <1>2
  <2>2. i # Len(r) => i + 1 \in 1..Len(r) /\ (i + 1) + (k - 1) = j + 1  BY <1>1
  <2>3. i # 1 => i - 1 \in 1..Len(r) /\ (i - 1) + (k - 1) = j - 1 /\ j # 1  BY <1>1
  <2> HIDE DEF j
  <2>4. i # Len(r) => r[i + 1] = q[j + 1]
    <3> SUFFICES ASSUME i # Len(r) PROVE r[i + 1] = q[j + 1]  OBVIOUS
    <3>1. r[i + 1] = q[(i + 1) + (k - 1)]  BY Zenon, <1>2, <2>2
    <3> QED  BY <2>2, <3>1
  <2>5. i # 1 => r[i - 1] = q[j - 1]
    <3> SUFFICES ASSUME i # 1 PROVE r[i - 1] = q[j - 1]  OBVIOUS
    <3>1. r[i - 1] = q[(i - 1) + (k - 1)]  BY <1>2, <2>3
    <3> QED  BY <2>3, <3>1
  <2>6. nnx[r[i]] = nx[q[j]] /\ npv[r[i]] = IF j = k THEN Null ELSE pv[q[j]]
    BY <2>1 DEF KeepsFrom
  <2>7. nnx[r[i]] = IF i = Len(r) THEN Null ELSE r[i + 1]  BY <1>3, <2>1, <2>4, <2>6
  <2>8. npv[r[i]] = IF i = 1 THEN Null ELSE r[i - 1]  BY <1>3, <2>1, <2>3, <2>5, <2>6
  <2> QED  BY <2>7, <2>8
<1> QED  BY <1>4 DEF Forward, Backward

-------------------------------------------------------------------------------
(* Order *)

\* What TimerQueue says of the place k, as TimerQueue says it.
Split(s, ex, k, e) ==
    /\ \A i \in 1..(k - 1) : ex[s[i]] <= e
    /\ \A i \in k..Len(s) : ex[s[i]] > e

\* At that place a timer with the expiry e keeps a row sorted.
LEMMA SortedInsertion ==
    ASSUME NEW q, Row(q), NEW ex \in [Timers -> Nat], Sorted(q, ex), NEW e \in Nat,
           NEW t \in Timers \ CellsOf(q), NEW k \in 1..(Len(q) + 1), Split(q, ex, k, e),
           NEW r \in Seq(Timers), IsInsertion(r, q, k, t)
    PROVE  Sorted(r, [ex EXCEPT ![t] = e])
<1> DEFINE new == [ex EXCEPT ![t] = e]
<1>1. Len(r) = Len(q) + 1 /\ Len(q) \in Nat  BY RowType DEF IsInsertion
<1>2. ASSUME NEW i \in 1..Len(q)
      PROVE  new[q[i]] = ex[q[i]] /\ ex[q[i]] \in Nat
             /\ (i < k => ex[q[i]] <= e) /\ (i >= k => ex[q[i]] > e)
  <2>1. q[i] \in Timers /\ q[i] # t  BY RowType
  <2> QED  BY <1>1, <2>1 DEF Split
<1>3. new[t] = e  OBVIOUS
<1> HIDE DEF new
<1>4. ASSUME NEW i \in 1..Len(r)
      PROVE  /\ i < k => i \in 1..Len(q) /\ new[r[i]] = ex[q[i]]
             /\ i = k => new[r[i]] = e
             /\ i > k => i - 1 \in 1..Len(q) /\ new[r[i]] = ex[q[i - 1]]
  <2>0. r[i] = IF i < k THEN q[i] ELSE IF i = k THEN t ELSE q[i - 1]
    BY Zenon, <1>1 DEF IsInsertion
  <2>1. CASE i < k
    <3>1. i \in 1..Len(q)  BY <1>1, <2>1
    <3> QED  BY <1>2, <2>0, <2>1, <3>1
  <2>2. CASE i = k  BY <1>3, <2>0, <2>2
  <2>3. CASE i > k
    <3>1. i - 1 \in 1..Len(q)  BY <1>1, <2>3
    <3> QED  BY SMTT(30), <1>2, <2>0, <2>3, <3>1
  <2> QED  BY <1>1, <2>1, <2>2, <2>3
<1>5. \A i, j \in 1..Len(q) : i <= j => ex[q[i]] <= ex[q[j]]  BY DEF Sorted
<1>6. ASSUME NEW i \in 1..Len(r), NEW j \in 1..Len(r), i <= j
      PROVE  new[r[i]] <= new[r[j]]
  <2>1. CASE i < k /\ j < k
    <3>1. i \in 1..Len(q) /\ new[r[i]] = ex[q[i]] /\ j \in 1..Len(q) /\ new[r[j]] = ex[q[j]]
      BY <1>4, <2>1
    <3> QED  BY Zenon, <1>5, <1>6, <3>1
  <2>2. CASE i < k /\ j = k
    <3>1. i \in 1..Len(q) /\ new[r[i]] = ex[q[i]] /\ new[r[j]] = e  BY <1>4, <2>2
    <3>2. ex[q[i]] <= e  BY <1>2, <2>2, <3>1
    <3> QED  BY <3>1, <3>2
  <2>3. CASE i < k /\ j > k
    <3>1. /\ i \in 1..Len(q) /\ new[r[i]] = ex[q[i]]
          /\ j - 1 \in 1..Len(q) /\ new[r[j]] = ex[q[j - 1]] /\ i <= j - 1
      BY <1>1, <1>4, <2>3
    <3> QED  BY Zenon, <1>5, <3>1
  <2>4. CASE i = k /\ j = k  BY <1>1, <1>4, <2>4
  <2>5. CASE i = k /\ j > k
    <3>1. j - 1 \in 1..Len(q) /\ new[r[j]] = ex[q[j - 1]] /\ j - 1 >= k /\ new[r[i]] = e
      BY <1>1, <1>4, <2>5
    <3>2. ex[q[j - 1]] > e /\ ex[q[j - 1]] \in Nat  BY Zenon, <1>2, <3>1
    <3> QED  BY <3>1, <3>2
  <2>6. CASE i > k /\ j > k
    <3>1. /\ i - 1 \in 1..Len(q) /\ new[r[i]] = ex[q[i - 1]]
          /\ j - 1 \in 1..Len(q) /\ new[r[j]] = ex[q[j - 1]] /\ i - 1 <= j - 1
      BY <1>1, <1>4, <1>6, <2>6
    <3> QED  BY Zenon, <1>5, <3>1
  <2> QED  BY <1>1, <1>6, <2>1, <2>2, <2>3, <2>4, <2>5, <2>6
<1> QED  BY Zenon, <1>6 DEF Sorted, new

\* A sorted row stays so without one of its timers,
LEMMA SortedRemoval ==
    ASSUME NEW q, Row(q), NEW ex, Sorted(q, ex), NEW k \in 1..Len(q),
           NEW r \in Seq(Timers), IsRemoval(r, q, k)
    PROVE  Sorted(r, ex)
<1>1. Len(r) = Len(q) - 1 /\ Len(q) \in Nat  BY RowType DEF IsRemoval
<1>2. ASSUME NEW i \in 1..Len(r)
      PROVE  \E a \in 1..Len(q) : r[i] = q[a] /\ a = IF i < k THEN i ELSE i + 1
  <2>1. i \in 1..Len(q) /\ i + 1 \in 1..Len(q)  BY <1>1
  <2>2. r[i] = IF i < k THEN q[i] ELSE q[i + 1]  BY <1>1 DEF IsRemoval
  <2> QED  BY <2>1, <2>2
<1>3. ASSUME NEW i \in 1..Len(r), NEW j \in 1..Len(r), i <= j
      PROVE  ex[r[i]] <= ex[r[j]]
  <2>1. PICK a \in 1..Len(q) : r[i] = q[a] /\ a = IF i < k THEN i ELSE i + 1  BY <1>2
  <2>2. PICK b \in 1..Len(q) : r[j] = q[b] /\ b = IF j < k THEN j ELSE j + 1  BY <1>2
  <2>3. a <= b  BY <1>1, <1>3, <2>1, <2>2
  <2> QED  BY <2>1, <2>2, <2>3 DEF Sorted
<1> QED  BY <1>3 DEF Sorted

\* from one of its timers on,
LEMMA SortedRest ==
    ASSUME NEW q, Row(q), NEW ex, Sorted(q, ex), NEW k \in 1..(Len(q) + 1),
           NEW r \in Seq(Timers), IsRest(r, q, k)
    PROVE  Sorted(r, ex)
<1>1. Len(r) = Len(q) - (k - 1) /\ Len(q) \in Nat  BY RowType DEF IsRest
<1>2. ASSUME NEW i \in 1..Len(r)
      PROVE  i + (k - 1) \in 1..Len(q) /\ r[i] = q[i + (k - 1)]
  BY <1>1 DEF IsRest
<1>3. ASSUME NEW i \in 1..Len(r), NEW j \in 1..Len(r), i <= j
      PROVE  ex[r[i]] <= ex[r[j]]
  <2>1. i + (k - 1) <= j + (k - 1)  BY <1>1, <1>3
  <2> QED  BY Zenon, <1>2, <2>1 DEF Sorted
<1> QED  BY <1>3 DEF Sorted

\* and when other timers get another expiry.
LEMMA SortedSame ==
    ASSUME NEW q, NEW ex, Sorted(q, ex), NEW new, \A i \in 1..Len(q) : new[q[i]] = ex[q[i]]
    PROVE  Sorted(q, new)
  BY DEF Sorted

-------------------------------------------------------------------------------
(* Walks *)

\* What is not in the list points into it, or nowhere.
Outside(q, nx) == \A c \in Timers \ CellsOf(q) : nx[c] \in CellsOf(q) \cup {Null}

\* How far a cell is from the end of the list.
LEMMA Rank ==
    ASSUME NEW q, Row(q), NEW nx, Forward(q, nx), Outside(q, nx)
    PROVE  \E rank \in [Timers \cup {Null} -> 0..(Len(q) + 1)] :
               \A c \in Timers : nx[c] \in Timers \cup {Null} /\ rank[nx[c]] < rank[c]
<1> DEFINE D == Timers \cup {Null}
           Far(c, v) ==
               \/ c = Null /\ v = 0
               \/ c \in Timers /\ c \notin CellsOf(q) /\ v = Len(q) + 1
               \/ \E i \in 1..Len(q) : c = q[i] /\ v = Len(q) + 1 - i
           rank == [c \in D |-> CHOOSE v \in 0..(Len(q) + 1) : Far(c, v)]
<1>1. Len(q) \in Nat /\ Null \notin Timers  BY RowType, TimerAssumption
<1>2. ASSUME NEW c \in D  PROVE \E v \in 0..(Len(q) + 1) : Far(c, v)
  <2>1. CASE c = Null  BY <1>1, <2>1
  <2>2. CASE c \in Timers /\ c \notin CellsOf(q)  BY <1>1, <2>2
  <2>3. CASE c \in CellsOf(q)
    <3>1. PICK i \in 1..Len(q) : c = q[i]  BY <2>3, RowType
    <3>2. Len(q) + 1 - i \in 0..(Len(q) + 1)  BY <1>1
    <3>3. Far(c, Len(q) + 1 - i)  BY <3>1
    <3> HIDE DEF Far
    <3> QED  BY <3>2, <3>3
  <2> QED  BY <2>1, <2>2, <2>3
<1>3. \A c \in D : rank[c] \in 0..(Len(q) + 1) /\ Far(c, rank[c])
  <2> HIDE DEF Far
  <2> QED  BY <1>2
<1>4. rank \in [D -> 0..(Len(q) + 1)]  BY Zenon, <1>3
<1> HIDE DEF rank
<1>5. rank[Null] = 0
  <2>1. Null \notin CellsOf(q) /\ \A i \in 1..Len(q) : Null # q[i]  BY <1>1, RowType
  <2> QED  BY <1>1, <1>3, <2>1
<1>6. ASSUME NEW i \in 1..Len(q)  PROVE rank[q[i]] = Len(q) + 1 - i
  <2>1. q[i] \in Timers /\ q[i] \in CellsOf(q) /\ q[i] # Null  BY <1>1, RowType
  <2>2. Far(q[i], rank[q[i]])  BY <1>3, <2>1
  <2>3. PICK j \in 1..Len(q) : q[i] = q[j] /\ rank[q[i]] = Len(q) + 1 - j  BY <2>1, <2>2
  <2>4. i = j  BY <2>3, RowType
  <2> QED  BY <2>3, <2>4
<1>7. ASSUME NEW c \in Timers  PROVE nx[c] \in D /\ rank[nx[c]] < rank[c]
  <2>1. CASE c \in CellsOf(q)
    <3>1. PICK i \in 1..Len(q) : c = q[i]  BY <2>1, RowType
    <3>2. nx[c] = IF i = Len(q) THEN Null ELSE q[i + 1]  BY <3>1 DEF Forward
    <3>3. CASE i = Len(q)
      <4>1. rank[c] = 1  BY <1>1, <1>6, <3>1, <3>3
      <4> QED  BY <1>5, <3>2, <3>3, <4>1
    <3>4. CASE i # Len(q)
      <4>1. i + 1 \in 1..Len(q)  BY <1>1, <3>4
      <4>2. nx[c] = q[i + 1] /\ q[i + 1] \in Timers  BY <3>2, <3>4, <4>1, RowType
      <4>3. rank[nx[c]] = Len(q) + 1 - (i + 1) /\ rank[c] = Len(q) + 1 - i
        BY <1>6, <3>1, <4>1, <4>2
      <4> QED  BY <1>1, <4>2, <4>3
    <3> QED  BY <3>3, <3>4
  <2>2. CASE c \notin CellsOf(q)
    <3>1. rank[c] = Len(q) + 1
      <4>1. c # Null /\ \A i \in 1..Len(q) : c # q[i]  BY <1>1, <2>2, RowType
      <4>2. Far(c, rank[c])  BY <1>3
      <4> QED  BY <4>1, <4>2
    <3>2. nx[c] \in CellsOf(q) \cup {Null}  BY <2>2 DEF Outside
    <3>3. CASE nx[c] = Null  BY <1>1, <1>5, <3>1, <3>3
    <3>4. CASE nx[c] \in CellsOf(q)
      <4>1. PICK i \in 1..Len(q) : nx[c] = q[i]  BY <3>4, RowType
      <4>2. rank[nx[c]] = Len(q) + 1 - i /\ q[i] \in Timers  BY <1>6, <4>1, RowType
      <4> QED  BY <1>1, <3>1, <4>1, <4>2
    <3> QED  BY <3>2, <3>3, <3>4
  <2> QED  BY <2>1, <2>2
<1> QED  BY <1>4, <1>7

\* A set of cells of q behind place i has a first one, or q ends before it.
LEMMA FirstStop ==
    ASSUME NEW n \in Nat, NEW i \in Nat, i <= n, NEW stops
    PROVE  \E m \in i..n : /\ m = n \/ m \in stops
                          /\ \A j \in i..(m - 1) : j \notin stops
<1> DEFINE Ends == {m \in i..n : m = n \/ m \in stops}
<1>1. Ends \in SUBSET Nat /\ n \in Ends  OBVIOUS
<1>2. \E k \in Ends : \A j \in Ends : k <= j
  <2> HIDE DEF Ends
  <2> QED  BY <1>1, LeastElement
<1>3. PICK m \in Ends : \A j \in Ends : m <= j  BY <1>2
<1>4. ASSUME NEW j \in i..(m - 1)  PROVE j \notin stops
  <2>1. m \in i..n  OBVIOUS
  <2>2. j \in i..n /\ ~(m <= j)  BY <2>1
  <2> QED  BY <1>3, <2>2
<1> QED  BY <1>3, <1>4

\* The loop of the private add_timer, begun at the i-th cell, stops behind all cells
\* that expire no later.
LEMMA StopCellIs ==
    ASSUME NEW q, Row(q), NEW nx, Forward(q, nx), Outside(q, nx),
           NEW e, NEW i \in 1..Len(q)
    PROVE  \E m \in i..Len(q) :
               /\ StopCell(nx, q[i], e) = q[m]
               /\ m = Len(q) \/ e < expire[q[m + 1]]
               /\ \A j \in (i + 1)..m : ~(e < expire[q[j]])
<1> DEFINE stop == {c \in Timers : nx[c] = Null \/ e < expire[nx[c]]}
           base == [c \in Timers |-> c]
           comb == [c \in Timers |-> [v \in Timers |-> v]]
           walk[c \in Timers] ==
               IF nx[c] = Null \/ e < expire[nx[c]] THEN c ELSE walk[nx[c]]
           N == Len(q) + 1
<1>1. Len(q) \in Nat /\ N \in Nat /\ Null \notin Timers  BY RowType, TimerAssumption
<1>2. \E f : f \in [Timers -> Timers] /\ Walk(f, Timers, stop, nx, base, comb)
  <2>1. PICK far \in [Timers \cup {Null} -> 0..N] :
            \A c \in Timers : nx[c] \in Timers \cup {Null} /\ far[nx[c]] < far[c]
    BY Zenon, Rank
  <2> DEFINE rank == [c \in Timers |-> far[c]]
  <2>2. rank \in [Timers -> 0..N]  OBVIOUS
  <2>3. ASSUME NEW c \in Timers \ stop  PROVE nx[c] \in Timers /\ rank[nx[c]] < rank[c]
    BY <2>1
  <2>4. /\ stop \in SUBSET Timers /\ base \in [Timers -> Timers]
        /\ comb \in WalkFunctions(Timers, Timers)
    BY DEF WalkFunctions
  <2> HIDE DEF rank, stop, base, comb, N
  <2> QED  BY Zenon, <1>1, <2>2, <2>3, <2>4, WalkExists
<1>3. walk = [c \in Timers |->
                 IF nx[c] = Null \/ e < expire[nx[c]] THEN c ELSE walk[nx[c]]]
  <2>1. PICK f : f \in [Timers -> Timers] /\ Walk(f, Timers, stop, nx, base, comb)
    BY Zenon, <1>2
  <2>2. ASSUME NEW c \in Timers, c \notin stop  PROVE comb[c][f[nx[c]]] = f[nx[c]]
    <3>1. nx[c] \in Timers
      <4>1. PICK far : \A d \in Timers : nx[d] \in Timers \cup {Null} /\ far[nx[d]] < far[d]
        BY Rank
      <4> QED  BY <2>2, <4>1
    <3> QED  BY <2>1, <3>1
  <2>3. f = [c \in Timers |->
                IF nx[c] = Null \/ e < expire[nx[c]] THEN c ELSE f[nx[c]]]
    <3>1. f = [c \in Timers |-> IF c \in stop THEN base[c] ELSE comb[c][f[nx[c]]]]
      BY Zenon, <2>1 DEF Walk
    <3>2. ASSUME NEW c \in Timers
          PROVE  (IF c \in stop THEN base[c] ELSE comb[c][f[nx[c]]])
                     = IF nx[c] = Null \/ e < expire[nx[c]] THEN c ELSE f[nx[c]]
      BY <2>2
    <3> QED  BY Zenon, <3>1, <3>2
  <2>4. \E g : g = [c \in Timers |->
                       IF nx[c] = Null \/ e < expire[nx[c]] THEN c ELSE g[nx[c]]]
    BY <2>3
  <2> QED  BY Zenon, <2>4
<1>4. StopCell(nx, q[i], e) = walk[q[i]]  BY DEF StopCell
<1> HIDE DEF walk
<1> DEFINE stops == {m \in 1..Len(q) : m # Len(q) /\ e < expire[q[m + 1]]}
<1>5. PICK m \in i..Len(q) :
         /\ m = Len(q) \/ m \in stops
         /\ \A j \in i..(m - 1) : j \notin stops
  <2>1. i \in Nat /\ i <= Len(q)  BY <1>1
  <2> HIDE DEF stops
  <2> QED  BY ZenonT(30), <1>1, <2>1, FirstStop
<1>6. ASSUME NEW j \in 1..Len(q)
      PROVE  walk[q[j]] = IF j = Len(q) \/ j \in stops THEN q[j] ELSE walk[q[j + 1]]
  <2>1. q[j] \in Timers /\ nx[q[j]] = IF j = Len(q) THEN Null ELSE q[j + 1]
    BY RowType DEF Forward
  <2>2. walk[q[j]] = IF nx[q[j]] = Null \/ e < expire[nx[q[j]]]
                     THEN q[j] ELSE walk[nx[q[j]]]
    BY <1>3, <2>1
  <2>3. j # Len(q) => q[j + 1] # Null
    <3> SUFFICES ASSUME j # Len(q) PROVE q[j + 1] # Null  OBVIOUS
    <3>1. j + 1 \in 1..Len(q)  BY <1>1
    <3> QED  BY <1>1, <3>1, RowType
  <2> QED  BY <2>1, <2>2, <2>3
<1> DEFINE T == {k \in 0..(m - i) : walk[q[m - k]] = q[m]}
<1>7. m - i \in Nat /\ m \in 1..Len(q)  BY <1>1
<1>8. 0 \in T
  <2>1. m - 0 = m /\ 0 \in 0..(m - i)  BY <1>7
  <2> QED  BY <1>5, <1>6, <1>7, <2>1
<1>9. ASSUME NEW k \in 0..((m - i) - 1), k \in T  PROVE k + 1 \in T
  <2>1. /\ m - (k + 1) \in 1..Len(q) /\ m - (k + 1) \in i..(m - 1) /\ m - (k + 1) # Len(q)
        /\ (m - (k + 1)) + 1 = m - k /\ k + 1 \in 0..(m - i)
    BY <1>1, <1>7
  <2>2. walk[q[m - (k + 1)]] = walk[q[(m - (k + 1)) + 1]]  BY <1>5, <1>6, <2>1
  <2> QED  BY <1>9, <2>1, <2>2
<1> HIDE DEF T
<1>10. 0..(m - i) \subseteq T  BY Zenon, <1>7, <1>8, <1>9, InductionUpTo
<1>11. walk[q[i]] = q[m]
  <2>1. m - i \in 0..(m - i) /\ m - (m - i) = i  BY <1>7
  <2>2. m - i \in T  BY <1>10, <2>1
  <2>3. walk[q[m - (m - i)]] = q[m]  BY <2>2 DEF T
  <2> QED  BY <2>1, <2>3
<1>12. ASSUME NEW j \in (i + 1)..m  PROVE ~(e < expire[q[j]])
  <2>1. j - 1 \in i..(m - 1) /\ j - 1 \in 1..Len(q) /\ j - 1 # Len(q) /\ (j - 1) + 1 = j
    BY <1>1, <1>7
  <2>2. j - 1 \notin stops  BY <1>5, <2>1
  <2> QED  BY <2>1, <2>2
<1> QED  BY <1>4, <1>5, <1>11, <1>12

\* f gathers the cells from one on, up to the first of S.
Gathers(f, nx, S) ==
    f = [c \in Timers \cup {Null} |->
            IF c = Null \/ c \in S THEN <<>> ELSE <<c>> \o f[nx[c]]]

\* There is such a function when the pointers lead through a list.
LEMMA GathersExists ==
    ASSUME NEW q, Row(q), NEW nx, Forward(q, nx), Outside(q, nx), NEW S
    PROVE  \E f : Gathers(f, nx, S)
<1> DEFINE D == Timers \cup {Null}
           V == Seq(D)
           stop == {c \in D : c = Null \/ c \in S}
           base == [c \in D |-> <<>>]
           comb == [c \in D |-> [v \in V |-> <<c>> \o v]]
           N == Len(q) + 1
<1>1. N \in Nat  BY RowType
<1>2. PICK rank \in [D -> 0..N] :
        \A c \in Timers : nx[c] \in D /\ rank[nx[c]] < rank[c]
  BY Zenon, Rank
<1>3. \A c \in D \ stop : nx[c] \in D /\ rank[nx[c]] < rank[c]  BY <1>2
<1>4. /\ stop \in SUBSET D /\ base \in [D -> V] /\ comb \in WalkFunctions(D, V)
  <2>1. ASSUME NEW c \in D, NEW v \in V  PROVE <<c>> \o v \in V
    <3>1. <<c>> \in Seq(D)  OBVIOUS
    <3> QED  BY <3>1
  <2>2. <<>> \in V  OBVIOUS
  <2> HIDE DEF V
  <2> QED  BY <2>1, <2>2 DEF WalkFunctions
<1>5. \E f : f \in [D -> V] /\ Walk(f, D, stop, nx, base, comb)
  <2> HIDE DEF D, V, stop, base, comb, N
  <2> QED  BY Zenon, <1>1, <1>2, <1>3, <1>4, WalkExists
<1>6. PICK f : f \in [D -> V] /\ Walk(f, D, stop, nx, base, comb)  BY Zenon, <1>5
<1>7. ASSUME NEW c \in D
      PROVE  (IF c \in stop THEN base[c] ELSE comb[c][f[nx[c]]])
                 = IF c = Null \/ c \in S THEN <<>> ELSE <<c>> \o f[nx[c]]
  <2>1. CASE c \in stop  BY <2>1
  <2>2. CASE c \notin stop
    <3>1. nx[c] \in D  BY <1>3, <2>2
    <3>2. f[nx[c]] \in V  BY <1>6, <3>1
    <3> HIDE DEF V
    <3>3. comb[c][f[nx[c]]] = <<c>> \o f[nx[c]]  BY <3>2
    <3> QED  BY Zenon, <2>2, <3>3
  <2> QED  BY <2>1, <2>2
<1>8. f = [c \in D |-> IF c \in stop THEN base[c] ELSE comb[c][f[nx[c]]]]  BY Zenon, <1>6 DEF Walk
<1>9. Gathers(f, nx, S)
  <2> HIDE DEF stop, base, comb, V
  <2> QED  BY Zenon, <1>7, <1>8 DEF Gathers
<1> QED  BY <1>9

\* From the first cell of a row it gathers the cells in front of the first one of S.
LEMMA Gathered ==
    ASSUME NEW q, Row(q), NEW nx, Forward(q, nx), NEW S, NEW f, Gathers(f, nx, S)
    PROVE  \E m \in 0..Len(q) :
               /\ f[First(q)] = SubSeq(q, 1, m)
               /\ m = Len(q) \/ q[m + 1] \in S
               /\ \A j \in 1..m : q[j] \notin S
<1>1. Len(q) \in Nat /\ Null \notin Timers  BY RowType, TimerAssumption
<1> DEFINE stops == {m \in 0..Len(q) : m # Len(q) /\ q[m + 1] \in S}
           Behind(j) == IF j = Len(q) THEN Null ELSE q[j + 1]
<1>2. PICK m \in 0..Len(q) :
         /\ m = Len(q) \/ m \in stops
         /\ \A j \in 0..(m - 1) : j \notin stops
  <2>1. 0 \in Nat /\ 0 <= Len(q)  BY <1>1
  <2> HIDE DEF stops
  <2> QED  BY Zenon, <1>1, <2>1, FirstStop
<1>3. ASSUME NEW j \in 1..m  PROVE q[j] \notin S
  <2>1. j - 1 \in 0..(m - 1) /\ j - 1 \in 0..Len(q) /\ j - 1 # Len(q) /\ (j - 1) + 1 = j
    BY <1>1
  <2>2. j - 1 \notin stops  BY <1>2, <2>1
  <2> QED  BY <2>1, <2>2
<1>4. \A c \in Timers \cup {Null} :
         f[c] = IF c = Null \/ c \in S THEN <<>> ELSE <<c>> \o f[nx[c]]
  BY Zenon DEF Gathers
<1> DEFINE T == {k \in 0..m : f[Behind(m - k)] = SubSeq(q, (m - k) + 1, m)}
<1>5. 0 \in T
  <2>1. 0 \in 0..m /\ m - 0 = m  BY <1>1
  <2>2. f[Behind(m)] = <<>>
    <3>1. CASE m = Len(q)  BY Zenon, <1>4, <3>1
    <3>2. CASE m # Len(q)
      <4>1. m + 1 \in 1..Len(q)  BY <1>1, <3>2
      <4>2. q[m + 1] \in Timers /\ q[m + 1] \in S  BY <1>2, <3>2, <4>1, RowType
      <4> QED  BY Zenon, <1>4, <3>2, <4>2
    <3> QED  BY <3>1, <3>2
  <2>3. SubSeq(q, m + 1, m) = <<>>  BY <1>1, RowType
  <2> QED  BY Zenon, <2>1, <2>2, <2>3
<1>6. ASSUME NEW k \in 0..(m - 1), k \in T  PROVE k + 1 \in T
  <2> DEFINE j == m - k
  <2>1. /\ j \in 1..m /\ j \in 1..Len(q) /\ k + 1 \in 0..m /\ m - (k + 1) = j - 1
        /\ (j - 1) + 1 = j /\ j - 1 # Len(q)
    BY <1>1
  <2>2. f[Behind(j)] = SubSeq(q, j + 1, m)  BY <1>6
  <2> HIDE DEF j
  <2>3. q[j] \in Timers /\ q[j] # Null /\ q[j] \notin S  BY <1>1, <1>3, <2>1, RowType
  <2>4. f[q[j]] = <<q[j]>> \o f[nx[q[j]]]  BY Zenon, <1>4, <2>3
  <2>5. nx[q[j]] = Behind(j)  BY <2>1 DEF Forward
  <2>6. f[q[j]] = <<q[j]>> \o SubSeq(q, j + 1, m)  BY Zenon, <2>2, <2>4, <2>5
  <2>7. SubSeq(q, j, m) = <<q[j]>> \o SubSeq(q, j + 1, m)
    <3>1. q \in Seq(Timers) /\ m \in j..Len(q)  BY <1>1, <2>1, RowType
    <3> QED  BY <2>1, <3>1, SubSeqRecursiveFirst
  <2>8. Behind(j - 1) = q[j]  BY <2>1
  <2>9. f[Behind(j - 1)] = SubSeq(q, (j - 1) + 1, m)
    <3> HIDE DEF Behind
    <3> QED  BY Zenon, <2>1, <2>6, <2>7, <2>8
  <2> HIDE DEF Behind
  <2> QED  BY <2>1, <2>9
<1> HIDE DEF T
<1>7. m \in T
  <2>1. m \in Nat /\ m \in 0..m  BY <1>1
  <2>2. 0..m \subseteq T  BY Zenon, <1>5, <1>6, <2>1, InductionUpTo
  <2> QED  BY <2>1, <2>2
<1>8. f[Behind(0)] = SubSeq(q, 1, m)
  <2>1. m - m = 0 /\ 0 + 1 = 1  BY <1>1
  <2>2. f[Behind(m - m)] = SubSeq(q, (m - m) + 1, m)
    <3> HIDE DEF Behind
    <3> QED  BY <1>7 DEF T
  <2> HIDE DEF Behind
  <2> QED  BY <2>1, <2>2
<1>9. First(q) = Behind(0)
  <2>1. q = <<>> <=> Len(q) = 0  BY RowType
  <2> QED  BY <2>1 DEF First
<1> QED  BY <1>2, <1>3, <1>8, <1>9

\* The cells of a list, one after the other.
LEMMA ChainIs ==
    ASSUME NEW q, Row(q), Forward(q, next), Outside(q, next), head = First(q)
    PROVE  Chain(head) = q
<1> DEFINE from[c \in Timers \cup {Null}] ==
               IF c = Null THEN <<>> ELSE <<c>> \o from[next[c]]
<1>1. Chain(head) = from[First(q)]  BY DEF Chain
<1>2. Gathers(from, next, {})
  <2>1. PICK f : Gathers(f, next, {})  BY GathersExists
  <2>2. f = [c \in Timers \cup {Null} |-> IF c = Null THEN <<>> ELSE <<c>> \o f[next[c]]]
    BY Zenon, <2>1 DEF Gathers
  <2>3. \E g : g = [c \in Timers \cup {Null} |->
                      IF c = Null THEN <<>> ELSE <<c>> \o g[next[c]]]
    BY <2>2
  <2>4. from = [c \in Timers \cup {Null} |->
                   IF c = Null THEN <<>> ELSE <<c>> \o from[next[c]]]
    BY Zenon, <2>3
  <2> HIDE DEF from
  <2> QED  BY Zenon, <2>4 DEF Gathers
<1> HIDE DEF from
<1>3. PICK m \in 0..Len(q) : from[First(q)] = SubSeq(q, 1, m) /\ m = Len(q)
  BY <1>2, Gathered
<1>4. SubSeq(q, 1, Len(q)) = q  BY RowType, SubSeqFull
<1> QED  BY <1>1, <1>3, <1>4

\* The cells tick calls back are the ones in front of the place of the clock.
LEMMA ExpiredPrefixIs ==
    ASSUME NEW q, Row(q), Forward(q, next), Outside(q, next), head = First(q),
           expire \in [Timers -> Nat], clock \in Nat, Sorted(q, expire)
    PROVE  \E k \in 1..(Len(q) + 1) :
               ExpiredPrefix = SubSeq(q, 1, k - 1) /\ Split(q, expire, k, clock)
<1> DEFINE S == {c \in Timers : clock < expire[c]}
           from[c \in Timers \cup {Null}] ==
               IF c = Null \/ (c # Null /\ clock < expire[c])
               THEN <<>>
               ELSE <<c>> \o from[next[c]]
<1>1. ExpiredPrefix = from[First(q)]  BY DEF ExpiredPrefix
<1>2. Gathers(from, next, S)
  <2>1. PICK f : Gathers(f, next, S)  BY GathersExists
  <2>2. f = [c \in Timers \cup {Null} |->
                IF c = Null \/ (c # Null /\ clock < expire[c])
                THEN <<>> ELSE <<c>> \o f[next[c]]]
    <3>1. f = [c \in Timers \cup {Null} |->
                  IF c = Null \/ c \in S THEN <<>> ELSE <<c>> \o f[next[c]]]
      <4> HIDE DEF S
      <4> QED  BY Zenon, <2>1 DEF Gathers
    <3>2. \A c \in Timers \cup {Null} :
             c = Null \/ c \in S <=> c = Null \/ (c # Null /\ clock < expire[c])
      OBVIOUS
    <3> HIDE DEF S
    <3> QED  BY Zenon, <3>1, <3>2
  <2>3. \E g : g = [c \in Timers \cup {Null} |->
                      IF c = Null \/ (c # Null /\ clock < expire[c])
                      THEN <<>> ELSE <<c>> \o g[next[c]]]
    BY <2>2
  <2>4. from = [c \in Timers \cup {Null} |->
                   IF c = Null \/ (c # Null /\ clock < expire[c])
                   THEN <<>> ELSE <<c>> \o from[next[c]]]
    BY Zenon, <2>3
  <2> HIDE DEF from
  <2>5. \A c \in Timers \cup {Null} :
           c = Null \/ c \in S <=> c = Null \/ (c # Null /\ clock < expire[c])
    OBVIOUS
  <2> HIDE DEF S
  <2> QED  BY Zenon, <2>4, <2>5 DEF Gathers
<1> HIDE DEF from
<1>3. PICK m \in 0..Len(q) :
         /\ from[First(q)] = SubSeq(q, 1, m)
         /\ m = Len(q) \/ q[m + 1] \in S
         /\ \A j \in 1..m : q[j] \notin S
  <2> HIDE DEF S
  <2> QED  BY <1>2, Gathered
<1>4. Len(q) \in Nat /\ \A i \in 1..Len(q) : q[i] \in Timers /\ expire[q[i]] \in Nat
  BY RowType
<1>5. Split(q, expire, m + 1, clock)
  <2>1. ASSUME NEW i \in 1..((m + 1) - 1)  PROVE expire[q[i]] <= clock
    <3>1. i \in 1..m /\ i \in 1..Len(q)  BY <1>4
    <3> QED  BY <1>3, <1>4, <3>1
  <2>2. ASSUME NEW i \in (m + 1)..Len(q)  PROVE expire[q[i]] > clock
    <3>1. i \in 1..Len(q) /\ m + 1 \in 1..Len(q) /\ m # Len(q) /\ m + 1 <= i  BY <1>4
    <3>2. clock < expire[q[m + 1]]  BY <1>3, <3>1
    <3>3. expire[q[m + 1]] <= expire[q[i]]  BY <3>1 DEF Sorted
    <3> QED  BY <1>4, <3>1, <3>2, <3>3
  <2> QED  BY <2>1, <2>2 DEF Split
<1>6. m + 1 \in 1..(Len(q) + 1) /\ (m + 1) - 1 = m  BY <1>4
<1>7. ExpiredPrefix = SubSeq(q, 1, (m + 1) - 1)  BY <1>1, <1>3, <1>6
<1> QED  BY <1>5, <1>6, <1>7

-------------------------------------------------------------------------------
(* The operations *)

\* What the invariant gives to every operation.
LEMMA Facts ==
    ASSUME ValueInv, DeadInv, NEW q, List(q)
    PROVE  /\ Row(q) /\ CellsOf(q) = alive /\ alive \subseteq Timers
           /\ Forward(q, next) /\ Backward(q, prev) /\ Outside(q, next)
           /\ Sorted(q, expire) /\ expire \in [Timers -> Nat] /\ clock \in Nat
           /\ head = First(q) /\ (head = Null <=> q = <<>>)
           /\ q # <<>> => /\ 1 \in 1..Len(q) /\ Len(q) \in 1..Len(q)
                          /\ head = q[1] /\ tail = q[Len(q)]
<1>1. Row(q) /\ CellsOf(q) = alive /\ Forward(q, next) /\ Backward(q, prev)
      /\ Sorted(q, expire) /\ head = First(q) /\ (q # <<>> => tail = q[Len(q)])
  BY DEF List
<1>2. alive \subseteq Timers  BY <1>1, RowType
<1>3. Outside(q, next)  BY <1>1 DEF Outside, DeadInv
<1>4. expire \in [Timers -> Nat] /\ clock \in Nat
  BY TimerAssumption DEF ValueInv
<1>5. q # <<>> => 1 \in 1..Len(q) /\ Len(q) \in 1..Len(q) /\ head = q[1] /\ head # Null
  <2> SUFFICES ASSUME q # <<>>
               PROVE  1 \in 1..Len(q) /\ Len(q) \in 1..Len(q) /\ head = q[1] /\ head # Null
    OBVIOUS
  <2>1. Len(q) \in Nat /\ Len(q) # 0  BY <1>1, RowType
  <2>2. q[1] \in Timers  BY <1>1, <2>1, RowType
  <2> QED  BY <1>1, <2>1, <2>2, TimerAssumption DEF First
<1>6. q = <<>> => head = Null  BY <1>1 DEF First
<1> QED  BY <1>1, <1>2, <1>3, <1>4, <1>5, <1>6

\* nnx and npv are the pointers nx and pv once LinkAfter linked t behind n.
Relinked(nnx, npv, nx, pv, t, n) ==
    /\ nnx = [nx EXCEPT ![n] = t, ![t] = nx[n]]
    /\ npv = [c \in Timers |-> IF c = t THEN n ELSE IF c = nx[n] THEN t ELSE pv[c]]

\* The list r they make, of the pointers nx and the last cell.
Relinks(r, nnx, npv, nx, last) ==
    /\ Forward(r, nnx) /\ nnx \in [Timers -> Timers \cup {Null}]
    /\ Backward(r, npv) /\ npv \in [Timers -> Timers \cup {Null}]
    /\ \A c \in Timers \ CellsOf(r) : nnx[c] = nx[c]
    /\ r[Len(r)] = last

\* What LinkAfter does to a list, behind its k-th cell.
LEMMA Linking ==
    ASSUME NEW q, Row(q), NEW t \in Timers \ CellsOf(q), NEW k \in 1..Len(q),
           NEW r \in Seq(Timers), IsInsertion(r, q, k + 1, t),
           NEW nx \in [Timers -> Timers \cup {Null}], Forward(q, nx),
           NEW pv \in [Timers -> Timers \cup {Null}], Backward(q, pv),
           NEW nnx, NEW npv, Relinked(nnx, npv, nx, pv, t, q[k]),
           NEW last, last = IF nx[q[k]] = Null THEN t ELSE q[Len(q)]
    PROVE  Relinks(r, nnx, npv, nx, last) /\ First(r) = First(q)
<1>0. /\ nnx = [nx EXCEPT ![q[k]] = t, ![t] = nx[q[k]]]
      /\ npv = [c \in Timers |-> IF c = t THEN q[k] ELSE IF c = nx[q[k]] THEN t ELSE pv[c]]
  BY DEF Relinked
<1>1. Len(r) = Len(q) + 1 /\ Len(q) \in Nat /\ Null \notin Timers
  BY RowType, TimerAssumption DEF IsInsertion
<1>2. q[k] \in Timers /\ q[k] \in CellsOf(q) /\ nx[q[k]] \in Timers \cup {Null}  BY RowType
<1>3. Forward(r, nnx)  BY Zenon, <1>0, LinkedForward
<1>4. nx[q[k]] = IF k = Len(q) THEN Null ELSE q[k + 1]  BY DEF Forward
<1>5. Backward(r, npv)
  <2> PICK s : s = nx[q[k]]  OBVIOUS
  <2>1. s = IF k = Len(q) THEN Null ELSE q[k + 1]  BY <1>4
  <2>2. npv = [c \in Timers |-> IF c = t THEN q[k] ELSE IF c = s THEN t ELSE pv[c]]
    BY <1>0
  <2>3. Backward(r, [c \in Timers |-> IF c = t THEN q[k] ELSE IF c = s THEN t ELSE pv[c]])
    BY <2>1, LinkedBackward
  <2> QED  BY <2>2, <2>3
<1>6. nnx \in [Timers -> Timers \cup {Null}] /\ npv \in [Timers -> Timers \cup {Null}]
  BY <1>0, <1>2
<1>7. \A c \in Timers \ CellsOf(r) : nnx[c] = nx[c]
  <2>1. CellsOf(r) = CellsOf(q) \cup {t}
    <3>1. k + 1 \in 1..(Len(q) + 1)  BY <1>1
    <3> QED  BY <3>1, RowInsertion
  <2> QED  BY <1>0, <1>2, <2>1
<1>8. First(r) = First(q)
  <2>1. r # <<>> /\ q # <<>> /\ 1 \in 1..(Len(q) + 1) /\ 1 < k + 1  BY <1>1
  <2>2. r[1] = q[1]  BY <2>1 DEF IsInsertion
  <2> QED  BY <2>1, <2>2 DEF First
<1>9. r[Len(r)] = IF nx[q[k]] = Null THEN t ELSE q[Len(q)]
  <2>1. Len(r) \in 1..(Len(q) + 1)  BY <1>1
  <2>2. r[Len(r)] = IF Len(r) < k + 1 THEN q[Len(r)]
                    ELSE IF Len(r) = k + 1 THEN t ELSE q[Len(r) - 1]
    BY <2>1 DEF IsInsertion
  <2>3. CASE k = Len(q)  BY <1>1, <1>4, <2>2, <2>3
  <2>4. CASE k # Len(q)
    <3>1. k + 1 \in 1..Len(q)  BY <1>1, <2>4
    <3>2. nx[q[k]] # Null  BY <1>1, <1>4, <2>4, <3>1, RowType
    <3>3. ~(Len(r) < k + 1) /\ Len(r) # k + 1 /\ Len(r) - 1 = Len(q)  BY <1>1, <2>4
    <3> QED  BY <2>2, <3>2, <3>3
  <2> QED  BY <2>3, <2>4
<1> QED  BY <1>3, <1>5, <1>6, <1>7, <1>8, <1>9 DEF Relinks

\* add_timer puts a cell behind all that expire no later.
LEMMA AddStep ==
    ASSUME ValueInv, DeadInv, NEW q, List(q), NEW t \in Timers, NEW e \in 0..MaxTime,
           AddTimer(t, e)
    PROVE  /\ ValueInv' /\ DeadInv'
           /\ \E k \in 1..(Len(q) + 1) :
                 Split(q, expire, k, e) /\ List(InsertAt(q, k, t))'
<1>1. /\ Row(q) /\ CellsOf(q) = alive /\ alive \subseteq Timers
      /\ Forward(q, next) /\ Backward(q, prev) /\ Outside(q, next)
      /\ Sorted(q, expire) /\ expire \in [Timers -> Nat] /\ clock \in Nat
      /\ head = First(q) /\ (head = Null <=> q = <<>>)
      /\ q # <<>> => /\ 1 \in 1..Len(q) /\ Len(q) \in 1..Len(q)
                     /\ head = q[1] /\ tail = q[Len(q)]
  BY Facts
<1>2. /\ t \notin alive /\ alive' = alive \cup {t} /\ expire' = [expire EXCEPT ![t] = e]
      /\ fired' = <<>> /\ clock' = clock /\ alarm' = alarm
  BY DEF AddTimer
<1>3. Len(q) \in Nat /\ Null \notin Timers /\ e \in Nat
      /\ \A i \in 1..Len(q) : q[i] \in Timers /\ q[i] # t /\ expire[q[i]] \in Nat
  BY <1>1, <1>2, RowType, TimerAssumption
<1> PICK nx : nx = [next EXCEPT ![t] = Null]  BY Zenon
<1> PICK pv : pv = [prev EXCEPT ![t] = Null]  BY Zenon
<1>4. /\ nx \in [Timers -> Timers \cup {Null}] /\ pv \in [Timers -> Timers \cup {Null}]
      /\ nx[t] = Null /\ pv[t] = Null
      /\ \A c \in Timers : c # t => nx[c] = next[c] /\ pv[c] = prev[c]
  BY DEF ValueInv
<1>5. Forward(q, nx) /\ Backward(q, pv)  BY <1>1, <1>3, <1>4 DEF Forward, Backward
<1>6. Outside(q, nx)
  <2>1. \A c \in Timers \ CellsOf(q) : nx[c] = Null  BY <1>1, <1>4 DEF DeadInv
  <2> QED  BY <2>1 DEF Outside
\* It is enough to say where it goes.
<1>7. ASSUME NEW k \in 1..(Len(q) + 1), Split(q, expire, k, e),
             NEW r \in Seq(Timers), r = InsertAt(q, k, t), IsInsertion(r, q, k, t),
             Forward(r, next'), next' \in [Timers -> Timers \cup {Null}],
             Backward(r, prev'), prev' \in [Timers -> Timers \cup {Null}],
             \A c \in Timers \ CellsOf(r) : next'[c] = Null,
             head' = First(r), tail' = r[Len(r)]
      PROVE  /\ ValueInv' /\ DeadInv'
             /\ \E j \in 1..(Len(q) + 1) :
                   Split(q, expire, j, e) /\ List(InsertAt(q, j, t))'
  <2>1. Row(r) /\ CellsOf(r) = alive'  BY <1>1, <1>2, <1>7, RowInsertion
  <2>2. Sorted(r, expire')  BY Zenon, <1>1, <1>2, <1>3, <1>7, SortedInsertion
  <2>3. List(r)'  BY <1>7, <2>1, <2>2 DEF List
  <2>4. Len(r) \in 1..Len(r)  BY <1>3, <1>7 DEF IsInsertion
  <2>5. tail' \in Timers  BY <1>7, <2>4
  <2>6. expire' \in [Timers -> 0..MaxTime]  BY <1>2 DEF ValueInv
  <2>7. fired' \in Seq(Timers)  BY <1>2
  <2>8. ValueInv'  BY <1>2, <1>7, <2>5, <2>6, <2>7 DEF ValueInv
  <2>9. DeadInv'  BY <1>1, <1>2, <1>7, <2>1 DEF DeadInv
  <2> QED  BY <1>7, <2>3, <2>8, <2>9
<1>8. CASE head = Null
  <2>1. q = <<>> /\ Len(q) = 0 /\ 1 \in 1..(Len(q) + 1)  BY <1>1, <1>8
  <2>2. PICK r \in Seq(Timers) : r = InsertAt(q, 1, t) /\ IsInsertion(r, q, 1, t)
    BY <1>1, <2>1, Inserted, RowType
  <2>3. Len(r) = 1 /\ r[1] = t /\ r # <<>>  BY <2>1, <2>2 DEF IsInsertion
  <2>4. head' = t /\ tail' = t /\ next' = nx /\ prev' = pv  BY <1>8 DEF AddTimer
  <2>5. Forward(r, nx) /\ Backward(r, pv)  BY <1>4, <2>3 DEF Forward, Backward
  <2>6. Split(q, expire, 1, e)  BY <2>1 DEF Split
  <2>7. \A c \in Timers : nx[c] = Null
    <3>1. CellsOf(q) = {}  BY <2>1 DEF CellsOf
    <3> QED  BY <1>1, <1>4, <3>1 DEF DeadInv
  <2> QED  BY <1>4, <1>7, <2>1, <2>2, <2>3, <2>4, <2>5, <2>6, <2>7 DEF First
<1>9. CASE head # Null /\ e < expire[head]
  <2>1. q # <<>> /\ 1 \in 1..(Len(q) + 1) /\ head = q[1] /\ 1 \in 1..Len(q)
    BY <1>1, <1>3, <1>9
  <2>2. PICK r \in Seq(Timers) : r = InsertAt(q, 1, t) /\ IsInsertion(r, q, 1, t)
    BY <1>1, <2>1, Inserted, RowType
  <2>3. Len(r) = Len(q) + 1 /\ r[1] = t /\ r # <<>> /\ r[Len(r)] = q[Len(q)]
    <3>1. Len(r) = Len(q) + 1 /\ Len(r) \in 1..(Len(q) + 1) /\ Len(r) # 1 /\ Len(r) - 1 = Len(q)
      BY <1>3, <2>1, <2>2 DEF IsInsertion
    <3>2. r[1] = t  BY <2>1, <2>2 DEF IsInsertion
    <3>3. r[Len(r)] = q[Len(r) - 1]
      <4> PICK n : n = Len(r)  OBVIOUS
      <4>1. n \in 1..(Len(q) + 1) /\ ~(n < 1) /\ n # 1  BY <3>1
      <4>2. r[n] = q[n - 1]  BY Zenon, <2>2, <4>1 DEF IsInsertion
      <4> QED  BY <4>2
    <3> QED  BY <1>3, <3>1, <3>2, <3>3
  <2>4. head' = t /\ tail' = tail /\ next' = [nx EXCEPT ![t] = q[1]]
        /\ prev' = [pv EXCEPT ![q[1]] = t]
    BY <1>1, <1>2, <1>3, <1>9, <2>1, TimerAssumption DEF AddTimer
  <2>5. Forward(r, next') /\ Backward(r, prev')
    <3>1. /\ Forward(r, [nx EXCEPT ![t] = q[1]]) /\ Backward(r, [pv EXCEPT ![q[1]] = t])
      BY <1>1, <1>2, <1>4, <1>5, <2>1, <2>2, LinkedFront
    <3> QED  BY <2>4, <3>1
  <2>6. Split(q, expire, 1, e)
    <3>1. ASSUME NEW i \in 1..Len(q)  PROVE expire[q[i]] > e
      <4>1. expire[q[1]] <= expire[q[i]]  BY <1>1, <2>1 DEF Sorted
      <4> QED  BY <1>3, <1>9, <2>1, <4>1
    <3> QED  BY <3>1 DEF Split
  <2>7. \A c \in Timers \ CellsOf(r) : next'[c] = Null
    <3>1. CellsOf(r) = CellsOf(q) \cup {t}  BY <1>1, <1>2, <2>1, <2>2, RowInsertion
    <3> QED  BY <1>1, <1>4, <2>4, <3>1 DEF DeadInv
  <2>8. /\ next' \in [Timers -> Timers \cup {Null}] /\ prev' \in [Timers -> Timers \cup {Null}]
    BY <1>3, <1>4, <2>1, <2>4
  <2> QED  BY <1>1, <1>7, <2>1, <2>2, <2>3, <2>4, <2>5, <2>6, <2>7, <2>8 DEF First
<1>10. CASE head # Null /\ ~(e < expire[head])
  <2>1. q # <<>> /\ head = q[1] /\ 1 \in 1..Len(q)  BY <1>1, <1>10
  <2>2. PICK m \in 1..Len(q) :
          /\ StopCell(nx, q[1], e) = q[m]
          /\ m = Len(q) \/ e < expire[q[m + 1]]
          /\ \A j \in (1 + 1)..m : ~(e < expire[q[j]])
    BY Zenon, <1>1, <1>5, <1>6, <2>1, StopCellIs
  <2>3. m + 1 \in 1..(Len(q) + 1)  BY <1>3
  <2>4. PICK r \in Seq(Timers) : r = InsertAt(q, m + 1, t) /\ IsInsertion(r, q, m + 1, t)
    BY <1>1, <2>3, Inserted, RowType
  <2>5. LinkAfter(nx, pv, t, StopCell(nx, head, e)) /\ head' = head
    BY <1>10, <1>3, <1>1, <2>1, TimerAssumption DEF AddTimer
  <2>6. LinkAfter(nx, pv, t, q[m])  BY <2>1, <2>2, <2>5
  <2>7. /\ Relinked(next', prev', nx, pv, t, q[m])
        /\ tail' = IF nx[q[m]] = Null THEN t ELSE tail
    BY <2>6 DEF LinkAfter, Relinked
  <2>8. Relinks(r, next', prev', nx, tail') /\ First(r) = First(q)
    <3>1. t \in Timers \ CellsOf(q)  BY <1>1, <1>2
    <3>2. tail' = IF nx[q[m]] = Null THEN t ELSE q[Len(q)]  BY <1>1, <2>1, <2>7
    <3>3. /\ Row(q) /\ Forward(q, nx) /\ Backward(q, pv) /\ IsInsertion(r, q, m + 1, t)
          /\ nx \in [Timers -> Timers \cup {Null}] /\ pv \in [Timers -> Timers \cup {Null}]
          /\ Relinked(next', prev', nx, pv, t, q[m])
      BY <1>1, <1>4, <1>5, <2>4, <2>7
    <3> QED  BY ZenonT(30), <3>1, <3>2, <3>3, Linking
  <2>9. Split(q, expire, m + 1, e)
    <3>1. ASSUME NEW i \in 1..((m + 1) - 1)  PROVE expire[q[i]] <= e
      <4>1. i \in 1..Len(q) /\ (i = 1 \/ i \in (1 + 1)..m)  BY <1>3
      <4>2. ~(e < expire[q[i]])  BY <1>10, <2>1, <2>2, <4>1
      <4> QED  BY <1>3, <4>1, <4>2
    <3>2. ASSUME NEW i \in (m + 1)..Len(q)  PROVE expire[q[i]] > e
      <4>1. m # Len(q) /\ m + 1 \in 1..Len(q) /\ i \in 1..Len(q) /\ m + 1 <= i  BY <1>3
      <4>2. e < expire[q[m + 1]]  BY <2>2, <4>1
      <4>3. expire[q[m + 1]] <= expire[q[i]]  BY <1>1, <4>1 DEF Sorted
      <4> QED  BY <1>3, <4>1, <4>2, <4>3
    <3> QED  BY <3>1, <3>2 DEF Split
  <2>10. \A c \in Timers \ CellsOf(r) : next'[c] = Null
    <3>1. CellsOf(r) = CellsOf(q) \cup {t}  BY Zenon, <1>1, <1>2, <2>3, <2>4, RowInsertion
    <3> QED  BY <1>1, <1>4, <2>8, <3>1 DEF DeadInv, Relinks
  <2>11. head' = First(r) /\ tail' = r[Len(r)]
    BY Zenon, <1>1, <2>1, <2>5, <2>7, <2>8 DEF Relinks
  <2>12. /\ Forward(r, next') /\ next' \in [Timers -> Timers \cup {Null}]
         /\ Backward(r, prev') /\ prev' \in [Timers -> Timers \cup {Null}]
    BY <2>8 DEF Relinks
  <2> QED  BY <1>7, <2>3, <2>4, <2>9, <2>10, <2>11, <2>12
<1> QED  BY <1>8, <1>9, <1>10

\* del_timer takes a cell out and leaves the others where they are.
LEMMA DelStep ==
    ASSUME ValueInv, DeadInv, NEW q, List(q), NEW t \in Timers, DelTimer(t)
    PROVE  /\ ValueInv' /\ DeadInv'
           /\ \E k \in 1..Len(q) :
                 /\ q[k] = t
                 /\ List(RemoveAt(q, k))'
                 /\ CellsOf(RemoveAt(q, k)) = alive \ {t}
           /\ expire' = [c \in Timers |-> IF c \in {t} THEN 0 ELSE expire[c]]
<1>1. /\ Row(q) /\ CellsOf(q) = alive /\ alive \subseteq Timers
      /\ Forward(q, next) /\ Backward(q, prev)
      /\ Sorted(q, expire) /\ expire \in [Timers -> Nat]
      /\ q # <<>> => /\ 1 \in 1..Len(q) /\ Len(q) \in 1..Len(q)
                     /\ head = q[1] /\ tail = q[Len(q)]
  BY Facts
<1>2. t \in alive  BY DEF DelTimer
<1>3. PICK k \in 1..Len(q) : q[k] = t  BY <1>1, <1>2, RowType
<1>4. /\ Len(q) \in Nat /\ Null \notin Timers /\ q # <<>>
      /\ \A i \in 1..Len(q) : q[i] \in Timers /\ (q[i] = t <=> i = k)
      /\ \A i, j \in 1..Len(q) : q[i] = q[j] => i = j
  BY SMTT(30), <1>1, <1>3, RowType, TimerAssumption
<1>5. /\ (t = head <=> k = 1) /\ (t = tail <=> k = Len(q))  BY <1>1, <1>4
<1>6. /\ next[t] = IF k = Len(q) THEN Null ELSE q[k + 1]
      /\ prev[t] = IF k = 1 THEN Null ELSE q[k - 1]
  BY <1>1, <1>3 DEF Forward, Backward
<1>7. PICK r \in Seq(Timers) : r = RemoveAt(q, k) /\ IsRemoval(r, q, k)
  BY <1>1, Removed, RowType
<1>8. Row(r) /\ CellsOf(r) = alive \ {t}  BY <1>1, <1>3, <1>7, RowRemoval
<1>9. Len(r) = Len(q) - 1 /\ \A i \in 1..(Len(q) - 1) : r[i] = IF i < k THEN q[i] ELSE q[i + 1]
  BY <1>7 DEF IsRemoval
<1>0. Len(q) \in Nat /\ Len(r) = Len(q) - 1 /\ k \in Nat /\ 1 <= k /\ k <= Len(q)
  BY <1>1, <1>9, RowType
\* The ends, and the pointers of the cells that stay.
<1>10. /\ head' = First(r) /\ (r # <<>> => tail' = r[Len(r)])
       /\ tail' \in Timers \cup {Null}
       /\ alive' = alive \ {t} /\ next'[t] = Null
       /\ next' \in [Timers -> Timers \cup {Null}] /\ prev' \in [Timers -> Timers \cup {Null}]
       /\ expire' = [c \in Timers |-> IF c \in {t} THEN 0 ELSE expire[c]]
       /\ \A c \in Timers \ alive : next'[c] = next[c]
       /\ \A i \in 1..Len(q) :
             /\ i # k => next'[q[i]] = IF i = k - 1 THEN next[q[k]] ELSE next[q[i]]
             /\ i # k => prev'[q[i]] = IF i = k + 1 THEN prev[q[k]] ELSE prev[q[i]]
  <2>0. /\ next \in [Timers -> Timers \cup {Null}] /\ prev \in [Timers -> Timers \cup {Null}]
        /\ tail \in Timers \cup {Null}
    BY DEF ValueInv
  <2>1. CASE k = 1 /\ k = Len(q)
    <3>1. head' = Null /\ tail' = Null /\ Delete({t}, next, prev)
      BY <1>5, <2>1 DEF DelTimer
    <3>2. r = <<>>
      <4> PICK n : n = Len(q)  OBVIOUS
      <4>1. n = 1 /\ Len(r) = n - 1  BY Zenon, <1>0, <2>1
      <4>2. Len(r) = 0  BY <4>1
      <4> QED  BY <4>2
    <3>3. /\ alive' = alive \ {t}
          /\ next' = [c \in Timers |-> IF c = t THEN Null ELSE next[c]]
          /\ prev' = [c \in Timers |-> IF c = t THEN Null ELSE prev[c]]
          /\ expire' = [c \in Timers |-> IF c \in {t} THEN 0 ELSE expire[c]]
      BY <2>0, <3>1 DEF Delete
    <3>4. ASSUME NEW i \in 1..Len(q)  PROVE i = k
      <4>1. 1..Len(q) = 1..1  BY Zenon, <1>0, <2>1
      <4> QED  BY <2>1, <4>1
    <3>5. next' \in [Timers -> Timers \cup {Null}] /\ prev' \in [Timers -> Timers \cup {Null}]
      BY <2>0, <3>3
    <3>6. next'[t] = Null /\ \A c \in Timers \ alive : next'[c] = next[c]  BY <1>2, <3>3
    <3> QED  BY <3>1, <3>2, <3>3, <3>4, <3>5, <3>6 DEF First
  <2>2. CASE k = 1 /\ k # Len(q)
    <3>1. head' = next[t] /\ tail' = tail /\ Delete({t}, next, [prev EXCEPT ![next[t]] = Null])
      BY <1>5, <2>2 DEF DelTimer
    <3>2. 2 \in 1..Len(q) /\ next[t] = q[2] /\ q[2] \in Timers /\ q[2] # t /\ prev[q[1]] = Null
      <4>1. 2 \in 1..Len(q) /\ k + 1 = 2 /\ 2 # k  BY <1>0, <2>2
      <4>2. next[t] = q[2]  BY <1>6, <2>2, <4>1
      <4>3. prev[t] = Null /\ q[1] = t  BY <1>3, <1>6, <2>2
      <4> QED  BY <1>4, <4>1, <4>2, <4>3
    <3>3. r # <<>> /\ r[1] = q[2] /\ r[Len(r)] = q[Len(q)]
      <4>1. Len(r) \in 1..(Len(q) - 1) /\ 1 \in 1..(Len(q) - 1)  BY <1>4, <1>9, <2>2
      <4>2. r[1] = q[1 + 1]  BY <1>9, <2>2, <4>1
      <4>3. r[Len(r)] = q[Len(r) + 1]
        <5> PICK n : n = Len(r)  OBVIOUS
        <5>1. n \in 1..(Len(q) - 1) /\ ~(n < k)  BY <2>2, <4>1
        <5> QED  BY <1>9, <5>1
      <4>4. Len(r) + 1 = Len(q) /\ r # <<>>  BY <1>4, <1>9, <4>1
      <4> QED  BY <4>2, <4>3, <4>4
    <3>4. /\ alive' = alive \ {t}
          /\ next' = [c \in Timers |-> IF c = t THEN Null ELSE next[c]]
          /\ prev' = [c \in Timers |-> IF c = t \/ c = q[2] THEN Null ELSE prev[c]]
          /\ expire' = [c \in Timers |-> IF c \in {t} THEN 0 ELSE expire[c]]
      BY <2>0, <3>1, <3>2 DEF Delete
    <3>5. ASSUME NEW i \in 1..Len(q), i # k
          PROVE  /\ next'[q[i]] = IF i = k - 1 THEN next[q[k]] ELSE next[q[i]]
                 /\ prev'[q[i]] = IF i = k + 1 THEN prev[q[k]] ELSE prev[q[i]]
      <4>1. q[i] \in Timers /\ q[i] # t /\ (q[i] = q[2] <=> i = 2) /\ i # k - 1
            /\ (i = 2 <=> i = k + 1)
        BY <1>4, <2>2, <3>2, <3>5
      <4> QED  BY <2>2, <3>2, <3>4, <4>1
    <3>6. next' \in [Timers -> Timers \cup {Null}] /\ prev' \in [Timers -> Timers \cup {Null}]
      BY <2>0, <3>4
    <3>7. next'[t] = Null /\ \A c \in Timers \ alive : next'[c] = next[c]  BY <1>2, <3>4
    <3> QED  BY Zenon, <1>1, <1>4, <2>0, <3>1, <3>2, <3>3, <3>4, <3>5, <3>6, <3>7 DEF First
  <2>3. CASE k # 1 /\ k = Len(q)
    <3>1. head' = head /\ tail' = prev[t] /\ Delete({t}, [next EXCEPT ![prev[t]] = Null], prev)
      BY <1>5, <2>3 DEF DelTimer
    <3>2. k - 1 \in 1..Len(q) /\ prev[t] = q[k - 1] /\ q[k - 1] \in Timers /\ q[k - 1] # t
          /\ next[q[k]] = Null
      BY <1>3, <1>4, <1>6, <2>3
    <3>3. r # <<>> /\ r[1] = q[1] /\ r[Len(r)] = q[k - 1]
      <4>1. /\ Len(r) = k - 1 /\ k - 1 \in 1..(Len(q) - 1) /\ 1 \in 1..(Len(q) - 1)
            /\ 1 < k /\ k - 1 < k
        BY <1>4, <1>9, <2>3
      <4>2. r[1] = q[1] /\ r[k - 1] = q[k - 1]  BY <1>9, <4>1
      <4> QED  BY <4>1, <4>2
    <3>4. /\ alive' = alive \ {t}
          /\ next' = [c \in Timers |-> IF c = t \/ c = q[k - 1] THEN Null ELSE next[c]]
          /\ prev' = [c \in Timers |-> IF c = t THEN Null ELSE prev[c]]
          /\ expire' = [c \in Timers |-> IF c \in {t} THEN 0 ELSE expire[c]]
      BY <2>0, <3>1, <3>2 DEF Delete
    <3>5. ASSUME NEW i \in 1..Len(q), i # k
          PROVE  /\ next'[q[i]] = IF i = k - 1 THEN next[q[k]] ELSE next[q[i]]
                 /\ prev'[q[i]] = IF i = k + 1 THEN prev[q[k]] ELSE prev[q[i]]
      <4>1. q[i] \in Timers /\ q[i] # t /\ (q[i] = q[k - 1] <=> i = k - 1) /\ i # k + 1
        BY <1>4, <2>3, <3>2, <3>5
      <4> QED  BY <2>3, <3>2, <3>4, <4>1
    <3>6. next' \in [Timers -> Timers \cup {Null}] /\ prev' \in [Timers -> Timers \cup {Null}]
      BY <2>0, <3>4
    <3>7. next'[t] = Null /\ \A c \in Timers \ alive : next'[c] = next[c]
      <4>1. q[k - 1] \in alive  BY Zenon, <1>1, <3>2, RowType
      <4> QED  BY <1>2, <3>4, <4>1
    <3> QED  BY Zenon, <1>1, <1>4, <2>0, <3>1, <3>2, <3>3, <3>4, <3>5, <3>6, <3>7 DEF First
  <2>4. CASE k # 1 /\ k # Len(q)
    <3>1. head' = head /\ tail' = tail
          /\ Delete({t}, [next EXCEPT ![prev[t]] = next[t]], [prev EXCEPT ![next[t]] = prev[t]])
      BY <1>5, <2>4 DEF DelTimer
    <3>2. /\ k - 1 \in 1..Len(q) /\ prev[t] = q[k - 1] /\ q[k - 1] \in Timers /\ q[k - 1] # t
          /\ k + 1 \in 1..Len(q) /\ next[t] = q[k + 1] /\ q[k + 1] \in Timers /\ q[k + 1] # t
      BY <1>4, <1>6, <2>4
    <3>3. r # <<>> /\ r[1] = q[1] /\ r[Len(r)] = q[Len(q)]
      <4>1. Len(r) \in 1..(Len(q) - 1) /\ 1 \in 1..(Len(q) - 1) /\ 1 < k  BY <1>4, <1>9, <2>4
      <4>2. r[1] = q[1]  BY <1>9, <4>1
      <4>3. r[Len(r)] = q[Len(r) + 1]
        <5> PICK n : n = Len(r)  OBVIOUS
        <5>1. n \in 1..(Len(q) - 1) /\ ~(n < k)  BY <1>4, <1>9, <2>4, <4>1
        <5> QED  BY <1>9, <5>1
      <4>4. Len(r) + 1 = Len(q) /\ r # <<>>  BY <1>4, <1>9, <4>1
      <4> QED  BY <4>2, <4>3, <4>4
    <3>4. /\ alive' = alive \ {t}
          /\ next' = [c \in Timers |-> IF c = t THEN Null
                                       ELSE IF c = q[k - 1] THEN next[t] ELSE next[c]]
          /\ prev' = [c \in Timers |-> IF c = t THEN Null
                                       ELSE IF c = q[k + 1] THEN prev[t] ELSE prev[c]]
          /\ expire' = [c \in Timers |-> IF c \in {t} THEN 0 ELSE expire[c]]
      BY <2>0, <3>1, <3>2 DEF Delete
    <3>5. ASSUME NEW i \in 1..Len(q), i # k
          PROVE  /\ next'[q[i]] = IF i = k - 1 THEN next[q[k]] ELSE next[q[i]]
                 /\ prev'[q[i]] = IF i = k + 1 THEN prev[q[k]] ELSE prev[q[i]]
      <4>1. q[i] \in Timers /\ q[i] # t /\ (q[i] = q[k - 1] <=> i = k - 1)
            /\ (q[i] = q[k + 1] <=> i = k + 1)
        BY <1>4, <3>2, <3>5
      <4> QED  BY <1>3, <3>4, <4>1
    <3>6. next' \in [Timers -> Timers \cup {Null}] /\ prev' \in [Timers -> Timers \cup {Null}]
      BY <2>0, <3>4
    <3>7. next'[t] = Null /\ \A c \in Timers \ alive : next'[c] = next[c]
      <4>1. q[k - 1] \in alive  BY Zenon, <1>1, <3>2, RowType
      <4> QED  BY <1>2, <3>4, <4>1
    <3> QED  BY Zenon, <1>1, <1>4, <2>0, <3>1, <3>2, <3>3, <3>4, <3>5, <3>6, <3>7 DEF First
  <2> QED  BY <2>1, <2>2, <2>3, <2>4
<1>11. Forward(r, next') /\ Backward(r, prev')
  <2>1. /\ Row(q) /\ IsRemoval(r, q, k) /\ Forward(q, next) /\ Backward(q, prev)
        /\ Bypasses(q, k, next, prev, next', prev')
    BY <1>1, <1>7, <1>10 DEF Bypasses
  <2> QED  BY <2>1, Unlinked
<1>12. Sorted(r, expire')
  <2>1. Sorted(r, expire)  BY <1>1, <1>7, SortedRemoval
  <2>2. \A i \in 1..Len(r) : expire'[r[i]] = expire[r[i]]
    <3>1. \A i \in 1..Len(r) : r[i] \in Timers /\ r[i] # t  BY <1>8, RowType
    <3> QED  BY <1>10, <3>1
  <2> QED  BY <2>1, <2>2, SortedSame
<1>13. List(r)'  BY <1>8, <1>10, <1>11, <1>12 DEF List
<1>14. fired' = <<>> /\ clock' = clock /\ alarm' = alarm  BY DEF DelTimer
<1>15. expire' \in [Timers -> 0..MaxTime]  BY <1>10, TimerAssumption DEF ValueInv
<1>16. fired' \in Seq(Timers)  BY <1>14
<1>17. ValueInv'  BY <1>10, <1>14, <1>15, <1>16 DEF ValueInv
<1>18. DeadInv'
  <2>1. ASSUME NEW c \in Timers \ alive'  PROVE next'[c] = Null /\ expire'[c] = 0
    <3>1. c = t \/ c \in Timers \ alive  BY <1>10
    <3> QED  BY <1>10, <3>1 DEF DeadInv
  <2> QED  BY <2>1 DEF DeadInv
<1> QED  BY <1>3, <1>7, <1>8, <1>10, <1>13, <1>17, <1>18
\* adjust_timer takes a cell out and puts it behind all that now expire no later;
\* where it leaves the cell in its place, that is the same.
LEMMA AdjustStep ==
    ASSUME ValueInv, DeadInv, NEW q, List(q), NEW t \in Timers, NEW e \in 0..MaxTime,
           AdjustTimer(t, e)
    PROVE  /\ ValueInv' /\ DeadInv'
           /\ \E k, m \in 1..Len(q) :
                 /\ q[k] = t
                 /\ Split(RemoveAt(q, k), expire, m, e)
                 /\ List(InsertAt(RemoveAt(q, k), m, t))'
<1>1. /\ Row(q) /\ CellsOf(q) = alive /\ alive \subseteq Timers
      /\ Forward(q, next) /\ Backward(q, prev)
      /\ Sorted(q, expire) /\ expire \in [Timers -> Nat]
      /\ q # <<>> => /\ 1 \in 1..Len(q) /\ Len(q) \in 1..Len(q)
                     /\ head = q[1] /\ tail = q[Len(q)]
  BY Facts
<1>2. /\ t \in alive /\ alive' = alive /\ e >= expire[t] /\ expire' = [expire EXCEPT ![t] = e]
      /\ fired' = <<>> /\ clock' = clock /\ alarm' = alarm
  BY DEF AdjustTimer
<1>3. PICK k \in 1..Len(q) : q[k] = t  BY <1>1, <1>2, RowType
<1>4. /\ Len(q) \in Nat /\ Null \notin Timers /\ q # <<>> /\ e \in Nat
      /\ \A i \in 1..Len(q) : /\ q[i] \in Timers /\ (q[i] = t <=> i = k)
                              /\ expire[q[i]] \in Nat
      /\ \A i, j \in 1..Len(q) : q[i] = q[j] => i = j
  BY SMTT(30), <1>1, <1>3, RowType, TimerAssumption
<1>5. /\ t = head <=> k = 1
      /\ next[t] = IF k = Len(q) THEN Null ELSE q[k + 1]
      /\ prev[t] = IF k = 1 THEN Null ELSE q[k - 1]
  <2>1. t = head <=> k = 1  BY <1>1, <1>4
  <2> QED  BY <1>1, <1>3, <2>1 DEF Forward, Backward
<1>6. PICK p \in Seq(Timers) : p = RemoveAt(q, k) /\ IsRemoval(p, q, k)
  BY <1>1, Removed, RowType
<1>7. Row(p) /\ CellsOf(p) = alive \ {t} /\ Sorted(p, expire)
  BY <1>1, <1>3, <1>6, RowRemoval, SortedRemoval
<1>8. Len(p) = Len(q) - 1 /\ \A i \in 1..(Len(q) - 1) : p[i] = IF i < k THEN q[i] ELSE q[i + 1]
  BY <1>6 DEF IsRemoval
<1>9. Len(q) \in Nat /\ Len(p) = Len(q) - 1 /\ k \in Nat /\ 1 <= k /\ k <= Len(q)
  BY <1>1, <1>8, RowType
<1>10. \A i \in 1..Len(p) : p[i] \in Timers /\ expire[p[i]] \in Nat  BY Zenon, <1>1, <1>7, RowType
\* It is enough to say where it goes.
<1>11. ASSUME NEW m \in 1..Len(q), Split(p, expire, m, e),
              NEW r \in Seq(Timers), r = InsertAt(p, m, t), IsInsertion(r, p, m, t),
              Forward(r, next'), next' \in [Timers -> Timers \cup {Null}],
              Backward(r, prev'), prev' \in [Timers -> Timers \cup {Null}],
              \A c \in Timers \ alive : next'[c] = next[c],
              head' = First(r), tail' = r[Len(r)]
       PROVE  /\ ValueInv' /\ DeadInv'
              /\ \E j, l \in 1..Len(q) :
                    /\ q[j] = t
                    /\ Split(RemoveAt(q, j), expire, l, e)
                    /\ List(InsertAt(RemoveAt(q, j), l, t))'
  <2>0. m \in 1..(Len(p) + 1) /\ t \in Timers \ CellsOf(p)  BY <1>7, <1>9
  <2>1. Row(r) /\ CellsOf(r) = alive'
    <3>1. Row(r) /\ CellsOf(r) = CellsOf(p) \cup {t}  BY <1>7, <1>11, <2>0, RowInsertion
    <3> QED  BY <1>2, <1>7, <3>1
  <2>2. Sorted(r, expire')
    <3>1. Sorted(r, [expire EXCEPT ![t] = e])
      BY Zenon, <1>1, <1>4, <1>7, <1>11, <2>0, SortedInsertion
    <3> QED  BY <1>2, <3>1
  <2>3. List(r)'  BY <1>11, <2>1, <2>2 DEF List
  <2>4. Len(r) \in 1..Len(r)  BY <1>9, <1>11 DEF IsInsertion
  <2>5. tail' \in Timers  BY <1>11, <2>4
  <2>6. expire' \in [Timers -> 0..MaxTime]  BY <1>2 DEF ValueInv
  <2>7. fired' \in Seq(Timers)  BY <1>2
  <2>8. ValueInv'  BY Zenon, <1>2, <1>11, <2>5, <2>6, <2>7 DEF ValueInv
  <2>9. DeadInv'
    <3>1. \A c \in Timers \ alive : expire'[c] = expire[c]  BY <1>1, <1>2
    <3> QED  BY <1>2, <1>11, <3>1 DEF DeadInv
  <2> QED  BY <1>3, <1>6, <1>11, <2>3, <2>8, <2>9
\* The cell stays in its place.
<1>12. CASE next[t] = Null \/ (next[t] # Null /\ e < expire[next[t]])
  <2>1. head' = head /\ tail' = tail /\ next' = next /\ prev' = prev
    BY <1>2, <1>4, <1>5, <1>12, TimerAssumption DEF AdjustTimer
  <2>2. k \in 1..(Len(p) + 1)  BY <1>9
  <2>3. q = InsertAt(p, k, t) /\ IsInsertion(q, p, k, t) /\ q \in Seq(Timers)
    <3>1. InsertAt(p, k, t) = q  BY <1>1, <1>3, <1>6, PutBack, RowType
    <3>2. IsInsertion(InsertAt(p, k, t), p, k, t)  BY <2>2, Inserted
    <3> QED  BY <1>1, <3>1, <3>2, RowType
  <2>4. Split(p, expire, k, e)
    <3>1. ASSUME NEW i \in 1..(k - 1)  PROVE expire[p[i]] <= e
      <4>1. i \in 1..Len(p) /\ i \in 1..(Len(q) - 1) /\ i < k /\ i <= k /\ i \in 1..Len(q)
        BY <1>9
      <4>2. p[i] = q[i] /\ expire[q[i]] <= expire[q[k]]  BY <1>1, <1>8, <4>1 DEF Sorted
      <4> QED  BY <1>1, <1>2, <1>3, <1>4, <4>1, <4>2
    <3>2. ASSUME NEW i \in k..Len(p)  PROVE expire[p[i]] > e
      <4>1. /\ i \in 1..(Len(q) - 1) /\ ~(i < k) /\ i + 1 \in 1..Len(q)
            /\ k # Len(q) /\ k + 1 \in 1..Len(q) /\ k + 1 <= i + 1
        BY <1>9
      <4>2. p[i] = q[i + 1] /\ expire[q[k + 1]] <= expire[q[i + 1]]
        BY Zenon, <1>1, <1>8, <4>1 DEF Sorted
      <4>3. next[t] = q[k + 1] /\ q[k + 1] # Null  BY <1>4, <1>5, <4>1
      <4>4. e < expire[q[k + 1]]  BY <1>12, <4>3
      <4> QED  BY <1>4, <4>1, <4>2, <4>4
    <3> QED  BY <3>1, <3>2 DEF Split
  <2>5. /\ Forward(q, next') /\ next' \in [Timers -> Timers \cup {Null}]
        /\ Backward(q, prev') /\ prev' \in [Timers -> Timers \cup {Null}]
    BY <1>1, <2>1 DEF ValueInv
  <2>6. head' = First(q) /\ tail' = q[Len(q)]  BY <1>1, <1>4, <2>1 DEF First
  <2> QED  BY <1>11, <2>1, <2>3, <2>4, <2>5, <2>6
\* The cell is taken out, and linked from the next one on.
<1>13. CASE next[t] # Null /\ ~(e < expire[next[t]])
  <2> PICK s : s = next[t]  OBVIOUS
  <2>1. /\ k # Len(q) /\ k + 1 \in 1..Len(q) /\ s = q[k + 1] /\ s \in Timers /\ s # t
        /\ k \in 1..Len(p) /\ Len(p) \in Nat
    <3>1. k # Len(q)  BY <1>5, <1>13
    <3>2. k + 1 \in 1..Len(q) /\ k + 1 # k /\ k \in 1..Len(p) /\ Len(p) \in Nat  BY <1>9, <3>1
    <3>3. s = q[k + 1]  BY <1>5, <3>1
    <3> QED  BY <1>4, <3>1, <3>2, <3>3
  <2>2. /\ p[k] = s /\ p # <<>> /\ p[1] = IF k = 1 THEN s ELSE q[1]
        /\ p[Len(p)] = q[Len(q)]
    <3>1. k \in 1..(Len(q) - 1) /\ 1 \in 1..(Len(q) - 1) /\ Len(p) \in 1..(Len(q) - 1)
          /\ ~(Len(p) < k) /\ Len(p) + 1 = Len(q) /\ ~(k < k)
      BY <1>9, <2>1
    <3>2. p[k] = s /\ p # <<>>
      <4>1. p[k] = q[k + 1]  BY <1>8, <3>1
      <4> QED  BY <2>1, <4>1
    <3>3. p[1] = IF k = 1 THEN s ELSE q[1]
      <4>1. CASE k = 1  BY <3>2, <4>1
      <4>2. CASE k # 1
        <5>1. 1 < k  BY <1>9, <4>2
        <5> QED  BY <1>8, <3>1, <4>2, <5>1
      <4> QED  BY <4>1, <4>2
    <3>4. p[Len(p)] = q[Len(p) + 1]
      <4> PICK n : n = Len(p)  OBVIOUS
      <4>1. n \in 1..(Len(q) - 1) /\ ~(n < k)  BY <3>1
      <4>2. p[n] = q[n + 1]  BY <1>8, <4>1
      <4> QED  BY <4>2
    <3> QED  BY <3>1, <3>2, <3>3, <3>4
  \* The cell taken out, in both ways.
  <2>3. \E nx, pv \in [Timers -> Timers \cup {Null}] :
           /\ Bypasses(q, k, next, prev, nx, pv)
           /\ nx[t] \in {s, Null} /\ \A c \in Timers \ alive : nx[c] = next[c]
           /\ LinkAfter(nx, pv, t, StopCell(nx, s, e))
           /\ head' = p[1]
    <3>0. next \in [Timers -> Timers \cup {Null}] /\ prev \in [Timers -> Timers \cup {Null}]
      BY DEF ValueInv
    <3>1. CASE k = 1
      <4> PICK nx : nx = [next EXCEPT ![t] = Null]  BY Zenon
      <4> PICK pv : pv = [prev EXCEPT ![s] = Null]  BY Zenon
      <4>1. LinkAfter(nx, pv, t, StopCell(nx, s, e)) /\ head' = s
        BY <1>2, <1>4, <1>5, <1>13, <3>1, TimerAssumption DEF AdjustTimer
      <4>2. /\ nx \in [Timers -> Timers \cup {Null}] /\ pv \in [Timers -> Timers \cup {Null}]
            /\ \A c \in Timers : /\ nx[c] = IF c = t THEN Null ELSE next[c]
                                 /\ pv[c] = IF c = s THEN Null ELSE prev[c]
        BY <2>1, <3>0
      <4>3. ASSUME NEW i \in 1..Len(q), i # k
            PROVE  /\ nx[q[i]] = IF i = k - 1 THEN next[q[k]] ELSE next[q[i]]
                   /\ pv[q[i]] = IF i = k + 1 THEN prev[q[k]] ELSE prev[q[i]]
        <5>1. q[i] \in Timers /\ q[i] # t /\ (q[i] = s <=> i = k + 1) /\ i # k - 1
          <6>1. i # k - 1  BY <3>1
          <6> QED  BY <1>4, <2>1, <4>3, <6>1
        <5>2. prev[q[k]] = Null  BY <1>3, <1>5, <3>1
        <5> QED  BY <4>2, <5>1, <5>2
      <4>4. Bypasses(q, k, next, prev, nx, pv)  BY <4>3 DEF Bypasses
      <4>5. \A c \in Timers \ alive : nx[c] = next[c]  BY <1>2, <4>2
      <4>6. nx[t] = Null /\ head' = p[1]  BY <2>2, <3>1, <4>1, <4>2
      <4> QED  BY Zenon, <4>1, <4>2, <4>4, <4>5, <4>6
    <3>2. CASE k # 1
      <4>0. k - 1 \in 1..Len(q) /\ prev[t] = q[k - 1] /\ q[k - 1] \in Timers /\ q[k - 1] # t
            /\ t # head /\ q[k - 1] \in alive
        <5>1. k - 1 \in 1..Len(q) /\ k - 1 # k  BY <1>9, <3>2
        <5>2. prev[t] = q[k - 1] /\ t # head  BY <1>5, <3>2
        <5>3. q[k - 1] \in alive  BY Zenon, <1>1, <5>1, RowType
        <5> QED  BY <1>4, <5>1, <5>2, <5>3
      <4> PICK nx : nx = [next EXCEPT ![prev[t]] = s]  BY Zenon
      <4> PICK pv : pv = [prev EXCEPT ![s] = prev[t]]  BY Zenon
      <4>1. LinkAfter(nx, pv, t, StopCell(nx, s, e)) /\ head' = head
        BY <1>2, <1>4, <1>13, <4>0, TimerAssumption DEF AdjustTimer
      <4>2. /\ nx \in [Timers -> Timers \cup {Null}] /\ pv \in [Timers -> Timers \cup {Null}]
            /\ \A c \in Timers : /\ nx[c] = IF c = q[k - 1] THEN s ELSE next[c]
                                 /\ pv[c] = IF c = s THEN prev[t] ELSE prev[c]
        BY <2>1, <3>0, <4>0
      <4>3. ASSUME NEW i \in 1..Len(q), i # k
            PROVE  /\ nx[q[i]] = IF i = k - 1 THEN next[q[k]] ELSE next[q[i]]
                   /\ pv[q[i]] = IF i = k + 1 THEN prev[q[k]] ELSE prev[q[i]]
        <5>1. q[i] \in Timers /\ (q[i] = q[k - 1] <=> i = k - 1) /\ (q[i] = s <=> i = k + 1)
          BY <1>4, <2>1, <4>0
        <5> QED  BY <1>3, <4>2, <5>1
      <4>4. Bypasses(q, k, next, prev, nx, pv)  BY <4>3 DEF Bypasses
      <4>5. \A c \in Timers \ alive : nx[c] = next[c]  BY <4>0, <4>2
      <4>6. nx[t] = s /\ head' = p[1]  BY <1>1, <1>4, <2>2, <3>2, <4>0, <4>1, <4>2
      <4> QED  BY Zenon, <4>1, <4>2, <4>4, <4>5, <4>6
    <3> QED  BY Zenon, <3>1, <3>2
  <2>4. PICK nx, pv \in [Timers -> Timers \cup {Null}] :
           /\ Bypasses(q, k, next, prev, nx, pv)
           /\ nx[t] \in {s, Null} /\ \A c \in Timers \ alive : nx[c] = next[c]
           /\ LinkAfter(nx, pv, t, StopCell(nx, s, e))
           /\ head' = p[1]
    BY <2>3
  <2>5. Forward(p, nx) /\ Backward(p, pv)
    <3>1. /\ Row(q) /\ IsRemoval(p, q, k) /\ Forward(q, next) /\ Backward(q, prev)
          /\ Bypasses(q, k, next, prev, nx, pv)
      BY <1>1, <1>6, <2>4
    <3> QED  BY <3>1, Unlinked
  <2>6. Outside(p, nx)
    <3>1. s \in CellsOf(p)  BY <1>7, <2>1, <2>2, RowType
    <3>2. ASSUME NEW c \in Timers \ CellsOf(p)  PROVE nx[c] \in CellsOf(p) \cup {Null}
      <4>1. CASE c = t  BY <2>4, <3>1, <4>1
      <4>2. CASE c # t
        <5>1. c \in Timers \ alive  BY <1>7, <4>2
        <5> QED  BY <2>4, <5>1 DEF DeadInv
      <4> QED  BY <4>1, <4>2
    <3> QED  BY <3>2 DEF Outside
  <2>7. PICK m \in k..Len(p) :
          /\ StopCell(nx, p[k], e) = p[m]
          /\ m = Len(p) \/ e < expire[p[m + 1]]
          /\ \A j \in (k + 1)..m : ~(e < expire[p[j]])
    BY Zenon, <1>7, <2>1, <2>5, <2>6, StopCellIs
  <2>8. m + 1 \in 1..(Len(p) + 1) /\ m + 1 \in 1..Len(q) /\ m \in 1..Len(p)  BY <1>9, <2>1
  <2>9. PICK r \in Seq(Timers) : r = InsertAt(p, m + 1, t) /\ IsInsertion(r, p, m + 1, t)
    BY <2>8, Inserted
  <2>10. /\ Relinked(next', prev', nx, pv, t, p[m])
         /\ tail' = IF nx[p[m]] = Null THEN t ELSE tail
    BY <2>2, <2>4, <2>7 DEF LinkAfter, Relinked
  <2>11. Relinks(r, next', prev', nx, tail') /\ First(r) = First(p)
    <3>1. t \in Timers \ CellsOf(p)  BY <1>7
    <3>2. tail' = IF nx[p[m]] = Null THEN t ELSE p[Len(p)]  BY Zenon, <1>1, <1>4, <2>2, <2>10
    <3>3. /\ Row(p) /\ Forward(p, nx) /\ Backward(p, pv) /\ IsInsertion(r, p, m + 1, t)
          /\ nx \in [Timers -> Timers \cup {Null}] /\ pv \in [Timers -> Timers \cup {Null}]
          /\ Relinked(next', prev', nx, pv, t, p[m])
      BY <1>7, <2>5, <2>9, <2>10
    <3> QED  BY ZenonT(30), <2>8, <3>1, <3>2, <3>3, Linking
  <2>12. Split(p, expire, m + 1, e)
    <3>1. ASSUME NEW i \in 1..((m + 1) - 1)  PROVE expire[p[i]] <= e
      <4>1. i \in 1..Len(p) /\ (i <= k \/ i \in (k + 1)..m)  BY <1>9, <2>1
      <4>2. CASE i <= k
        <5>1. expire[p[i]] <= expire[p[k]]  BY Zenon, <1>7, <2>1, <4>1, <4>2 DEF Sorted
        <5>2. ~(e < expire[p[k]])  BY <1>13, <2>2
        <5> QED  BY <1>4, <1>10, <2>1, <4>1, <5>1, <5>2
      <4>3. CASE i \in (k + 1)..m
        <5>1. ~(e < expire[p[i]])  BY <2>7, <4>3
        <5> QED  BY <1>4, <1>10, <4>1, <5>1
      <4> QED  BY <4>1, <4>2, <4>3
    <3>2. ASSUME NEW i \in (m + 1)..Len(p)  PROVE expire[p[i]] > e
      <4>1. m # Len(p) /\ m + 1 \in 1..Len(p) /\ i \in 1..Len(p) /\ m + 1 <= i
        BY <2>1, <2>8
      <4>2. e < expire[p[m + 1]]  BY <2>7, <4>1
      <4>3. expire[p[m + 1]] <= expire[p[i]]  BY <1>7, <4>1 DEF Sorted
      <4> QED  BY <1>4, <1>10, <4>1, <4>2, <4>3
    <3> QED  BY <3>1, <3>2 DEF Split
  <2>13. \A c \in Timers \ alive : next'[c] = next[c]
    <3>1. CellsOf(r) = CellsOf(p) \cup {t}  BY Zenon, <1>7, <2>8, <2>9, RowInsertion
    <3>2. CellsOf(r) = alive  BY <1>2, <1>7, <3>1
    <3> QED  BY <2>4, <2>11, <3>2 DEF Relinks
  <2>14. head' = First(r) /\ tail' = r[Len(r)]
    BY <2>2, <2>4, <2>11 DEF First, Relinks
  <2>15. /\ Forward(r, next') /\ next' \in [Timers -> Timers \cup {Null}]
         /\ Backward(r, prev') /\ prev' \in [Timers -> Timers \cup {Null}]
    BY <2>11 DEF Relinks
  <2> QED  BY <1>11, <2>8, <2>9, <2>12, <2>13, <2>14, <2>15
<1> QED  BY <1>12, <1>13

\* tick takes away the cells in front of the place of the clock, and calls them back.
LEMMA TickStep ==
    ASSUME ValueInv, DeadInv, NEW q, List(q), Tick
    PROVE  /\ ValueInv' /\ DeadInv'
           /\ \E k \in 1..(Len(q) + 1) :
                 /\ Split(q, expire, k, clock)
                 /\ fired' = SubSeq(q, 1, k - 1)
                 /\ List(SubSeq(q, k, Len(q)))'
                 /\ CellsOf(SubSeq(q, k, Len(q))) = alive \ CellsOf(ExpiredPrefix)
           /\ expire' = [c \in Timers |-> IF c \in CellsOf(ExpiredPrefix) THEN 0 ELSE expire[c]]
           /\ clock' = clock
<1>1. /\ Row(q) /\ CellsOf(q) = alive /\ alive \subseteq Timers
      /\ Forward(q, next) /\ Backward(q, prev) /\ Outside(q, next)
      /\ Sorted(q, expire) /\ expire \in [Timers -> Nat] /\ clock \in Nat
      /\ head = First(q) /\ (head = Null <=> q = <<>>)
      /\ q # <<>> => /\ 1 \in 1..Len(q) /\ Len(q) \in 1..Len(q)
                     /\ head = q[1] /\ tail = q[Len(q)]
  BY Facts
<1> PICK done : done = ExpiredPrefix  OBVIOUS
<1>2. PICK k \in 1..(Len(q) + 1) : done = SubSeq(q, 1, k - 1) /\ Split(q, expire, k, clock)
  BY <1>1, ExpiredPrefixIs
<1>3. /\ Len(q) \in Nat /\ k \in Nat /\ 1 <= k /\ k <= Len(q) + 1 /\ Null \notin Timers
      /\ \A i, j \in 1..Len(q) : q[i] \in Timers /\ (q[i] = q[j] => i = j)
  BY <1>1, RowType, TimerAssumption
<1>4. done \in Seq(Timers) /\ Len(done) = k - 1 /\ \A i \in 1..(k - 1) : done[i] = q[i]
  <2>1. q \in Seq(Timers) /\ k - 1 \in 0..Len(q)  BY <1>1, <1>3, RowType
  <2> QED  BY <1>2, <1>3, <2>1
<1>5. CellsOf(done) = {q[i] : i \in 1..(k - 1)}  BY <1>4 DEF CellsOf
<1>6. PICK r \in Seq(Timers) : r = SubSeq(q, k, Len(q)) /\ IsRest(r, q, k)
  BY Zenon, <1>1, Rest, RowType
<1>7. Row(r) /\ CellsOf(r) = {q[i] : i \in k..Len(q)} /\ CellsOf(r) = alive \ CellsOf(done)
  <2>1. Row(q) /\ IsRest(r, q, k)  BY <1>1, <1>6
  <2>2. /\ Row(r) /\ CellsOf(r) = {q[i] : i \in k..Len(q)}
        /\ CellsOf(r) = CellsOf(q) \ {q[i] : i \in 1..(k - 1)}
    BY <2>1, RowRest
  <2> QED  BY <1>1, <1>5, <2>2
<1>8. Len(r) = Len(q) - (k - 1) /\ \A i \in 1..Len(r) : r[i] = q[i + (k - 1)]
  BY <1>6 DEF IsRest
<1>9. (done = <<>> <=> k = 1) /\ (r = <<>> <=> k = Len(q) + 1)
  <2>1. done = <<>> <=> Len(done) = 0  BY <1>4
  <2>2. r = <<>> <=> Len(r) = 0  OBVIOUS
  <2>3. (Len(done) = 0 <=> k = 1) /\ (Len(r) = 0 <=> k = Len(q) + 1)
    <3> PICK n : n = Len(q)  BY Zenon
    <3>1. n \in Nat /\ Len(done) = k - 1 /\ Len(r) = n - (k - 1)  BY <1>3, <1>4, <1>8
    <3> QED  BY <1>3, <3>1
  <2> QED  BY <2>1, <2>2, <2>3
<1>10. r # <<>> => /\ r[1] = q[k] /\ k \in 1..Len(q)
                   /\ r[Len(r)] = q[Len(q)]
  <2> SUFFICES ASSUME r # <<>>
               PROVE  r[1] = q[k] /\ k \in 1..Len(q) /\ r[Len(r)] = q[Len(q)]
    OBVIOUS
  <2>1. k \in 1..Len(q) /\ 1 \in 1..Len(r) /\ Len(r) \in 1..Len(r) /\ 1 + (k - 1) = k
        /\ Len(r) + (k - 1) = Len(q)
    BY <1>3, <1>8, <1>9
  <2>2. r[1] = q[1 + (k - 1)]  BY <1>8, <2>1
  <2>3. r[Len(r)] = q[Len(r) + (k - 1)]
    <3> PICK n : n = Len(r)  OBVIOUS
    <3>1. n \in 1..Len(r)  BY <2>1
    <3>2. r[n] = q[n + (k - 1)]  BY <1>8, <3>1
    <3> QED  BY <3>2
  <2> QED  BY <2>1, <2>2, <2>3
<1> PICK first : first = IF done = <<>> THEN head ELSE next[done[Len(done)]]  OBVIOUS
<1>11. first = First(r)
  <2>1. CASE k = 1
    <3>1. first = First(q)  BY <1>1, <1>9, <2>1
    <3>2. r = <<>> <=> q = <<>>
      <4>1. q = <<>> <=> Len(q) = 0  BY <1>1, RowType
      <4> QED  BY <1>3, <1>9, <2>1, <4>1
    <3> QED  BY <1>10, <2>1, <3>1, <3>2 DEF First
  <2>2. CASE k # 1
    <3>1. k - 1 \in 1..(k - 1) /\ k - 1 \in 1..Len(q) /\ (k - 1) + 1 = k
          /\ (k - 1 = Len(q) <=> k = Len(q) + 1)
      BY <1>3, <2>2
    <3>2. first = next[q[k - 1]]  BY <1>4, <1>9, <2>2, <3>1
    <3>3. next[q[k - 1]] = IF k - 1 = Len(q) THEN Null ELSE q[(k - 1) + 1]
      BY Zenon, <1>1, <3>1 DEF Forward
    <3> QED  BY <1>9, <1>10, <3>1, <3>2, <3>3 DEF First
  <2> QED  BY <2>1, <2>2
<1>12. /\ fired' = done /\ head' = first /\ tail' = tail /\ clock' = clock /\ alarm' = alarm
       /\ alive' = alive \ CellsOf(done)
       /\ next' = [c \in Timers |-> IF c \in CellsOf(done) THEN Null ELSE next[c]]
       /\ prev' = [c \in Timers |->
                      IF c \in CellsOf(done) \/ (done # <<>> /\ c = first) THEN Null ELSE prev[c]]
       /\ expire' = [c \in Timers |-> IF c \in CellsOf(done) THEN 0 ELSE expire[c]]
  BY DEF Tick, Delete
<1>13. next \in [Timers -> Timers \cup {Null}] /\ prev \in [Timers -> Timers \cup {Null}]
       /\ tail \in Timers \cup {Null} /\ expire \in [Timers -> 0..MaxTime]
       /\ clock \in 0..MaxTime
  BY DEF ValueInv
<1>14. KeepsFrom(q, k, next, prev, next', prev')
  <2>1. ASSUME NEW i \in k..Len(q)
        PROVE  /\ next'[q[i]] = next[q[i]]
               /\ prev'[q[i]] = IF i = k THEN Null ELSE prev[q[i]]
    <3>1. i \in 1..Len(q) /\ q[i] \in Timers /\ q[i] \notin CellsOf(done)
      <4>1. i \in 1..Len(q)  BY <1>3
      <4> QED  BY <1>3, <1>7, <4>1
    <3>2. k \in 1..Len(q) /\ r # <<>> /\ first = q[k]
      <4>1. k # Len(q) + 1  BY <1>3
      <4> QED  BY <1>9, <1>10, <1>11, <4>1 DEF First
    <3>3. prev[q[1]] = Null
      <4>1. 1 \in 1..Len(q)  BY <1>3, <3>2
      <4> QED  BY <1>1, <4>1 DEF Backward
    <3>4. q[i] = first <=> i = k  BY <1>3, <3>1, <3>2
    <3> QED  BY <1>9, <1>12, <3>1, <3>3, <3>4
  <2> QED  BY <2>1 DEF KeepsFrom
<1>15. Forward(r, next') /\ Backward(r, prev')
  <2>1. Row(q) /\ IsRest(r, q, k) /\ Forward(q, next) /\ Backward(q, prev)
    BY <1>1, <1>6
  <2> QED  BY <1>14, <2>1, RestLinked
<1>16. Sorted(r, expire')
  <2>1. Sorted(r, expire)  BY Zenon, <1>1, <1>6, SortedRest
  <2>2. \A i \in 1..Len(r) : expire'[r[i]] = expire[r[i]]
    <3>1. \A i \in 1..Len(r) : r[i] \in Timers /\ r[i] \notin CellsOf(done)
      BY <1>7, RowType
    <3> QED  BY <1>12, <3>1
  <2> QED  BY <2>1, <2>2, SortedSame
<1>17. List(r)'
  <2>1. CellsOf(r) = alive'  BY <1>7, <1>12
  <2>2. head' = First(r)  BY <1>11, <1>12
  <2>3. r # <<>> => tail' = r[Len(r)]
    <3>1. r # <<>> => q # <<>>
      <4>1. q = <<>> => Len(q) = 0  OBVIOUS
      <4> QED  BY <1>3, <1>10, <4>1
    <3> QED  BY <1>1, <1>10, <1>12, <3>1
  <2> QED  BY <1>7, <1>15, <1>16, <2>1, <2>2, <2>3 DEF List
<1>18. ValueInv'
  <2>1. next' \in [Timers -> Timers \cup {Null}] /\ prev' \in [Timers -> Timers \cup {Null}]
    BY <1>12, <1>13
  <2>2. expire' \in [Timers -> 0..MaxTime]  BY <1>12, <1>13, TimerAssumption
  <2>3. fired' \in Seq(Timers)  BY <1>4, <1>12
  <2> QED  BY <1>12, <1>13, <2>1, <2>2, <2>3 DEF ValueInv
<1>19. DeadInv'
  <2>1. ASSUME NEW c \in Timers \ alive'  PROVE next'[c] = Null /\ expire'[c] = 0
    <3>1. c \in CellsOf(done) \/ c \in Timers \ alive  BY <1>12
    <3> QED  BY <1>12, <3>1 DEF DeadInv
  <2> QED  BY <2>1 DEF DeadInv
<1> QED  BY Zenon, <1>2, <1>6, <1>7, <1>12, <1>17, <1>18, <1>19

-------------------------------------------------------------------------------
(* The theorems *)

\* The invariant holds of the empty list, and every operation keeps it.
LEMMA Inductive == Spec => []IInv
<1>1. Init => IInv
  <2> SUFFICES ASSUME Init PROVE IInv  OBVIOUS
  <2>1. ValueInv /\ DeadInv
    BY TimerAssumption DEF Init, ValueInv, DeadInv
  <2>2. List(<<>>)  BY DEF Init, List, Row, First, Forward, Backward, Sorted, CellsOf
  <2>3. <<>> \in Seq(Timers)  OBVIOUS
  <2> QED  BY Zenon, <2>1, <2>2, <2>3 DEF IInv, ListInv
<1>2. IInv /\ [Next]_vars => IInv'
  <2> SUFFICES ASSUME IInv, [Next]_vars PROVE IInv'  OBVIOUS
  <2>1. ValueInv /\ DeadInv  BY DEF IInv
  <2>2. PICK q : List(q)  BY DEF IInv, ListInv
  <2>3. ASSUME NEW r, List(r)'  PROVE ListInv'
    <3>1. r \in Seq(Timers)  BY <2>3 DEF List, Row
    <3> QED  BY <2>3, <3>1 DEF ListInv
  <2>4. ASSUME NEW t \in Timers, NEW e \in 0..MaxTime, AddTimer(t, e)  PROVE IInv'
    <3>1. /\ ValueInv' /\ DeadInv'
          /\ \E k \in 1..(Len(q) + 1) : List(InsertAt(q, k, t))'
      BY <2>1, <2>2, <2>4, AddStep
    <3>2. PICK k : List(InsertAt(q, k, t))'  BY <3>1
    <3>3. ListInv'  BY <2>3, <3>2
    <3> QED  BY <3>1, <3>3 DEF IInv
  <2>5. ASSUME NEW t \in Timers, NEW e \in 0..MaxTime, AdjustTimer(t, e)  PROVE IInv'
    <3>1. /\ ValueInv' /\ DeadInv'
          /\ \E k, m \in 1..Len(q) : List(InsertAt(RemoveAt(q, k), m, t))'
      BY <2>1, <2>2, <2>5, AdjustStep
    <3>2. PICK k, m : List(InsertAt(RemoveAt(q, k), m, t))'  BY <3>1
    <3>3. ListInv'  BY <2>3, <3>2
    <3> QED  BY <3>1, <3>3 DEF IInv
  <2>6. ASSUME NEW t \in Timers, DelTimer(t)  PROVE IInv'
    <3>1. ValueInv' /\ DeadInv' /\ \E k \in 1..Len(q) : List(RemoveAt(q, k))'
      BY <2>1, <2>2, <2>6, DelStep
    <3>2. PICK k : List(RemoveAt(q, k))'  BY <3>1
    <3>3. ListInv'  BY <2>3, <3>2
    <3> QED  BY <3>1, <3>3 DEF IInv
  <2>7. CASE Tick
    <3>1. /\ ValueInv' /\ DeadInv'
          /\ \E k \in 1..(Len(q) + 1) : List(SubSeq(q, k, Len(q)))'
      BY <2>1, <2>2, <2>7, TickStep
    <3>2. PICK k : List(SubSeq(q, k, Len(q)))'  BY <3>1
    <3>3. ListInv'  BY <2>3, <3>2
    <3> QED  BY <3>1, <3>3 DEF IInv
  <2>8. CASE TimePasses
    <3>1. List(q)'  BY <2>2, <2>8 DEF TimePasses, listVars, List
    <3>2. ValueInv'  BY <2>1, <2>8, TimerAssumption DEF TimePasses, listVars, ValueInv
    <3>3. DeadInv'  BY <2>1, <2>8 DEF TimePasses, listVars, DeadInv
    <3>4. ListInv'  BY <2>3, <3>1
    <3> QED  BY <3>2, <3>3, <3>4 DEF IInv
  <2>9. CASE TimerHandler \/ SignalHandle
    <3>1. UNCHANGED <<listVars, clock, fired>> /\ alarm' \in {"set", "crashed"}
      BY <2>9 DEF TimerHandler, SignalHandle
    <3>2. List(q)'  BY <2>2, <3>1 DEF listVars, List
    <3>3. ListInv'  BY <2>3, <3>2
    <3> QED  BY <2>1, <3>1, <3>3 DEF listVars, ValueInv, DeadInv, IInv
  <2>10. CASE UNCHANGED vars
    <3>1. List(q)'  BY <2>2, <2>10 DEF vars, listVars, List
    <3>2. ListInv'  BY <2>3, <3>1
    <3> QED  BY <2>1, <2>10, <3>2 DEF vars, listVars, ValueInv, DeadInv, IInv
  <2> QED  BY <2>4, <2>5, <2>6, <2>7, <2>8, <2>9, <2>10 DEF Next
<1> QED  BY <1>1, <1>2, PTL DEF Spec

\* Walked from its head, the list is the sequence it links.
LEMMA ListIsChain == \A q : ValueInv /\ DeadInv /\ List(q) => Chain(head) = q
<1> SUFFICES ASSUME NEW q, ValueInv, DeadInv, List(q)  PROVE Chain(head) = q  OBVIOUS
<1>1. Row(q) /\ Forward(q, next) /\ Outside(q, next) /\ head = First(q)  BY Facts
<1> QED  BY <1>1, ChainIs

\* Every variable has its type, and a cell of the list, its head and tail, points to
\* cells of the list only, never to one that del_timer or tick deleted.
THEOREM TypeCorrect == Spec => []TypeOK
<1>1. IInv => TypeOK
  <2> SUFFICES ASSUME IInv PROVE TypeOK  OBVIOUS
  <2>1. ValueInv /\ DeadInv  BY DEF IInv
  <2>2. PICK q : List(q)  BY DEF IInv, ListInv
  <2>3. /\ Row(q) /\ CellsOf(q) = alive /\ alive \subseteq Timers
        /\ Forward(q, next) /\ Backward(q, prev) /\ head = First(q)
    BY <2>1, <2>2, Facts
  <2>4. head \in alive \cup {Null}
    <3>1. q # <<>> => 1 \in 1..Len(q)  BY <2>3, RowType
    <3> QED  BY <2>3, <3>1, RowType DEF First
  <2>5. ASSUME NEW t \in alive
        PROVE  next[t] \in alive \cup {Null} /\ prev[t] \in alive \cup {Null}
    <3>1. PICK i \in 1..Len(q) : t = q[i]  BY <2>3, RowType
    <3>2. /\ next[t] = IF i = Len(q) THEN Null ELSE q[i + 1]
          /\ prev[t] = IF i = 1 THEN Null ELSE q[i - 1]
      BY <2>3, <3>1 DEF Forward, Backward
    <3>3. Len(q) \in Nat  BY <2>3, RowType
    <3>4. (i # Len(q) => i + 1 \in 1..Len(q)) /\ (i # 1 => i - 1 \in 1..Len(q))  BY <3>3
    <3>5. (i # Len(q) => q[i + 1] \in alive) /\ (i # 1 => q[i - 1] \in alive)
      BY <2>3, <3>4, RowType
    <3> QED  BY <3>2, <3>5
  <2> QED  BY <2>1, <2>3, <2>4, <2>5 DEF TypeOK, ValueInv
<1> QED  BY <1>1, Inductive, PTL

\* Walked from head, the list has every timer once, ends in tail, and prev leads back.
THEOREM LinksCorrect == Spec => []LinksAgree
<1>1. IInv => LinksAgree
  <2> SUFFICES ASSUME IInv PROVE LinksAgree  OBVIOUS
  <2>1. ValueInv /\ DeadInv  BY DEF IInv
  <2>2. PICK q : List(q)  BY DEF IInv, ListInv
  <2>3. Chain(head) = q  BY <2>1, <2>2, ListIsChain
  <2>4. /\ Row(q) /\ CellsOf(q) = alive /\ Backward(q, prev)
        /\ q # <<>> => 1 \in 1..Len(q) /\ head = q[1] /\ tail = q[Len(q)]
    BY <2>1, <2>2, Facts
  <2>5. /\ q \in Seq(Timers) /\ Len(q) \in Nat
        /\ \A i \in 1..Len(q) : q[i] \in alive
        /\ \A i, j \in 1..Len(q) : q[i] = q[j] => i = j
        /\ \A c \in alive : \E i \in 1..Len(q) : q[i] = c
    BY <2>4, RowType
  <2>6. Cardinality(alive) = Len(q)
    <3> DEFINE f == [i \in 1..Len(q) |-> q[i]]
    <3>1. /\ f \in [1..Len(q) -> alive]
          /\ \A i, j \in 1..Len(q) : f[i] = f[j] => i = j
          /\ \A c \in alive : \E i \in 1..Len(q) : f[i] = c
      BY <2>5
    <3> HIDE DEF f
    <3>2. f \in Bijection(1..Len(q), alive)  BY <3>1, Fun_IsBij
    <3>3. ExistsBijection(1..Len(q), alive)  BY <3>2 DEF ExistsBijection
    <3> QED  BY <2>5, <3>3, FS_CountingElements
  <2>7. \A i \in 2..Len(q) : prev[q[i]] = q[i - 1]
    <3>1. \A i \in 2..Len(q) : i \in 1..Len(q) /\ i # 1  BY <2>5
    <3> QED  BY <2>4, <3>1 DEF Backward
  <2>8. q # <<>> => tail = q[Len(q)] /\ prev[head] = Null  BY <2>4 DEF Backward
  <2> QED  BY <2>3, <2>4, <2>6, <2>7, <2>8 DEF LinksAgree
<1> QED  BY <1>1, Inductive, PTL

\* TimerQueue has the operators on sequences of its own.
LEMMA SameOperators ==
    /\ \A s, k, t : Queue!InsertAt(s, k, t) = InsertAt(s, k, t)
    /\ \A s, k : Queue!RemoveAt(s, k) = RemoveAt(s, k)
    /\ \A s, k, e : Queue!Parts(s, k, e) <=> Split(s, expire, k, e)
  BY DEF Queue!InsertAt, InsertAt, Queue!RemoveAt, RemoveAt, Queue!Parts, Split

\* The actions of TimerQueue, said of the sequence that waits and the next one.
LEMMA EnqueueIs ==
    ASSUME NEW s, NEW t \in Timers, NEW e \in 0..MaxTime,
           NEW k \in 1..(Len(s) + 1), Split(s, expire, k, e), Chain(head)' = InsertAt(s, k, t),
           expire' = [expire EXCEPT ![t] = e], fired' = <<>>
    PROVE  Queue!Enqueue(s, t, e)
<1>1. Queue!Parts(s, k, e) /\ Chain(head)' = Queue!InsertAt(s, k, t)  BY SameOperators
<1> QED  BY <1>1 DEF Queue!Enqueue

\* What the list keeps of the expiries is what Keep of TimerQueue does.
LEMMA KeepIs ==
    ASSUME DeadInv, expire \in [Timers -> Nat], NEW gone, NEW r,
           CellsOf(r) = alive \ gone, Chain(head)' = r,
           expire' = [c \in Timers |-> IF c \in gone THEN 0 ELSE expire[c]]
    PROVE  Queue!Keep(r)
<1>1. ASSUME NEW t \in Timers
      PROVE  (IF t \in gone THEN 0 ELSE expire[t])
                 = IF \E i \in 1..Len(r) : r[i] = t THEN expire[t] ELSE 0
  <2>1. (\E i \in 1..Len(r) : r[i] = t) <=> t \in alive \ gone  BY DEF CellsOf
  <2>2. t \notin alive => expire[t] = 0  BY DEF DeadInv
  <2> QED  BY <2>1, <2>2
<1>2. expire' = [t \in Timers |-> IF \E i \in 1..Len(r) : r[i] = t THEN expire[t] ELSE 0]
  BY <1>1
<1> QED  BY <1>2 DEF Queue!Keep

\* The sorted list with its pointers does what the queue of timers does: a timer waits
\* behind those that expire no later, wherever its time was put off to, and a tick calls
\* back and takes away exactly the expired ones, in that order.
THEOREM SortTimerListImplementsTimerQueue == Spec => ImplementsTimerQueue
<1>1. Init => Queue!QueueInit
  <2> SUFFICES ASSUME Init PROVE Queue!QueueInit  OBVIOUS
  <2>1. ValueInv /\ DeadInv /\ List(<<>>)
    BY TimerAssumption DEF Init, ValueInv, DeadInv, List, Row, First, Forward, Backward,
       Sorted, CellsOf
  <2>2. Chain(head) = <<>>  BY <2>1, ListIsChain
  <2> QED  BY <2>2 DEF Init, Queue!QueueInit
<1>2. (\A q : ValueInv /\ DeadInv /\ List(q) => Chain(head) = q)'
  BY ListIsChain, PTL
<1>3. IInv /\ IInv' /\ [Next]_vars => [Queue!QueueNext]_(Queue!queueVars)
  <2> SUFFICES ASSUME IInv, IInv', [Next]_vars
               PROVE  [Queue!QueueNext]_(Queue!queueVars)
    OBVIOUS
  <2>1. ValueInv /\ DeadInv /\ ValueInv' /\ DeadInv'  BY DEF IInv
  <2>2. PICK q : List(q)  BY DEF IInv, ListInv
  <2>3. Chain(head) = q  BY <2>1, <2>2, ListIsChain
  <2>4. ASSUME NEW r, List(r)'  PROVE Chain(head)' = r  BY <1>2, <2>1, <2>4
  <2>5. CellsOf(q) = alive /\ expire \in [Timers -> Nat] /\ Len(q) \in Nat /\ q \in Seq(Timers)
    BY <2>1, <2>2, Facts, RowType
  <2>6. Queue!Active = alive  BY <2>3, <2>5 DEF Queue!Active, CellsOf
  <2>7. ASSUME NEW t \in Timers, NEW e \in 0..MaxTime, AddTimer(t, e)  PROVE Queue!Add(t, e)
    <3>1. PICK k \in 1..(Len(q) + 1) :
             Split(q, expire, k, e) /\ List(InsertAt(q, k, t))'
      BY <2>1, <2>2, <2>7, AddStep
    <3>2. Chain(head)' = InsertAt(q, k, t)  BY <2>4, <3>1
    <3>3. /\ t \notin alive /\ expire' = [expire EXCEPT ![t] = e]
          /\ fired' = <<>> /\ clock' = clock
      BY <2>7 DEF AddTimer
    <3>4. Queue!Enqueue(q, t, e)  BY Zenon, <3>1, <3>2, <3>3, EnqueueIs
    <3> QED  BY <2>3, <2>6, <3>3, <3>4 DEF Queue!Add
  <2>8. ASSUME NEW t \in Timers, NEW e \in 0..MaxTime, AdjustTimer(t, e)
        PROVE  Queue!Postpone(t, e)
    <3>1. PICK k, m \in 1..Len(q) :
             /\ q[k] = t
             /\ Split(RemoveAt(q, k), expire, m, e)
             /\ List(InsertAt(RemoveAt(q, k), m, t))'
      BY <2>1, <2>2, <2>8, AdjustStep
    <3>2. Chain(head)' = InsertAt(RemoveAt(q, k), m, t)  BY <2>4, <3>1
    <3>3. /\ e >= expire[t] /\ expire' = [expire EXCEPT ![t] = e]
          /\ fired' = <<>> /\ clock' = clock
      BY <2>8 DEF AdjustTimer
    <3>4. m \in 1..(Len(RemoveAt(q, k)) + 1)
      <4>1. Len(RemoveAt(q, k)) = Len(q) - 1  BY <2>5, Removed DEF IsRemoval
      <4> QED  BY <2>5, <4>1
    <3>5. Queue!Enqueue(RemoveAt(q, k), t, e)  BY Zenon, <3>1, <3>2, <3>3, <3>4, EnqueueIs
    <3>6. Queue!Enqueue(Queue!RemoveAt(q, k), t, e)  BY <3>5, SameOperators
    <3> QED  BY <2>3, <3>1, <3>3, <3>6 DEF Queue!Postpone
  <2>9. ASSUME NEW t \in Timers, DelTimer(t)  PROVE Queue!Cancel(t)
    <3>1. /\ expire' = [c \in Timers |-> IF c \in {t} THEN 0 ELSE expire[c]]
          /\ \E k \in 1..Len(q) :
                /\ q[k] = t
                /\ List(RemoveAt(q, k))'
                /\ CellsOf(RemoveAt(q, k)) = alive \ {t}
      BY <2>1, <2>2, <2>9, DelStep
    <3>2. PICK k \in 1..Len(q) :
             /\ q[k] = t
             /\ List(RemoveAt(q, k))'
             /\ CellsOf(RemoveAt(q, k)) = alive \ {t}
      BY <3>1
    <3>3. Chain(head)' = RemoveAt(q, k)  BY <2>4, <3>2
    <3>4. Queue!Keep(RemoveAt(q, k))  BY Zenon, <2>1, <2>5, <3>1, <3>2, <3>3, KeepIs
    <3>5. Queue!Keep(Queue!RemoveAt(q, k))  BY <3>4, SameOperators
    <3>6. fired' = <<>> /\ clock' = clock  BY <2>9 DEF DelTimer
    <3> QED  BY <2>3, <3>2, <3>5, <3>6 DEF Queue!Cancel
  <2>10. CASE Tick
    <3>1. /\ expire' = [c \in Timers |-> IF c \in CellsOf(ExpiredPrefix) THEN 0 ELSE expire[c]]
          /\ clock' = clock
          /\ \E k \in 1..(Len(q) + 1) :
                /\ Split(q, expire, k, clock)
                /\ fired' = SubSeq(q, 1, k - 1)
                /\ List(SubSeq(q, k, Len(q)))'
                /\ CellsOf(SubSeq(q, k, Len(q))) = alive \ CellsOf(ExpiredPrefix)
      BY <2>1, <2>2, <2>10, TickStep
    <3>2. PICK k \in 1..(Len(q) + 1) :
             /\ Split(q, expire, k, clock)
             /\ fired' = SubSeq(q, 1, k - 1)
             /\ List(SubSeq(q, k, Len(q)))'
             /\ CellsOf(SubSeq(q, k, Len(q))) = alive \ CellsOf(ExpiredPrefix)
      BY <3>1
    <3>3. Chain(head)' = SubSeq(q, k, Len(q))  BY Zenon, <2>4, <3>2
    <3>4. Queue!Keep(SubSeq(q, k, Len(q)))  BY Zenon, <2>1, <2>5, <3>1, <3>2, <3>3, KeepIs
    <3>5. Queue!Parts(q, k, clock)  BY <3>2, SameOperators
    <3>6. Queue!Tick  BY <2>3, <3>1, <3>2, <3>4, <3>5 DEF Queue!Tick
    <3> QED  BY <3>6 DEF Queue!QueueNext
  \* The alarm is nothing to the queue.
  <2>11. CASE TimerHandler \/ SignalHandle
    <3>1. UNCHANGED <<listVars, clock, fired>>  BY <2>11 DEF TimerHandler, SignalHandle
    <3>2. List(q)'  BY <2>2, <3>1 DEF listVars, List
    <3>3. Chain(head)' = q  BY <2>4, <3>2
    <3> QED  BY <2>3, <3>1, <3>3 DEF listVars, Queue!queueVars
  <2>12. CASE TimePasses
    <3>1. List(q)'  BY <2>2, <2>12 DEF TimePasses, listVars, List
    <3>2. Chain(head)' = q  BY <2>4, <3>1
    <3>3. Queue!TimePasses
      BY <2>3, <2>12, <3>2 DEF TimePasses, listVars, Queue!TimePasses
    <3> QED  BY <3>3 DEF Queue!QueueNext
  <2>13. CASE UNCHANGED vars
    <3>1. List(q)'  BY <2>2, <2>13 DEF vars, listVars, List
    <3>2. Chain(head)' = q  BY <2>4, <3>1
    <3> QED  BY <2>3, <2>13, <3>2 DEF vars, listVars, Queue!queueVars
  <2>14. ASSUME NEW t \in Timers, NEW e \in 0..MaxTime, AddTimer(t, e) \/ AdjustTimer(t, e)
         PROVE  Queue!QueueNext
    BY <2>7, <2>8, <2>14 DEF Queue!QueueNext
  <2>15. ASSUME NEW t \in Timers, DelTimer(t)  PROVE Queue!QueueNext
    BY <2>9, <2>15 DEF Queue!QueueNext
  <2> QED  BY <2>10, <2>11, <2>12, <2>13, <2>14, <2>15 DEF Next
<1> QED  BY <1>1, <1>3, Inductive, PTL DEF Spec, ImplementsTimerQueue, Queue!QueueSpec
===============================================================================
