----------------------------- MODULE SocketIOProofs -----------------------------
(***************************************************************************)
(* Proofs about SocketIO for every width of an int, every limit and every  *)
(* script: framing keeps in step with the stream, and is a channel of      *)
(* messages.                                                               *)
(***************************************************************************)
EXTENDS SocketIO, RecursionLemmas

-------------------------------------------------------------------------------
(* Integers on the wire *)

LEMMA BaseType == Base \in Nat /\ Base >= 2 /\ Word \in Nat \ {0} /\ NewLine \in Bytes
  BY SocketIOAssumption DEF Bytes

LEMMA PowerDef ==
    Power = [k \in 0..Word |-> IF k = 0 THEN 1 ELSE Base * Power[k - 1]]
<1> DEFINE step == [k \in 1..Word |-> [v \in Nat |-> Base * v]]
<1>1. step \in StepFunctions(Word, Nat)  BY BaseType DEF StepFunctions
<1> HIDE DEF step
<1>2. \E f : f \in [0..Word -> Nat] /\ Recursion(f, Word, 1, step)
  BY <1>1, BaseType, RecursionUpTo
<1>3. PICK f \in [0..Word -> Nat] : Recursion(f, Word, 1, step)  BY <1>2
<1>4. ASSUME NEW k \in 0..Word  PROVE f[k] = IF k = 0 THEN 1 ELSE Base * f[k - 1]
  <2>1. CASE k = 0  BY <1>3, <2>1 DEF Recursion
  <2>2. CASE k # 0
    <3>1. k \in 1..Word /\ k - 1 \in 0..Word  BY <2>2, BaseType
    <3>2. f[k - 1] \in Nat  BY <3>1
    <3>3. f[k] = step[k][f[k - 1]]  BY <1>3, <3>1 DEF Recursion
    <3> QED  BY <2>2, <3>1, <3>2, <3>3 DEF step
  <2> QED  BY <2>1, <2>2
<1>5. f = [k \in 0..Word |-> IF k = 0 THEN 1 ELSE Base * f[k - 1]]  BY <1>4
<1>6. \E g : g = [k \in 0..Word |-> IF k = 0 THEN 1 ELSE Base * g[k - 1]]  BY <1>5
<1> QED  BY <1>6 DEF Power

LEMMA PowerFacts ==
    /\ Power[0] = 1
    /\ \A k \in 0..Word : Power[k] \in Nat \ {0}
    /\ \A k \in 0..(Word - 1) : Power[k + 1] = Base * Power[k]
<1>1. Power[0] = 1
  <2>1. 0 \in 0..Word  BY BaseType
  <2> QED  BY <2>1, PowerDef
<1>2. ASSUME NEW k \in 0..(Word - 1)  PROVE Power[k + 1] = Base * Power[k]
  <2>1. k + 1 \in 0..Word /\ k + 1 # 0 /\ (k + 1) - 1 = k  BY BaseType
  <2>2. Power[k + 1] = Base * Power[(k + 1) - 1]  BY <2>1, PowerDef
  <2> QED  BY <2>1, <2>2
<1> DEFINE T == {k \in 0..Word : Power[k] \in Nat \ {0}}
<1>3. 0 \in T  BY <1>1, BaseType
<1>4. ASSUME NEW k \in 0..(Word - 1), k \in T  PROVE k + 1 \in T
  <2>1. k + 1 \in 0..Word /\ Power[k] \in Nat \ {0}  BY <1>4, BaseType
  <2>2. Base * Power[k] \in Nat \ {0}
    <3> PICK p \in Nat \ {0} : p = Power[k]  BY <2>1
    <3> QED  BY BaseType
  <2> QED  BY <1>2, <2>1, <2>2
<1> HIDE DEF T
<1>5. 0..Word \subseteq T  BY <1>3, <1>4, BaseType, InductionUpTo
<1> QED  BY <1>1, <1>2, <1>5 DEF T

LEMMA HtonlType ==
    ASSUME NEW n \in Int
    PROVE  Htonl(n) \in Seq(Bytes) /\ Len(Htonl(n)) = Word
<1>1. ASSUME NEW i \in 1..Word  PROVE (n \div Power[Word - i]) % Base \in Bytes
  <2>1. Word - i \in 0..Word  BY BaseType
  <2>2. Power[Word - i] \in Nat \ {0}  BY <2>1, PowerFacts
  <2> PICK q \in Int : q = n \div Power[Word - i]  BY <2>2, DivisionWithRest
  <2>3. q % Base \in Bytes
    <3>1. Base \in Nat \ {0}  BY BaseType
    <3>2. q % Base \in 0..(Base - 1)  BY <3>1, DivisionWithRest
    <3> QED  BY <3>2 DEF Bytes
  <2> QED  BY <2>3
<1>2. Word \in Nat  BY BaseType
<1> QED  BY <1>1, <1>2 DEF Htonl

\* Ntohl is what any function says that takes the bytes one by one.
LEMMA NtohlIs ==
    ASSUME NEW b \in Seq(Bytes), NEW g \in [0..Len(b) -> Int],
           g[0] = 0, \A i \in 1..Len(b) : g[i] = Base * g[i - 1] + b[i]
    PROVE  Ntohl(b) = g[Len(b)]
<1> DEFINE n == Len(b)
           value[i \in 0..Len(b)] == IF i = 0 THEN 0 ELSE Base * value[i - 1] + b[i]
           T == {k \in 0..n : value[k] = g[k]}
<1>1. n \in Nat  OBVIOUS
<1>2. Ntohl(b) = value[n]  BY DEF Ntohl
<1>3. value = [i \in 0..Len(b) |-> IF i = 0 THEN 0 ELSE Base * value[i - 1] + b[i]]
  <2>1. ASSUME NEW i \in 0..Len(b)
        PROVE  g[i] = IF i = 0 THEN 0 ELSE Base * g[i - 1] + b[i]
    BY <1>1
  <2>2. g = [i \in 0..Len(b) |-> IF i = 0 THEN 0 ELSE Base * g[i - 1] + b[i]]  BY <2>1
  <2>3. \E f : f = [i \in 0..Len(b) |-> IF i = 0 THEN 0 ELSE Base * f[i - 1] + b[i]]
    BY <2>2
  <2> QED  BY <2>3
<1> HIDE DEF value
<1>4. 0 \in T
  <2>1. 0 \in 0..Len(b)  BY <1>1
  <2> QED  BY <1>3, <2>1
<1>5. ASSUME NEW k \in 0..(n - 1), k \in T  PROVE k + 1 \in T
  <2>1. k + 1 \in 1..n /\ k + 1 \in 0..n /\ (k + 1) - 1 = k  BY <1>1
  <2>2. value[k + 1] = Base * value[(k + 1) - 1] + b[k + 1]  BY <1>3, <2>1
  <2>3. g[k + 1] = Base * g[(k + 1) - 1] + b[k + 1]  BY <2>1
  <2> QED  BY <1>5, <2>1, <2>2, <2>3
<1> HIDE DEF T
<1>6. 0..n \subseteq T  BY <1>1, <1>4, <1>5, InductionUpTo
<1> QED  BY <1>1, <1>2, <1>6 DEF T

LEMMA NtohlType ==
    ASSUME NEW b \in Seq(Bytes), Len(b) = Word
    PROVE  Ntohl(b) \in 0..(Power[Word] - 1)
<1> DEFINE step == [i \in 1..Word |-> [v \in Nat |-> Base * v + b[i]]]
<1>0. /\ Word \in Nat /\ Base \in Nat
      /\ \A i \in 1..Word : b[i] \in Nat /\ b[i] <= Base - 1
  BY BaseType DEF Bytes
<1>1. step \in StepFunctions(Word, Nat)  BY <1>0 DEF StepFunctions
<1> HIDE DEF step
<1>2. \E f : f \in [0..Word -> Nat] /\ Recursion(f, Word, 0, step)
  BY <1>0, <1>1, RecursionUpTo
<1>3. PICK g \in [0..Word -> Nat] : Recursion(g, Word, 0, step)  BY <1>2
<1>4. g[0] = 0  BY <1>3 DEF Recursion
<1>5. ASSUME NEW i \in 1..Word  PROVE g[i] = Base * g[i - 1] + b[i]
  <2>1. i - 1 \in 0..Word  BY <1>0
  <2>2. g[i] = step[i][g[i - 1]]  BY <1>3 DEF Recursion
  <2> QED  BY <2>1, <2>2 DEF step
<1>6. Ntohl(b) = g[Word]
  <2>1. g \in [0..Len(b) -> Int]  OBVIOUS
  <2>2. \A i \in 1..Len(b) : g[i] = Base * g[i - 1] + b[i]  BY <1>5
  <2>3. Ntohl(b) = g[Len(b)]  BY <1>4, <2>1, <2>2, NtohlIs
  <2> QED  BY <2>3
<1> DEFINE T == {k \in 0..Word : g[k] < Power[k]}
<1>7. 0 \in T  BY <1>0, <1>4, PowerFacts
<1>8. ASSUME NEW k \in 0..(Word - 1), k \in T  PROVE k + 1 \in T
  <2>1. k + 1 \in 1..Word /\ k + 1 \in 0..Word /\ (k + 1) - 1 = k /\ k \in 0..Word  BY <1>0
  <2>2. g[k + 1] = Base * g[(k + 1) - 1] + b[k + 1]  BY <1>5, <2>1
  <2>3. Power[k + 1] = Base * Power[k]  BY PowerFacts
  <2>4. b[k + 1] \in Nat /\ b[k + 1] <= Base - 1  BY <1>0, <2>1
  <2>5. g[k] \in Nat /\ Power[k] \in Nat /\ g[k] < Power[k]  BY <1>8, <2>1, PowerFacts
  <2>6. Base * g[k] + Base <= Base * Power[k]  BY <1>0, <2>5, ProductGrows
  <2>7. Base * g[k] \in Nat /\ Base * Power[k] \in Nat  BY <1>0, <2>5
  <2>8. g[k + 1] < Power[k + 1]  BY <1>0, <2>1, <2>2, <2>3, <2>4, <2>6, <2>7, SMTT(30)
  <2> QED  BY <2>1, <2>8
<1> HIDE DEF T
<1>9. 0..Word \subseteq T  BY <1>0, <1>7, <1>8, InductionUpTo
<1>10. g[Word] < Power[Word] /\ Word \in 0..Word  BY <1>0, <1>9 DEF T
<1>11. g[Word] \in Nat /\ Power[Word] \in Nat  BY <1>10, PowerFacts
<1> QED  BY <1>6, <1>10, <1>11

\* What was written is read back, as an unsigned number.
LEMMA NtohlOfHtonl ==
    ASSUME NEW n \in Int
    PROVE  Ntohl(Htonl(n)) = n % Power[Word]
<1> DEFINE b == Htonl(n)
           q == [i \in 0..Word |-> n \div Power[Word - i]]
           g == [i \in 0..Word |-> q[i] - q[0] * Power[i]]
<1>0. Word \in Nat /\ Word >= 1 /\ Base \in Nat \ {0}  BY BaseType
<1>1. b \in Seq(Bytes) /\ Len(b) = Word  BY HtonlType
<1>2. ASSUME NEW i \in 0..Word  PROVE q[i] \in Int /\ Power[i] \in Nat /\ Power[i] \in Int
  <2>1. Word - i \in 0..Word  BY <1>0
  <2>2. Power[Word - i] \in Nat \ {0}  BY <2>1, PowerFacts
  <2>3. n \div Power[Word - i] \in Int  BY <2>2, DivisionWithRest
  <2> QED  BY <2>3, PowerFacts
<1>3. ASSUME NEW i \in 1..Word
      PROVE  b[i] = q[i] % Base /\ q[i] = Base * q[i - 1] + b[i]
  <2>1. i \in 0..Word /\ i - 1 \in 0..Word /\ Word - i \in 0..(Word - 1)
        /\ Word - (i - 1) = (Word - i) + 1
    BY <1>0
  <2>2. b[i] = q[i] % Base  BY <2>1 DEF Htonl
  <2>3. Power[Word - (i - 1)] = Base * Power[Word - i]  BY <2>1, PowerFacts
  <2>4. Power[Word - i] \in Nat \ {0}
    <3>1. Word - i \in 0..Word  BY <2>1, <1>0
    <3> QED  BY <3>1, PowerFacts
  <2>5. Base * Power[Word - i] = Power[Word - i] * Base  BY <1>0, <2>4
  <2>6. n \div (Power[Word - i] * Base) = (n \div Power[Word - i]) \div Base
    BY <1>0, <2>4, NestedQuotient
  <2>7. q[i - 1] = q[i] \div Base  BY <2>1, <2>3, <2>5, <2>6
  <2>8. q[i] \in Int  BY <1>2, <2>1
  <2> HIDE DEF q
  <2>9. q[i] = Base * (q[i] \div Base) + (q[i] % Base)  BY <1>0, <2>8, DivisionWithRest
  <2> QED  BY <2>2, <2>7, <2>9
<1>4. q[Word] = n /\ q[0] = n \div Power[Word]
  <2>1. Word \in 0..Word /\ 0 \in 0..Word /\ Word - Word = 0 /\ Word - 0 = Word  BY <1>0
  <2>2. q[Word] = n \div Power[0]  BY <2>1
  <2> QED  BY <2>1, <2>2, PowerFacts
<1> HIDE DEF q, b
<1>5. ASSUME NEW i \in 0..Word  PROVE g[i] \in Int
  BY <1>2, <1>5, <1>0
<1>6. g \in [0..Word -> Int]  BY <1>5
<1>7. g[0] = 0
  <2>1. q[0] \in Int /\ 0 \in 0..Word  BY <1>0, <1>2
  <2> QED  BY <2>1, PowerFacts
<1>8. ASSUME NEW i \in 1..Word  PROVE g[i] = Base * g[i - 1] + b[i]
  <2>1. i \in 0..Word /\ i - 1 \in 0..(Word - 1) /\ i - 1 \in 0..Word /\ (i - 1) + 1 = i
    BY <1>0
  <2>2. g[i] = q[i] - q[0] * Power[i] /\ g[i - 1] = q[i - 1] - q[0] * Power[i - 1]
    BY <2>1
  <2>3. Power[i] = Base * Power[i - 1]
    <3>1. Power[(i - 1) + 1] = Base * Power[i - 1]  BY <2>1, PowerFacts
    <3> QED  BY <2>1, <3>1
  <2>4. q[i] = Base * q[i - 1] + b[i] /\ b[i] \in Int
    <3>1. b[i] \in Bytes  BY <1>1
    <3> QED  BY <1>3, <3>1, BaseType DEF Bytes
  <2>5. PICK x \in Int, y \in Int, p \in Int :
           x = q[i - 1] /\ y = q[0] /\ p = Power[i - 1]
    <3>1. q[i - 1] \in Int /\ q[0] \in Int /\ Power[i - 1] \in Int
      BY <1>0, <1>2, <2>1
    <3> QED  BY <3>1
  <2> HIDE DEF g
  <2>6. Base * (x - y * p) = Base * x - y * (Base * p)  BY <1>0
  <2>7. g[i] = (Base * x + b[i]) - y * (Base * p) /\ g[i - 1] = x - y * p
    BY <2>2, <2>3, <2>4, <2>5
  <2>8. Base * x \in Int /\ y * (Base * p) \in Int  BY <1>0, <2>5
  <2> QED  BY <2>4, <2>6, <2>7, <2>8
<1>9. Ntohl(b) = g[Word]
  <2> HIDE DEF g
  <2>1. g \in [0..Len(b) -> Int]  BY <1>1, <1>6
  <2>2. \A i \in 1..Len(b) : g[i] = Base * g[i - 1] + b[i]  BY <1>1, <1>8
  <2>3. Ntohl(b) = g[Len(b)]  BY <1>1, <1>7, <2>1, <2>2, NtohlIs
  <2> QED  BY <1>1, <2>3
<1>10. g[Word] = n - (n \div Power[Word]) * Power[Word]
  <2>1. Word \in 0..Word  BY <1>0
  <2> QED  BY <1>4, <2>1
<1>11. n = Power[Word] * (n \div Power[Word]) + (n % Power[Word])
       /\ n \div Power[Word] \in Int /\ n % Power[Word] \in Int /\ Power[Word] \in Int
  <2>1. Word \in 0..Word  BY <1>0
  <2>2. Power[Word] \in Nat \ {0}  BY <2>1, PowerFacts
  <2>3. n % Power[Word] \in 0..(Power[Word] - 1)  BY <2>2, DivisionWithRest
  <2>4. n % Power[Word] \in Int /\ Power[Word] \in Int  BY <2>2, <2>3
  <2> QED  BY <2>2, <2>4, DivisionWithRest
<1> HIDE DEF g
<1>12. g[Word] = n % Power[Word]
  <2> PICK k \in Int, m \in Int, z \in Int :
         k = n \div Power[Word] /\ m = n % Power[Word] /\ z = Power[Word]
    BY <1>11
  <2>1. g[Word] = n - k * z /\ n = z * k + m  BY <1>10, <1>11
  <2>2. g[Word] = m  BY <2>1
  <2> QED  BY <2>2
<1> QED  BY <1>9, <1>12 DEF b

\* The remainder is the only number of its range that differs by a multiple.
LEMMA RemainderIs ==
    ASSUME NEW d \in Nat \ {0}, NEW n \in Int, NEW q \in Int, NEW r \in 0..(d - 1),
           n = d * q + r
    PROVE  n % d = r
<1> PICK k \in Int, m \in 0..(d - 1) : k = n \div d /\ m = n % d
  BY DivisionWithRest
<1>1. d * k + m = n  BY DivisionWithRest
<1>2. d * k + m = d * q + r  BY <1>1
<1>3. k = q  BY <1>2, QuotientIsUnique
<1>4. d * k \in Int  OBVIOUS
<1>5. m = r  BY <1>2, <1>3, <1>4
<1> QED  BY <1>5

LEMMA SignedType ==
    ASSUME NEW n \in 0..(Power[Word] - 1)
    PROVE  Signed(n) \in Ints
<1>1. Power[Word] \in Nat \ {0}
  <2>1. Word \in 0..Word  BY BaseType
  <2> QED  BY <2>1, PowerFacts
<1> PICK p \in Nat \ {0} : p = Power[Word]  BY <1>1
<1>2. p \div 2 \in Nat /\ 2 * (p \div 2) <= p  OBVIOUS
<1> QED  BY <1>2 DEF Signed, Ints

\* An int is read back as it was written.
LEMMA IntIsKept ==
    ASSUME NEW n \in Ints
    PROVE  Signed(Ntohl(Htonl(n))) = n
<1>1. Power[Word] \in Nat \ {0}
  <2>1. Word \in 0..Word  BY BaseType
  <2> QED  BY <2>1, PowerFacts
<1> PICK p \in Nat \ {0} : p = Power[Word]  BY <1>1
<1>2. p \div 2 \in Nat /\ 2 * (p \div 2) <= p  OBVIOUS
<1>3. n \in Int /\ n >= p \div 2 - p /\ n < p \div 2  BY <1>2 DEF Ints
<1>4. Ntohl(Htonl(n)) = n % p  BY <1>3, NtohlOfHtonl
<1>6. CASE n >= 0
  <2>1. n = p * 0 + n /\ n \in 0..(p - 1)  BY <1>2, <1>3, <1>6
  <2>2. n % p = n  BY <1>3, <2>1, RemainderIs, SMTT(30)
  <2> QED  BY <1>3, <1>4, <2>2 DEF Signed
<1>7. CASE n < 0
  <2>1. n = p * (-1) + (n + p) /\ n + p \in 0..(p - 1)  BY <1>2, <1>3, <1>7
  <2>2. n % p = n + p
    <3> PICK h \in 0..(p - 1) : h = n + p  BY <2>1
    <3>1. n = p * (-1) + h  BY <2>1
    <3>2. n % p = h  BY <1>3, <3>1, RemainderIs
    <3> QED  BY <3>2
  <2>3. ~(n + p < p \div 2)  BY <1>2, <1>3
  <2> QED  BY <1>3, <1>4, <2>2, <2>3 DEF Signed
<1> QED  BY <1>3, <1>6, <1>7

\* A size is read back as it was written, unless it looks negative.
LEMMA SizeIsKept ==
    ASSUME NEW n \in Nat, n < Power[Word], Signed(Ntohl(Htonl(n))) >= 0
    PROVE  Signed(Ntohl(Htonl(n))) = n
<1>1. Power[Word] \in Nat \ {0}
  <2>1. Word \in 0..Word  BY BaseType
  <2> QED  BY <2>1, PowerFacts
<1> PICK p \in Nat \ {0} : p = Power[Word]  BY <1>1
<1>4. Ntohl(Htonl(n)) = n % p  BY NtohlOfHtonl
<1>5. n % p = n
  <2>1. n = p * 0 + n /\ n \in 0..(p - 1)  OBVIOUS
  <2> QED  BY <2>1, RemainderIs
<1> QED  BY <1>4, <1>5 DEF Signed

-------------------------------------------------------------------------------
(* Streams *)

LEMMA CutConcat ==
    ASSUME NEW S, NEW a \in Seq(S), NEW b \in Seq(S), NEW c \in Seq(S), NEW d \in Seq(S),
           a \o b = c \o d, Len(a) = Len(c)
    PROVE  a = c /\ b = d
<1>1. ASSUME NEW i \in 1..Len(a)  PROVE a[i] = c[i]
  <2>1. (a \o b)[i] = a[i] /\ (c \o d)[i] = c[i]  OBVIOUS
  <2> QED  BY <2>1
<1>2. Len(b) = Len(d)
  <2>1. Len(a \o b) = Len(a) + Len(b) /\ Len(c \o d) = Len(c) + Len(d)  BY SMTT(30)
  <2> QED  BY <2>1
<1>3. ASSUME NEW i \in 1..Len(b)  PROVE b[i] = d[i]
  <2>1. (a \o b)[Len(a) + i] = b[i]  OBVIOUS
  <2>2. (c \o d)[Len(c) + i] = d[i]  BY <1>2
  <2> QED  BY <2>1, <2>2
<1>4. a = c  BY <1>1, SeqEqual
<1>5. b = d  BY <1>2, <1>3, SeqEqual
<1> QED  BY <1>4, <1>5

Starts(a, b) == \A i \in 1..Len(a) : b[i] = a[i]

LEMMA FrontOfConcat ==
    ASSUME NEW a \in Seq(Bytes), NEW b \in Seq(Bytes)
    PROVE  Starts(a, a \o b)
  BY DEF Starts

LEMMA CutAt ==
    ASSUME NEW S, NEW s \in Seq(S), NEW k \in 0..Len(s)
    PROVE  /\ SubSeq(s, 1, k) \in Seq(S) /\ Len(SubSeq(s, 1, k)) = k
           /\ SubSeq(s, k + 1, Len(s)) \in Seq(S)
           /\ Len(SubSeq(s, k + 1, Len(s))) = Len(s) - k
           /\ SubSeq(s, 1, k) \o SubSeq(s, k + 1, Len(s)) = s
<1>1. SubSeq(s, 1, k) \in Seq(S) /\ Len(SubSeq(s, 1, k)) = k  OBVIOUS
<1>2. /\ SubSeq(s, k + 1, Len(s)) \in Seq(S)
      /\ Len(SubSeq(s, k + 1, Len(s))) = Len(s) - k
  OBVIOUS
<1>3. SubSeq(s, 1, k) \o SubSeq(s, k + 1, Len(s)) = s
  <2>1. 1 \in 1..Len(s) + 1 /\ k \in (1 - 1)..Len(s) /\ Len(s) \in k..Len(s)  OBVIOUS
  <2>2. SubSeq(s, 1, k) \o SubSeq(s, k + 1, Len(s)) = SubSeq(s, 1, Len(s))
    BY <2>1, ConcatAdjacentSubSeq
  <2> QED  BY <2>2, SubSeqFull
<1> QED  BY <1>1, <1>2, <1>3

LEMMA MessageFacts ==
    ASSUME NEW m \in MessageType
    PROVE  /\ m = [format |-> m.format, type |-> m.type, body |-> m.body]
           /\ m.format \in {"request", "reply", "prefix", "line"}
           /\ m.type \in Ints /\ m.type \in Int
           /\ m.body \in Seq(Bytes) /\ Len(m.body) \in Nat
           /\ m.format = "request" => Len(m.body) < Power[Word]
           /\ m.format \in {"reply", "prefix"} => Len(m.body) \in Ints
           /\ m.format \in {"prefix", "line"} => m.type = 0
           /\ m.format = "line" => \A i \in 1..Len(m.body) : m.body[i] # NewLine
<1>1. /\ m \in [format : {"request", "reply", "prefix", "line"}, type : Ints, body : Seq(Bytes)]
      /\ m.format = "request" => Len(m.body) < Power[Word]
      /\ m.format \in {"reply", "prefix"} => Len(m.body) \in Ints
      /\ m.format \in {"prefix", "line"} => m.type = 0
      /\ m.format = "line" => \A i \in 1..Len(m.body) : m.body[i] # NewLine
  BY DEF MessageType
<1>2. m.type \in Int
  <2>1. Word \in 0..Word  BY BaseType
  <2>2. Power[Word] \in Nat  BY <2>1, PowerFacts
  <2>3. m.type \in Ints  BY <1>1
  <2> QED  BY <2>2, <2>3 DEF Ints
<1>3. m.body \in Seq(Bytes) /\ Len(m.body) \in Nat
  <2>1. m.body \in Seq(Bytes)  BY <1>1
  <2> QED  BY <2>1
<1> QED  BY <1>1, <1>2, <1>3

LEMMA Parts ==
    ASSUME NEW t \in Seq(Bytes), NEW l \in Seq(Bytes), NEW b \in Seq(Bytes),
           Len(t) = Word, Len(l) = Word
    PROVE  /\ (t \o l) \o b = t \o (l \o b)
           /\ t \o (l \o b) \in Seq(Bytes) /\ t \o (l \o b) # <<>>
           /\ l \o b \in Seq(Bytes) /\ l \o b # <<>>
           /\ Append(b, NewLine) \in Seq(Bytes) /\ Append(b, NewLine) # <<>>
<1>1. (t \o l) \o b = t \o (l \o b)  BY ConcatAssociative
<1>2. Len(b) \in Nat /\ Word \in Nat /\ Word > 0  BY BaseType
<1>3. l \o b \in Seq(Bytes) /\ Len(l \o b) = Word + Len(b)
  <2>1. l \o b \in Seq(Bytes) /\ Len(l \o b) = Len(l) + Len(b)  BY ConcatProperties
  <2> QED  BY <2>1
<1>4. l \o b # <<>>  BY <1>2, <1>3
<1>5. t \o (l \o b) \in Seq(Bytes) /\ Len(t \o (l \o b)) = Word + Len(l \o b)
  BY <1>3, ConcatProperties
<1>6. t \o (l \o b) # <<>>  BY <1>2, <1>3, <1>5
<1>7. NewLine \in Bytes  BY BaseType
<1>8. Append(b, NewLine) \in Seq(Bytes) /\ Append(b, NewLine) # <<>>
  BY <1>7, AppendProperties
<1> QED  BY <1>1, <1>3, <1>4, <1>5, <1>6, <1>8

\* What is left of a message when the reader waits for a field of it.
Field(m, field) ==
    CASE field = "type" -> Htonl(m.type) \o (Htonl(Len(m.body)) \o m.body)
      [] field = "length" -> Htonl(Len(m.body)) \o m.body
      [] field = "value" -> m.body

LEMMA EncodeIs ==
    ASSUME NEW m \in MessageType
    PROVE  /\ m.format \in {"request", "reply"} => Encode(m) = Field(m, "type")
           /\ m.format = "prefix" => Encode(m) = Field(m, "length")
           /\ m.format = "line" => Encode(m) = Append(m.body, NewLine)
           /\ Encode(m) \in Seq(Bytes) /\ Encode(m) # <<>>
           /\ \A f \in {"type", "length", "value"} : Field(m, f) \in Seq(Bytes)
<1> PICK t, l, b : t = Htonl(m.type) /\ l = Htonl(Len(m.body)) /\ b = m.body
  OBVIOUS
<1>1. /\ t \in Seq(Bytes) /\ l \in Seq(Bytes) /\ b \in Seq(Bytes)
      /\ Len(t) = Word /\ Len(l) = Word
  <2>1. m.type \in Int /\ Len(m.body) \in Int /\ b \in Seq(Bytes)  BY MessageFacts
  <2> QED  BY <2>1, HtonlType
<1>2. /\ (t \o l) \o b = t \o (l \o b)
      /\ t \o (l \o b) \in Seq(Bytes) /\ t \o (l \o b) # <<>>
      /\ l \o b \in Seq(Bytes) /\ l \o b # <<>>
      /\ Append(b, NewLine) \in Seq(Bytes) /\ Append(b, NewLine) # <<>>
  <2> DEFINE Whole(u, v, w) ==
          /\ (u \o v) \o w = u \o (v \o w)
          /\ u \o (v \o w) \in Seq(Bytes) /\ u \o (v \o w) # <<>>
          /\ v \o w \in Seq(Bytes) /\ v \o w # <<>>
          /\ Append(w, NewLine) \in Seq(Bytes) /\ Append(w, NewLine) # <<>>
  <2>1. \A u, v, w \in Seq(Bytes) : Len(u) = Word /\ Len(v) = Word => Whole(u, v, w)
    BY Parts
  <2> HIDE DEF Whole
  <2>2. Whole(t, l, b)  BY <1>1, <2>1
  <2> QED  BY <2>2 DEF Whole
<1>3. Append(b, NewLine) \in Seq(Bytes) /\ Append(b, NewLine) # <<>>  BY <1>2
<1>4. \A f \in {"type", "length", "value"} : Field(m, f) \in Seq(Bytes)
  BY <1>1, <1>2 DEF Field
<1>5. m.format \in {"request", "reply"} => Encode(m) = t \o (l \o b)
  BY <1>2 DEF Encode
<1>6. m.format = "prefix" => Encode(m) = l \o b
  BY DEF Encode
<1>7. m.format = "line" => Encode(m) = Append(b, NewLine)
  BY DEF Encode
<1>8. m.format \in {"request", "reply", "prefix", "line"}  BY MessageFacts
<1>9. Encode(m) \in Seq(Bytes) /\ Encode(m) # <<>>
  BY <1>2, <1>3, <1>5, <1>6, <1>7, <1>8
<1>10. Field(m, "type") = t \o (l \o b) /\ Field(m, "length") = l \o b
  BY DEF Field
<1> QED  BY <1>4, <1>5, <1>6, <1>7, <1>9, <1>10

Encoded(s, k) == [i \in 1..(Len(s) - k) |-> Encode(s[k + i])]

LEMMA EncodedType ==
    ASSUME NEW s \in Seq(MessageType), NEW k \in 0..Len(s)
    PROVE  Encoded(s, k) \in Seq(Seq(Bytes)) /\ Len(Encoded(s, k)) = Len(s) - k
<1>1. Len(s) - k \in Nat  OBVIOUS
<1>2. ASSUME NEW i \in 1..(Len(s) - k)  PROVE Encode(s[k + i]) \in Seq(Bytes)
  <2>1. k + i \in 1..Len(s)  BY <1>1
  <2>2. s[k + i] \in MessageType  BY <2>1
  <2> QED  BY <2>2, EncodeIs
<1> QED  BY <1>1, <1>2 DEF Encoded

LEMMA StreamType ==
    ASSUME NEW s \in Seq(MessageType), NEW k \in 0..Len(s)
    PROVE  StreamOf(s, k) \in Seq(Bytes)
<1>1. StreamOf(s, k) = FlattenSeq(Encoded(s, k))  BY DEF StreamOf, Encoded
<1> QED  BY <1>1, EncodedType, FlattenType

LEMMA StreamEnd ==
    ASSUME NEW s \in Seq(MessageType)
    PROVE  StreamOf(s, Len(s)) = <<>>
<1>1. StreamOf(s, Len(s)) = FlattenSeq(Encoded(s, Len(s)))  BY DEF StreamOf, Encoded
<1>2. Len(s) \in 0..Len(s) /\ Len(s) - Len(s) = 0  OBVIOUS
<1>3. Encoded(s, Len(s)) \in Seq(Seq(Bytes)) /\ Len(Encoded(s, Len(s))) = 0
  BY <1>2, EncodedType
<1>4. Encoded(s, Len(s)) = <<>>  BY <1>3
<1> QED  BY <1>1, <1>4, FlattenEmpty

LEMMA StreamFirst ==
    ASSUME NEW s \in Seq(MessageType), NEW k \in 0..(Len(s) - 1)
    PROVE  StreamOf(s, k) = Encode(s[k + 1]) \o StreamOf(s, k + 1)
<1>0. Len(s) \in Nat /\ k \in 0..Len(s) /\ k + 1 \in 0..Len(s) /\ k + 1 \in 1..Len(s)
  OBVIOUS
<1>1. /\ StreamOf(s, k) = FlattenSeq(Encoded(s, k))
      /\ StreamOf(s, k + 1) = FlattenSeq(Encoded(s, k + 1))
  BY DEF StreamOf, Encoded
<1>2. /\ Encoded(s, k) \in Seq(Seq(Bytes)) /\ Len(Encoded(s, k)) = Len(s) - k
      /\ Encoded(s, k + 1) \in Seq(Seq(Bytes)) /\ Len(Encoded(s, k + 1)) = Len(s) - (k + 1)
  BY <1>0, EncodedType
<1>3. Encoded(s, k) # <<>> /\ Head(Encoded(s, k)) = Encode(s[k + 1])
  <2>1. 1 \in 1..(Len(s) - k)  BY <1>0
  <2>2. Encoded(s, k)[1] = Encode(s[k + 1])  BY <2>1 DEF Encoded
  <2>3. Encoded(s, k) # <<>>  BY <1>0, <1>2
  <2> QED  BY <1>2, <2>2, <2>3
<1>4. Tail(Encoded(s, k)) = Encoded(s, k + 1)
  <2> PICK long, short : long = Encoded(s, k) /\ short = Encoded(s, k + 1)  OBVIOUS
  <2>1. ASSUME NEW i \in 1..(Len(s) - (k + 1))  PROVE long[i + 1] = short[i]
    <3>1. i + 1 \in 1..(Len(s) - k) /\ k + (i + 1) = (k + 1) + i  BY <1>0
    <3> QED  BY <3>1 DEF Encoded
  <2>2. /\ long \in Seq(Seq(Bytes)) /\ short \in Seq(Seq(Bytes)) /\ long # <<>>
        /\ Len(long) = Len(s) - k /\ Len(short) = Len(s) - (k + 1)
    BY <1>2, <1>3
  <2>3. Tail(long) \in Seq(Seq(Bytes)) /\ Len(Tail(long)) = Len(s) - (k + 1)
        /\ \A i \in 1..(Len(s) - (k + 1)) : Tail(long)[i] = long[i + 1]
    BY <1>0, <2>2
  <2> PICK tail : tail = Tail(long)  OBVIOUS
  <2>5. /\ tail \in Seq(Seq(Bytes)) /\ short \in Seq(Seq(Bytes)) /\ Len(tail) = Len(short)
        /\ \A i \in 1..Len(tail) : tail[i] = short[i]
    BY <2>1, <2>2, <2>3
  <2>4. tail = short  BY <2>5, SeqEqual
  <2> QED  BY <2>4
<1> QED  BY <1>1, <1>2, <1>3, <1>4, FlattenCons

LEMMA StreamAppend ==
    ASSUME NEW s \in Seq(MessageType), NEW k \in 0..Len(s), NEW m \in MessageType
    PROVE  StreamOf(Append(s, m), k) = StreamOf(s, k) \o Encode(m)
<1>0. /\ Append(s, m) \in Seq(MessageType) /\ Len(Append(s, m)) = Len(s) + 1
      /\ Len(s) \in Nat /\ k \in 0..Len(Append(s, m))
      /\ Append(s, m)[Len(s) + 1] = m
      /\ \A i \in 1..Len(s) : Append(s, m)[i] = s[i]
  OBVIOUS
<1>1. /\ StreamOf(s, k) = FlattenSeq(Encoded(s, k))
      /\ StreamOf(Append(s, m), k) = FlattenSeq(Encoded(Append(s, m), k))
  BY DEF StreamOf, Encoded
<1> PICK short, long : short = Encoded(s, k) /\ long = Encoded(Append(s, m), k)  OBVIOUS
<1>2. /\ short \in Seq(Seq(Bytes)) /\ Len(short) = Len(s) - k
      /\ long \in Seq(Seq(Bytes)) /\ Len(long) = (Len(s) + 1) - k
  BY <1>0, EncodedType
<1>3. ASSUME NEW i \in 1..(Len(s) - k)  PROVE long[i] = short[i]
  <2>1. i \in 1..(Len(Append(s, m)) - k) /\ k + i \in 1..Len(s)  BY <1>0
  <2>2. Append(s, m)[k + i] = s[k + i]  BY <1>0, <2>1
  <2> QED  BY <2>1, <2>2 DEF Encoded
<1>4. long[(Len(s) + 1) - k] = Encode(m)
  <2> PICK j : j = (Len(s) + 1) - k  OBVIOUS
  <2>1. j \in 1..(Len(Append(s, m)) - k) /\ k + j = Len(s) + 1  BY <1>0
  <2>2. long[j] = Encode(Append(s, m)[k + j])  BY <2>1 DEF Encoded
  <2> QED  BY <1>0, <2>1, <2>2
<1>5. Encode(m) \in Seq(Bytes)  BY EncodeIs
<1>6. long = Append(short, Encode(m))
  <2> PICK e : e = Encode(m)  OBVIOUS
  <2>1. /\ Append(short, e) \in Seq(Seq(Bytes)) /\ Len(Append(short, e)) = (Len(s) + 1) - k
        /\ Append(short, e)[(Len(s) + 1) - k] = e
        /\ \A i \in 1..(Len(s) - k) : Append(short, e)[i] = short[i]
    BY <1>0, <1>2, <1>5
  <2> PICK app : app = Append(short, e)  OBVIOUS
  <2>2. ASSUME NEW i \in 1..((Len(s) + 1) - k)  PROVE long[i] = app[i]
    <3>1. CASE i = (Len(s) + 1) - k  BY <1>4, <2>1, <3>1
    <3>2. CASE i # (Len(s) + 1) - k
      <4>1. i \in 1..(Len(s) - k)  BY <1>0, <3>2
      <4> QED  BY <1>3, <2>1, <4>1
    <3> QED  BY <3>1, <3>2
  <2>3. app \in Seq(Seq(Bytes)) /\ Len(app) = (Len(s) + 1) - k  BY <2>1
  <2>5. Len(long) = Len(app) /\ \A i \in 1..Len(long) : long[i] = app[i]
    BY <1>2, <2>2, <2>3
  <2>4. long = app  BY <1>2, <2>3, <2>5, SeqEqual
  <2> QED  BY <2>4
<1> QED  BY <1>1, <1>2, <1>5, <1>6, FlattenAppend

-------------------------------------------------------------------------------
(* The inductive invariant *)

\* The values of every variable.
TypeInv ==
    /\ TypeOK
    /\ todo \in Seq(MessageType) /\ sent \in Seq(MessageType)
    /\ read \in Seq(MessageType) /\ buf \in Seq(Bytes)
    /\ whole \in Nat

\* What was sent and what is left to send are a part of the script.
ScriptInv ==
    \E s \in Scripts :
        /\ Len(sent) + Len(todo) <= Len(s)
        /\ \A i \in 1..Len(sent) : sent[i] = s[i]
        /\ \A i \in 1..Len(todo) : todo[i] = s[Len(sent) + i]

\* The bytes of the last message the kernel did not get: those the writer still has,
\* until it leaves.
WriterInv(lost) ==
    /\ IF ended THEN out = <<>> ELSE lost = out
    /\ lost = <<>> => whole = Len(sent)
    /\ lost # <<>> => whole + 1 = Len(sent)

\* The reader stands at message r + 1 of s.  What is to come, had the writer stayed,
\* are the messages not yet read: all of them between two calls; with what the buffer
\* holds, what is left of the current one and those behind it within a call.
Fields == {"type", "length", "value"}

At(m, field, b, rest, S) == b \o rest = Field(m, field) \o S

Framed(rest, field, b, t, len, r, s) ==
    /\ r \in 0..Len(s)
    /\ s = <<>> \/ s[1].format = "prefix" => t = 0
    /\ field = "idle" => rest = StreamOf(s, r)
    /\ field \in Fields =>
          /\ r < Len(s)
          /\ s[1].format # "line"
          /\ At(s[r + 1], field, b, rest, StreamOf(s, r + 1))
          /\ field = "type" => s[1].format # "prefix"
          /\ field # "type" => t = s[r + 1].type
          /\ field = "value" => len = Len(s[r + 1].body)

InStep(rest) ==
    ~gaveUp /\ stage # "torn" => Framed(rest, stage, buf, type, length, Len(read), sent)

StreamInv == \E lost \in Seq(Bytes) : WriterInv(lost) /\ InStep(wire \o lost)

IInv == TypeInv /\ ScriptInv /\ StreamInv

-------------------------------------------------------------------------------
(* How the reader moves along the stream *)

OneFormat(s) == \A i \in 1..Len(s) : s[i].format = s[1].format

LEMMA MessageAt ==
    ASSUME NEW s \in Seq(MessageType), OneFormat(s), NEW r \in 0..(Len(s) - 1)
    PROVE  /\ s[r + 1] \in MessageType
           /\ s[r + 1].format = s[1].format
           /\ StreamOf(s, r) = Encode(s[r + 1]) \o StreamOf(s, r + 1)
           /\ StreamOf(s, r + 1) \in Seq(Bytes)
           /\ Encode(s[r + 1]) \in Seq(Bytes)
           /\ \A f \in Fields : Field(s[r + 1], f) \in Seq(Bytes)
<1>1. r + 1 \in 1..Len(s) /\ r + 1 \in 0..Len(s)  OBVIOUS
<1>2. s[r + 1] \in MessageType  BY <1>1
<1>3. s[r + 1].format = s[1].format  BY <1>1 DEF OneFormat
<1>4. StreamOf(s, r + 1) \in Seq(Bytes)  BY <1>1, StreamType
<1>5. StreamOf(s, r) = Encode(s[r + 1]) \o StreamOf(s, r + 1)  BY StreamFirst
<1>6. /\ Encode(s[r + 1]) \in Seq(Bytes)
      /\ \A f \in Fields : Field(s[r + 1], f) \in Seq(Bytes)
  BY <1>2, EncodeIs DEF Fields
<1> QED  BY <1>2, <1>3, <1>4, <1>5, <1>6

\* Something came: a message is not yet read.
LEMMA SomethingCame ==
    ASSUME NEW s \in Seq(MessageType), NEW r \in 0..Len(s),
           NEW w \in Seq(Bytes), NEW lost \in Seq(Bytes), w # <<>>,
           w \o lost = StreamOf(s, r)
    PROVE  r \in 0..(Len(s) - 1)
<1>1. w \o lost # <<>>  BY ConcatEqualIffEmpty
<1>2. r # Len(s)  BY <1>1, StreamEnd
<1> QED  BY <1>2

LEMMA FramedCall ==
    ASSUME NEW s \in Seq(MessageType), OneFormat(s), s[1].format # "line",
           NEW w \in Seq(Bytes), NEW lost \in Seq(Bytes), w # <<>>,
           NEW b, NEW t, NEW len, NEW r, Framed(w \o lost, "idle", b, t, len, r, s)
    PROVE  Framed(w \o lost, IF s[1].format = "prefix" THEN "length" ELSE "type",
                  <<>>, t, len, r, s)
<1>1. r \in 0..Len(s) /\ w \o lost = StreamOf(s, r)  BY DEF Framed
<1>2. r \in 0..(Len(s) - 1)  BY <1>1, SomethingCame
<1>3. /\ s[r + 1] \in MessageType /\ s[r + 1].format = s[1].format
      /\ w \o lost = Encode(s[r + 1]) \o StreamOf(s, r + 1)
  BY <1>1, <1>2, MessageAt
<1>4. <<>> \o (w \o lost) = w \o lost  BY ConcatProperties, ConcatEmptySeq
<1>5. CASE s[1].format = "prefix"
  <2>1. Encode(s[r + 1]) = Field(s[r + 1], "length")  BY <1>3, <1>5, EncodeIs
  <2>2. s[r + 1].type = 0  BY <1>3, <1>5, MessageFacts
  <2>3. t = 0  BY <1>5 DEF Framed
  <2>4. At(s[r + 1], "length", <<>>, w \o lost, StreamOf(s, r + 1))
    BY <1>3, <1>4, <2>1 DEF At
  <2> QED  BY <1>1, <1>2, <1>5, <2>2, <2>3, <2>4 DEF Framed, Fields
<1>6. CASE s[1].format # "prefix"
  <2>1. s[1].format \in {"request", "reply"}  BY <1>3, <1>6, MessageFacts
  <2>2. Encode(s[r + 1]) = Field(s[r + 1], "type")  BY <1>3, <2>1, EncodeIs
  <2>3. s # <<>>  BY <1>2
  <2>4. At(s[r + 1], "type", <<>>, w \o lost, StreamOf(s, r + 1))
    BY <1>3, <1>4, <2>2 DEF At
  <2> QED  BY <1>1, <1>2, <1>6, <2>1, <2>3, <2>4 DEF Framed, Fields
<1> QED  BY <1>5, <1>6

\* As definitions of their own, so that no prover regroups for ever.
Associates(a, b, c) == (a \o b) \o c = a \o (b \o c)
Regrouped(a, b, c, d) == (a \o b) \o (c \o d) = a \o ((b \o c) \o d)

LEMMA Associative ==
    ASSUME NEW a \in Seq(Bytes), NEW b \in Seq(Bytes), NEW c \in Seq(Bytes)
    PROVE  Associates(a, b, c)
  BY ConcatAssociative DEF Associates

LEMMA Regroup ==
    ASSUME NEW a \in Seq(Bytes), NEW b \in Seq(Bytes), NEW c \in Seq(Bytes),
           NEW d \in Seq(Bytes)
    PROVE  Regrouped(a, b, c, d)
<1>1. PICK cd : cd = c \o d  OBVIOUS
<1>2. cd \in Seq(Bytes)  BY <1>1, ConcatProperties
<1>3. Associates(a, b, cd)  BY <1>2, Associative
<1>4. Associates(b, c, d)  BY Associative
<1> QED  BY <1>1, <1>3, <1>4 DEF Associates, Regrouped

LEMMA FramedRecv ==
    ASSUME NEW s \in Seq(MessageType), NEW field \in Fields, NEW b \in Seq(Bytes),
           NEW w \in Seq(Bytes), NEW lost \in Seq(Bytes), NEW k \in 0..Len(w),
           NEW t, NEW len, NEW r, Framed(w \o lost, field, b, t, len, r, s)
    PROVE  Framed(SubSeq(w, k + 1, Len(w)) \o lost, field, b \o SubSeq(w, 1, k),
                  t, len, r, s)
<1> PICK u, v : u = SubSeq(w, 1, k) /\ v = SubSeq(w, k + 1, Len(w))  OBVIOUS
<1>1. u \in Seq(Bytes) /\ v \in Seq(Bytes) /\ u \o v = w  BY CutAt
<1>2. (b \o u) \o (v \o lost) = b \o (w \o lost)
  <2>1. Regrouped(b, u, v, lost)  BY <1>1, Regroup
  <2>2. (b \o u) \o (v \o lost) = b \o ((u \o v) \o lost)  BY <2>1 DEF Regrouped
  <2> QED  BY <1>1, <2>2
<1>3. field # "idle"  BY DEF Fields
<1>4. ASSUME NEW m, NEW S, At(m, field, b, w \o lost, S)
      PROVE  At(m, field, b \o u, v \o lost, S)
  BY <1>2, <1>4 DEF At
<1> QED  BY <1>3, <1>4 DEF Framed

\* The field is complete: what follows it is next.
Joined(a, b, c, d) == a \o b = c \o d

LEMMA CutJoined ==
    ASSUME NEW a \in Seq(Bytes), NEW b \in Seq(Bytes), NEW c \in Seq(Bytes),
           NEW d \in Seq(Bytes), Joined(a, b, c, d), Len(a) = Len(c)
    PROVE  a = c /\ b = d
  BY CutConcat DEF Joined

LEMMA CutField ==
    ASSUME NEW x \in Seq(Bytes), NEW y \in Seq(Bytes), NEW S \in Seq(Bytes),
           NEW b \in Seq(Bytes), NEW rest \in Seq(Bytes),
           Joined(b, rest, x \o y, S), Len(b) = Len(x)
    PROVE  b = x /\ Joined(<<>>, rest, y, S)
<1>1. Associates(x, y, S)  BY Associative
<1>2. y \o S \in Seq(Bytes)  BY ConcatProperties
<1>3. Joined(b, rest, x, y \o S)  BY <1>1 DEF Associates, Joined
<1>4. b = x /\ rest = y \o S  BY <1>2, <1>3, CutJoined
<1>5. <<>> \o rest = rest  BY ConcatEmptySeq
<1> QED  BY <1>4, <1>5 DEF Joined

LEMMA AtType ==
    ASSUME NEW m \in MessageType, NEW S \in Seq(Bytes), NEW b \in Seq(Bytes),
           NEW rest \in Seq(Bytes), Len(b) = Word, At(m, "type", b, rest, S)
    PROVE  b = Htonl(m.type) /\ At(m, "length", <<>>, rest, S)
<1> PICK t, f : t = Htonl(m.type) /\ f = Field(m, "length")  OBVIOUS
<1>1. t \in Seq(Bytes) /\ Len(t) = Word
  <2>1. m.type \in Int  BY MessageFacts
  <2> QED  BY <2>1, HtonlType
<1>2. f \in Seq(Bytes)  BY EncodeIs
<1>3. Field(m, "type") = t \o f  BY DEF Field
<1>4. Joined(b, rest, t \o f, S)  BY <1>3 DEF At, Joined
<1>5. b = t /\ Joined(<<>>, rest, f, S)  BY <1>1, <1>2, <1>4, CutField
<1> QED  BY <1>5 DEF At, Joined

LEMMA AtLength ==
    ASSUME NEW m \in MessageType, NEW S \in Seq(Bytes), NEW b \in Seq(Bytes),
           NEW rest \in Seq(Bytes), Len(b) = Word, At(m, "length", b, rest, S)
    PROVE  b = Htonl(Len(m.body)) /\ At(m, "value", <<>>, rest, S)
<1> PICK t, f : t = Htonl(Len(m.body)) /\ f = Field(m, "value")  OBVIOUS
<1>1. t \in Seq(Bytes) /\ Len(t) = Word
  <2>1. Len(m.body) \in Int  BY MessageFacts
  <2> QED  BY <2>1, HtonlType
<1>2. f \in Seq(Bytes)  BY EncodeIs
<1>3. Field(m, "length") = t \o f  BY DEF Field
<1>4. Joined(b, rest, t \o f, S)  BY <1>3 DEF At, Joined
<1>5. b = t /\ Joined(<<>>, rest, f, S)  BY <1>1, <1>2, <1>4, CutField
<1> QED  BY <1>5 DEF At, Joined

LEMMA AtValue ==
    ASSUME NEW m \in MessageType, NEW S \in Seq(Bytes), NEW b \in Seq(Bytes),
           NEW rest \in Seq(Bytes), Len(b) = Len(m.body), At(m, "value", b, rest, S)
    PROVE  b = m.body /\ rest = S
<1> PICK v : v = m.body  OBVIOUS
<1>1. v \in Seq(Bytes)  BY MessageFacts
<1>2. b \o rest = v \o S  BY DEF At, Field
<1>3. b = v /\ rest = S  BY <1>1, <1>2, CutConcat
<1> QED  BY <1>3

LEMMA FramedType ==
    ASSUME NEW s \in Seq(MessageType), OneFormat(s), NEW b \in Seq(Bytes),
           Len(b) = Word, NEW rest \in Seq(Bytes), NEW t, NEW len, NEW r,
           Framed(rest, "type", b, t, len, r, s)
    PROVE  Framed(rest, "length", <<>>, Signed(Ntohl(b)), len, r, s)
<1>1. /\ r \in 0..(Len(s) - 1) /\ s # <<>>
      /\ s[1].format # "line" /\ s[1].format # "prefix"
      /\ At(s[r + 1], "type", b, rest, StreamOf(s, r + 1))
  BY DEF Framed, Fields
<1>2. /\ s[r + 1] \in MessageType /\ StreamOf(s, r + 1) \in Seq(Bytes)
      /\ s[r + 1].type \in Ints
  BY <1>1, MessageAt, MessageFacts
<1>3. /\ b = Htonl(s[r + 1].type)
      /\ At(s[r + 1], "length", <<>>, rest, StreamOf(s, r + 1))
  BY <1>1, <1>2, AtType
<1>4. Signed(Ntohl(b)) = s[r + 1].type  BY <1>2, <1>3, IntIsKept
<1> QED  BY <1>1, <1>3, <1>4 DEF Framed, Fields

\* The length the reader computes is what the conversion makes of it.
LEMMA LengthIs ==
    ASSUME NEW s \in Seq(MessageType), OneFormat(s), NEW b \in Seq(Bytes),
           Len(b) = Word, NEW rest \in Seq(Bytes), NEW t, NEW len, NEW r,
           Framed(rest, "length", b, t, len, r, s)
    PROVE  /\ r \in 0..(Len(s) - 1)
           /\ s[r + 1] \in MessageType /\ s[r + 1].format = s[1].format
           /\ b = Htonl(Len(s[r + 1].body))
           /\ At(s[r + 1], "value", <<>>, rest, StreamOf(s, r + 1))
<1>1. /\ r \in 0..(Len(s) - 1)
      /\ At(s[r + 1], "length", b, rest, StreamOf(s, r + 1))
  BY DEF Framed, Fields
<1>2. /\ s[r + 1] \in MessageType /\ StreamOf(s, r + 1) \in Seq(Bytes)
      /\ s[r + 1].format = s[1].format
  BY <1>1, MessageAt
<1> QED  BY <1>1, <1>2, AtLength

LEMMA FramedLength ==
    ASSUME NEW s \in Seq(MessageType), OneFormat(s), NEW b \in Seq(Bytes),
           Len(b) = Word, NEW rest \in Seq(Bytes), NEW t, NEW len, NEW r,
           Framed(rest, "length", b, t, len, r, s),
           s[1].format = "request" => Signed(Ntohl(b)) >= 0
    PROVE  Framed(rest, "value", <<>>, t, Signed(Ntohl(b)), r, s)
<1>1. /\ r \in 0..(Len(s) - 1) /\ s # <<>> /\ s[1].format # "line"
      /\ t = s[r + 1].type
      /\ s = <<>> \/ s[1].format = "prefix" => t = 0
  BY DEF Framed, Fields
<1>2. /\ s[r + 1] \in MessageType /\ s[r + 1].format = s[1].format
      /\ b = Htonl(Len(s[r + 1].body))
      /\ At(s[r + 1], "value", <<>>, rest, StreamOf(s, r + 1))
  BY LengthIs
<1>3. Signed(Ntohl(b)) = Len(s[r + 1].body)
  <2>1. Len(s[r + 1].body) \in Nat  BY <1>2, MessageFacts
  <2>2. CASE s[1].format = "request"
    <3>1. Len(s[r + 1].body) < Power[Word]  BY <1>2, <2>2, MessageFacts
    <3> QED  BY <1>2, <2>1, <2>2, <3>1, SizeIsKept
  <2>3. CASE s[1].format # "request"
    <3>1. s[1].format \in {"reply", "prefix"}  BY <1>1, <1>2, <2>3, MessageFacts
    <3>2. Len(s[r + 1].body) \in Ints  BY <1>2, <3>1, MessageFacts
    <3> QED  BY <1>2, <3>2, IntIsKept
  <2> QED  BY <2>2, <2>3
<1> QED  BY <1>1, <1>2, <1>3 DEF Framed, Fields

\* A call that comes to its end returns the message the reader was at.
Returned(s, r, t, b) == [format |-> s[1].format, type |-> t, body |-> b] = s[r]

LEMMA FramedValue ==
    ASSUME NEW s \in Seq(MessageType), OneFormat(s), NEW b \in Seq(Bytes),
           NEW rest \in Seq(Bytes), NEW t, NEW len, NEW r,
           Framed(rest, "value", b, t, len, r, s), Len(b) = len
    PROVE  /\ Framed(rest, "idle", b, t, len, r + 1, s)
           /\ Returned(s, r + 1, t, b)
           /\ r \in 0..(Len(s) - 1)
<1>1. /\ r \in 0..(Len(s) - 1)
      /\ t = s[r + 1].type /\ len = Len(s[r + 1].body)
      /\ At(s[r + 1], "value", b, rest, StreamOf(s, r + 1))
      /\ s = <<>> \/ s[1].format = "prefix" => t = 0
  BY DEF Framed, Fields
<1>2. /\ s[r + 1] \in MessageType /\ s[r + 1].format = s[1].format
      /\ StreamOf(s, r + 1) \in Seq(Bytes)
  BY <1>1, MessageAt
<1>3. b = s[r + 1].body /\ rest = StreamOf(s, r + 1)  BY <1>1, <1>2, AtValue
<1>4. s[r + 1] = [format |-> s[r + 1].format, type |-> s[r + 1].type, body |-> s[r + 1].body]
  BY <1>2, MessageFacts
<1>5. r + 1 \in 0..Len(s)  BY <1>1
<1>6. Returned(s, r + 1, t, b)  BY <1>1, <1>2, <1>3, <1>4 DEF Returned
<1> QED  BY <1>1, <1>3, <1>5, <1>6 DEF Framed, Fields

\* So does the first newline.
LEMMA FramedLine ==
    ASSUME NEW s \in Seq(MessageType), OneFormat(s), s[1].format = "line",
           NEW w \in Seq(Bytes), NEW lost \in Seq(Bytes), NEW end \in 1..Len(w),
           w[end] = NewLine, \A i \in 1..(end - 1) : w[i] # NewLine,
           NEW b, NEW t, NEW len, NEW r, Framed(w \o lost, "idle", b, t, len, r, s)
    PROVE  /\ Framed(SubSeq(w, end + 1, Len(w)) \o lost, "idle", b, t, len, r + 1, s)
           /\ [format |-> "line", type |-> 0, body |-> SubSeq(w, 1, end - 1)] = s[r + 1]
           /\ r \in 0..(Len(s) - 1)
<1>1. /\ r \in 0..Len(s) /\ w \o lost = StreamOf(s, r)
      /\ s = <<>> \/ s[1].format = "prefix" => t = 0
  BY DEF Framed
<1>2. r \in 0..(Len(s) - 1)
  <2>1. w # <<>>  OBVIOUS
  <2> QED  BY <1>1, <2>1, SomethingCame
<1> PICK m, S, v, tail : /\ m = s[r + 1] /\ S = StreamOf(s, r + 1) /\ v = m.body
                         /\ tail = SubSeq(w, end + 1, Len(w))
  OBVIOUS
<1>3. /\ m \in MessageType /\ m.format = "line" /\ S \in Seq(Bytes)
      /\ w \o lost = Encode(m) \o S
  BY <1>1, <1>2, MessageAt
<1>4. /\ Encode(m) = Append(v, NewLine) /\ v \in Seq(Bytes) /\ Len(v) \in Nat
      /\ \A i \in 1..Len(v) : v[i] # NewLine
      /\ m = [format |-> "line", type |-> 0, body |-> v]
  BY <1>3, EncodeIs, MessageFacts
<1>5. \A i \in 1..Len(w) : (w \o lost)[i] = w[i]  OBVIOUS
<1>6. /\ Append(v, NewLine) \in Seq(Bytes) /\ Len(Append(v, NewLine)) = Len(v) + 1
      /\ Append(v, NewLine)[Len(v) + 1] = NewLine
      /\ \A i \in 1..Len(v) : Append(v, NewLine)[i] = v[i]
  BY <1>4, BaseType, AppendProperties
<1>7. \A i \in 1..(Len(v) + 1) : (w \o lost)[i] = Append(v, NewLine)[i]
  <2> PICK line : line = Append(v, NewLine)  OBVIOUS
  <2>1. line \in Seq(Bytes) /\ Len(line) = Len(v) + 1  BY <1>6
  <2>2. \A i \in 1..Len(line) : (line \o S)[i] = line[i]
    <3>1. S \in Seq(Bytes)  BY <1>3
    <3>2. Starts(line, line \o S)  BY <2>1, <3>1, FrontOfConcat
    <3> QED  BY <3>2 DEF Starts
  <2>3. w \o lost = line \o S  BY <1>3, <1>4
  <2> QED  BY <2>1, <2>2, <2>3
<1>8. end = Len(v) + 1
  <2>1. ~(end <= Len(v))
    <3> SUFFICES ASSUME end <= Len(v) PROVE FALSE  OBVIOUS
    <3>1. end \in 1..Len(v) /\ end \in 1..(Len(v) + 1)  BY <1>4
    <3>2. (w \o lost)[end] = v[end]  BY <1>6, <1>7, <3>1
    <3>3. (w \o lost)[end] = NewLine  BY <1>5
    <3> QED  BY <1>4, <3>1, <3>2, <3>3
  <2>2. ~(end > Len(v) + 1)
    <3> SUFFICES ASSUME end > Len(v) + 1 PROVE FALSE  OBVIOUS
    <3>1. Len(v) + 1 \in 1..(end - 1) /\ Len(v) + 1 \in 1..Len(w)
          /\ Len(v) + 1 \in 1..(Len(v) + 1)
      BY <1>4
    <3>2. (w \o lost)[Len(v) + 1] = NewLine  BY <1>6, <1>7, <3>1
    <3>3. (w \o lost)[Len(v) + 1] = w[Len(v) + 1]  BY <1>5, <3>1
    <3> QED  BY <3>1, <3>2, <3>3
  <2>3. Len(v) \in Nat /\ end \in Nat  BY <1>4
  <2> QED  BY <2>1, <2>2, <2>3, SMTT(30)
<1>9. SubSeq(w, 1, end - 1) = v
  <2> PICK u : u = SubSeq(w, 1, end - 1)  OBVIOUS
  <2>1. end - 1 \in 0..Len(w)  OBVIOUS
  <2>2. /\ u \in Seq(Bytes) /\ Len(u) = Len(v)
        /\ \A i \in 1..Len(v) : u[i] = w[i]
    BY <1>4, <1>8, <2>1
  <2>3. ASSUME NEW i \in 1..Len(v)  PROVE u[i] = v[i]
    <3>1. i \in 1..Len(w) /\ i \in 1..(Len(v) + 1)  BY <1>4, <1>8
    <3>2. w[i] = (w \o lost)[i]  BY <1>5, <3>1
    <3>3. (w \o lost)[i] = Append(v, NewLine)[i]  BY <1>7, <3>1
    <3> QED  BY <1>6, <2>2, <3>2, <3>3
  <2> QED  BY <1>4, <2>2, <2>3, SeqEqual
<1>10. tail \o lost = S
  <2> PICK front : front = SubSeq(w, 1, end)  OBVIOUS
  <2>1. /\ front \in Seq(Bytes) /\ Len(front) = end /\ tail \in Seq(Bytes)
        /\ front \o tail = w
    BY CutAt
  <2>2. Associates(front, tail, lost)  BY <2>1, Associative
  <2>3. tail \o lost \in Seq(Bytes)  BY <2>1, ConcatProperties
  <2>4. front \o (tail \o lost) = Append(v, NewLine) \o S  BY <1>3, <1>4, <2>1, <2>2 DEF Associates
  <2>5. Len(front) = Len(Append(v, NewLine))  BY <1>6, <1>8, <2>1
  <2> PICK line, tl : line = Append(v, NewLine) /\ tl = tail \o lost  OBVIOUS
  <2>6. line \in Seq(Bytes) /\ tl \in Seq(Bytes) /\ Joined(front, tl, line, S) /\ Len(front) = Len(line)
    BY <1>6, <2>3, <2>4, <2>5 DEF Joined
  <2>7. tl = S  BY <1>3, <2>1, <2>6, CutJoined
  <2> QED  BY <2>7
<1>11. r + 1 \in 0..Len(s)  BY <1>2
<1>12. Framed(tail \o lost, "idle", b, t, len, r + 1, s)
  BY <1>1, <1>10, <1>11 DEF Framed, Fields
<1> QED  BY <1>2, <1>4, <1>9, <1>12

\* A message begun is one more at the end.
LEMMA FramedBegin ==
    ASSUME NEW s \in Seq(MessageType), OneFormat(s), NEW m \in MessageType,
           NEW rest \in Seq(Bytes), NEW field \in Fields \cup {"idle"},
           NEW b \in Seq(Bytes), NEW t, NEW len,
           NEW r, Framed(rest, field, b, t, len, r, s)
    PROVE  Framed(rest \o Encode(m), field, b, t, len, r, Append(s, m))
<1> PICK e, longer : e = Encode(m) /\ longer = Append(s, m)  OBVIOUS
<1>0. e \in Seq(Bytes)  BY EncodeIs
<1>1. /\ longer \in Seq(MessageType) /\ Len(longer) = Len(s) + 1 /\ longer # <<>>
      /\ \A i \in 1..Len(s) : longer[i] = s[i]
      /\ Len(s) \in Nat /\ r \in 0..Len(s) /\ r \in 0..Len(longer)
  BY AppendProperties DEF Framed
<1>2. s = <<>> \/ s[1].format = "prefix" => t = 0  BY DEF Framed
<1>3. longer = <<>> \/ longer[1].format = "prefix" => t = 0
  <2>1. s # <<>> => longer[1] = s[1]
    <3>1. s # <<>> => 1 \in 1..Len(s)  BY EmptySeq
    <3> QED  BY <1>1, <3>1
  <2> QED  BY <1>1, <1>2, <2>1
<1>4. CASE field = "idle"
  <2>1. rest = StreamOf(s, r)  BY <1>4 DEF Framed
  <2>2. rest \o e = StreamOf(longer, r)  BY <1>1, <2>1, StreamAppend
  <2> QED  BY <1>1, <1>3, <1>4, <2>2 DEF Framed, Fields
<1>5. CASE field \in Fields
  <2>1. /\ r \in 0..(Len(s) - 1) /\ r + 1 \in 1..Len(s) /\ r + 1 \in 0..Len(s) /\ 1 \in 1..Len(s)
        /\ s[1].format # "line"
        /\ At(s[r + 1], field, b, rest, StreamOf(s, r + 1))
        /\ field = "type" => s[1].format # "prefix"
        /\ field # "type" => t = s[r + 1].type
        /\ field = "value" => len = Len(s[r + 1].body)
    BY <1>1, <1>5 DEF Framed
  <2> PICK f, S : f = Field(s[r + 1], field) /\ S = StreamOf(s, r + 1)  OBVIOUS
  <2>2. f \in Seq(Bytes) /\ S \in Seq(Bytes)  BY <1>5, <2>1, MessageAt
  <2>3. longer[r + 1] = s[r + 1] /\ longer[1] = s[1]  BY <1>1, <2>1
  <2>4. StreamOf(longer, r + 1) = S \o e  BY <2>1, StreamAppend
  <2>5. Associates(b, rest, e) /\ Associates(f, S, e)  BY <1>0, <2>2, Associative
  <2>6. b \o rest = f \o S  BY <2>1 DEF At
  <2>7. At(s[r + 1], field, b, rest \o e, S \o e)  BY <2>5, <2>6 DEF Associates, At
  <2>8. field # "idle"  BY <1>5 DEF Fields
  <2>9. At(longer[r + 1], field, b, rest \o e, StreamOf(longer, r + 1))
    BY <2>3, <2>4, <2>7
  <2>10. r < Len(longer)  BY <1>1, <2>1
  <2>11. Framed(rest \o e, field, b, t, len, r, longer)
    BY <1>1, <1>3, <2>1, <2>3, <2>8, <2>9, <2>10 DEF Framed
  <2> QED  BY <2>11
<1> QED  BY <1>4, <1>5

-------------------------------------------------------------------------------
(* What the actions rely on *)

LEMMA ScriptFacts ==
    ASSUME TypeInv, ScriptInv
    PROVE  /\ OneFormat(sent)
           /\ \A i \in 1..Len(sent) : sent[i] \in Sendable
           /\ todo # <<>> => Head(todo) \in Sendable /\ Head(todo) \in MessageType
<1>1. PICK s \in Scripts :
         /\ Len(sent) + Len(todo) <= Len(s)
         /\ \A i \in 1..Len(sent) : sent[i] = s[i]
         /\ \A i \in 1..Len(todo) : todo[i] = s[Len(sent) + i]
  BY DEF ScriptInv
<1>2. /\ s \in Seq(MessageType) /\ \A i \in 1..Len(s) : s[i].format = s[1].format
      /\ sent \in Seq(MessageType) /\ todo \in Seq(MessageType)
  BY ScriptAssumption DEF TypeInv
<1>3. Len(s) \in Nat /\ Len(sent) \in Nat /\ Len(todo) \in Nat /\ DOMAIN s = 1..Len(s)
  BY <1>2, LenProperties
<1>4. \A i \in 1..Len(s) : s[i] \in Sendable  BY <1>3 DEF Sendable, ToSet
<1>5. ASSUME NEW i \in 1..Len(sent)
      PROVE  sent[i] \in Sendable /\ sent[i].format = sent[1].format
  <2>1. i \in 1..Len(s) /\ 1 \in 1..Len(sent) /\ 1 \in 1..Len(s)  BY <1>1, <1>3
  <2> QED  BY <1>1, <1>2, <1>4, <2>1
<1>6. ASSUME todo # <<>>  PROVE Head(todo) \in Sendable /\ Head(todo) \in MessageType
  <2>1. Len(todo) > 0 /\ Head(todo) = todo[1]  BY <1>2, <1>6
  <2>2. 1 \in 1..Len(todo) /\ Len(sent) + 1 \in 1..Len(s)  BY <1>1, <1>3, <2>1
  <2> QED  BY <1>1, <1>2, <1>4, <2>1, <2>2
<1> QED  BY <1>5, <1>6 DEF OneFormat

\* readline finds the first newline.
LEMMA LineEndIs ==
    ASSUME wire \in Seq(Bytes), LineEnd > 0
    PROVE  /\ LineEnd \in 1..Len(wire) /\ wire[LineEnd] = NewLine
           /\ \A i \in 1..(LineEnd - 1) : wire[i] # NewLine
<1> DEFINE I == {i \in 1..Len(Peeked) : Peeked[i] = NewLine}
<1>1. LineEnd = IF I # {} THEN Min(I) ELSE 0  BY DEF LineEnd, SelectInSeq
<1>2. /\ Len(Peeked) \in Nat /\ Len(Peeked) <= Len(wire)
      /\ \A i \in 1..Len(Peeked) : Peeked[i] = wire[i]
  <2> PICK k : k = IF Len(wire) < MaxLine THEN Len(wire) ELSE MaxLine  OBVIOUS
  <2>1. Len(wire) \in Nat /\ MaxLine \in Nat  BY SocketIOAssumption
  <2>2. k \in 0..Len(wire)  BY <2>1
  <2>3. Peeked = SubSeq(wire, 1, k)  BY DEF Peeked
  <2>4. Len(SubSeq(wire, 1, k)) = k /\ \A i \in 1..k : SubSeq(wire, 1, k)[i] = wire[i]
    BY <2>2
  <2> QED  BY <2>1, <2>2, <2>3, <2>4
<1>3. I # {}  BY <1>1
<1>4. I \in SUBSET Nat  BY <1>2
<1>5. PICK k \in I : \A j \in I : k <= j
  <2> HIDE DEF I
  <2> QED  BY <1>3, <1>4, LeastElement
<1>6. Min(I) \in I /\ \A j \in I : Min(I) <= j  BY <1>5 DEF Min
<1>7. LineEnd \in I /\ \A j \in I : LineEnd <= j  BY <1>1, <1>3, <1>6
<1>8. LineEnd \in 1..Len(wire) /\ wire[LineEnd] = NewLine  BY <1>2, <1>7
<1>9. ASSUME NEW i \in 1..(LineEnd - 1), wire[i] = NewLine  PROVE FALSE
  <2>1. i \in 1..Len(Peeked) /\ i < LineEnd  BY <1>2, <1>7
  <2>2. i \in I  BY <1>2, <1>9, <2>1
  <2> QED  BY <1>7, <2>1, <2>2
<1> QED  BY <1>8, <1>9

\* The kernel got as many messages entirely as the reader is past.
LEMMA WholeIsAhead ==
    ASSUME sent \in Seq(MessageType), NEW lost \in Seq(Bytes), WriterInv(lost),
           NEW w \in Seq(Bytes), NEW k \in 0..Len(sent), w \o lost = StreamOf(sent, k),
           whole \in Nat
    PROVE  k <= whole
<1>1. CASE lost = <<>>  BY <1>1 DEF WriterInv
<1>2. CASE lost # <<>>
  <2>1. w \o lost # <<>>  BY <1>2, ConcatEqualIffEmpty
  <2>2. k # Len(sent)  BY <2>1, StreamEnd
  <2> QED  BY <1>2, <2>2 DEF WriterInv
<1> QED  BY <1>1, <1>2

LEMMA PowerOfWord == Power[Word] \in Nat \ {0}
<1>1. Word \in 0..Word  BY BaseType
<1> QED  BY <1>1, PowerFacts

LEMMA IntOfBytes ==
    ASSUME NEW b \in Seq(Bytes), Len(b) = Word
    PROVE  Signed(Ntohl(b)) \in -Power[Word]..Power[Word] /\ Signed(Ntohl(b)) \in Int
<1>1. Signed(Ntohl(b)) \in Ints  BY NtohlType, SignedType
<1>2. Power[Word] \in Nat  BY PowerOfWord
<1> PICK p \in Nat : p = Power[Word]  BY <1>2
<1> PICK n : n = Signed(Ntohl(b))  OBVIOUS
<1>3. n \in (p \div 2 - p)..(p \div 2 - 1)  BY <1>1 DEF Ints
<1>4. p \div 2 \in Nat /\ 2 * (p \div 2) <= p  OBVIOUS
<1>5. n \in -p..p /\ n \in Int  BY <1>3, <1>4
<1> QED  BY <1>5

-------------------------------------------------------------------------------
(* Where a call ends, the message the reader was at is returned *)

LEMMA LineStep ==
    ASSUME TypeInv, ScriptInv, NEW lost \in Seq(Bytes), InStep(wire \o lost), ReadLine, ~gaveUp
    PROVE  /\ Len(read) \in 0..(Len(sent) - 1)
           /\ read' = Append(read, sent[Len(read) + 1])
           /\ Framed(wire' \o lost, "idle", buf, type, length, Len(read) + 1, sent)
<1>1. /\ wire \in Seq(Bytes) /\ sent \in Seq(MessageType) /\ OneFormat(sent)
      /\ LineEnd > 0 /\ sent[1].format = "line" /\ stage = "idle"
  BY ScriptFacts DEF TypeInv, TypeOK, ReadLine, Format
<1>2. /\ LineEnd \in 1..Len(wire) /\ wire[LineEnd] = NewLine
      /\ \A i \in 1..(LineEnd - 1) : wire[i] # NewLine
  BY <1>1, LineEndIs
<1>3. Framed(wire \o lost, "idle", buf, type, length, Len(read), sent)
  BY <1>1 DEF InStep
<1>4. /\ Framed(SubSeq(wire, LineEnd + 1, Len(wire)) \o lost, "idle", buf, type, length,
                Len(read) + 1, sent)
      /\ [format |-> "line", type |-> 0, body |-> SubSeq(wire, 1, LineEnd - 1)]
             = sent[Len(read) + 1]
      /\ Len(read) \in 0..(Len(sent) - 1)
  BY <1>1, <1>2, <1>3, FramedLine
<1> QED  BY <1>4 DEF ReadLine, Return

LEMMA ValueStep ==
    ASSUME TypeInv, ScriptInv, NEW lost \in Seq(Bytes), InStep(wire \o lost), ValueRead, ~gaveUp
    PROVE  /\ Len(read) \in 0..(Len(sent) - 1)
           /\ read' = Append(read, sent[Len(read) + 1])
           /\ Framed(wire' \o lost, "idle", buf, type, length, Len(read) + 1, sent)
<1>1. /\ wire \in Seq(Bytes) /\ sent \in Seq(MessageType) /\ OneFormat(sent)
      /\ stage = "value" /\ buf \in Seq(Bytes) /\ wire' = wire
      /\ Len(buf) <= (IF length < 0 THEN 0 ELSE length)
      /\ length - Len(buf) <= 0
      /\ length \in Int
  <2>1. length \in Int
    <3>1. Power[Word] \in Nat  BY PowerOfWord
    <3> QED  BY <3>1 DEF TypeInv, TypeOK
  <2> QED  BY <2>1, ScriptFacts DEF TypeInv, TypeOK, ValueRead, Reading, FieldSize, Missing
<1>2. Framed(wire \o lost, "value", buf, type, length, Len(read), sent)
  BY <1>1 DEF InStep
<1>3. Len(buf) = length
  <2>1. Len(read) \in 0..(Len(sent) - 1) /\ length = Len(sent[Len(read) + 1].body)
    BY <1>2 DEF Framed, Fields
  <2>2. sent[Len(read) + 1] \in MessageType  BY <1>1, <2>1, MessageAt
  <2>3. length \in Nat  BY <2>1, <2>2, MessageFacts
  <2> QED  BY <1>1, <2>3
<1> PICK rest, r : rest = wire \o lost /\ r = Len(read)  OBVIOUS
<1>4. rest \in Seq(Bytes)  BY <1>1, ConcatProperties
<1>5. Framed(rest, "value", buf, type, length, r, sent)  BY <1>2
<1>6. /\ Framed(rest, "idle", buf, type, length, r + 1, sent)
      /\ Returned(sent, r + 1, type, buf)
      /\ r \in 0..(Len(sent) - 1)
  <2>1. sent \in Seq(MessageType) /\ OneFormat(sent) /\ buf \in Seq(Bytes)  BY <1>1
  <2>2. Framed(rest, "idle", buf, type, length, r + 1, sent)
    BY <2>1, <1>3, <1>4, <1>5, FramedValue
  <2>3. Returned(sent, r + 1, type, buf)
    BY <2>1, <1>3, <1>4, <1>5, FramedValue
  <2>4. r \in 0..(Len(sent) - 1)
    BY <2>1, <1>3, <1>4, <1>5, FramedValue
  <2> QED  BY <2>2, <2>3, <2>4
<1> QED  BY <1>1, <1>6 DEF ValueRead, Return, Format, Returned

LEMMA Delivered ==
    ASSUME IInv, ValueRead \/ ReadLine, ~gaveUp
    PROVE  /\ Len(read) \in 0..(Len(sent) - 1)
           /\ read' = Append(read, sent[Len(read) + 1])
           /\ Len(read) + 1 <= whole
<1>1. PICK lost \in Seq(Bytes) : WriterInv(lost) /\ InStep(wire \o lost)
  BY DEF IInv, StreamInv
<1>2. /\ Len(read) \in 0..(Len(sent) - 1)
      /\ read' = Append(read, sent[Len(read) + 1])
      /\ Framed(wire' \o lost, "idle", buf, type, length, Len(read) + 1, sent)
  BY <1>1, LineStep, ValueStep DEF IInv
<1>3. /\ wire' \o lost = StreamOf(sent, Len(read) + 1)
      /\ Len(read) + 1 \in 0..Len(sent)
  BY <1>2 DEF Framed
<1>4. wire' \in Seq(Bytes)
  <2>1. CASE ValueRead  BY <2>1 DEF ValueRead, IInv, TypeInv, TypeOK
  <2>2. CASE ReadLine
    <3>1. LineEnd \in 1..Len(wire) /\ wire \in Seq(Bytes)
      BY <2>2, LineEndIs DEF ReadLine, IInv, TypeInv, TypeOK
    <3>2. LineEnd \in 0..Len(wire)  BY <3>1
    <3> QED  BY <2>2, <3>1, <3>2, CutAt DEF ReadLine
  <2> QED  BY <2>1, <2>2
<1>5. Len(read) + 1 <= whole  BY <1>1, <1>3, <1>4, WholeIsAhead DEF IInv, TypeInv
<1> QED  BY <1>2, <1>5
-------------------------------------------------------------------------------
(* The invariant is inductive: types *)

LEMMA IntType ==
    ASSUME TypeInv
    PROVE  length \in Int /\ FieldSize \in Int /\ Missing \in Int /\ Len(buf) \in Nat
<1>1. length \in Int /\ Word \in Int /\ Len(buf) \in Nat
  <2>1. Power[Word] \in Nat  BY PowerOfWord
  <2> QED  BY <2>1, BaseType DEF TypeInv, TypeOK
<1> QED  BY <1>1 DEF FieldSize, Missing

LEMMA InitType == ASSUME Init PROVE TypeInv
<1>1. todo \in Seq(MessageType)  BY ScriptAssumption DEF Init
<1>2. 0 \in -Power[Word]..Power[Word]
  <2>1. Power[Word] \in Nat  BY PowerOfWord
  <2> QED  BY <2>1
<1>3. \A S : <<>> \in Seq(S)  BY EmptySeq
<1>4. Len(<<>>) = 0 /\ 0 <= Room  BY SocketIOAssumption
<1>5. /\ out = <<>> /\ sent = <<>> /\ whole = 0 /\ wire = <<>> /\ ended = FALSE
      /\ stage = "idle" /\ buf = <<>> /\ type = 0 /\ length = 0
      /\ read = <<>> /\ gaveUp = FALSE
  BY DEF Init
<1>7. type \in -Power[Word]..Power[Word] /\ length \in -Power[Word]..Power[Word]
  BY <1>2, <1>5
<1>8. wire \in Seq(Bytes) /\ out \in Seq(Bytes)  BY <1>3, <1>5
<1>9. Len(wire) <= Room /\ whole <= Len(sent) /\ Len(read) <= whole  BY <1>4, <1>5
<1>10. ~Reading /\ stage \in {"idle", "type", "length", "value", "torn"}
  BY <1>5 DEF Reading
<1>6. TypeOK  BY <1>5, <1>7, <1>8, <1>9, <1>10 DEF TypeOK
<1> QED  BY <1>1, <1>3, <1>5, <1>6 DEF TypeInv

LEMMA BeginType == ASSUME IInv, Begin PROVE TypeInv'
<1> USE DEF IInv, TypeInv
<1>1. /\ out' = Encode(Head(todo)) /\ todo' = Tail(todo) /\ sent' = Append(sent, Head(todo))
      /\ todo # <<>> /\ todo \in Seq(MessageType) /\ sent \in Seq(MessageType)
      /\ UNCHANGED <<whole, wire, ended, stage, buf, type, length, read, gaveUp>>
  BY DEF Begin, readerVars
<1>2. Head(todo) \in MessageType  BY <1>1, ScriptFacts
<1>3. Encode(Head(todo)) \in Seq(Bytes)  BY <1>2, EncodeIs
<1>4. todo' \in Seq(MessageType)  BY <1>1
<1>5. sent' \in Seq(MessageType) /\ Len(sent') = Len(sent) + 1
  BY <1>1, <1>2, AppendProperties
<1>6. whole <= Len(sent')  BY <1>5 DEF TypeOK
<1>7. TypeOK'  BY <1>1, <1>3, <1>6 DEF TypeOK, Reading, FieldSize
<1> QED  BY <1>1, <1>4, <1>5, <1>7

LEMMA SendType == ASSUME IInv, NEW k \in 1..Room, Send(k) PROVE TypeInv'
<1> USE DEF IInv, TypeInv
<1>1. /\ k \in 0..Len(out) /\ Len(wire) + k <= Room
      /\ wire' = wire \o SubSeq(out, 1, k) /\ out' = SubSeq(out, k + 1, Len(out))
      /\ whole' = IF k = Len(out) THEN whole + 1 ELSE whole
      /\ UNCHANGED <<todo, sent, ended, stage, buf, type, length, read, gaveUp>>
      /\ out \in Seq(Bytes) /\ wire \in Seq(Bytes) /\ Len(out) # 0 /\ whole \in Nat
  <2>1. k \in Nat /\ k >= 1  OBVIOUS
  <2>2. out \in Seq(Bytes) /\ Len(out) \in Nat  BY LenProperties DEF TypeOK
  <2> QED  BY <2>1, <2>2 DEF Send, readerVars, TypeOK
<1>2. /\ SubSeq(out, 1, k) \in Seq(Bytes) /\ Len(SubSeq(out, 1, k)) = k
      /\ out' \in Seq(Bytes)
  BY <1>1, CutAt
<1>3. wire' \in Seq(Bytes) /\ Len(wire') <= Room
  BY <1>1, <1>2, ConcatProperties
<1>4. whole' \in Nat /\ whole' <= Len(sent) /\ whole <= whole'
  <2>1. PICK lost \in Seq(Bytes) : WriterInv(lost)  BY DEF StreamInv
  <2>2. lost = out /\ lost # <<>>  BY <1>1, <2>1, EmptySeq DEF WriterInv
  <2> QED  BY <1>1, <2>1, <2>2 DEF WriterInv
<1>5. Len(read) <= whole'
  <2>1. Len(read) \in Nat  OBVIOUS
  <2> QED  BY <1>1, <1>4, <2>1 DEF TypeOK
<1>6. TypeOK'  BY <1>1, <1>2, <1>3, <1>4, <1>5 DEF TypeOK, Reading, FieldSize
<1> QED  BY <1>1, <1>4, <1>6

LEMMA HangUpType == ASSUME IInv, HangUp PROVE TypeInv'
<1> USE DEF IInv, TypeInv
<1>1. /\ todo' = <<>> /\ out' = <<>> /\ ended' = TRUE
      /\ UNCHANGED <<sent, whole, wire, stage, buf, type, length, read, gaveUp>>
  BY DEF HangUp, readerVars
<1>2. \A S : <<>> \in Seq(S)  BY EmptySeq
<1> QED  BY <1>1, <1>2 DEF TypeOK, Reading, FieldSize

LEMMA CallType == ASSUME IInv, Call PROVE TypeInv'
<1> USE DEF IInv, TypeInv
<1>1. /\ stage' \in {"type", "length"} /\ buf' = <<>>
      /\ UNCHANGED <<todo, out, sent, whole, wire, ended, type, length, read, gaveUp>>
  BY DEF Call, writerVars
<1>2. <<>> \in Seq(Bytes) /\ Len(<<>>) = 0  BY EmptySeq
<1>3. FieldSize' = Word /\ Word \in Nat  BY <1>1, BaseType DEF FieldSize
<1>4. Len(buf') <= (IF FieldSize' < 0 THEN 0 ELSE FieldSize')  BY <1>1, <1>2, <1>3
<1> QED  BY <1>1, <1>2, <1>4 DEF TypeOK

LEMMA RecvType == ASSUME IInv, NEW k \in 1..Room, Recv(k) PROVE TypeInv'
<1> USE DEF IInv, TypeInv
<1>1. /\ k \in 0..Len(wire) /\ k <= Missing /\ Reading
      /\ buf' = buf \o SubSeq(wire, 1, k)
      /\ wire' = SubSeq(wire, k + 1, Len(wire))
      /\ stage' \in {"torn", stage}
      /\ UNCHANGED <<todo, out, sent, whole, ended, type, length, read, gaveUp>>
      /\ wire \in Seq(Bytes) /\ buf \in Seq(Bytes)
  <2>1. wire \in Seq(Bytes) /\ Len(wire) \in Nat  BY LenProperties DEF TypeOK
  <2> QED  BY <2>1 DEF Recv, writerVars
<1>2. /\ SubSeq(wire, 1, k) \in Seq(Bytes) /\ Len(SubSeq(wire, 1, k)) = k
      /\ wire' \in Seq(Bytes) /\ Len(wire') = Len(wire) - k
  BY <1>1, CutAt
<1>3. buf' \in Seq(Bytes) /\ Len(buf') = Len(buf) + k  BY <1>1, <1>2, ConcatProperties
<1>4. Len(wire') <= Room
  <2>1. Len(wire) \in Nat /\ Len(wire) <= Room  BY <1>1, LenProperties DEF TypeOK
  <2> QED  BY <1>2, <2>1, SocketIOAssumption
<1>5. Reading' => Len(buf') <= (IF FieldSize' < 0 THEN 0 ELSE FieldSize')
  <2>1. FieldSize \in Int /\ Len(buf) \in Nat /\ Missing = FieldSize - Len(buf)
    BY IntType DEF Missing
  <2>2. Len(buf') <= FieldSize /\ ~(FieldSize < 0)  BY <1>1, <1>3, <2>1
  <2>3. Reading' => stage' = stage  BY <1>1 DEF Reading
  <2>4. Reading' => FieldSize' = FieldSize  BY <1>1, <2>3 DEF FieldSize
  <2> QED  BY <2>2, <2>4
<1>6. stage' \in {"idle", "type", "length", "value", "torn"}  BY <1>1 DEF TypeOK
<1>7. TypeOK'  BY <1>1, <1>2, <1>4, <1>5, <1>6 DEF TypeOK
<1> QED  BY <1>1, <1>3, <1>7

LEMMA RecvShortType == ASSUME IInv, RecvShort PROVE TypeInv'
<1> USE DEF IInv, TypeInv
<1>1. /\ stage' \in {"torn", "idle"} /\ gaveUp' = TRUE
      /\ UNCHANGED <<todo, out, sent, whole, wire, ended, buf, type, length, read>>
  BY DEF RecvShort, writerVars
<1> QED  BY <1>1 DEF TypeOK, Reading

LEMMA TypeReadType == ASSUME IInv, TypeRead PROVE TypeInv'
<1> USE DEF IInv, TypeInv
<1>1. /\ stage = "type" /\ Missing = 0 /\ type' = Signed(Ntohl(buf))
      /\ stage' = "length" /\ buf' = <<>> /\ buf \in Seq(Bytes)
      /\ UNCHANGED <<todo, out, sent, whole, wire, ended, length, read, gaveUp>>
  BY DEF TypeRead, writerVars
<1>2. <<>> \in Seq(Bytes) /\ Len(<<>>) = 0  BY EmptySeq
<1>3. Len(buf) = Word  BY <1>1, BaseType, IntType DEF Missing, FieldSize
<1>4. type' \in -Power[Word]..Power[Word]  BY <1>1, <1>3, IntOfBytes
<1>5. FieldSize' = Word /\ Word \in Nat  BY <1>1, BaseType DEF FieldSize
<1>6. Len(buf') <= (IF FieldSize' < 0 THEN 0 ELSE FieldSize')  BY <1>1, <1>2, <1>5
<1> QED  BY <1>1, <1>2, <1>4, <1>6 DEF TypeOK

LEMMA LengthReadType == ASSUME IInv, LengthRead PROVE TypeInv'
<1> USE DEF IInv, TypeInv
<1>1. /\ stage = "length" /\ Missing = 0 /\ length' = Signed(Ntohl(buf))
      /\ stage' \in {"idle", "value"} /\ buf' = <<>> /\ buf \in Seq(Bytes)
      /\ gaveUp' \in {TRUE, gaveUp}
      /\ UNCHANGED <<todo, out, sent, whole, wire, ended, type, read>>
  BY DEF LengthRead, writerVars
<1>2. <<>> \in Seq(Bytes) /\ Len(<<>>) = 0  BY EmptySeq
<1>3. Len(buf) = Word  BY <1>1, BaseType, IntType DEF Missing, FieldSize
<1>4. length' \in -Power[Word]..Power[Word] /\ length' \in Int  BY <1>1, <1>3, IntOfBytes
<1>5. FieldSize' \in Int  BY <1>4, BaseType DEF FieldSize
<1>6. Len(buf') <= (IF FieldSize' < 0 THEN 0 ELSE FieldSize')  BY <1>1, <1>2, <1>5
<1> QED  BY <1>1, <1>2, <1>4, <1>6 DEF TypeOK

LEMMA ReturnType == ASSUME IInv, ValueRead \/ ReadLine
                    PROVE  read' \in Seq(MessageType) /\ Len(read') <= whole
<1>1. read \in Seq(MessageType) /\ Len(read) <= whole /\ sent \in Seq(MessageType)
  BY DEF IInv, TypeInv, TypeOK
<1>2. CASE gaveUp  BY <1>1, <1>2 DEF ValueRead, ReadLine, Return
<1>3. CASE ~gaveUp
  <2>1. /\ Len(read) \in 0..(Len(sent) - 1)
        /\ read' = Append(read, sent[Len(read) + 1])
        /\ Len(read) + 1 <= whole
    BY <1>3, Delivered
  <2>2. sent[Len(read) + 1] \in MessageType  BY <1>1, <2>1
  <2> QED  BY <1>1, <2>1, <2>2, AppendProperties
<1> QED  BY <1>2, <1>3

LEMMA ValueReadType == ASSUME IInv, ValueRead PROVE TypeInv'
<1> USE DEF IInv, TypeInv
<1>1. /\ stage' = "idle"
      /\ UNCHANGED <<todo, out, sent, whole, wire, ended, buf, type, length, gaveUp>>
  BY DEF ValueRead, Return, writerVars
<1>2. read' \in Seq(MessageType) /\ Len(read') <= whole  BY ReturnType
<1> QED  BY <1>1, <1>2 DEF TypeOK, Reading

LEMMA ReadLineType == ASSUME IInv, ReadLine PROVE TypeInv'
<1> USE DEF IInv, TypeInv
<1>1. /\ stage' = "idle" /\ wire' = SubSeq(wire, LineEnd + 1, Len(wire))
      /\ UNCHANGED <<todo, out, sent, whole, ended, buf, type, length, gaveUp>>
      /\ wire \in Seq(Bytes) /\ LineEnd > 0
  BY DEF ReadLine, Return, writerVars, TypeOK
<1>2. read' \in Seq(MessageType) /\ Len(read') <= whole  BY ReturnType
<1>3. LineEnd \in 0..Len(wire)
  <2>1. LineEnd \in 1..Len(wire)  BY <1>1, LineEndIs
  <2> QED  BY <2>1
<1>4. wire' \in Seq(Bytes) /\ Len(wire') = Len(wire) - LineEnd  BY <1>1, <1>3, CutAt
<1>5. Len(wire') <= Room
  <2>1. Len(wire) \in Nat /\ Len(wire) <= Room  BY <1>1, LenProperties DEF TypeOK
  <2> QED  BY <1>3, <1>4, <2>1, SocketIOAssumption
<1> QED  BY <1>1, <1>2, <1>4, <1>5 DEF TypeOK, Reading

LEMMA ReadLinePartType == ASSUME IInv, ReadLinePart PROVE TypeInv'
<1> USE DEF IInv, TypeInv
<1>1. /\ stage' = "torn" /\ wire' = SubSeq(wire, Len(Peeked) + 1, Len(wire))
      /\ UNCHANGED <<todo, out, sent, whole, ended, buf, type, length, read, gaveUp>>
      /\ wire \in Seq(Bytes)
  BY DEF ReadLinePart, writerVars, TypeOK
<1>2. Len(Peeked) \in 0..Len(wire)
  <2> PICK k : k = IF Len(wire) < MaxLine THEN Len(wire) ELSE MaxLine  OBVIOUS
  <2>1. k \in 0..Len(wire)  BY <1>1, SocketIOAssumption
  <2>2. Peeked = SubSeq(wire, 1, k)  BY DEF Peeked
  <2> QED  BY <1>1, <2>1, <2>2, CutAt
<1>3. wire' \in Seq(Bytes) /\ Len(wire') = Len(wire) - Len(Peeked)  BY <1>1, <1>2, CutAt
<1>4. Len(wire') <= Room
  <2>1. Len(wire) \in Nat /\ Len(wire) <= Room  BY <1>1, LenProperties DEF TypeOK
  <2> QED  BY <1>2, <1>3, <2>1, SocketIOAssumption
<1> QED  BY <1>1, <1>3, <1>4 DEF TypeOK, Reading

LEMMA StutterType == ASSUME IInv, UNCHANGED vars PROVE TypeInv'
  BY DEF IInv, TypeInv, TypeOK, Reading, FieldSize, vars, writerVars, readerVars

LEMMA TypeStep == ASSUME IInv, [Next]_vars PROVE TypeInv'
<1>1. CASE WriterStep  BY <1>1, BeginType, SendType DEF WriterStep
<1>2. CASE HangUp  BY <1>2, HangUpType
<1>3. CASE ReaderStep
  BY <1>3, CallType, RecvType, RecvShortType, TypeReadType, LengthReadType,
     ValueReadType, ReadLineType, ReadLinePartType
     DEF ReaderStep
<1>4. CASE Terminated \/ UNCHANGED vars  BY <1>4, StutterType DEF Terminated
<1> QED  BY <1>1, <1>2, <1>3, <1>4 DEF Next

-------------------------------------------------------------------------------
(* The invariant is inductive: the script *)

LEMMA InitScript == ASSUME Init PROVE ScriptInv
<1>1. todo \in Scripts /\ sent = <<>>  BY DEF Init
<1>2. todo \in Seq(MessageType)  BY <1>1, ScriptAssumption
<1>3. Len(sent) = 0 /\ Len(todo) \in Nat  BY <1>1, <1>2, LenProperties
<1>4. /\ Len(sent) + Len(todo) <= Len(todo)
      /\ \A i \in 1..Len(sent) : sent[i] = todo[i]
      /\ \A i \in 1..Len(todo) : todo[i] = todo[Len(sent) + i]
  BY <1>3
<1> QED  BY <1>1, <1>4 DEF ScriptInv

LEMMA BeginScript == ASSUME IInv, Begin PROVE ScriptInv'
<1>1. /\ todo' = Tail(todo) /\ sent' = Append(sent, Head(todo)) /\ todo # <<>>
      /\ todo \in Seq(MessageType) /\ sent \in Seq(MessageType)
  BY DEF Begin, IInv, TypeInv
<1>2. PICK s \in Scripts :
         /\ Len(sent) + Len(todo) <= Len(s)
         /\ \A i \in 1..Len(sent) : sent[i] = s[i]
         /\ \A i \in 1..Len(todo) : todo[i] = s[Len(sent) + i]
  BY DEF IInv, ScriptInv
<1>3. s \in Seq(MessageType)  BY ScriptAssumption
<1>4. Len(s) \in Nat /\ Len(sent) \in Nat /\ Len(todo) \in Nat /\ Len(todo) > 0
  BY <1>1, <1>3, LenProperties, EmptySeq
<1>5. /\ Len(todo') = Len(todo) - 1
      /\ \A i \in 1..(Len(todo) - 1) : todo'[i] = todo[i + 1]
  BY <1>1
<1>6. Head(todo) = todo[1] /\ Head(todo) \in MessageType  BY <1>1, ScriptFacts DEF IInv
<1>7. /\ Len(sent') = Len(sent) + 1
      /\ \A i \in 1..Len(sent) : sent'[i] = sent[i]
      /\ sent'[Len(sent) + 1] = todo[1]
  BY <1>1, <1>6, AppendProperties
<1>8. Len(sent') + Len(todo') <= Len(s)  BY <1>2, <1>4, <1>5, <1>7
<1>9. ASSUME NEW i \in 1..Len(sent')  PROVE sent'[i] = s[i]
  <2>1. CASE i \in 1..Len(sent)  BY <1>2, <1>7, <2>1
  <2>2. CASE i = Len(sent) + 1
    <3>1. 1 \in 1..Len(todo)  BY <1>4
    <3> QED  BY <1>2, <1>7, <2>2, <3>1
  <2> QED  BY <1>4, <1>7, <2>1, <2>2
<1>10. ASSUME NEW i \in 1..Len(todo')  PROVE todo'[i] = s[Len(sent') + i]
  <2>1. i \in 1..(Len(todo) - 1) /\ i + 1 \in 1..Len(todo)
        /\ Len(sent) + (i + 1) = Len(sent') + i
    BY <1>4, <1>5, <1>7
  <2>2. todo[i + 1] = s[Len(sent) + (i + 1)]  BY <1>2, <2>1
  <2> QED  BY <1>5, <2>1, <2>2
<1> QED  BY <1>8, <1>9, <1>10 DEF ScriptInv

LEMMA HangUpScript == ASSUME IInv, HangUp PROVE ScriptInv'
<1>1. todo' = <<>> /\ sent' = sent /\ todo \in Seq(MessageType) /\ sent \in Seq(MessageType)
  BY DEF HangUp, IInv, TypeInv
<1>2. PICK s \in Scripts :
         Len(sent) + Len(todo) <= Len(s) /\ \A i \in 1..Len(sent) : sent[i] = s[i]
  BY DEF IInv, ScriptInv
<1>3. s \in Seq(MessageType)  BY ScriptAssumption
<1>4. Len(s) \in Nat /\ Len(sent) \in Nat /\ Len(todo) \in Nat /\ Len(todo') = 0
  BY <1>1, <1>3, LenProperties
<1>5. /\ Len(sent') + Len(todo') <= Len(s)
      /\ \A i \in 1..Len(sent') : sent'[i] = s[i]
      /\ \A i \in 1..Len(todo') : todo'[i] = s[Len(sent') + i]
  BY <1>1, <1>2, <1>4
<1> QED  BY <1>5 DEF ScriptInv

LEMMA ScriptStep == ASSUME IInv, [Next]_vars PROVE ScriptInv'
<1>1. CASE UNCHANGED <<todo, sent>>  BY <1>1 DEF IInv, ScriptInv
<1>2. CASE WriterStep
  <2>1. CASE Begin  BY <2>1, BeginScript
  <2>2. CASE \E k \in 1..Room : Send(k)  BY <1>1, <2>2 DEF Send
  <2> QED  BY <1>2, <2>1, <2>2 DEF WriterStep
<1>3. CASE HangUp  BY <1>3, HangUpScript
<1>4. CASE ReaderStep
  <2>1. UNCHANGED writerVars
    BY <1>4 DEF ReaderStep, Call, Recv, RecvShort, TypeRead, LengthRead, ValueRead,
                ReadLine, ReadLinePart
  <2> QED  BY <1>1, <2>1 DEF writerVars
<1>5. CASE Terminated \/ UNCHANGED vars
  BY <1>1, <1>5 DEF Terminated, vars, writerVars
<1> QED  BY <1>2, <1>3, <1>4, <1>5 DEF Next

-------------------------------------------------------------------------------
(* The invariant is inductive: the stream *)

LEMMA InitStream == ASSUME Init PROVE StreamInv
<1>1. /\ out = <<>> /\ sent = <<>> /\ whole = 0 /\ wire = <<>> /\ ended = FALSE
      /\ stage = "idle" /\ type = 0 /\ read = <<>>
  BY DEF Init
<1>2. <<>> \in Seq(Bytes) /\ sent \in Seq(MessageType) /\ Len(sent) = 0 /\ Len(read) = 0
      /\ wire \o <<>> = <<>>
  <2>1. \A S : <<>> \in Seq(S)  BY EmptySeq
  <2>2. <<>> \o <<>> = <<>>  BY <2>1, ConcatEmptySeq
  <2> QED  BY <1>1, <2>1, <2>2
<1>3. StreamOf(sent, 0) = <<>>  BY <1>2, StreamEnd
<1>4. WriterInv(<<>>)  BY <1>1, <1>2 DEF WriterInv
<1>5. Framed(<<>>, "idle", buf, type, length, 0, sent)
  BY <1>1, <1>2, <1>3 DEF Framed, Fields
<1>6. InStep(wire \o <<>>)  BY <1>1, <1>2, <1>5 DEF InStep
<1> QED  BY <1>2, <1>4, <1>6 DEF StreamInv

LEMMA BeginStream == ASSUME IInv, Begin PROVE StreamInv'
<1>1. /\ out' = Encode(Head(todo)) /\ sent' = Append(sent, Head(todo))
      /\ ~ended /\ out = <<>> /\ todo # <<>>
      /\ UNCHANGED <<whole, wire, ended, stage, buf, type, length, read, gaveUp>>
  BY DEF Begin, readerVars
<1> PICK m, e : m = Head(todo) /\ e = Encode(m)  OBVIOUS
<1>2. m \in MessageType /\ OneFormat(sent)  BY <1>1, ScriptFacts DEF IInv
<1>3. e \in Seq(Bytes) /\ e # <<>>  BY <1>2, EncodeIs
<1>4. /\ wire \in Seq(Bytes) /\ sent \in Seq(MessageType) /\ buf \in Seq(Bytes)
      /\ stage \in Fields \cup {"idle", "torn"}
  BY DEF IInv, TypeInv, TypeOK, Fields
<1>5. PICK lost \in Seq(Bytes) : WriterInv(lost) /\ InStep(wire \o lost)
  BY DEF IInv, StreamInv
<1>6. lost = <<>> /\ whole = Len(sent)  BY <1>1, <1>5 DEF WriterInv
<1>7. wire \o lost = wire  BY <1>4, <1>6, ConcatEmptySeq
<1>8. Len(sent') = Len(sent) + 1  BY <1>1, <1>2, <1>4, AppendProperties
<1>9. WriterInv(e)'  BY <1>1, <1>3, <1>6, <1>8 DEF WriterInv
<1>10. ASSUME ~gaveUp, stage # "torn"
       PROVE  Framed(wire \o e, stage, buf, type, length, Len(read), Append(sent, m))
  <2>1. Framed(wire, stage, buf, type, length, Len(read), sent)
    BY <1>5, <1>7, <1>10 DEF InStep
  <2>2. stage \in Fields \cup {"idle"}  BY <1>4, <1>10
  <2> QED  BY <1>2, <1>4, <2>1, <2>2, FramedBegin
<1>11. InStep(wire \o e)'  BY <1>1, <1>10 DEF InStep
<1> QED  BY <1>3, <1>9, <1>11 DEF StreamInv

LEMMA SendStream == ASSUME IInv, NEW k \in 1..Room, Send(k) PROVE StreamInv'
<1>1. /\ k \in 0..Len(out) /\ Len(out) # 0
      /\ wire' = wire \o SubSeq(out, 1, k) /\ out' = SubSeq(out, k + 1, Len(out))
      /\ whole' = IF k = Len(out) THEN whole + 1 ELSE whole
      /\ UNCHANGED <<todo, sent, ended, stage, buf, type, length, read, gaveUp>>
      /\ out \in Seq(Bytes) /\ wire \in Seq(Bytes) /\ whole \in Nat
      /\ Len(sent) \in Nat
  <2>1. k \in Nat /\ k >= 1  OBVIOUS
  <2>2. out \in Seq(Bytes) /\ Len(out) \in Nat  BY LenProperties DEF IInv, TypeInv, TypeOK
  <2>3. Len(sent) \in Nat  BY LenProperties DEF IInv, TypeInv
  <2> QED  BY <2>1, <2>2, <2>3 DEF Send, readerVars, IInv, TypeInv, TypeOK
<1>2. PICK lost \in Seq(Bytes) : WriterInv(lost) /\ InStep(wire \o lost)
  BY DEF IInv, StreamInv
<1>3. ~ended /\ lost = out /\ whole + 1 = Len(sent)  BY <1>1, <1>2, EmptySeq DEF WriterInv
<1> PICK front, rest : front = SubSeq(out, 1, k) /\ rest = SubSeq(out, k + 1, Len(out))
  OBVIOUS
<1>4. /\ front \in Seq(Bytes) /\ rest \in Seq(Bytes) /\ front \o rest = out
      /\ Len(rest) = Len(out) - k
  BY <1>1, CutAt
<1>5. rest = <<>> <=> k = Len(out)
  <2>1. Len(out) \in Nat  BY <1>1, LenProperties
  <2>2. rest = <<>> <=> Len(rest) = 0  BY <1>4, EmptySeq
  <2>3. Len(rest) = Len(out) - k  BY <1>4
  <2>4. k \in Nat  OBVIOUS
  <2> QED  BY <2>1, <2>2, <2>3, <2>4
<1>6. WriterInv(rest)'  BY <1>1, <1>3, <1>5 DEF WriterInv
<1>7. wire' \o rest = wire \o lost
  <2>1. Associates(wire, front, rest)  BY <1>1, <1>4, Associative
  <2> QED  BY <1>1, <1>3, <1>4, <2>1 DEF Associates
<1>8. InStep(wire \o rest)'  BY <1>1, <1>2, <1>7 DEF InStep
<1> QED  BY <1>4, <1>6, <1>8 DEF StreamInv

LEMMA HangUpStream == ASSUME IInv, HangUp PROVE StreamInv'
<1>1. /\ out' = <<>> /\ ended' = TRUE
      /\ UNCHANGED <<sent, whole, wire, stage, buf, type, length, read, gaveUp>>
  BY DEF HangUp, readerVars
<1>2. PICK lost \in Seq(Bytes) : WriterInv(lost) /\ InStep(wire \o lost)
  BY DEF IInv, StreamInv
<1>3. WriterInv(lost)'  BY <1>1, <1>2 DEF WriterInv
<1>4. InStep(wire \o lost)'  BY <1>1, <1>2 DEF InStep
<1> QED  BY <1>3, <1>4 DEF StreamInv

\* A step of the reader leaves what the writer lost.
LEMMA ReaderKeeps ==
    ASSUME UNCHANGED writerVars, UNCHANGED ended, NEW lost \in Seq(Bytes), WriterInv(lost)
    PROVE  WriterInv(lost)'
  BY DEF writerVars, WriterInv

LEMMA CallStream ==
    ASSUME IInv, Call, NEW lost \in Seq(Bytes), InStep(wire \o lost)
    PROVE  InStep(wire \o lost)'
<1>1. /\ sent \in Seq(MessageType) /\ wire \in Seq(Bytes) /\ wire # <<>>
      /\ stage = "idle" /\ sent[1].format # "line"
      /\ stage' = (IF sent[1].format = "prefix" THEN "length" ELSE "type")
      /\ buf' = <<>>
      /\ UNCHANGED <<sent, wire, type, length, read, gaveUp>>
  BY DEF IInv, TypeInv, TypeOK, Call, Format, writerVars
<1>2. OneFormat(sent)  BY ScriptFacts DEF IInv
<1> SUFFICES ASSUME ~gaveUp, stage' # "torn"
             PROVE  Framed(wire \o lost, stage', <<>>, type, length, Len(read), sent)
  BY <1>1 DEF InStep
<1>3. Framed(wire \o lost, "idle", buf, type, length, Len(read), sent)
  BY <1>1 DEF InStep
<1> QED  BY <1>1, <1>2, <1>3, FramedCall

LEMMA RecvStream ==
    ASSUME IInv, NEW k \in 1..Room, Recv(k), NEW lost \in Seq(Bytes), InStep(wire \o lost)
    PROVE  InStep(wire \o lost)'
<1>1. /\ sent \in Seq(MessageType) /\ wire \in Seq(Bytes) /\ buf \in Seq(Bytes)
      /\ stage \in Fields /\ stage' \in {"torn", stage} /\ k <= Len(wire)
      /\ buf' = buf \o SubSeq(wire, 1, k)
      /\ wire' = SubSeq(wire, k + 1, Len(wire))
      /\ UNCHANGED <<sent, type, length, read, gaveUp>>
  BY DEF IInv, TypeInv, TypeOK, Recv, Reading, Fields, writerVars
<1>2. k \in 0..Len(wire)  BY <1>1, LenProperties
<1> SUFFICES ASSUME ~gaveUp, stage' # "torn"
             PROVE  Framed(wire' \o lost, stage, buf', type, length, Len(read), sent)
  BY <1>1 DEF InStep
<1>3. Framed(wire \o lost, stage, buf, type, length, Len(read), sent)
  BY <1>1 DEF InStep, Fields
<1>4. Framed(SubSeq(wire, k + 1, Len(wire)) \o lost, stage, buf \o SubSeq(wire, 1, k),
             type, length, Len(read), sent)
  BY <1>1, <1>2, <1>3, FramedRecv
<1> QED  BY <1>1, <1>4

LEMMA TypeReadStream ==
    ASSUME IInv, TypeRead, NEW lost \in Seq(Bytes), InStep(wire \o lost)
    PROVE  InStep(wire \o lost)'
<1>1. /\ sent \in Seq(MessageType) /\ wire \in Seq(Bytes) /\ buf \in Seq(Bytes)
      /\ stage = "type" /\ stage' = "length" /\ Missing = 0
      /\ type' = Signed(Ntohl(buf)) /\ buf' = <<>>
      /\ UNCHANGED <<sent, wire, length, read, gaveUp>>
  BY DEF IInv, TypeInv, TypeOK, TypeRead, writerVars
<1>2. OneFormat(sent)  BY ScriptFacts DEF IInv
<1>3. Len(buf) = Word  BY <1>1, BaseType, IntType DEF Missing, FieldSize, IInv
<1> PICK rest, r : rest = wire \o lost /\ r = Len(read)  OBVIOUS
<1>4. rest \in Seq(Bytes)  BY <1>1, ConcatProperties
<1> SUFFICES ASSUME ~gaveUp
             PROVE  Framed(rest, "length", <<>>, Signed(Ntohl(buf)), length, r, sent)
  BY <1>1 DEF InStep
<1>5. Framed(rest, "type", buf, type, length, r, sent)  BY <1>1 DEF InStep
<1> QED  BY <1>1, <1>2, <1>3, <1>4, <1>5, FramedType

LEMMA LengthReadStream ==
    ASSUME IInv, LengthRead, NEW lost \in Seq(Bytes), InStep(wire \o lost)
    PROVE  InStep(wire \o lost)'
<1>1. /\ sent \in Seq(MessageType) /\ wire \in Seq(Bytes) /\ buf \in Seq(Bytes)
      /\ stage = "length" /\ Missing = 0
      /\ length' = Signed(Ntohl(buf)) /\ buf' = <<>>
      /\ UNCHANGED <<sent, wire, type, read>>
      /\ \/ gaveUp' = TRUE
         \/ /\ stage' = "value" /\ gaveUp' = gaveUp
            /\ sent[1].format = "request" => ~(length' < 0)
  BY DEF IInv, TypeInv, TypeOK, LengthRead, Format, writerVars
<1>2. OneFormat(sent)  BY ScriptFacts DEF IInv
<1>3. Len(buf) = Word  BY <1>1, BaseType, IntType DEF Missing, FieldSize, IInv
<1> PICK rest, r, n : rest = wire \o lost /\ r = Len(read) /\ n = Signed(Ntohl(buf))
  OBVIOUS
<1>4. rest \in Seq(Bytes)  BY <1>1, ConcatProperties
<1> SUFFICES ASSUME ~gaveUp, stage' = "value", sent[1].format = "request" => ~(n < 0)
             PROVE  Framed(rest, "value", <<>>, type, n, r, sent)
  BY <1>1 DEF InStep
<1>5. Framed(rest, "length", buf, type, length, r, sent)  BY <1>1 DEF InStep
<1>6. sent[1].format = "request" => n >= 0
  <2>1. n \in Int  BY <1>1, <1>3, IntOfBytes
  <2> QED  BY <2>1
<1> QED  BY <1>1, <1>2, <1>3, <1>4, <1>5, <1>6, FramedLength

LEMMA ReturnStream ==
    ASSUME IInv, ValueRead \/ ReadLine, NEW lost \in Seq(Bytes), InStep(wire \o lost)
    PROVE  InStep(wire \o lost)'
<1>1. /\ stage' = "idle" /\ read \in Seq(MessageType) /\ sent \in Seq(MessageType)
      /\ UNCHANGED <<sent, buf, type, length, gaveUp>>
  BY DEF IInv, TypeInv, ValueRead, ReadLine, Return, writerVars
<1> SUFFICES ASSUME ~gaveUp
             PROVE  Framed(wire' \o lost, "idle", buf, type, length, Len(read'), sent)
  BY <1>1 DEF InStep
<1>2. /\ Len(read) \in 0..(Len(sent) - 1)
      /\ read' = Append(read, sent[Len(read) + 1])
      /\ Framed(wire' \o lost, "idle", buf, type, length, Len(read) + 1, sent)
  BY LineStep, ValueStep DEF IInv
<1>3. Len(read') = Len(read) + 1
  <2>1. sent[Len(read) + 1] \in MessageType  BY <1>1, <1>2
  <2> QED  BY <1>1, <1>2, <2>1, AppendProperties
<1> QED  BY <1>2, <1>3

\* After a failure nothing is claimed.
LEMMA GaveUpStream ==
    ASSUME IInv, RecvShort \/ ReadLinePart, NEW lost
    PROVE  InStep(wire \o lost)'
<1>1. gaveUp' = TRUE \/ stage' = "torn"  BY DEF RecvShort, ReadLinePart
<1> QED  BY <1>1 DEF InStep

LEMMA ReaderStream == ASSUME IInv, ReaderStep PROVE StreamInv'
<1>1. PICK lost \in Seq(Bytes) : WriterInv(lost) /\ InStep(wire \o lost)
  BY DEF IInv, StreamInv
<1>2. UNCHANGED writerVars /\ UNCHANGED ended
  BY DEF ReaderStep, Call, Recv, RecvShort, TypeRead, LengthRead, ValueRead,
         ReadLine, ReadLinePart
<1>3. WriterInv(lost)'  BY <1>1, <1>2, ReaderKeeps
<1>4. InStep(wire \o lost)'
  BY <1>1, CallStream, RecvStream, TypeReadStream, LengthReadStream, ReturnStream,
     GaveUpStream DEF ReaderStep
<1> QED  BY <1>3, <1>4 DEF StreamInv

LEMMA StutterStream == ASSUME IInv, UNCHANGED vars PROVE StreamInv'
<1>1. PICK lost \in Seq(Bytes) : WriterInv(lost) /\ InStep(wire \o lost)
  BY DEF IInv, StreamInv
<1>2. UNCHANGED <<out, sent, whole, wire, ended, stage, buf, type, length, read, gaveUp>>
  BY DEF vars, writerVars, readerVars
<1>3. WriterInv(lost)'  BY <1>1, <1>2 DEF WriterInv
<1>4. InStep(wire \o lost)'  BY <1>1, <1>2 DEF InStep
<1> QED  BY <1>3, <1>4 DEF StreamInv

LEMMA StreamStep == ASSUME IInv, [Next]_vars PROVE StreamInv'
<1>1. CASE WriterStep  BY <1>1, BeginStream, SendStream DEF WriterStep
<1>2. CASE HangUp  BY <1>2, HangUpStream
<1>3. CASE ReaderStep  BY <1>3, ReaderStream
<1>4. CASE Terminated \/ UNCHANGED vars  BY <1>4, StutterStream DEF Terminated
<1> QED  BY <1>1, <1>2, <1>3, <1>4 DEF Next

LEMMA Inductive == Spec => []IInv
<1>1. Init => IInv  BY InitType, InitScript, InitStream DEF IInv
<1>2. IInv /\ [Next]_vars => IInv'  BY TypeStep, ScriptStep, StreamStep DEF IInv
<1> QED  BY <1>1, <1>2, PTL DEF Spec

-------------------------------------------------------------------------------
(* What holds of every behaviour *)

\* The values of every variable: the stream never outgrows the kernel's buffer, a field
\* (recvn, SocketIO.cpp) never gets more bytes than it has, and no message is read
\* that the kernel did not get entirely.
THEOREM TypeCorrect == Spec => []TypeOK
<1>1. IInv => TypeOK  BY DEF IInv, TypeInv
<1> QED  BY <1>1, Inductive, PTL

\* Whatever parts the stream is cut into, between two calls the reader stands at the
\* start of a message and what is left are the messages not yet read, in all four
\* formats of SocketIO.cpp and its callers.
THEOREM StreamCorrect == Spec => []StreamInStep
<1>1. ASSUME IInv  PROVE StreamInStep
  <2> SUFFICES ASSUME stage = "idle", ~gaveUp
               PROVE  IF ended THEN IsPrefix(wire, StreamOf(sent, Len(read)))
                      ELSE wire \o out = StreamOf(sent, Len(read))
    BY DEF StreamInStep
  <2>1. PICK lost \in Seq(Bytes) : WriterInv(lost) /\ InStep(wire \o lost)
    BY <1>1 DEF IInv, StreamInv
  <2>2. wire \o lost = StreamOf(sent, Len(read))  BY <2>1 DEF InStep, Framed
  <2>3. wire \in Seq(Bytes)  BY <1>1 DEF IInv, TypeInv, TypeOK
  <2>4. CASE ended
    <3>1. IsPrefix(wire, wire \o lost)
      <4>0. PICK all, n : all = wire \o lost /\ n = Len(wire)  OBVIOUS
      <4>1. all \in Seq(Bytes) /\ n \in 0..Len(all)
        BY <2>1, <2>3, <4>0, LenProperties, ConcatProperties
      <4> PICK u, v : u = SubSeq(all, 1, n) /\ v = SubSeq(all, n + 1, Len(all))  OBVIOUS
      <4>2. u \in Seq(Bytes) /\ v \in Seq(Bytes) /\ u \o v = all /\ Len(u) = n
        BY <4>1, CutAt
      <4>6. Joined(u, v, wire, lost)  BY <4>0, <4>2 DEF Joined
      <4>3. u = wire  BY <2>1, <2>3, <4>0, <4>2, <4>6, CutJoined
      <4>4. SubSeq(wire, 1, n) = wire  BY <2>3, <4>0, SubSeqFull
      <4>5. n <= Len(all)  BY <4>1
      <4> QED  BY <4>0, <4>3, <4>4, <4>5 DEF IsPrefix
    <3> QED  BY <2>2, <2>4, <3>1
  <2>5. CASE ~ended  BY <2>1, <2>2, <2>5 DEF WriterInv
  <2> QED  BY <2>4, <2>5
<1> QED  BY <1>1, Inductive, PTL

-------------------------------------------------------------------------------
(* Framing is a channel of messages *)

Broken == gaveUp \/ stage = "torn"

\* The message the reader is at.
LEMMA Current ==
    ASSUME IInv, Len(read) \in 0..(Len(sent) - 1)
    PROVE  /\ Channel!NextMessage \in Sendable
           /\ Channel!NextMessage = sent[Len(read) + 1]
           /\ Channel!NextMessage.format = Format
           /\ Len(read) < Len(sent)
<1>1. Len(read) + 1 \in 1..Len(sent) /\ Len(read) < Len(sent)  OBVIOUS
<1>2. /\ OneFormat(sent)
      /\ \A i \in 1..Len(sent) : sent[i] \in Sendable
  BY ScriptFacts DEF IInv
<1> QED  BY <1>1, <1>2 DEF Channel!NextMessage, OneFormat, Format

\* Within a call there is one.
LEMMA WithinCall ==
    ASSUME IInv, Reading, ~gaveUp
    PROVE  Len(read) \in 0..(Len(sent) - 1)
<1>1. PICK lost \in Seq(Bytes) : InStep(wire \o lost)  BY DEF IInv, StreamInv
<1> PICK rest, r : rest = wire \o lost /\ r = Len(read)  OBVIOUS
<1>2. Framed(rest, stage, buf, type, length, r, sent)  BY <1>1 DEF InStep, Reading
<1>3. r \in 0..Len(sent) /\ r < Len(sent)  BY <1>2 DEF Framed, Reading, Fields
<1>4. Len(sent) \in Nat  BY LenProperties DEF IInv, TypeInv
<1> QED  BY <1>3, <1>4

LEMMA GivesUp ==
    ASSUME IInv, Len(read) \in 0..(Len(sent) - 1),
           ended \/ sent[Len(read) + 1] \in FragileMessages,
           ~Broken, Broken', UNCHANGED <<sent, read, ended>>
    PROVE  Channel!GiveUp
<1>1. /\ Channel!NextMessage = sent[Len(read) + 1]
      /\ Len(read) < Len(sent)
  BY Current
<1>2. (gaveUp \/ stage = "torn")' = TRUE  BY DEF Broken
<1> QED  BY <1>1, <1>2 DEF Channel!GiveUp

LEMMA Stutters ==
    ASSUME UNCHANGED <<sent, read, ended>>, Broken' <=> Broken
    PROVE  UNCHANGED Channel!vars
<1>1. (gaveUp \/ stage = "torn")' = (gaveUp \/ stage = "torn")  BY DEF Broken
<1> QED  BY <1>1 DEF Channel!vars

LEMMA BeginIsSend == ASSUME IInv, Begin PROVE \E m \in Sendable : Channel!Send(m)
<1>1. /\ ~ended /\ todo # <<>> /\ sent' = Append(sent, Head(todo))
      /\ UNCHANGED <<ended, stage, read, gaveUp>>
  BY DEF Begin, readerVars
<1>2. Head(todo) \in Sendable  BY <1>1, ScriptFacts DEF IInv
<1>3. (gaveUp \/ stage = "torn")' = (gaveUp \/ stage = "torn")  BY <1>1
<1>4. Channel!Send(Head(todo))  BY <1>1, <1>3 DEF Channel!Send
<1> QED  BY <1>2, <1>4

LEMMA HangUpIsClose == ASSUME HangUp PROVE Channel!Close
<1>1. /\ ended' = TRUE
      /\ UNCHANGED <<sent, stage, read, gaveUp>>
  BY DEF HangUp, readerVars
<1>2. (gaveUp \/ stage = "torn")' = (gaveUp \/ stage = "torn")  BY <1>1
<1> QED  BY <1>1, <1>2 DEF Channel!Close

LEMMA ReturnIsDeliver ==
    ASSUME IInv, ValueRead \/ ReadLine
    PROVE  Channel!Deliver \/ UNCHANGED Channel!vars
<1>1. /\ stage # "torn" /\ stage' = "idle"
      /\ UNCHANGED <<sent, ended, gaveUp>>
      /\ gaveUp => read' = read
  BY DEF ValueRead, ReadLine, Return, writerVars
<1>2. CASE gaveUp
  <2>1. Broken' <=> Broken  BY <1>1, <1>2 DEF Broken
  <2> QED  BY <1>1, <1>2, <2>1, Stutters
<1>3. CASE ~gaveUp
  <2>1. /\ Len(read) \in 0..(Len(sent) - 1)
        /\ read' = Append(read, sent[Len(read) + 1])
    BY <1>3, Delivered
  <2>2. /\ Channel!NextMessage = sent[Len(read) + 1]
        /\ Len(read) < Len(sent)
    BY <2>1, Current
  <2>3. ~(gaveUp \/ stage = "torn") /\ ~(gaveUp \/ stage = "torn")'  BY <1>1, <1>3
  <2>4. (gaveUp \/ stage = "torn")' = (gaveUp \/ stage = "torn")  BY <2>3
  <2> QED  BY <1>1, <2>1, <2>2, <2>3, <2>4 DEF Channel!Deliver
<1> QED  BY <1>2, <1>3

LEMMA RecvIsGiveUp ==
    ASSUME IInv, NEW k \in 1..Room, Recv(k)
    PROVE  Channel!GiveUp \/ UNCHANGED Channel!vars
<1>1. /\ Reading /\ UNCHANGED <<sent, read, ended, gaveUp>>
      /\ stage' = stage \/ (stage' = "torn" /\ Format = "reply")
      /\ stage # "torn"
  BY DEF Recv, Reading, writerVars
<1>2. CASE gaveUp \/ stage' = stage
  <2>1. Broken' <=> Broken  BY <1>1, <1>2 DEF Broken
  <2> QED  BY <1>1, <2>1, Stutters
<1>3. CASE ~gaveUp /\ stage' = "torn" /\ Format = "reply"
  <2>1. Len(read) \in 0..(Len(sent) - 1)  BY <1>1, <1>3, WithinCall
  <2>2. sent[Len(read) + 1] \in FragileMessages
    BY <1>3, <2>1, Current DEF FragileMessages
  <2>3. ~Broken /\ Broken'  BY <1>1, <1>3 DEF Broken
  <2> QED  BY <1>1, <2>1, <2>2, <2>3, GivesUp
<1> QED  BY <1>1, <1>2, <1>3

LEMMA RecvShortIsGiveUp ==
    ASSUME IInv, RecvShort
    PROVE  Channel!GiveUp \/ UNCHANGED Channel!vars
<1>1. /\ Reading /\ ended /\ gaveUp' = TRUE /\ UNCHANGED <<sent, read, ended>>
      /\ stage # "torn"
  BY DEF RecvShort, Reading, writerVars
<1>2. CASE gaveUp
  <2>1. Broken' <=> Broken  BY <1>1, <1>2 DEF Broken
  <2> QED  BY <1>1, <2>1, Stutters
<1>3. CASE ~gaveUp
  <2>1. Len(read) \in 0..(Len(sent) - 1)  BY <1>1, <1>3, WithinCall
  <2>2. ~Broken /\ Broken'  BY <1>1, <1>3 DEF Broken
  <2> QED  BY <1>1, <2>1, <2>2, GivesUp
<1> QED  BY <1>2, <1>3

LEMMA LengthReadIsGiveUp ==
    ASSUME IInv, LengthRead
    PROVE  Channel!GiveUp \/ UNCHANGED Channel!vars
<1>1. /\ stage = "length" /\ Missing = 0 /\ UNCHANGED <<sent, read, ended>>
      /\ length' = Signed(Ntohl(buf)) /\ buf \in Seq(Bytes)
      /\ \/ gaveUp' = gaveUp /\ stage' # "torn"
         \/ /\ gaveUp' = TRUE /\ Format = "request"
            /\ length' < 0 \/ length' > MAX_PACKET_SIZE
  BY DEF LengthRead, writerVars, IInv, TypeInv
<1>2. CASE gaveUp \/ (gaveUp' = gaveUp /\ stage' # "torn")
  <2>1. Broken' <=> Broken  BY <1>1, <1>2 DEF Broken
  <2> QED  BY <1>1, <2>1, Stutters
<1>3. CASE ~gaveUp /\ gaveUp' = TRUE /\ Format = "request"
           /\ (length' < 0 \/ length' > MAX_PACKET_SIZE)
  <2>1. Len(read) \in 0..(Len(sent) - 1)  BY <1>1, <1>3, WithinCall DEF Reading
  <2>2. PICK lost \in Seq(Bytes) : InStep(wire \o lost)  BY DEF IInv, StreamInv
  <2>10. PICK rest, r : rest = wire \o lost /\ r = Len(read)  OBVIOUS
  <2>3. Framed(rest, "length", buf, type, length, r, sent)
    BY <1>1, <1>3, <2>2, <2>10 DEF InStep
  <2>4. sent \in Seq(MessageType) /\ OneFormat(sent) /\ rest \in Seq(Bytes)
    BY <2>10, ScriptFacts, ConcatProperties DEF IInv, TypeInv, TypeOK
  <2>5. Len(buf) = Word  BY <1>1, BaseType, IntType DEF Missing, FieldSize, IInv
  <2>6. buf = Htonl(Len(sent[r + 1].body))  
    <3>1. buf \in Seq(Bytes)  BY <1>1
    <3> QED  BY <2>3, <2>4, <2>5, <3>1, LengthIs
  <2>7. Signed(Ntohl(buf)) \notin 0..MAX_PACKET_SIZE
    <3>1. Signed(Ntohl(buf)) \in Int  BY <1>1, <2>5, IntOfBytes
    <3> QED  BY <1>1, <1>3, <3>1, SocketIOAssumption
  <2>8. sent[Len(read) + 1] \in FragileMessages
    BY <1>3, <2>1, <2>6, <2>7, <2>10, Current DEF FragileMessages
  <2>9. ~Broken /\ Broken'  BY <1>1, <1>3 DEF Broken
  <2> QED  BY <1>1, <2>1, <2>8, <2>9, GivesUp
<1> QED  BY <1>1, <1>2, <1>3

LEMMA ReadLinePartIsGiveUp ==
    ASSUME IInv, ReadLinePart
    PROVE  Channel!GiveUp \/ UNCHANGED Channel!vars
<1>1. /\ stage = "idle" /\ stage' = "torn" /\ Format = "line" /\ wire # <<>>
      /\ UNCHANGED <<sent, read, ended, gaveUp>>
  BY DEF ReadLinePart, writerVars
<1>2. CASE gaveUp
  <2>1. Broken' <=> Broken  BY <1>1, <1>2 DEF Broken
  <2> QED  BY <1>1, <2>1, Stutters
<1>3. CASE ~gaveUp
  <2>1. PICK lost \in Seq(Bytes) : InStep(wire \o lost)  BY DEF IInv, StreamInv
  <2>2. Len(read) \in 0..Len(sent) /\ wire \o lost = StreamOf(sent, Len(read))
    BY <1>1, <1>3, <2>1 DEF InStep, Framed
  <2>3. Len(read) \in 0..(Len(sent) - 1)
    BY <1>1, <2>2, SomethingCame DEF IInv, TypeInv, TypeOK
  <2>4. sent[Len(read) + 1] \in FragileMessages
    BY <1>1, <2>3, Current DEF FragileMessages
  <2>5. ~Broken /\ Broken'  BY <1>1, <1>3 DEF Broken
  <2> QED  BY <1>1, <2>3, <2>4, <2>5, GivesUp
<1> QED  BY <1>2, <1>3

LEMMA OtherStutters ==
    ASSUME \/ \E k \in 1..Room : Send(k)
           \/ Call \/ TypeRead \/ Terminated \/ UNCHANGED vars
    PROVE  UNCHANGED Channel!vars
<1>1. UNCHANGED <<sent, read, ended>>
  BY DEF Send, Call, TypeRead, Terminated, vars, writerVars, readerVars
<1>2. Broken' <=> Broken
  BY DEF Broken, Send, Call, TypeRead, Terminated, vars, writerVars, readerVars
<1> QED  BY <1>1, <1>2, Stutters

\* A message written is a message read, for all four formats: SocketIO implements the
\* channel of messages, in which a reader gives up only when the writer left or at a
\* message it may give up on.
THEOREM SocketIOImplementsChannel == Spec => ImplementsChannel
<1>1. Init => Channel!Init
  <2> SUFFICES ASSUME Init PROVE Channel!Init  OBVIOUS
  <2>1. (gaveUp \/ stage = "torn") = FALSE  BY DEF Init
  <2> QED  BY <2>1 DEF Init, Channel!Init
<1>2. ASSUME IInv, [Next]_vars  PROVE [Channel!Next]_(Channel!vars)
  <2>1. CASE WriterStep
    BY <1>2, <2>1, BeginIsSend, OtherStutters DEF WriterStep, Channel!Next
  <2>2. CASE HangUp  BY <2>2, HangUpIsClose DEF Channel!Next
  <2>3. CASE ReaderStep
    BY <1>2, <2>3, OtherStutters, RecvIsGiveUp, RecvShortIsGiveUp, LengthReadIsGiveUp,
       ReturnIsDeliver, ReadLinePartIsGiveUp DEF ReaderStep, Channel!Next
  <2>4. CASE Terminated \/ UNCHANGED vars  BY <2>4, OtherStutters
  <2> QED  BY <1>2, <2>1, <2>2, <2>3, <2>4 DEF Next
<1> QED  BY <1>1, <1>2, Inductive, PTL DEF Spec, ImplementsChannel, Channel!ChannelSpec
===============================================================================
