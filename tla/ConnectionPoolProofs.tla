------------------------- MODULE ConnectionPoolProofs -------------------------
(***************************************************************************)
(* The connection pool hands out each connection to one thread at a time,  *)
(* and never takes from an empty list, for any number of threads and       *)
(* connections.                                                            *)
(***************************************************************************)
EXTENDS ConnectionPool, FiniteSetTheorems, TLAPS

-------------------------------------------------------------------------------
(* The inductive invariant *)

TypeInv ==
    /\ connList \in Seq(Conns)
    /\ reserve \in Nat
    /\ free \in Int
    /\ used \in Int
    /\ pc \in [Threads -> {"idle", "wait", "take", "using", "post"}]
    /\ con \in [Threads -> Conns \cup {NoConn}]

\* A thread holds a connection exactly while it uses it.
HoldInv == \A t \in Threads : con[t] # NoConn <=> pc[t] = "using"

CountInv ==
    /\ free = Len(connList)
    /\ used = Cardinality(At("using"))

\* Every connection in the list is one the semaphore counts, one a thread was let
\* through for, or one whose release has still to be posted.
Balanced ==
    /\ reserve + Cardinality(At("take")) + Cardinality(At("post")) = Len(connList)
    /\ Len(connList) + Cardinality(At("using")) = Cardinality(Conns)

\* After DestroyPool the semaphore counts connections that are gone, and the size
\* of the list keeps every thread away from it.
Retired ==
    /\ connList = <<>>
    /\ \A t \in Threads : pc[t] = "idle"
    /\ reserve = Cardinality(Conns)

IInv ==
    /\ TypeInv
    /\ HoldInv
    /\ ConnectionIsExclusive
    /\ CountInv
    /\ Balanced \/ Retired

-------------------------------------------------------------------------------
(* Counting threads *)

LEMMA AtFinite ==
    ASSUME NEW l PROVE IsFiniteSet(At(l)) /\ Cardinality(At(l)) \in Nat
<1>1. At(l) \subseteq Threads  BY DEF At
<1> QED  BY <1>1, ConnectionPoolAssumption, FS_Subset, FS_CardinalityType

LEMMA AtNobody == ASSUME NEW l, \A t \in Threads : pc[t] # l
                  PROVE  Cardinality(At(l)) = 0
<1>1. At(l) = {}  BY DEF At
<1> QED  BY <1>1, FS_EmptySet

LEMMA AtArrives ==
    ASSUME NEW m, NEW t \in Threads, t \notin At(m), At(m)' = At(m) \cup {t}
    PROVE  Cardinality(At(m)') = Cardinality(At(m)) + 1
  BY AtFinite, FS_AddElement

LEMMA AtLeaves ==
    ASSUME NEW l, NEW t \in Threads, t \in At(l), At(l)' = At(l) \ {t}
    PROVE  Cardinality(At(l)') = Cardinality(At(l)) - 1
  BY AtFinite, FS_RemoveElement

LEMMA ConnsFinite == Cardinality(Conns) \in Nat
  BY ConnectionPoolAssumption, FS_CardinalityType

-------------------------------------------------------------------------------
LEMMA IInvInit == Init => IInv
<1> SUFFICES ASSUME Init PROVE IInv
  OBVIOUS
<1>1. connList \in Seq(Conns) /\ Len(connList) = Cardinality(Conns)
  BY ConnsFinite DEF Init
<1>2. TypeInv  BY <1>1, ConnsFinite DEF Init, TypeInv
<1>3. HoldInv  BY DEF Init, HoldInv
<1>4. ConnectionIsExclusive
  BY <1>1, ConnsFinite, ConnectionPoolAssumption DEF Init, ConnectionIsExclusive
<1>5. \A l \in {"take", "using", "post"} : Cardinality(At(l)) = 0
  BY AtNobody DEF Init
<1>6. CountInv  BY <1>1, <1>5 DEF Init, CountInv
<1>7. Balanced  BY <1>1, <1>5, ConnsFinite DEF Init, Balanced
<1> QED  BY <1>2, <1>3, <1>4, <1>6, <1>7 DEF IInv

LEMMA IInvNext == IInv /\ [Next]_vars => IInv'
<1> SUFFICES ASSUME IInv, [Next]_vars PROVE IInv'
  OBVIOUS
<1> USE DEF IInv
<1>0. /\ Cardinality(At("take")) \in Nat
      /\ Cardinality(At("using")) \in Nat
      /\ Cardinality(At("post")) \in Nat
  BY AtFinite
<1>1. ASSUME UNCHANGED vars PROVE IInv'
  BY <1>1 DEF vars, TypeInv, HoldInv, ConnectionIsExclusive, CountInv, Balanced,
              Retired, At
<1>2. ASSUME NEW t \in Threads, GetCheck(t) PROVE IInv'
  <2>1. /\ At("take")' = At("take")
        /\ At("using")' = At("using")
        /\ At("post")' = At("post")
    <3>1. At("take")' = At("take") /\ At("using")' = At("using") /\ At("post")' = At("post")
      BY <1>2 DEF GetCheck, At, TypeInv
    <3> QED  BY <3>1
  <2>2. Balanced  BY <1>2 DEF GetCheck, Retired
  <2>3. TypeInv' /\ HoldInv' /\ ConnectionIsExclusive'
    BY <1>2 DEF GetCheck, TypeInv, HoldInv, ConnectionIsExclusive
  <2>4. CountInv' /\ Balanced'
    BY <1>2, <2>1, <2>2 DEF GetCheck, CountInv, Balanced
  <2> QED  BY <2>3, <2>4
<1>3. ASSUME NEW t \in Threads, GetWait(t) PROVE IInv'
  <2>1. /\ Cardinality(At("take")') = Cardinality(At("take")) + 1
        /\ At("using")' = At("using")
        /\ At("post")' = At("post")
    <3>1. t \notin At("take") /\ At("take")' = At("take") \cup {t}
      BY <1>3 DEF GetWait, At, TypeInv
    <3>2. At("using")' = At("using") /\ At("post")' = At("post")
      BY <1>3 DEF GetWait, At, TypeInv
    <3> QED  BY <3>1, <3>2, AtArrives
  <2>2. Balanced  BY <1>3 DEF GetWait, Retired
  <2>3. TypeInv' /\ HoldInv' /\ ConnectionIsExclusive'
    BY <1>3 DEF GetWait, TypeInv, HoldInv, ConnectionIsExclusive
  <2>4. CountInv' /\ Balanced'
    BY <1>0, <1>3, <2>1, <2>2, ConnsFinite, SMTT(30) DEF GetWait, CountInv, Balanced, TypeInv
  <2> QED  BY <2>3, <2>4
<1>4. ASSUME NEW t \in Threads, GetTake(t) PROVE IInv'
  <2>1. /\ Cardinality(At("take")') = Cardinality(At("take")) - 1
        /\ Cardinality(At("using")') = Cardinality(At("using")) + 1
        /\ At("post")' = At("post")
    <3>1. t \in At("take") /\ At("take")' = At("take") \ {t}
      BY <1>4 DEF GetTake, At, TypeInv
    <3>2. t \notin At("using") /\ At("using")' = At("using") \cup {t}
      BY <1>4 DEF GetTake, At, TypeInv
    <3>3. At("post")' = At("post")
      BY <1>4 DEF GetTake, At, TypeInv
    <3> QED  BY <3>1, <3>2, <3>3, AtLeaves, AtArrives
  <2>2. Balanced  BY <1>4 DEF GetTake, Retired
  \* The semaphore let t through: there is a connection for it.
  <2>3. connList # <<>>
    <3>1. t \in At("take")  BY <1>4 DEF GetTake, At
    <3>2. Cardinality(At("take")) # 0  BY <3>1, AtFinite, FS_EmptySet
    <3> QED  BY <1>0, <2>2, <3>2 DEF Balanced, TypeInv
  <2>4. /\ connList' \in Seq(Conns) /\ Len(connList') = Len(connList) - 1
        /\ Head(connList) = connList[1] /\ Len(connList) >= 1
        /\ \A i \in 1..Len(connList') : connList'[i] = connList[i + 1]
    BY <1>4, <2>3 DEF GetTake, TypeInv
  <2>5. TypeInv'  BY <1>4, <2>4 DEF GetTake, TypeInv
  <2>6. con[t] = NoConn /\ con'[t] = connList[1] /\ connList[1] \in Conns
        /\ \A u \in Threads : u # t => con'[u] = con[u]
    BY <1>4, <2>4 DEF GetTake, TypeInv, HoldInv
  <2>7. HoldInv'
    BY <1>4, <2>6, ConnectionPoolAssumption DEF GetTake, TypeInv, HoldInv
  <2>8. ConnectionIsExclusive'
    <3>1. \A u, v \in Threads : con'[u] = con'[v] => u = v \/ con'[u] = NoConn
      BY <2>4, <2>6 DEF ConnectionIsExclusive
    <3>2. \A u \in Threads :
             con'[u] \notin {connList'[i] : i \in 1..Len(connList')}
      BY <2>4, <2>6, ConnectionPoolAssumption DEF ConnectionIsExclusive, TypeInv
    <3>3. \A i, j \in 1..Len(connList') : connList'[i] = connList'[j] => i = j
      BY <2>4 DEF ConnectionIsExclusive, TypeInv
    <3> QED  BY <3>1, <3>2, <3>3 DEF ConnectionIsExclusive
  <2>9. CountInv'
    <3>1. free = Len(connList) /\ used = Cardinality(At("using"))
      BY DEF CountInv
    <3> QED  BY <1>0, <1>4, <2>1, <2>4, <3>1 DEF GetTake, CountInv, TypeInv
  <2>10. Balanced'
    <3>1. Len(connList) \in Nat /\ reserve' = reserve /\ reserve \in Nat
      BY <1>4 DEF GetTake, TypeInv
    <3>2. Len(connList') = Len(connList) - 1  BY <2>4
    <3>3. Cardinality(At("post")') = Cardinality(At("post"))  BY <2>1
    <3>4. reserve' + Cardinality(At("take")') + Cardinality(At("post")')
              = Len(connList')
      BY <1>0, <2>1, <2>2, <3>1, <3>2, <3>3 DEF Balanced
    <3>5. Len(connList') + Cardinality(At("using")') = Cardinality(Conns)
      BY <1>0, <2>1, <2>2, <3>1, <3>2, ConnsFinite DEF Balanced
    <3> QED  BY <3>4, <3>5 DEF Balanced
  <2> QED  BY <2>5, <2>7, <2>8, <2>9, <2>10
<1>5. ASSUME NEW t \in Threads, Release(t) PROVE IInv'
  <2>1. /\ Cardinality(At("using")') = Cardinality(At("using")) - 1
        /\ Cardinality(At("post")') = Cardinality(At("post")) + 1
        /\ At("take")' = At("take")
    <3>1. t \in At("using") /\ At("using")' = At("using") \ {t}
      BY <1>5 DEF Release, At, TypeInv
    <3>2. t \notin At("post") /\ At("post")' = At("post") \cup {t}
      BY <1>5 DEF Release, At, TypeInv
    <3>3. At("take")' = At("take")
      BY <1>5 DEF Release, At, TypeInv
    <3> QED  BY <3>1, <3>2, <3>3, AtLeaves, AtArrives
  <2>2. Balanced  BY <1>5 DEF Release, Retired
  <2>3. con[t] \in Conns  BY <1>5 DEF Release, HoldInv, TypeInv
  <2>4. /\ connList' \in Seq(Conns) /\ Len(connList') = Len(connList) + 1
        /\ \A i \in 1..Len(connList) : connList'[i] = connList[i]
        /\ connList'[Len(connList) + 1] = con[t]
    BY <1>5, <2>3 DEF Release, TypeInv
  <2>5. TypeInv'  BY <1>5, <2>4 DEF Release, TypeInv
  <2>6. con'[t] = NoConn /\ \A u \in Threads : u # t => con'[u] = con[u]
    BY <1>5 DEF Release, TypeInv
  <2>7. HoldInv'  BY <1>5, <2>6 DEF Release, TypeInv, HoldInv
  <2>8. ConnectionIsExclusive'
    <3>1. \A u, v \in Threads : con'[u] = con'[v] => u = v \/ con'[u] = NoConn
      BY <2>6 DEF ConnectionIsExclusive
    <3>2. ASSUME NEW u \in Threads, NEW i \in 1..Len(connList')
          PROVE  con'[u] # connList'[i]
      <4>1. CASE u = t
        BY <4>1, <2>4, <2>6, ConnectionPoolAssumption DEF TypeInv
      <4>2. CASE u # t /\ i <= Len(connList)
        BY <4>2, <2>4, <2>6 DEF ConnectionIsExclusive, TypeInv
      <4>3. CASE u # t /\ i = Len(connList) + 1
        BY <4>3, <2>3, <2>4, <2>6, ConnectionPoolAssumption
           DEF ConnectionIsExclusive
      <4> QED  BY <4>1, <4>2, <4>3, <2>4 DEF TypeInv
    <3>3. \A i, j \in 1..Len(connList') : connList'[i] = connList'[j] => i = j
      BY <2>4 DEF ConnectionIsExclusive, TypeInv
    <3> QED  BY <3>1, <3>2, <3>3 DEF ConnectionIsExclusive
  <2>9. CountInv'
    <3>1. free = Len(connList) /\ used = Cardinality(At("using"))
      BY DEF CountInv
    <3> QED  BY <1>0, <1>5, <2>1, <2>4, <3>1 DEF Release, CountInv, TypeInv
  <2>10. Balanced'
    <3>1. Len(connList) \in Nat /\ reserve' = reserve /\ reserve \in Nat
      BY <1>5 DEF Release, TypeInv
    <3> QED  BY <1>0, <2>1, <2>2, <2>4, <3>1, ConnsFinite, SMTT(30) DEF Balanced
  <2> QED  BY <2>5, <2>7, <2>8, <2>9, <2>10
<1>6. ASSUME NEW t \in Threads, Post(t) PROVE IInv'
  <2>1. /\ Cardinality(At("post")') = Cardinality(At("post")) - 1
        /\ At("take")' = At("take")
        /\ At("using")' = At("using")
    <3>1. t \in At("post") /\ At("post")' = At("post") \ {t}
      BY <1>6 DEF Post, At, TypeInv
    <3>2. At("take")' = At("take") /\ At("using")' = At("using")
      BY <1>6 DEF Post, At, TypeInv
    <3> QED  BY <3>1, <3>2, AtLeaves
  <2>2. Balanced  BY <1>6 DEF Post, Retired
  <2>3. TypeInv' /\ HoldInv' /\ ConnectionIsExclusive'
    <3>1. TypeInv'  BY <1>6 DEF Post, TypeInv
    <3>2. HoldInv'  BY <1>6 DEF Post, TypeInv, HoldInv
    <3>3. ConnectionIsExclusive'  BY <1>6 DEF Post, ConnectionIsExclusive
    <3> QED  BY <3>1, <3>2, <3>3
  <2>4. CountInv' /\ Balanced'
    BY <1>0, <1>6, <2>1, <2>2, ConnsFinite, SMTT(30) DEF Post, CountInv, Balanced, TypeInv
  <2> QED  BY <2>3, <2>4
<1>7. ASSUME DestroyPool PROVE IInv'
  <2>1. Balanced /\ \A l \in {"take", "using", "post"} : Cardinality(At(l)) = 0
    BY <1>7, AtNobody DEF DestroyPool, Retired
  <2>2. At("using")' = At("using")
    BY <1>7 DEF DestroyPool, At
  <2>3. connList' = <<>> /\ Len(connList') = 0 /\ connList' \in Seq(Conns)
    BY <1>7 DEF DestroyPool
  <2>4. TypeInv' /\ HoldInv'
    BY <1>7, <2>3 DEF DestroyPool, TypeInv, HoldInv
  <2>5. ConnectionIsExclusive'
    BY <1>7, <2>3 DEF DestroyPool, ConnectionIsExclusive
  <2>6. CountInv'
    BY <1>7, <2>1, <2>2, <2>3 DEF DestroyPool, CountInv
  <2>7. Retired'
    BY <1>7, <2>1, <2>3, ConnsFinite DEF DestroyPool, Retired, Balanced, TypeInv
  <2> QED  BY <2>4, <2>5, <2>6, <2>7
<1>8. ASSUME NEW t \in Threads, GetNothing(t) PROVE IInv'
  BY <1>8, <1>1 DEF GetNothing
<1> QED
  BY <1>1, <1>2, <1>3, <1>4, <1>5, <1>6, <1>7, <1>8 DEF Next, ThreadStep

LEMMA IInvAlways == Spec => []IInv
  BY IInvInit, IInvNext, PTL DEF Spec

-------------------------------------------------------------------------------
(* Safety *)

\* Every variable keeps its type, and no counter leaves 0..Cardinality(Conns).
THEOREM TypeCorrect == Spec => []TypeOK
<1>1. IInv => TypeOK
  <2> SUFFICES ASSUME IInv PROVE TypeOK
    OBVIOUS
  <2>1. \A l : Cardinality(At(l)) \in Nat  BY AtFinite
  <2>2. CASE Balanced
    BY <2>1, <2>2, ConnsFinite DEF IInv, TypeInv, CountInv, Balanced, TypeOK
  <2>3. CASE Retired
    <3>1. Cardinality(At("using")) = 0  BY <2>3, AtNobody DEF Retired
    <3> QED  BY <2>3, <3>1, ConnsFinite DEF IInv, TypeInv, CountInv, Retired, TypeOK
  <2> QED  BY <2>2, <2>3 DEF IInv
<1> QED  BY <1>1, IInvAlways, PTL

\* A thread the semaphore let through finds a connection in the list.
THEOREM TakeIsSafe == Spec => []TakeFindsConnection
<1>1. IInv => TakeFindsConnection
  <2> SUFFICES ASSUME IInv PROVE TakeFindsConnection
    OBVIOUS
  <2>1. \A l : Cardinality(At(l)) \in Nat  BY AtFinite
  <2>2. CASE Balanced
    BY <2>1, <2>2 DEF IInv, TypeInv, Balanced, TakeFindsConnection
  <2>3. CASE Retired
    <3>1. Cardinality(At("take")) = 0  BY <2>3, AtNobody DEF Retired
    <3> QED  BY <2>3, <3>1 DEF Retired, TakeFindsConnection
  <2> QED  BY <2>2, <2>3 DEF IInv
<1> QED  BY <1>1, IInvAlways, PTL

\* No connection is in two hands.
THEOREM ExclusiveUse == Spec => []ConnectionIsExclusive
<1>1. IInv => ConnectionIsExclusive  BY DEF IInv
<1> QED  BY <1>1, IInvAlways, PTL

\* The counters are the length of the list and the number of connections out.
THEOREM CountersAreRight == Spec => []CountersAgree
<1>1. IInv => CountersAgree
  <2> SUFFICES ASSUME IInv PROVE CountersAgree
    OBVIOUS
  <2>1. At("using") = {t \in Threads : con[t] # NoConn}
    BY DEF IInv, HoldInv, At
  <2> QED  BY <2>1 DEF IInv, CountInv, CountersAgree
<1> QED  BY <1>1, IInvAlways, PTL
===============================================================================
