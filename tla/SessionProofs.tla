----------------------------- MODULE SessionProofs -----------------------------
(***************************************************************************)
(* Login and registration keep their safety properties for any number of   *)
(* clients, names, passwords and salts, whatever queries fail, as long as  *)
(* the texts that come into the queries are plain.                         *)
(*                                                                         *)
(* Everything rests on the first row of a name: rows are only appended, so *)
(* it stays what it was, and it is the only row a login looks at.          *)
(***************************************************************************)
EXTENDS Session, WellFoundedInduction, TLAPS

-------------------------------------------------------------------------------
(* The first row of a name *)

LEMMA SmallestMember ==
    ASSUME NEW T \in SUBSET Nat, T # {}
    PROVE  \E x \in T : \A y \in T : x <= y
<1>1. PICK x \in T : \A y \in T : <<y, x>> \notin OpToRel(<, Nat)
  BY NatLessThanWellFounded, WFMin
<1>2. \A y \in T : ~(y < x)
  BY <1>1 DEF OpToRel
<1> QED  BY <1>2

\* What singles out the first row of a name has exactly one solution.
LEMMA FirstOfIs ==
    ASSUME NEW S, NEW table \in Seq(S), NEW n, NEW i \in 1..Len(table),
           table[i].name = n, \A j \in 1..(i - 1) : table[j].name # n
    PROVE  FirstOf(table, n) = table[i]
<1>1. \A k \in 1..Len(table) :
        (table[k].name = n /\ \A j \in 1..(k - 1) : table[j].name # n) => k = i
  <2> TAKE k \in 1..Len(table)
  <2> HAVE table[k].name = n /\ \A j \in 1..(k - 1) : table[j].name # n
  <2>1. CASE k < i  BY <2>1
  <2>2. CASE k > i  BY <2>2
  <2> QED  BY <2>1, <2>2
<1> DEFINE IsFirst(k) == table[k].name = n /\ \A j \in 1..(k - 1) : table[j].name # n
<1>2. IsFirst(i) /\ \A k \in 1..Len(table) : IsFirst(k) => k = i  BY <1>1
<1> HIDE DEF IsFirst
<1>3. (CHOOSE k \in 1..Len(table) : IsFirst(k)) = i  BY <1>2
<1> QED  BY <1>3 DEF FirstOf, IsFirst

LEMMA FirstOfExists ==
    ASSUME NEW S, NEW table \in Seq(S), NEW n, HasRow(table, n)
    PROVE  \E i \in 1..Len(table) :
              /\ FirstOf(table, n) = table[i]
              /\ table[i].name = n
              /\ \A j \in 1..(i - 1) : table[j].name # n
<1> DEFINE T == {i \in 1..Len(table) : table[i].name = n}
<1>1. T \in SUBSET Nat /\ T # {}  BY DEF HasRow
<1>2. PICK i \in T : \A j \in T : i <= j  BY <1>1, SmallestMember
<1>3. \A j \in 1..(i - 1) : table[j].name # n  BY <1>2
<1> QED  BY <1>3, FirstOfIs

\* Rows are appended behind the first row of every name that has one.
LEMMA FirstOfAppend ==
    ASSUME NEW S, NEW table \in Seq(S), NEW row \in S, NEW n
    PROVE  /\ HasRow(Append(table, row), n) <=> HasRow(table, n) \/ row.name = n
           /\ HasRow(table, n) => FirstOf(Append(table, row), n) = FirstOf(table, n)
           /\ ~HasRow(table, n) /\ row.name = n => FirstOf(Append(table, row), n) = row
<1> DEFINE longer == Append(table, row)
<1>1. /\ longer \in Seq(S) /\ Len(longer) = Len(table) + 1 /\ Len(table) \in Nat
      /\ \A j \in 1..Len(table) : longer[j] = table[j]
      /\ longer[Len(table) + 1] = row
  OBVIOUS
<1> HIDE DEF longer
<1>2. HasRow(longer, n) <=> HasRow(table, n) \/ row.name = n
  BY <1>1 DEF HasRow
<1>3. ASSUME HasRow(table, n) PROVE FirstOf(longer, n) = FirstOf(table, n)
  <2>1. PICK i \in 1..Len(table) :
           /\ FirstOf(table, n) = table[i]
           /\ table[i].name = n
           /\ \A j \in 1..(i - 1) : table[j].name # n
    BY <1>3, FirstOfExists
  <2>2. /\ i \in 1..Len(longer) /\ longer[i] = table[i] /\ longer[i].name = n
        /\ \A j \in 1..(i - 1) : longer[j].name # n
    BY <1>1, <2>1
  <2>3. FirstOf(longer, n) = longer[i]  BY <1>1, <2>2, FirstOfIs
  <2> QED  BY <2>1, <2>2, <2>3
<1>4. ASSUME ~HasRow(table, n), row.name = n PROVE FirstOf(longer, n) = row
  <2>1. \A j \in 1..Len(table) : longer[j].name # n  BY <1>1, <1>4 DEF HasRow
  <2> DEFINE k == Len(table) + 1
  <2>2. /\ k \in 1..Len(longer) /\ longer[k].name = n
        /\ \A j \in 1..(k - 1) : longer[j].name # n
    BY <1>1, <1>4, <2>1
  <2> HIDE DEF k
  <2>3. FirstOf(longer, n) = longer[k]  BY <1>1, <2>2, FirstOfIs
  <2> QED  BY <1>1, <2>3 DEF k
<1> QED  BY <1>2, <1>3, <1>4 DEF longer

\* There is a row of the name with that line, and with that salt if one was given.
Matches(row, n, e, s) ==
    row.name = n /\ row.encrypt = e /\ (s # NoSalt => row.setting = Setting(s))
HasLine(table, n, e, s) == \E i \in 1..Len(table) : Matches(table[i], n, e, s)

LEMMA HasLineAppend ==
    ASSUME NEW S, NEW table \in Seq(S), NEW row \in S, NEW n, NEW e, NEW s
    PROVE  HasLine(Append(table, row), n, e, s)
              <=> HasLine(table, n, e, s) \/ Matches(row, n, e, s)
<1> DEFINE longer == Append(table, row)
<1>1. /\ Len(longer) = Len(table) + 1 /\ Len(table) \in Nat
      /\ \A j \in 1..Len(table) : longer[j] = table[j]
      /\ longer[Len(table) + 1] = row
  OBVIOUS
<1> HIDE DEF longer
<1>2. HasLine(longer, n, e, s) <=> HasLine(table, n, e, s) \/ Matches(row, n, e, s)
  BY <1>1 DEF HasLine
<1> QED  BY <1>2 DEF longer

-------------------------------------------------------------------------------
(* The inductive invariant: what is true of each client, of the table and  *)
(* of a server that is down                                                *)

\* A client waits for the reply of the request its worker is at.
ReplyInv(c) == at[c] # "idle" => reply[c] = "none"

\* A name and a password were typed before a request is made.
TypedInv(c) ==
    \/ /\ typed[c].name = NoName
       /\ at[c] = "idle" /\ reply[c] = "none"
       /\ known[c] = NoSalt
    \/ typed[c].name \in Names /\ typed[c].password \in Passwords

\* The worker is in the section of what was typed.
KindInv(c) ==
    /\ at[c] \in {"login1", "setting", "login2", "silent"} => typed[c].kind = "login"
    /\ at[c] \in {"register1", "register2"} => typed[c].kind = "register"

\* current_username is what the client asked for last, once a worker has seen it.
UserInv(c) == at[c] \notin {"login1", "register1"} => user[c] = typed[c].name

\* The name whose setting is about to be selected was found.
FoundInv(c) == at[c] = "setting" /\ intact => HasRow(rows, typed[c].name)

\* The salt of a login is that of the first row of its name.
LoginSaltInv(c) ==
    Exact(typed[c].name) /\ typed[c].kind = "login" /\ known[c] # NoSalt =>
        /\ HasRow(rows, typed[c].name)
        /\ known[c] = get_salt(FirstOf(rows, typed[c].name).setting)

\* The salt of a registration is the one that will be stored, if a salt was given;
\* and one was given if the name is still free.
RegisterSaltInv(c) ==
    typed[c].kind = "register" =>
        /\ known[c] \in {salt[c], NoSalt}
        /\ at[c] # "register1" /\ intact =>
              known[c] = salt[c] \/ HasRow(rows, typed[c].name)

AcceptedInv(c) ==
    Exact(typed[c].name) /\ reply[c] = "LOGIN_2_OK"
        => typed[c].password = owner[typed[c].name]

RefusedInv(c) ==
    (/\ Exact(typed[c].name)
     /\ reply[c] = "LOGIN_2_ERROR" /\ typed[c].kind = "login" /\ known[c] # NoSalt)
        => typed[c].password # owner[typed[c].name]

SilentInv(c) == Exact(typed[c].name) /\ at[c] = "silent" /\ known[c] # NoSalt => failed[c]

StoredInv(c) ==
    Exact(typed[c].name) /\ reply[c] = "REGISTER_2_OK"
        => HasLine(rows, user[c], Message(c), known[c])

ClientInv(c) ==
    /\ ReplyInv(c) /\ TypedInv(c) /\ KindInv(c) /\ UserInv(c) /\ FoundInv(c)
    /\ LoginSaltInv(c) /\ RegisterSaltInv(c)
    /\ AcceptedInv(c) /\ RefusedInv(c) /\ SilentInv(c) /\ StoredInv(c)

\* Only plain names came into the table.
PlainInv == \A n : HasRow(rows, n) => n \in Plain

\* The first row of a name is its owner's, and its line was made with the salt
\* beside it.
OwnerInv ==
    intact => \A n \in Names :
        IF HasRow(rows, n)
        THEN /\ FirstOf(rows, n).encrypt = Line(owner[n], get_salt(FirstOf(rows, n).setting))
             /\ owner[n] \in Passwords
        ELSE owner[n] = NoPassword

\* The client whose call brought the server down waits for ever.
DownInv ==
    intact /\ down => \E c \in Clients : failed[c] /\ at[c] \in {"setting", "register1"}

IInv == TypeOK /\ PlainInv /\ OwnerInv /\ DownInv /\ \A c \in Clients : ClientInv(c)

LEMMA IInvInit == Init => IInv
<1> SUFFICES ASSUME Init PROVE IInv
  OBVIOUS
<1> USE SessionAssumption DEF Init
<1>1. TypeOK
  <2>1. rows \in Seq(RowType)  OBVIOUS
  <2>2. typed \in [Clients -> [kind : {"login", "register"}, name : Names \cup {NoName},
                                password : Passwords \cup {NoPassword}]]
    OBVIOUS
  <2>3. rounds \in [Clients -> 0..Rounds] /\ owner \in [Names -> Passwords \cup {NoPassword}]
    OBVIOUS
  <2> QED  BY <2>1, <2>2, <2>3 DEF TypeOK
<1>2. PlainInv /\ OwnerInv  BY DEF PlainInv, OwnerInv, HasRow
<1>3. DownInv  BY DEF DownInv
<1>4. ASSUME NEW c \in Clients PROVE ClientInv(c)
  BY DEF ClientInv, ReplyInv, TypedInv, KindInv, UserInv, FoundInv, LoginSaltInv,
         RegisterSaltInv, AcceptedInv, RefusedInv, SilentInv, StoredInv, Exact
<1> QED  BY <1>1, <1>2, <1>3, <1>4 DEF IInv

-------------------------------------------------------------------------------
(* What a step of one client is to the others *)

\* The table grew, or is what it was: what could be found in it still can be.
Grown ==
    /\ \A n : HasRow(rows, n) => HasRow(rows', n) /\ FirstOf(rows', n) = FirstOf(rows, n)
    /\ \A n, e, s : HasLine(rows, n, e, s) => HasLine(rows', n, e, s)
    /\ \A n \in Names : owner[n] # NoPassword => owner'[n] = owner[n]
    /\ intact' => intact

\* Nothing else of a client changed.
Same(c) ==
    /\ user'[c] = user[c] /\ salt'[c] = salt[c] /\ at'[c] = at[c] /\ reply'[c] = reply[c]
    /\ typed'[c] = typed[c] /\ known'[c] = known[c] /\ failed'[c] = failed[c]

LEMMA OthersKeepTheirs ==
    ASSUME IInv, Grown, NEW c \in Clients, Same(c)
    PROVE  ClientInv(c)'
<1> USE DEF IInv, ClientInv, Grown, Same, Exact
<1>1. ReplyInv(c)' /\ TypedInv(c)' /\ KindInv(c)' /\ UserInv(c)' /\ SilentInv(c)'
  BY DEF ReplyInv, TypedInv, KindInv, UserInv, SilentInv
<1>2. FoundInv(c)' /\ LoginSaltInv(c)' /\ RegisterSaltInv(c)'
  BY DEF FoundInv, LoginSaltInv, RegisterSaltInv
<1>3. StoredInv(c)'
  BY DEF StoredInv, Message
<1>4. \/ (typed[c].name \in Names /\ typed[c].password # NoPassword)
      \/ (typed[c].name = NoName /\ reply[c] = "none")
  BY SessionAssumption DEF TypedInv
<1>5. AcceptedInv(c)'
  <2> SUFFICES ASSUME Exact(typed[c].name)', reply[c] = "LOGIN_2_OK"
               PROVE  typed[c].password = owner'[typed[c].name]
    BY DEF AcceptedInv
  <2>1. typed[c].name \in Names /\ typed[c].password # NoPassword
    BY <1>4
  <2>2. typed[c].password = owner[typed[c].name]
    BY DEF AcceptedInv
  <2> QED  BY <2>1, <2>2
<1>6. RefusedInv(c)'
  <2> SUFFICES ASSUME Exact(typed[c].name)', reply[c] = "LOGIN_2_ERROR",
                      typed[c].kind = "login", known[c] # NoSalt
               PROVE  typed[c].password # owner'[typed[c].name]
    BY DEF RefusedInv
  <2>1. typed[c].name \in Names /\ HasRow(rows, typed[c].name)
    BY <1>4 DEF LoginSaltInv
  <2>2. owner'[typed[c].name] = owner[typed[c].name]
    BY <2>1, SessionAssumption DEF OwnerInv
  <2> QED  BY <2>2 DEF RefusedInv
<1> QED  BY <1>1, <1>2, <1>3, <1>5, <1>6

\* A step that leaves the table alone.
LEMMA SameTable ==
    ASSUME IInv, rows' = rows, owner' = owner, intact' => intact
    PROVE  Grown /\ PlainInv' /\ OwnerInv'
  BY DEF IInv, Grown, PlainInv, OwnerInv

\* What is known of the first row of a name.
LEMMA FirstRowType ==
    ASSUME TypeOK, NEW n, HasRow(rows, n)
    PROVE  /\ FirstOf(rows, n).name = n
           /\ FirstOf(rows, n).encrypt \in Encrypted
           /\ get_salt(FirstOf(rows, n).setting) \in Salts \cup {NoSalt}
<1>1. PICK i \in 1..Len(rows) : FirstOf(rows, n) = rows[i] /\ rows[i].name = n
  BY FirstOfExists DEF TypeOK
<1>2. rows[i] \in RowType  BY DEF TypeOK
<1> QED  BY <1>1, <1>2 DEF RowType, get_salt

\* An INSERT.
LEMMA InsertGrows ==
    ASSUME IInv, NEW c \in Clients, at[c] = "register2", user[c] \in Plain,
           Insert(c, salt[c]), intact' = intact
    PROVE  /\ Grown /\ PlainInv' /\ OwnerInv'
           /\ rows' \in Seq(RowType) /\ owner' \in [Names -> Passwords \cup {NoPassword}]
           /\ HasLine(rows', user[c], Message(c), known[c])
<1> DEFINE n == typed[c].name
           row == Row(c, salt[c])
<1>1. /\ n \in Names /\ typed[c].password \in Passwords /\ user[c] = n
      /\ known[c] \in {salt[c], NoSalt}
      /\ intact => known[c] = salt[c] \/ HasRow(rows, n)
  BY DEF IInv, ClientInv, TypedInv, UserInv, KindInv, RegisterSaltInv
<1>2. salt[c] \in Salts \cup {NoSalt} /\ known[c] \in Salts \cup {NoSalt}
  BY DEF IInv, TypeOK
<1>3. /\ row \in RowType /\ row.name = n
      /\ row.encrypt = Message(c) /\ Message(c) = Line(typed[c].password, known[c])
      /\ row.setting = Setting(salt[c]) /\ get_salt(row.setting) = salt[c]
  BY <1>1, <1>2 DEF Row, RowType, Setting, get_salt, Message, Line, Encrypted
<1>4. /\ rows \in Seq(RowType) /\ rows' = Append(rows, row)
      /\ owner' = IF owner[n] = NoPassword THEN [owner EXCEPT ![n] = typed[c].password]
                  ELSE owner
      /\ owner \in [Names -> Passwords \cup {NoPassword}]
  BY DEF Insert, IInv, TypeOK
<1> HIDE DEF row, n
<1>5. \A m : /\ HasRow(rows', m) <=> HasRow(rows, m) \/ row.name = m
             /\ HasRow(rows, m) => FirstOf(rows', m) = FirstOf(rows, m)
             /\ ~HasRow(rows, m) /\ row.name = m => FirstOf(rows', m) = row
  BY <1>3, <1>4, FirstOfAppend
<1>6. \A m, e, s : HasLine(rows', m, e, s) <=> HasLine(rows, m, e, s) \/ Matches(row, m, e, s)
  BY <1>3, <1>4, HasLineAppend
<1>7. rows' \in Seq(RowType)  BY <1>3, <1>4
<1>8. owner' \in [Names -> Passwords \cup {NoPassword}]  BY <1>1, <1>4
<1>9. Grown  BY <1>1, <1>4, <1>5, <1>6 DEF Grown
<1>10. OwnerInv'
  <2> SUFFICES ASSUME intact, NEW m \in Names
               PROVE  IF HasRow(rows', m)
                      THEN /\ FirstOf(rows', m).encrypt
                                 = Line(owner'[m], get_salt(FirstOf(rows', m).setting))
                           /\ owner'[m] \in Passwords
                      ELSE owner'[m] = NoPassword
    BY DEF OwnerInv
  <2>1. CASE HasRow(rows, m)
    BY <2>1, <1>4, <1>5, SessionAssumption DEF IInv, OwnerInv
  <2>2. CASE ~HasRow(rows, m) /\ m = n
    <3>1. owner[m] = NoPassword  BY <2>2 DEF IInv, OwnerInv
    <3>2. owner'[m] = typed[c].password  BY <1>1, <1>4, <2>2, <3>1
    <3>3. HasRow(rows', m) /\ FirstOf(rows', m) = row  BY <1>3, <1>5, <2>2
    <3> QED  BY <1>1, <1>3, <2>2, <3>2, <3>3
  <2>3. CASE ~HasRow(rows, m) /\ m # n
    <3>1. ~HasRow(rows', m)  BY <1>3, <1>5, <2>3
    <3>2. owner'[m] = owner[m]  BY <1>1, <1>4, <2>3
    <3> QED  BY <2>3, <3>1, <3>2 DEF IInv, OwnerInv
  <2> QED  BY <2>1, <2>2, <2>3
<1>11. HasLine(rows', user[c], Message(c), known[c])
  <2>1. Matches(row, user[c], Message(c), known[c])  BY <1>1, <1>3 DEF Matches
  <2> QED  BY <2>1, <1>6
<1>12. PlainInv'  BY <1>1, <1>3, <1>5 DEF IInv, PlainInv
<1> QED  BY <1>7, <1>8, <1>9, <1>10, <1>11, <1>12

-------------------------------------------------------------------------------
(* The steps *)

\* A step of c keeps the invariant if it keeps what is about c, the table and a
\* server that is down.
LEMMA StepOfOne ==
    ASSUME IInv, NEW c \in Clients, \A d \in Clients \ {c} : Same(d),
           TypeOK', Grown, PlainInv', OwnerInv', DownInv', ClientInv(c)'
    PROVE  IInv'
<1>1. ASSUME NEW d \in Clients PROVE ClientInv(d)'
  <2>1. CASE d = c  BY <2>1
  <2>2. CASE d # c  BY <2>2, OthersKeepTheirs
  <2> QED  BY <2>1, <2>2
<1> QED  BY <1>1 DEF IInv

LEMMA SendNameKeeps ==
    ASSUME IInv, NEW c \in Clients, NEW kind \in {"login", "register"}, NEW n \in Names,
           NEW p \in Passwords, SendName(c, kind, n, p)
    PROVE  IInv'
<1> USE SessionAssumption DEF SendName, SectionTwo
<1>1. TypeOK'  BY DEF IInv, TypeOK, SectionOne
<1>2. \A d \in Clients \ {c} : Same(d)  BY DEF IInv, TypeOK, Same
<1>3. Grown /\ PlainInv' /\ OwnerInv'  BY SameTable
<1>4. DownInv'  BY DEF IInv, DownInv, TypeOK
<1>5. ClientInv(c)'
  <2> USE DEF IInv, TypeOK
  <2>1. ReplyInv(c)' /\ TypedInv(c)' /\ KindInv(c)' /\ UserInv(c)' /\ FoundInv(c)'
    BY DEF ReplyInv, TypedInv, KindInv, UserInv, FoundInv
  <2>2. LoginSaltInv(c)' /\ RegisterSaltInv(c)'
    BY DEF LoginSaltInv, RegisterSaltInv, Exact
  <2>3. AcceptedInv(c)' /\ RefusedInv(c)' /\ SilentInv(c)' /\ StoredInv(c)'
    BY DEF AcceptedInv, RefusedInv, SilentInv, StoredInv, Exact
  <2> QED  BY <2>1, <2>2, <2>3 DEF ClientInv
<1> QED  BY <1>1, <1>2, <1>3, <1>4, <1>5, StepOfOne

LEMMA SendPasswordKeeps ==
    ASSUME IInv, NEW c \in Clients, SendPassword(c)
    PROVE  IInv'
<1> USE SessionAssumption DEF SendPassword, SectionOne, clientVars
<1>1. TypeOK'  BY DEF IInv, TypeOK, SectionTwo
<1>2. \A d \in Clients \ {c} : Same(d)  BY DEF IInv, TypeOK, Same
<1>3. Grown /\ PlainInv' /\ OwnerInv'  BY SameTable
<1>4. DownInv'  BY DEF IInv, DownInv, TypeOK
<1>5. ClientInv(c)'
  <2> USE DEF IInv, TypeOK, ClientInv
  <2>1. ReplyInv(c)' /\ TypedInv(c)' /\ KindInv(c)' /\ UserInv(c)' /\ FoundInv(c)'
    BY DEF ReplyInv, TypedInv, KindInv, UserInv, FoundInv
  <2>2. LoginSaltInv(c)' /\ RegisterSaltInv(c)'
    BY DEF LoginSaltInv, RegisterSaltInv, Exact
  <2>3. AcceptedInv(c)' /\ RefusedInv(c)' /\ SilentInv(c)' /\ StoredInv(c)'
    BY DEF AcceptedInv, RefusedInv, SilentInv, StoredInv, Exact
  <2> QED  BY <2>1, <2>2, <2>3
<1> QED  BY <1>1, <1>2, <1>3, <1>4, <1>5, StepOfOne

LEMMA LoginNamesKeeps ==
    ASSUME IInv, NEW c \in Clients, LoginNames(c)
    PROVE  IInv'
<1> USE SessionAssumption DEF clientVars
<1>0. /\ at[c] = "login1" /\ ~down /\ UNCHANGED <<rows, salt, typed, rounds, known, owner, intact, down>>
      /\ user' = [user EXCEPT ![c] = typed[c].name]
      /\ \/ /\ at' = [at EXCEPT ![c] = "setting"]
            /\ intact => HasRow(rows, typed[c].name)
            /\ reply' = reply
         \/ /\ at' = [at EXCEPT ![c] = "idle"]
            /\ reply' = [reply EXCEPT ![c] = "LOGIN_1_ERROR"]
      /\ failed' = failed \/ failed' = [failed EXCEPT ![c] = TRUE]
  BY DEF LoginNames, Answer, CallFails, Registered
<1>1. TypeOK'  BY <1>0 DEF IInv, TypeOK, SectionOne, SectionTwo
<1>2. \A d \in Clients \ {c} : Same(d)  BY <1>0 DEF IInv, TypeOK, Same
<1>3. Grown /\ PlainInv' /\ OwnerInv'  BY <1>0, SameTable
<1>4. DownInv'  BY <1>0 DEF DownInv
<1>5. ClientInv(c)'
  <2> USE <1>0 DEF IInv, TypeOK, ClientInv
  <2>1. reply'[c] \in {"none", "LOGIN_1_ERROR"} /\ typed[c].kind = "login"
    BY DEF ReplyInv, KindInv
  <2>2. ReplyInv(c)' /\ TypedInv(c)' /\ KindInv(c)' /\ UserInv(c)' /\ FoundInv(c)'
    BY <2>1 DEF ReplyInv, TypedInv, KindInv, UserInv, FoundInv
  <2>3. LoginSaltInv(c)' /\ RegisterSaltInv(c)'
    BY <2>1 DEF LoginSaltInv, RegisterSaltInv, Exact
  <2>4. AcceptedInv(c)' /\ RefusedInv(c)' /\ SilentInv(c)' /\ StoredInv(c)'
    BY <2>1 DEF AcceptedInv, RefusedInv, SilentInv, StoredInv, Exact
  <2> QED  BY <2>2, <2>3, <2>4
<1> QED  BY <1>1, <1>2, <1>3, <1>4, <1>5, StepOfOne

LEMMA LoginSettingKeeps ==
    ASSUME IInv, NEW c \in Clients, LoginSetting(c)
    PROVE  IInv'
<1> USE SessionAssumption DEF clientVars
<1>a. /\ at[c] = "setting" /\ reply[c] = "none" /\ typed[c].kind = "login"
      /\ user[c] = typed[c].name /\ typed[c].name \in Names
  BY DEF LoginSetting, IInv, ClientInv, ReplyInv, KindInv, UserInv, TypedInv
\* While the table is intact, the name was found in it, and is plain.
<1>b. intact => HasRow(rows, typed[c].name) /\ Exact(typed[c].name)
  BY <1>a DEF IInv, ClientInv, FoundInv, PlainInv, Exact
<1>c. PICK s \in Salts \cup {NoSalt} :
      /\ UNCHANGED <<rows, user, salt, typed, rounds, owner, intact>>
      /\ \/ /\ at' = [at EXCEPT ![c] = "idle"] /\ reply' = [reply EXCEPT ![c] = "LOGIN_1_OK"]
            /\ known' = [known EXCEPT ![c] = s]
            /\ Exact(typed[c].name) => s = get_salt(FirstOf(rows, typed[c].name).setting)
            /\ UNCHANGED <<failed, down>> /\ ~down
         \/ /\ intact => failed' = [failed EXCEPT ![c] = TRUE]
            /\ failed' = [failed EXCEPT ![c] = TRUE] \/ failed' = failed
            /\ down' = TRUE
            /\ UNCHANGED <<at, reply, known>>
  <2>1. /\ ~down /\ UNCHANGED <<rows, user, salt, typed, rounds, owner, intact>>
        /\ \/ \E s \in Salts \cup {NoSalt} :
                 /\ Exact(typed[c].name) =>
                        s = get_salt(FirstOf(rows, typed[c].name).setting)
                 /\ at' = [at EXCEPT ![c] = "idle"]
                 /\ reply' = [reply EXCEPT ![c] = "LOGIN_1_OK"]
                 /\ known' = [known EXCEPT ![c] = s]
                 /\ UNCHANGED <<failed, down>>
           \/ /\ \/ failed' = [failed EXCEPT ![c] = TRUE]
                 \/ ~Exact(typed[c].name) /\ failed' = failed
              /\ down' = TRUE
              /\ UNCHANGED <<at, reply, known>>
    BY <1>a DEF LoginSetting, Answer, CallFails, FirstRow
  <2> QED  BY <1>b, <2>1
<1>1. TypeOK'
  <2>0. known \in [Clients -> Salts \cup {NoSalt}]  BY DEF IInv, TypeOK
  <2>1. known' \in [Clients -> Salts \cup {NoSalt}] /\ user' = user /\ salt' = salt
    BY <1>c, <2>0
  <2> USE DEF IInv, TypeOK, SectionOne, SectionTwo
  <2>2. UNCHANGED <<rows, typed, rounds, owner, intact>>  BY <1>c
  <2>3. at' \in [Clients -> {"idle", "login1", "setting", "login2", "register1",
                           "register2", "silent"}]
    BY <1>c
  <2>4. reply' \in [Clients -> SectionOne \cup SectionTwo \cup {"none"}]
    BY <1>c
  <2>5. failed' \in [Clients -> BOOLEAN] /\ down' \in BOOLEAN
    BY <1>c
  <2> QED  BY <2>1, <2>2, <2>3, <2>4, <2>5
<1>2. \A d \in Clients \ {c} : Same(d)  BY <1>c DEF IInv, TypeOK, Same
<1>3. Grown /\ PlainInv' /\ OwnerInv'  BY <1>c, SameTable
<1>4. DownInv'  BY <1>a, <1>c DEF DownInv, IInv, TypeOK
<1>5. ClientInv(c)'
  <2> USE <1>a, <1>c DEF IInv, TypeOK, ClientInv
  <2>1. ReplyInv(c)' /\ TypedInv(c)' /\ KindInv(c)' /\ UserInv(c)' /\ FoundInv(c)'
    BY DEF ReplyInv, TypedInv, KindInv, UserInv, FoundInv
  <2>2. LoginSaltInv(c)' /\ RegisterSaltInv(c)'
    BY <1>b DEF LoginSaltInv, RegisterSaltInv, Exact
  <2>3. AcceptedInv(c)' /\ RefusedInv(c)' /\ SilentInv(c)' /\ StoredInv(c)'
    BY DEF AcceptedInv, RefusedInv, SilentInv, StoredInv, Exact
  <2> QED  BY <2>1, <2>2, <2>3
<1> QED  BY <1>1, <1>2, <1>3, <1>4, <1>5, StepOfOne

LEMMA LoginVerifyKeeps ==
    ASSUME IInv, NEW c \in Clients, LoginVerify(c)
    PROVE  IInv'
<1> USE SessionAssumption DEF clientVars
<1> DEFINE first == FirstOf(rows, typed[c].name)
<1>a. /\ at[c] = "login2" /\ reply[c] = "none" /\ typed[c].kind = "login"
      /\ user[c] = typed[c].name
      /\ typed[c].name \in Names /\ typed[c].password \in Passwords
  BY DEF LoginVerify, IInv, ClientInv, ReplyInv, KindInv, UserInv, TypedInv
<1>b. PICK isMatch \in BOOLEAN :
      /\ UNCHANGED <<rows, user, salt, typed, rounds, known, owner, intact, down>> /\ ~down
      /\ \/ /\ Exact(typed[c].name) =>
                  HasRow(rows, typed[c].name) /\ isMatch = (first.encrypt = Message(c))
            /\ at' = [at EXCEPT ![c] = "idle"]
            /\ reply' = [reply EXCEPT ![c] = IF isMatch THEN "LOGIN_2_OK"
                                             ELSE "LOGIN_2_ERROR"]
            /\ failed' = failed
         \/ /\ at' = [at EXCEPT ![c] = "silent"] /\ reply' = reply
            /\ \/ (Exact(typed[c].name) => ~HasRow(rows, typed[c].name)) /\ failed' = failed
               \/ failed' = [failed EXCEPT ![c] = TRUE]
  BY <1>a, SessionAssumption DEF LoginVerify, Answer, CallFails, Registered, FirstRow
\* The owner's password, and the salt it was encrypted with.
<1>c. ASSUME HasRow(rows, typed[c].name), Exact(typed[c].name)
      PROVE  /\ first.encrypt = Line(owner[typed[c].name], get_salt(first.setting))
             /\ known[c] # NoSalt => known[c] = get_salt(first.setting)
  BY <1>a, <1>c DEF IInv, OwnerInv, ClientInv, LoginSaltInv, Exact
<1> HIDE DEF first
<1>1. TypeOK'  BY <1>b DEF IInv, TypeOK, SectionOne, SectionTwo
<1>2. \A d \in Clients \ {c} : Same(d)  BY <1>b DEF IInv, TypeOK, Same
<1>3. Grown /\ PlainInv' /\ OwnerInv'  BY <1>b, SameTable
<1>4. DownInv'  BY <1>b DEF DownInv
<1>5. ClientInv(c)'
  <2> USE <1>a, <1>b DEF IInv, TypeOK, ClientInv
  <2>1. ReplyInv(c)' /\ TypedInv(c)' /\ KindInv(c)' /\ UserInv(c)' /\ FoundInv(c)'
    BY DEF ReplyInv, TypedInv, KindInv, UserInv, FoundInv
  <2>2. LoginSaltInv(c)' /\ RegisterSaltInv(c)'
    BY DEF LoginSaltInv, RegisterSaltInv, Exact
  <2>3. AcceptedInv(c)'
    BY <1>c DEF AcceptedInv, Message, Line, Exact
  <2>4. RefusedInv(c)'
    BY <1>c DEF RefusedInv, Message, Exact
  <2>5. SilentInv(c)'
    BY DEF SilentInv, LoginSaltInv, Exact
  <2>6. StoredInv(c)'
    BY DEF StoredInv
  <2> QED  BY <2>1, <2>2, <2>3, <2>4, <2>5, <2>6
<1> QED  BY <1>1, <1>2, <1>3, <1>4, <1>5, StepOfOne

LEMMA RegisterNamesKeeps ==
    ASSUME IInv, NEW c \in Clients, RegisterNames(c)
    PROVE  IInv'
<1> USE SessionAssumption DEF clientVars
<1>a. /\ at[c] = "register1" /\ reply[c] = "none" /\ typed[c].kind = "register"
  BY DEF RegisterNames, IInv, ClientInv, ReplyInv, KindInv
<1>b. /\ UNCHANGED <<rows, typed, rounds, owner, intact, down>> /\ ~down
      /\ user' = [user EXCEPT ![c] = typed[c].name]
      /\ at' = [at EXCEPT ![c] = "idle"]
      /\ failed' = failed \/ failed' = [failed EXCEPT ![c] = TRUE]
      /\ \/ /\ intact => HasRow(rows, typed[c].name)
            /\ reply' = [reply EXCEPT ![c] = "REGISTER_1_ERROR"]
            /\ UNCHANGED <<salt, known>>
         \/ /\ reply' = [reply EXCEPT ![c] = "REGISTER_1_OK"]
            /\ \E s \in Salts : salt' = [salt EXCEPT ![c] = s] /\ known' = [known EXCEPT ![c] = s]
  BY DEF RegisterNames, Answer, CallFails, Registered, GenerateSalt
<1>1. TypeOK'
  <2>0. /\ user \in [Clients -> Names \cup {NoName}]
        /\ salt \in [Clients -> Salts \cup {NoSalt}]
        /\ known \in [Clients -> Salts \cup {NoSalt}]
        /\ typed[c].name \in Names \cup {NoName}
    BY DEF IInv, TypeOK
  <2>1. /\ user' \in [Clients -> Names \cup {NoName}]
        /\ salt' \in [Clients -> Salts \cup {NoSalt}]
        /\ known' \in [Clients -> Salts \cup {NoSalt}]
    BY <1>b, <2>0
  <2> USE DEF IInv, TypeOK, SectionOne, SectionTwo
  <2>2. UNCHANGED <<rows, typed, rounds, owner, intact>>  BY <1>b
  <2>3. at' \in [Clients -> {"idle", "login1", "setting", "login2", "register1",
                           "register2", "silent"}]
    BY <1>b
  <2>4. reply' \in [Clients -> SectionOne \cup SectionTwo \cup {"none"}]
    BY <1>b
  <2>5. failed' \in [Clients -> BOOLEAN] /\ down' \in BOOLEAN
    BY <1>b
  <2> QED  BY <2>1, <2>2, <2>3, <2>4, <2>5
<1>2. \A d \in Clients \ {c} : Same(d)  BY <1>b DEF IInv, TypeOK, Same
<1>3. Grown /\ PlainInv' /\ OwnerInv'  BY <1>b, SameTable
<1>4. DownInv'  BY <1>b DEF DownInv
<1>5. ClientInv(c)'
  <2> USE <1>a, <1>b DEF IInv, TypeOK, ClientInv
  <2>1. ReplyInv(c)' /\ TypedInv(c)' /\ KindInv(c)' /\ UserInv(c)' /\ FoundInv(c)'
    BY DEF ReplyInv, TypedInv, KindInv, UserInv, FoundInv
  <2>2. LoginSaltInv(c)' /\ RegisterSaltInv(c)'
    BY DEF LoginSaltInv, RegisterSaltInv, Exact
  <2>3. AcceptedInv(c)' /\ RefusedInv(c)' /\ SilentInv(c)' /\ StoredInv(c)'
    BY DEF AcceptedInv, RefusedInv, SilentInv, StoredInv, Exact
  <2> QED  BY <2>1, <2>2, <2>3
<1> QED  BY <1>1, <1>2, <1>3, <1>4, <1>5, StepOfOne

LEMMA SaltThrowsKeeps ==
    ASSUME IInv, NEW c \in Clients, SaltThrows(c)
    PROVE  IInv'
<1> USE SessionAssumption DEF SaltThrows, CallFails, clientVars
<1>1. TypeOK'  BY DEF IInv, TypeOK
<1>2. \A d \in Clients \ {c} : Same(d)  BY DEF IInv, TypeOK, Same
<1>3. Grown /\ PlainInv' /\ OwnerInv'  BY SameTable
<1>4. DownInv'  BY DEF IInv, DownInv, TypeOK
<1>5. ClientInv(c)'
  <2> USE DEF IInv, TypeOK, ClientInv
  <2>1. ReplyInv(c)' /\ TypedInv(c)' /\ KindInv(c)' /\ UserInv(c)' /\ FoundInv(c)'
    BY DEF ReplyInv, TypedInv, KindInv, UserInv, FoundInv
  <2>2. LoginSaltInv(c)' /\ RegisterSaltInv(c)'
    BY DEF LoginSaltInv, RegisterSaltInv, Exact
  <2>3. AcceptedInv(c)' /\ RefusedInv(c)' /\ SilentInv(c)' /\ StoredInv(c)'
    BY DEF AcceptedInv, RefusedInv, SilentInv, StoredInv, ReplyInv, Exact
  <2> QED  BY <2>1, <2>2, <2>3
<1> QED  BY <1>1, <1>2, <1>3, <1>4, <1>5, StepOfOne

LEMMA RegisterInsertKeeps ==
    ASSUME IInv, NEW c \in Clients, RegisterInsert(c)
    PROVE  IInv'
<1> USE SessionAssumption DEF clientVars
<1>a. /\ at[c] = "register2" /\ reply[c] = "none" /\ typed[c].kind = "register"
  BY DEF RegisterInsert, IInv, ClientInv, ReplyInv, KindInv
<1>b. /\ UNCHANGED <<user, salt, typed, rounds, known, down>> /\ ~down
      /\ at' = [at EXCEPT ![c] = "idle"]
      /\ \/ /\ user[c] \in Plain
            /\ Insert(c, salt[c])
            /\ reply' = [reply EXCEPT ![c] = "REGISTER_2_OK"]
            /\ failed' = failed /\ intact' = intact
         \/ /\ reply' = [reply EXCEPT ![c] = "REGISTER_2_OK"]
            /\ failed' = failed /\ intact' = FALSE
            /\ UNCHANGED <<rows, owner>>
         \/ /\ failed' = [failed EXCEPT ![c] = TRUE]
            /\ reply' = [reply EXCEPT ![c] = "LOGIN_2_ERROR"]
            /\ UNCHANGED <<rows, owner, intact>>
  BY DEF RegisterInsert, Answer, CallFails
<1>c. /\ Grown /\ PlainInv' /\ OwnerInv'
      /\ rows' \in Seq(RowType) /\ owner' \in [Names -> Passwords \cup {NoPassword}]
      /\ intact' /\ reply'[c] = "REGISTER_2_OK" =>
            HasLine(rows', user[c], Message(c), known[c])
      /\ intact' \in BOOLEAN
  <2>1. CASE user[c] \in Plain /\ Insert(c, salt[c]) /\ intact' = intact
    BY <1>a, <2>1, InsertGrows DEF IInv, TypeOK
  <2>2. CASE /\ rows' = rows /\ owner' = owner
             /\ ~intact' \/ (/\ reply' = [reply EXCEPT ![c] = "LOGIN_2_ERROR"]
                             /\ intact' = intact)
             /\ intact' \in BOOLEAN
    BY <2>2, SameTable DEF IInv, TypeOK
  <2>3. intact \in BOOLEAN  BY DEF IInv, TypeOK
  <2> QED  BY <1>b, <2>1, <2>2, <2>3
<1>1. TypeOK'
  <2> USE DEF IInv, TypeOK, SectionOne, SectionTwo
  <2>1. /\ at' \in [Clients -> {"idle", "login1", "setting", "login2", "register1",
                               "register2", "silent"}]
        /\ UNCHANGED <<user, salt, typed, rounds, known, down>>
    BY <1>b
  <2>2. /\ reply' \in [Clients -> SectionOne \cup SectionTwo \cup {"none"}]
        /\ failed' \in [Clients -> BOOLEAN]
    BY <1>b
  <2> QED  BY <1>c, <2>1, <2>2
<1>2. \A d \in Clients \ {c} : Same(d)  BY <1>b DEF IInv, TypeOK, Same
<1>4. DownInv'  BY <1>b DEF DownInv
<1>5. ClientInv(c)'
  <2> USE <1>a, <1>b DEF IInv, TypeOK, ClientInv
  <2>1. ReplyInv(c)' /\ TypedInv(c)' /\ KindInv(c)' /\ UserInv(c)' /\ FoundInv(c)'
    BY DEF ReplyInv, TypedInv, KindInv, UserInv, FoundInv
  <2>2. LoginSaltInv(c)'
    BY DEF LoginSaltInv
  <2>3. RegisterSaltInv(c)'
    BY <1>c DEF RegisterSaltInv, Grown
  <2>4. AcceptedInv(c)' /\ RefusedInv(c)' /\ SilentInv(c)'
    BY DEF AcceptedInv, RefusedInv, SilentInv
  <2>5. StoredInv(c)'
    BY <1>c DEF StoredInv, Message, Exact
  <2> QED  BY <2>1, <2>2, <2>3, <2>4, <2>5
<1> QED  BY <1>1, <1>2, <1>c, <1>4, <1>5, StepOfOne

LEMMA IInvNext == IInv /\ [Next]_vars => IInv'
<1> SUFFICES ASSUME IInv, [Next]_vars PROVE IInv'
  OBVIOUS
<1>1. CASE UNCHANGED vars
  <2> USE <1>1 DEF vars, connVars, clientVars, IInv
  <2>1. TypeOK' /\ DownInv'  BY DEF TypeOK, DownInv
  <2>2. Grown /\ PlainInv' /\ OwnerInv'  BY SameTable
  <2>3. \A c \in Clients : ClientInv(c)'  BY <2>2, OthersKeepTheirs DEF Same
  <2> QED  BY <2>1, <2>2, <2>3
<1>2. CASE Next
  BY <1>2, SendNameKeeps, SendPasswordKeeps, LoginNamesKeeps, LoginSettingKeeps,
     LoginVerifyKeeps, RegisterNamesKeeps, SaltThrowsKeeps, RegisterInsertKeeps
     DEF Next, WorkerStep, ClientStep
<1> QED  BY <1>1, <1>2

LEMMA IInvAlways == Spec => []IInv
  BY IInvInit, IInvNext, PTL DEF Spec

-------------------------------------------------------------------------------
(* Safety *)

\* Every variable keeps its type.
THEOREM TypeCorrect == Spec => []TypeOK
<1>1. IInv => TypeOK  BY DEF IInv
<1> QED  BY <1>1, IInvAlways, PTL

\* As long as every text that came into the table was plain, whoever is let in under a
\* plain name entered the password of the first who registered it, whatever
\* registrations raced and whatever queries failed.  Without that assumption the
\* queries of Login.cpp:47 and 118 need not select the rows of the name at all, and
\* nothing of the kind holds.
THEOREM AcceptedCorrect == Spec => []AcceptedIsOwner
<1>1. IInv => AcceptedIsOwner  BY DEF IInv, ClientInv, AcceptedInv, AcceptedIsOwner
<1> QED  BY <1>1, IInvAlways, PTL

\* The first who registered a plain name is never turned away with the right password.
THEOREM OwnerCorrect == Spec => []OwnerIsAccepted
<1>1. IInv => OwnerIsAccepted  BY DEF IInv, ClientInv, RefusedInv, OwnerIsAccepted
<1> QED  BY <1>1, IInvAlways, PTL

\* With plain texts the server goes down, and a login is left without an answer, only
\* when a call failed; whoever is told OK is stored with the salt it was given.
THEOREM FailureCorrect == Spec => []FailureIsTheOnlyExcuse
<1>1. IInv => FailureIsTheOnlyExcuse
  BY DEF IInv, DownInv, ClientInv, SilentInv, StoredInv, HasLine, Matches, StoredFor,
         FailureIsTheOnlyExcuse
<1> QED  BY <1>1, IInvAlways, PTL
===============================================================================
