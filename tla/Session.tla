-------------------------------- MODULE Session --------------------------------
(***************************************************************************)
(* Login and registration: what the process() functions of Login.cpp and   *)
(* Register.cpp do with a connection and with the table tb_username.       *)
(*                                                                         *)
(* Each takes two sections.  In the first one the client names itself and  *)
(* gets a salt; in the second one it sends its password encrypted with     *)
(* that salt, which is stored or compared.  Workers serve the connections  *)
(* at the same time, and every query is a step of its own.                 *)
(*                                                                         *)
(* The client is the one of Client_Demo: one request at a time, and the    *)
(* second section follows the first whatever the reply was.  The database  *)
(* is modelled from the queries; its schema is not in the repository, so a *)
(* query that fails may be an INSERT that a key forbids.                   *)
(*                                                                         *)
(* Queries are put together from the texts of the clients as they are.     *)
(* A plain text stands for itself in a query; what a query does with any   *)
(* other is not modelled further than that it may do anything a SELECT, or *)
(* an INSERT, can do.                                                      *)
(***************************************************************************)
EXTENDS Naturals, Sequences

CONSTANTS
    Clients,        \* the connections
    Names, Passwords, Salts,
    NoName, NoSalt, \* the empty string
    NoPassword,
    Bare,           \* the passwords of people who type them as they are; the
                    \* others type what crypt makes of theirs and of the salt
    Plain,          \* the texts that stand for themselves between the quotes of a
                    \* query, and for nothing else in the eyes of the column
    Rounds          \* bound of the logins and registrations of a client

ASSUME SessionAssumption ==
    /\ NoName \notin Names
    /\ NoSalt \notin Salts
    /\ NoPassword \notin Passwords
    /\ Bare \subseteq Passwords
    /\ Plain \subseteq Names \cup Passwords \cup {NoName}
    /\ Rounds \in Nat

\* crypt returns letters, digits and ./$ only.
ASSUME CipherIsPlain == Passwords \ Bare \subseteq Plain

VARIABLES
    rows,       \* tb_username in the order of its ids
    user,       \* current_username of each connection
    salt,       \* salt of each connection
    at,         \* the query its worker is about to make, if it has one
    reply,      \* the type of the last reply to each client
    typed,      \* what the person at the client entered: kind, name, password
    known,      \* the salt the client got in this round
    rounds,     \* the rounds each client began
    owner,      \* who was first to register each name: the password
    failed,     \* a query or a salt of the round of each client failed
    intact,     \* every INSERT so far was of plain texts
    down        \* the server crashed

connVars == <<user, salt, at>>
clientVars == <<typed, rounds>>
vars == <<rows, connVars, reply, clientVars, known, owner, failed, intact, down>>

-------------------------------------------------------------------------------
(* Data *)

\* What people type in the second section, and what is stored.
Line(p, s) == [password |-> p, salt |-> IF p \in Bare THEN NoSalt ELSE s]
Encrypted == [password : Passwords, salt : Salts \cup {NoSalt}]

\* A row of tb_username: its setting is "$1$" and a salt.
RowType == [name : Names, setting : {"$1$"} \X (Salts \cup {NoSalt}), encrypt : Encrypted]

\* "$1$" + salt, and what get_salt finds behind the second $.
Setting(s) == <<"$1$", s>>
get_salt(setting) == setting[2]

\* GenerateSalt(8): any salt, also one another client got before.
GenerateSalt == Salts

\* result[1] of a query for one name: the first of its rows.
HasRow(table, n) == \E i \in 1..Len(table) : table[i].name = n
FirstOf(table, n) ==
    table[CHOOSE i \in 1..Len(table) :
            /\ table[i].name = n
            /\ \A j \in 1..(i - 1) : table[j].name # n]

Registered(n) == HasRow(rows, n)
FirstRow(n) == FirstOf(rows, n)

\* The rows WHERE name = '...' selects are those in rows with that name.
Exact(n) == intact /\ n \in Plain

SectionOne == {"LOGIN_1_OK", "LOGIN_1_ERROR", "REGISTER_1_OK", "REGISTER_1_ERROR"}
SectionTwo == {"LOGIN_2_OK", "LOGIN_2_ERROR", "REGISTER_2_OK"}

\* A query that failed returns no rows, the same as one that finds none; the random
\* generator may fail too.
CallFails(c) == failed' = [failed EXCEPT ![c] = TRUE]

\* sendInLoop; Reactor is about how a reply gets to the client.
Answer(c, type) ==
    /\ reply' = [reply EXCEPT ![c] = type]
    /\ at' = [at EXCEPT ![c] = "idle"]

-------------------------------------------------------------------------------
(* The client *)

SendName(c, kind, n, p) ==
    /\ at[c] = "idle"
    /\ reply[c] \in SectionTwo \cup {"none"}
    /\ rounds[c] < Rounds
    /\ rounds' = [rounds EXCEPT ![c] = @ + 1]
    /\ typed' = [typed EXCEPT ![c] = [kind |-> kind, name |-> n, password |-> p]]
    /\ known' = [known EXCEPT ![c] = NoSalt]
    /\ reply' = [reply EXCEPT ![c] = "none"]
    /\ failed' = [failed EXCEPT ![c] = FALSE]
    /\ at' = [at EXCEPT ![c] = IF kind = "login" THEN "login1" ELSE "register1"]
    /\ UNCHANGED <<rows, user, salt, owner, intact, down>>

SendPassword(c) ==
    /\ at[c] = "idle"
    /\ reply[c] \in SectionOne
    /\ reply' = [reply EXCEPT ![c] = "none"]
    /\ at' = [at EXCEPT ![c] = IF typed[c].kind = "login" THEN "login2" ELSE "register2"]
    /\ UNCHANGED <<rows, user, salt, clientVars, known, owner, failed, intact, down>>

\* The message of its second section.
Message(c) == Line(typed[c].password, known[c])

-------------------------------------------------------------------------------
(* UserLoginSection1::process *)

\* All names are selected, and looked through: no text of the client is in the query.
LoginNames(c) ==
    /\ ~down
    /\ at[c] = "login1"
    /\ user' = [user EXCEPT ![c] = typed[c].name]
    /\ \/ /\ intact => Registered(typed[c].name)
          /\ at' = [at EXCEPT ![c] = "setting"]
          /\ UNCHANGED <<reply, failed>>
       \/ /\ intact => ~Registered(typed[c].name)
          /\ Answer(c, "LOGIN_1_ERROR")
          /\ UNCHANGED failed
       \/ /\ CallFails(c)
          /\ Answer(c, "LOGIN_1_ERROR")
    /\ UNCHANGED <<rows, salt, clientVars, known, owner, intact, down>>

\* The setting of that name.  Here a query that failed is not looked for, and
\* setting_result[1] is past the end of an empty vector.
LoginSetting(c) ==
    /\ ~down
    /\ at[c] = "setting"
    /\ \/ \E s \in Salts \cup {NoSalt} :
             /\ Exact(user[c]) => s = get_salt(FirstRow(user[c]).setting)
             /\ Answer(c, "LOGIN_1_OK")
             /\ known' = [known EXCEPT ![c] = s]
             /\ UNCHANGED <<failed, down>>
       \/ /\ \/ CallFails(c)
             \/ ~Exact(user[c]) /\ UNCHANGED failed
          /\ down' = TRUE
          /\ UNCHANGED <<at, reply, known>>
    /\ UNCHANGED <<rows, user, salt, clientVars, owner, intact>>

(* UserLoginSection2::process *)

\* Mutant of LoginVerify: any row of the name will do.
LoginVerifyAnyRow(c) ==
    /\ ~down
    /\ at[c] = "login2"
    /\ Registered(user[c])
    /\ Answer(c, IF \E i \in 1..Len(rows) :
                       rows[i].name = user[c] /\ rows[i].encrypt.password = typed[c].password
                 THEN "LOGIN_2_OK" ELSE "LOGIN_2_ERROR")
    /\ UNCHANGED <<rows, user, salt, clientVars, known, owner, failed, intact, down>>

\* Mutant of LoginVerify: result.size() < 3.
LoginVerifyTwoRows(c) ==
    /\ ~down
    /\ at[c] = "login2"
    /\ ~\E i, j \in 1..Len(rows) : i # j /\ rows[i].name = user[c] /\ rows[j].name = user[c]
    /\ at' = [at EXCEPT ![c] = "silent"]
    /\ UNCHANGED <<rows, user, salt, reply, clientVars, known, owner, failed, intact, down>>

\* Without a name, without a row and without a result there is no reply at all.
LoginVerify(c) ==
    /\ ~down
    /\ at[c] = "login2"
    /\ \/ /\ user[c] # NoName
          /\ Exact(user[c]) => Registered(user[c])
          /\ \E isMatch \in BOOLEAN :
                /\ Exact(user[c]) => isMatch = (FirstRow(user[c]).encrypt = Message(c))
                /\ Answer(c, IF isMatch THEN "LOGIN_2_OK" ELSE "LOGIN_2_ERROR")
          /\ UNCHANGED failed
       \/ /\ \/ user[c] = NoName /\ UNCHANGED failed
             \/ (Exact(user[c]) => ~Registered(user[c])) /\ UNCHANGED failed
             \/ user[c] # NoName /\ CallFails(c)
          /\ at' = [at EXCEPT ![c] = "silent"]
          /\ UNCHANGED reply
    /\ UNCHANGED <<rows, user, salt, clientVars, known, owner, intact, down>>

-------------------------------------------------------------------------------
(* RegisterSection1::process *)

\* Mutant of RegisterNames: current_username is not set.
RegisterNamesForgets(c) ==
    /\ ~down
    /\ at[c] = "register1"
    /\ user' = user
    /\ \/ /\ intact => Registered(typed[c].name)
          /\ Answer(c, "REGISTER_1_ERROR")
          /\ UNCHANGED <<salt, known, failed>>
       \/ /\ \/ (intact => ~Registered(typed[c].name)) /\ UNCHANGED failed
             \/ CallFails(c)
          /\ \E s \in GenerateSalt :
                /\ Answer(c, "REGISTER_1_OK")
                /\ salt' = [salt EXCEPT ![c] = s]
                /\ known' = [known EXCEPT ![c] = s]
    /\ UNCHANGED <<rows, clientVars, owner, intact, down>>

\* A salt for a name that no row of the result has.
RegisterNames(c) ==
    /\ ~down
    /\ at[c] = "register1"
    /\ user' = [user EXCEPT ![c] = typed[c].name]
    /\ \/ /\ intact => Registered(typed[c].name)
          /\ Answer(c, "REGISTER_1_ERROR")
          /\ UNCHANGED <<salt, known, failed>>
       \/ /\ \/ (intact => ~Registered(typed[c].name)) /\ UNCHANGED failed
             \/ CallFails(c)
          /\ \E s \in GenerateSalt :
                /\ Answer(c, "REGISTER_1_OK")
                /\ salt' = [salt EXCEPT ![c] = s]
                /\ known' = [known EXCEPT ![c] = s]
    /\ UNCHANGED <<rows, clientVars, owner, intact, down>>

\* GenerateSalt throws when RAND_bytes fails, and nothing in the worker catches it.
SaltThrows(c) ==
    /\ ~down
    /\ at[c] = "register1"
    /\ CallFails(c)
    /\ down' = TRUE
    /\ user' = [user EXCEPT ![c] = typed[c].name]
    /\ UNCHANGED <<rows, salt, at, reply, clientVars, known, owner, intact>>

(* RegisterSection2::process *)

Row(c, s) == [name |-> user[c], setting |-> Setting(s), encrypt |-> Message(c)]

\* writeOperation of the INSERT.  owner remembers who was first.
Insert(c, s) ==
    LET n == typed[c].name IN
    /\ rows' = Append(rows, Row(c, s))
    /\ owner' = IF owner[n] = NoPassword
                THEN [owner EXCEPT ![n] = typed[c].password]
                ELSE owner

\* Mutant of RegisterInsert: a salt of its own is stored.
RegisterInsertResalts(c) ==
    /\ ~down
    /\ at[c] = "register2"
    /\ \E s \in GenerateSalt : Insert(c, s)
    /\ Answer(c, "REGISTER_2_OK")
    /\ UNCHANGED <<user, salt, clientVars, known, failed, intact, down>>

\* An INSERT that failed is answered with the error of the login.  What the table holds
\* after an INSERT of a text that is not plain is left open.
RegisterInsert(c) ==
    /\ ~down
    /\ at[c] = "register2"
    /\ \/ /\ {user[c], typed[c].password} \subseteq Plain
          /\ Insert(c, salt[c])
          /\ Answer(c, "REGISTER_2_OK")
          /\ UNCHANGED <<failed, intact>>
       \/ /\ ~({user[c], typed[c].password} \subseteq Plain)
          /\ intact' = FALSE
          /\ Answer(c, "REGISTER_2_OK")
          /\ UNCHANGED <<rows, owner, failed>>
       \/ /\ CallFails(c)
          /\ Answer(c, "LOGIN_2_ERROR")
          /\ UNCHANGED <<rows, owner, intact>>
    /\ UNCHANGED <<user, salt, clientVars, known, down>>

-------------------------------------------------------------------------------
Init ==
    /\ rows = <<>>
    /\ user = [c \in Clients |-> NoName]
    /\ salt = [c \in Clients |-> NoSalt]
    /\ at = [c \in Clients |-> "idle"]
    /\ reply = [c \in Clients |-> "none"]
    /\ typed = [c \in Clients |->
                   [kind |-> "login", name |-> NoName, password |-> NoPassword]]
    /\ known = [c \in Clients |-> NoSalt]
    /\ rounds = [c \in Clients |-> 0]
    /\ owner = [n \in Names |-> NoPassword]
    /\ failed = [c \in Clients |-> FALSE]
    /\ intact = TRUE
    /\ down = FALSE

WorkerStep(c) ==
    \/ LoginNames(c)
    \/ LoginSetting(c)
    \/ LoginVerify(c)
    \/ RegisterNames(c)
    \/ SaltThrows(c)
    \/ RegisterInsert(c)

ClientStep(c) ==
    \/ \E kind \in {"login", "register"}, n \in Names, p \in Passwords :
          SendName(c, kind, n, p)
    \/ SendPassword(c)

Next == \E c \in Clients : WorkerStep(c) \/ ClientStep(c)

Spec == Init /\ [][Next]_vars

-------------------------------------------------------------------------------
(* Properties *)

\* The values of every variable; every row has a name.
TypeOK ==
    /\ rows \in Seq(RowType)
    /\ user \in [Clients -> Names \cup {NoName}]
    /\ salt \in [Clients -> Salts \cup {NoSalt}]
    /\ at \in [Clients -> {"idle", "login1", "setting", "login2", "register1",
                           "register2", "silent"}]
    /\ reply \in [Clients -> SectionOne \cup SectionTwo \cup {"none"}]
    /\ typed \in [Clients -> [kind : {"login", "register"}, name : Names \cup {NoName},
                              password : Passwords \cup {NoPassword}]]
    /\ known \in [Clients -> Salts \cup {NoSalt}]
    /\ rounds \in [Clients -> 0..Rounds]
    /\ owner \in [Names -> Passwords \cup {NoPassword}]
    /\ failed \in [Clients -> BOOLEAN]
    /\ intact \in BOOLEAN
    /\ down \in BOOLEAN

\* Whoever is let in under a plain name entered the password of the one who
\* registered that name first, even if two registrations of the name raced or a query
\* failed, as long as every text that came into the table was plain.  Of any other
\* name, or table, the queries of Login.cpp:47 and 118 promise nothing.
AcceptedIsOwner ==
    \A c \in Clients :
        Exact(typed[c].name) /\ reply[c] = "LOGIN_2_OK"
            => typed[c].password = owner[typed[c].name]

\* And the one who registered a plain name first is never turned away with the right
\* password, once the first section went well: salt and ciphertext in its row
\* belong together, whoever registered in between.
OwnerIsAccepted ==
    \A c \in Clients :
        Exact(typed[c].name) =>
            ((reply[c] = "LOGIN_2_ERROR" /\ typed[c].kind = "login" /\ known[c] # NoSalt)
                => typed[c].password # owner[typed[c].name])

\* The row a registration of c under its name left in the table: its line, and beside
\* it the salt it was given for it.
StoredFor(c) ==
    \E i \in 1..Len(rows) :
        /\ rows[i].name = user[c]
        /\ rows[i].encrypt = Message(c)
        /\ known[c] # NoSalt => rows[i].setting = Setting(known[c])

\* With plain texts nobody is kept in the dark without a failure: the server goes down,
\* and a client that got its salt for a login is left without an answer, only when a
\* call of the round failed; whoever is told that it is registered has a row from
\* which its salt and password are verified.
FailureIsTheOnlyExcuse ==
    /\ intact /\ down => \E c \in Clients : failed[c]
    /\ \A c \in Clients : Exact(typed[c].name) =>
          /\ at[c] = "silent" /\ known[c] # NoSalt => failed[c]
          /\ reply[c] = "REGISTER_2_OK" => StoredFor(c)
===============================================================================
