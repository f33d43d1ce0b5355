\* Two clients register and log in under the same names at the same time; one name
\* is not plain, and one password is typed as it is.
SPECIFICATION Spec
CONSTANTS
    Clients = {c1, c2}
    Names = {n1, n2, quoted}
    Passwords = {p1, typed1}
    Bare = {typed1}
    Plain = {n1, n2, p1, typed1, NoName}
    Salts = {s1, s2}
    NoName = NoName
    NoSalt = NoSalt
    NoPassword = NoPassword
    Rounds = 2
SYMMETRY Symmetry
INVARIANTS
    TypeOK
    AcceptedIsOwner
    OwnerIsAccepted
    FailureIsTheOnlyExcuse
CHECK_DEADLOCK FALSE
