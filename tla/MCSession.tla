------------------------------- MODULE MCSession -------------------------------
(* Logins and registrations of a few clients. *)
EXTENDS Session, TLC

\* Clients and salts are interchangeable, and so are the plain names; so are the
\* passwords that are typed in the same way.
Symmetry ==
    Permutations(Clients) \cup Permutations(Names \cap Plain)
        \cup Permutations(Passwords \ Bare) \cup Permutations(Salts)
===============================================================================
