------------------------------- MODULE MCReactor -------------------------------
(* The reactor with a few clients, descriptors and workers. *)
EXTENDS Reactor, TLC

\* Clients are interchangeable, and so are workers.
Symmetry == Permutations(Conns) \cup Permutations(Workers)
===============================================================================
