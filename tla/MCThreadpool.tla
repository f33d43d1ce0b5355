----------------------------- MODULE MCThreadpool -----------------------------
(* The thread pool on a few workers and tasks.  No symmetry: the runs check *)
(* liveness. *)
EXTENDS Threadpool
===============================================================================
