---------------------------- MODULE MCConnectionPool ----------------------------
(* The connection pool with more threads than connections. *)
EXTENDS ConnectionPool
===============================================================================
