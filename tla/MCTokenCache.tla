---------------------------- MODULE MCTokenCache ----------------------------
(* Values for checking TokenCache with TLC. *)
EXTENDS TokenCache

CONSTANTS c1, c2, c3, t1, t2
=============================================================================
