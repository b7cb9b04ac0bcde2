------------------------------- MODULE MCLog -------------------------------
(* Log with two writers and a deque of two.                               *)
EXTENDS Log

CONSTANTS w1, w2

MCWriters == {w1, w2}
=============================================================================
