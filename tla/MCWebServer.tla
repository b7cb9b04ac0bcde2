---------------------------- MODULE MCWebServer ----------------------------
(* WebServer for TLC: three descriptors, of which two may be in use at once. *)
EXTENDS WebServer, TLC

CONSTANTS w1, w2

MCFds == 1..3
LiveFds == 1..2
MCWorkers == {w1, w2}

\* Once a timer has overrun, what the liveness properties promise is void.
NotOverrun == ~overrun

\* What follows an overrun is explored for two connections, enough to reuse a descriptor.
OverrunBound == overrun => arrived <= 2

WorkerSymmetry == Permutations(MCWorkers)
=============================================================================
