------------------------------- MODULE MCPools -------------------------------
(* Pools for TLC: three workers, two callers and as many tasks as workers;    *)
(* two connections.                                                           *)
EXTENDS Pools, TLC

CONSTANTS w1, w2, w3, c1, c2, k1, k2, k3, n1, n2

MCWorkers == {w1, w2, w3}
MCCallers == {c1, c2}
MCTasks == {k1, k2, k3}
MCConns == {n1, n2}
=============================================================================
