--------------------------- MODULE MCSqlConnPool ---------------------------
(* SqlConnPool with more connections than workers, so that every worker     *)
(* could have one to itself.                                                *)
EXTENDS SqlConnPool

CONSTANTS w1, w2, c1, c2, c3

MCWorkers == {w1, w2}
MCConns == {c1, c2, c3}

\* Every mysql_real_connect of Init succeeded.
AllConnected == connected = Conns
=============================================================================
