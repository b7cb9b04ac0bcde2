-------------------------------- MODULE Pools --------------------------------
(***************************************************************************)
(* WebServer-master/code/pool: the pool of threads and the pool of MySQL   *)
(* connections, one at a time: pool says which, and the variables of the   *)
(* other keep their first values.                                          *)
(***************************************************************************)
EXTENDS ThreadPool

CONSTANTS Conns,       \* connections that Init asks for, MAX_CONN_ of them
          NoConn,      \* nullptr
          MaxCalls     \* bound: calls of UserVerify

ASSUME ConnsAssumption == IsFiniteSet(Conns) /\ Conns # {} /\ NoConn \notin Conns
ASSUME MaxCallsAssumption == MaxCalls \in Nat

VARIABLES
  pool,                                                                         \* "threads" or "sql"
  connQue, popped, semId, connected, sqlPc, sql, seen, calls, aborted           \* SqlConnPool

sqlVars == <<connQue, popped, semId, connected, sqlPc, sql, seen, calls, aborted>>
poolsVars == <<pool, vars, sqlVars>>

Sql == INSTANCE SqlConnPool WITH pc <- sqlPc

PoolsInit ==
  /\ pool \in {"threads", "sql"}
  /\ Init
  /\ Sql!Init /\ (pool = "threads" => connected = {})

ThreadsOnly == UNCHANGED <<pool, sqlVars>>
SqlOnly == UNCHANGED <<pool, vars>>

PoolsNext ==
  \/ pool = "threads" /\ Next /\ ThreadsOnly
  \/ pool = "sql" /\ Sql!Next /\ SqlOnly

PoolsSpec == PoolsInit /\ [][PoolsNext]_poolsVars

\* The fairness of each pool, as its module states it.
PoolsFairness ==
  /\ \A c \in Callers : WF_vars(pool = "threads" /\ CallerStep(c))
  /\ \A w \in Workers : WF_vars(pool = "threads" /\ WorkerStep(w))
  /\ WF_vars(pool = "threads" /\ OwnerStep)
  /\ \A w \in Workers : WF_sqlVars(pool = "sql" /\ ~aborted /\ Sql!Step(w))

FairPoolsSpec == PoolsSpec /\ PoolsFairness

-----------------------------------------------------------------------------
\* See SqlConnPool: the semaphore counts the connections in the queue.
SemMatches == Sql!SemMatches
\* See SqlConnPool: no connection is lost, on the error paths either.
ConnsKept == Sql!ConnsKept
\* See SqlConnPool: no call of UserVerify waits for ever.
CallReturns == Sql!CallReturns
=============================================================================
