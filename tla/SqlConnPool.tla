---------------------------- MODULE SqlConnPool ----------------------------
(***************************************************************************)
(* WebServer-master/code: the pool of MySQL connections                    *)
(* (pool/sqlconnpool.cpp), the SqlConnRAII guard (pool/sqlconnRAII.h) and  *)
(* the function that uses them, HttpRequest::UserVerify                    *)
(* (http/httprequest.cpp), called by the worker threads.                   *)
(*                                                                         *)
(* UserVerify declares no guard: `SqlConnRAII(&sql, ...)` is a temporary,  *)
(* destroyed at the end of its statement, so that a connection is back in  *)
(* the queue before it is used; FreeConn puts it there again at the end.   *)
(*                                                                         *)
(* GetConn tests connQue_.empty() without mtx_.  std::queue compares two   *)
(* pointers, which are two reads: pops and pushes of other threads may     *)
(* come between them.                                                      *)
(***************************************************************************)
EXTENDS Integers, Sequences, FiniteSets

CONSTANTS Workers,     \* threads that call UserVerify
          Conns,       \* connections that Init asks for, MAX_CONN_ of them
          NoConn,      \* nullptr
          MaxCalls     \* bound: calls of UserVerify

VARIABLES
  connQue,     \* SqlConnPool::connQue_
  popped,      \* how many elements have been popped: where connQue_ starts
  semId,       \* the value of semId_
  connected,   \* the connections that mysql_real_connect returned
  pc,          \* worker -> where it is
  sql,         \* worker -> its variable sql
  seen,        \* worker -> the end of connQue_ as empty() read it
  calls,       \* calls of UserVerify (bounded)
  aborted      \* an assertion has failed: the process has ended

vars == <<connQue, popped, semId, connected, pc, sql, seen, calls, aborted>>

Goto(w, p) == pc' = [pc EXCEPT ![w] = p]

-----------------------------------------------------------------------------
(* Init pushes what mysql_real_connect returns, nullptr after an error.    *)

InitPool ==
  /\ connQue \in [1..Cardinality(Conns) -> Conns \cup {NoConn}]
  /\ \A i, j \in DOMAIN connQue : connQue[i] = connQue[j] /\ connQue[i] # NoConn => i = j
  /\ popped = 0
  /\ semId = Cardinality(Conns)
  /\ connected = {connQue[i] : i \in DOMAIN connQue} \ {NoConn}

-----------------------------------------------------------------------------
(* GetConn.                                                                *)

\* UserVerify with a name and a password: the guard's constructor calls GetConn.
UserVerify(w) ==
  /\ pc[w] = "idle"
  /\ calls < MaxCalls
  /\ calls' = calls + 1
  /\ Goto(w, "GetConn")
  /\ UNCHANGED <<connQue, popped, semId, connected, sql, seen, aborted>>

\* connQue_.empty(): where the queue ends ...
ReadEnd(w) ==
  /\ pc[w] = "GetConn"
  /\ seen' = [seen EXCEPT ![w] = popped + Len(connQue)]
  /\ Goto(w, "empty")
  /\ UNCHANGED <<connQue, popped, semId, connected, sql, calls, aborted>>

\* ... is it where it starts?  GetConn returns nullptr if so.
ReadBegin(w) ==
  /\ pc[w] = "empty"
  /\ seen' = [seen EXCEPT ![w] = 0]
  /\ Goto(w, IF seen[w] = popped THEN "~SqlConnRAII" ELSE "sem_wait")
  /\ UNCHANGED <<connQue, popped, semId, connected, sql, calls, aborted>>

SemInterrupted == UNCHANGED semId
SemDown == semId > 0 /\ semId' = semId - 1

SemWait(w) ==
  /\ pc[w] = "sem_wait"
  /\ SemDown
  /\ Goto(w, "pop")
  /\ UNCHANGED <<connQue, popped, connected, sql, seen, calls, aborted>>

Pop(w) ==
  /\ pc[w] = "pop"
  /\ connQue # <<>>
  /\ sql' = [sql EXCEPT ![w] = Head(connQue)]
  /\ connQue' = Tail(connQue)
  /\ popped' = popped + 1
  /\ Goto(w, "~SqlConnRAII")
  /\ UNCHANGED <<semId, connected, seen, calls, aborted>>

-----------------------------------------------------------------------------
(* FreeConn, under mtx_: the connection goes to the end of the queue.      *)

FreeConn(c) == /\ connQue' = Append(connQue, c)
               /\ semId' = semId + 1

KeepConn(c) == UNCHANGED <<connQue, semId>>

\* The temporary guard is destroyed: it frees the connection that it got.
Freed(c) == FreeConn(c)

Destroy(w) ==
  /\ pc[w] = "~SqlConnRAII"
  /\ sql[w] # NoConn
  /\ Freed(sql[w])
  /\ Goto(w, "query")
  /\ UNCHANGED <<popped, connected, sql, seen, calls, aborted>>

\* It got none, and assert(sql) fails.
AssertFails(w) ==
  /\ pc[w] = "~SqlConnRAII"
  /\ sql[w] = NoConn
  /\ aborted' = TRUE
  /\ UNCHANGED <<connQue, popped, semId, connected, pc, sql, seen, calls>>

-----------------------------------------------------------------------------
(* The queries.                                                            *)

\* The SELECT fails: UserVerify returns false.
SelectError(w) ==
  /\ pc[w] = "query"
  /\ sql' = [sql EXCEPT ![w] = NoConn]
  /\ Goto(w, "idle")
  /\ UNCHANGED <<connQue, popped, semId, connected, seen, calls, aborted>>

\* The rows have been read, an INSERT made if need be, whatever its outcome.
QueryDone(w) ==
  /\ pc[w] = "query"
  /\ Goto(w, "FreeConn")
  /\ UNCHANGED <<connQue, popped, semId, connected, sql, seen, calls, aborted>>

\* FreeConn(sql) before the return of the answer.
Return(w) ==
  /\ pc[w] = "FreeConn"
  /\ FreeConn(sql[w])
  /\ sql' = [sql EXCEPT ![w] = NoConn]
  /\ Goto(w, "idle")
  /\ UNCHANGED <<popped, connected, seen, calls, aborted>>

-----------------------------------------------------------------------------
Init ==
  /\ InitPool
  /\ pc = [w \in Workers |-> "idle"]
  /\ sql = [w \in Workers |-> NoConn]
  /\ seen = [w \in Workers |-> 0]
  /\ calls = 0
  /\ aborted = FALSE

Step(w) == \/ ReadEnd(w) \/ ReadBegin(w) \/ SemWait(w) \/ Pop(w)
           \/ Destroy(w) \/ AssertFails(w)
           \/ SelectError(w) \/ QueryDone(w) \/ Return(w)

Next == ~aborted /\ \E w \in Workers : UserVerify(w) \/ Step(w)

Spec == Init /\ [][Next]_vars

(***************************************************************************)
(* Every thread runs, and MySQL answers.  sem_wait is weakly fair: a post  *)
(* that finds a waiter is not taken away for ever by others.               *)
(***************************************************************************)
FairSpec == Spec /\ \A w \in Workers : WF_vars(~aborted /\ Step(w))

-----------------------------------------------------------------------------
(* Properties.                                                             *)

PC == {"idle", "GetConn", "empty", "sem_wait", "pop", "~SqlConnRAII", "query", "FreeConn"}

\* Every variable has its type.
TypeOK ==
  /\ connQue \in Seq(Conns \cup {NoConn})
  /\ popped \in Nat /\ semId \in Nat /\ calls \in Nat
  /\ connected \subseteq Conns
  /\ pc \in [Workers -> PC]
  /\ sql \in [Workers -> Conns \cup {NoConn}]
  /\ seen \in [Workers -> Nat]
  /\ aborted \in BOOLEAN

(***************************************************************************)
(* The semaphore counts the queue: its value is the length of connQue_,    *)
(* but for the workers that have waited on it and not popped yet.  So      *)
(* front() never meets an empty queue, although the queue grows with each  *)
(* call and although the semaphore and mtx_ are taken one after the other. *)
(***************************************************************************)
Popping == {w \in Workers : pc[w] = "pop"}
SemMatches == Len(connQue) = semId + Cardinality(Popping)

(***************************************************************************)
(* No connection is lost, on the error path of the SELECT either, which    *)
(* returns without FreeConn: each one that was opened is in the queue, or  *)
(* with a worker whose guard is about to free it.                          *)
(***************************************************************************)
InQueue(c) == \E i \in 1..Len(connQue) : connQue[i] = c
ConnsKept ==
  \A c \in connected :
    InQueue(c) \/ \E w \in Workers : pc[w] = "~SqlConnRAII" /\ sql[w] = c

(***************************************************************************)
(* sqlconnRAII.h: a connection is the object's from its construction to    *)
(* its destruction.  Two calls never use one connection.                   *)
(***************************************************************************)
Uses(w) == pc[w] \in {"query", "FreeConn"}
NoSharedConn == \A v, w \in Workers : Uses(v) /\ Uses(w) /\ sql[v] = sql[w] => v = w

\* A call of UserVerify returns or ends the process: no worker waits for ever
\* on a semaphore that the test of empty() said it could pass.
CallReturns == \A w \in Workers : (pc[w] # "idle") ~> (pc[w] = "idle" \/ aborted)
=============================================================================
