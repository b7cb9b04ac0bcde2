------------------------------ MODULE TaskQueue ------------------------------
(***************************************************************************)
(* What a pool of worker threads promises: the tasks it is given are       *)
(* started in the order in which they were given, each once, by a worker   *)
(* that has nothing else to do, and no worker retires before the pool is   *)
(* closed and every task has been started.                                 *)
(***************************************************************************)
EXTENDS Sequences

CONSTANTS Workers, Tasks, NoTask

VARIABLES
  fresh,     \* tasks that nobody has given yet
  pending,   \* tasks given and not started, in order
  running,   \* worker -> the task it runs, or NoTask
  done,      \* tasks that have ended
  closed,    \* no task is given any more
  retired    \* workers that have ended

vars == <<fresh, pending, running, done, closed, retired>>

Init ==
  /\ fresh = Tasks
  /\ pending = <<>>
  /\ running = [w \in Workers |-> NoTask]
  /\ done = {}
  /\ closed = FALSE
  /\ retired = {}

Submit(k) ==
  /\ ~closed
  /\ k \in fresh
  /\ fresh' = fresh \ {k}
  /\ pending' = Append(pending, k)
  /\ UNCHANGED <<running, done, closed, retired>>

Start(w) ==
  /\ w \notin retired
  /\ running[w] = NoTask
  /\ pending # <<>>
  /\ running' = [running EXCEPT ![w] = Head(pending)]
  /\ pending' = Tail(pending)
  /\ UNCHANGED <<fresh, done, closed, retired>>

Finish(w) ==
  /\ running[w] # NoTask
  /\ done' = done \cup {running[w]}
  /\ running' = [running EXCEPT ![w] = NoTask]
  /\ UNCHANGED <<fresh, pending, closed, retired>>

Close ==
  /\ ~closed
  /\ closed' = TRUE
  /\ UNCHANGED <<fresh, pending, running, done, retired>>

Retire(w) ==
  /\ closed
  /\ pending = <<>>
  /\ running[w] = NoTask
  /\ retired' = retired \cup {w}
  /\ UNCHANGED <<fresh, pending, running, done, closed>>

Next == \/ \E k \in Tasks : Submit(k)
        \/ Close
        \/ \E w \in Workers : Start(w) \/ Finish(w) \/ Retire(w)

Spec == Init /\ [][Next]_vars
=============================================================================
