---------------------------- MODULE CourseThreads ----------------------------
(***************************************************************************)
(* The programs of lesson03 in which producers add nodes to a list and     *)
(* customers take them: 12/prod-cust.c (a mutex; who finds no node tries   *)
(* again), 13/cond.c (a condition variable) and 14/semaphore.c (two        *)
(* semaphores).  A node is added and taken at the head: only the length of *)
(* the list matters.                                                       *)
(***************************************************************************)
EXTENDS Integers

CONSTANTS Producers, Customers,
          Room,       \* what psem begins with, 4
          MaxNodes    \* bound: nodes in a list that nothing else bounds

VARIABLES program, nodes, mutex, psem, csem,
          at          \* thread -> where it is in its loop

vars == <<program, nodes, mutex, psem, csem, at>>
Threads == Producers \cup Customers
Nobody == "nobody"

Init ==
  /\ program \in {"prod-cust", "cond", "semaphore"}
  /\ nodes = 0 /\ mutex = Nobody /\ psem = Room /\ csem = 0
  /\ at = [t \in Threads |-> IF program = "semaphore" THEN "sem_wait" ELSE "lock"]

Goes(t, place) == at' = [at EXCEPT ![t] = place]
Loops(t) == Goes(t, IF program = "semaphore" THEN "sem_wait" ELSE "lock")

Lock(t) ==
  /\ at[t] = "lock" /\ mutex = Nobody /\ mutex' = t /\ Goes(t, "locked")
  /\ t \in Producers /\ program # "semaphore" => nodes < MaxNodes
  /\ UNCHANGED <<program, nodes, psem, csem>>

-----------------------------------------------------------------------------
producer_wait(p) ==
  /\ at[p] = "sem_wait" /\ psem > 0 /\ psem' = psem - 1 /\ Goes(p, "lock")
  /\ UNCHANGED <<program, nodes, mutex, csem>>

\* The node is added and the mutex given back.
produce(p) ==
  /\ at[p] = "locked"
  /\ nodes' = nodes + 1 /\ mutex' = Nobody
  /\ IF program = "prod-cust" THEN Loops(p) ELSE Goes(p, "tell")
  /\ UNCHANGED <<program, psem, csem>>

Waiting == {c \in Customers : at[c] = "wait"}

\* pthread_cond_signal(), after the mutex is given back.
producer_signal(p) ==
  /\ program = "cond" /\ at[p] = "tell"
  /\ IF Waiting = {} THEN Loops(p)
     ELSE \E c \in Waiting : at' = [at EXCEPT ![p] = "lock", ![c] = "woken"]
  /\ UNCHANGED <<program, nodes, mutex, psem, csem>>

producer_post(p) ==
  /\ program = "semaphore" /\ at[p] = "tell" /\ csem' = csem + 1 /\ Loops(p)
  /\ UNCHANGED <<program, nodes, mutex, psem>>

producer(p) == producer_wait(p) \/ Lock(p) \/ produce(p) \/ producer_signal(p) \/ producer_post(p)

-----------------------------------------------------------------------------
customer_wait(c) ==
  /\ at[c] = "sem_wait" /\ csem > 0 /\ csem' = csem - 1 /\ Goes(c, "lock")
  /\ UNCHANGED <<program, nodes, mutex, psem>>

consume(c) ==
  /\ at[c] = "locked" /\ nodes > 0
  /\ nodes' = nodes - 1 /\ mutex' = Nobody
  /\ IF program = "semaphore" THEN Goes(c, "tell") ELSE Loops(c)
  /\ UNCHANGED <<program, psem, csem>>

\* No node: prod-cust.c tries again, cond.c waits and gives the mutex back in
\* one step, and semaphore.c does not ask: it would follow a null pointer.
find_none(c) ==
  /\ at[c] = "locked" /\ nodes = 0
  /\ mutex' = Nobody
  /\ Goes(c, CASE program = "prod-cust" -> "lock"
               [] program = "cond" -> "wait"
               [] program = "semaphore" -> "null")
  /\ UNCHANGED <<program, nodes, psem, csem>>

\* pthread_cond_wait() returns with the mutex, which is given back at once; it
\* may return without a signal too.
wake(c) ==
  /\ at[c] \in {"woken", "wait"} /\ mutex = Nobody /\ Loops(c)
  /\ UNCHANGED <<program, nodes, mutex, psem, csem>>

customer_post(c) ==
  /\ at[c] = "tell" /\ psem' = psem + 1 /\ Loops(c)
  /\ UNCHANGED <<program, nodes, mutex, csem>>

customer(c) == \/ customer_wait(c) \/ Lock(c) \/ consume(c) \/ find_none(c) \/ wake(c)
               \/ customer_post(c)

Next == (\E p \in Producers : producer(p)) \/ (\E c \in Customers : customer(c))

-----------------------------------------------------------------------------
\* With the condition variable, a node is never left to customers that all
\* wait, unless a producer is about to signal; with the semaphores, no customer
\* finds the list empty and the list is never longer than Room.
NodesTaken ==
  /\ program = "cond" /\ nodes > 0 /\ Waiting = Customers =>
       \E p \in Producers : at[p] = "tell"
  /\ program = "semaphore" => nodes <= Room /\ \A c \in Customers : at[c] # "null"
=============================================================================
