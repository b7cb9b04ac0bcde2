----------------------------- MODULE HeapTimer -----------------------------
(***************************************************************************)
(* WebServer-master/code/timer/heaptimer.cpp: the binary heap of timers    *)
(* that the main thread keeps.  heap is the vector heap_, its indices      *)
(* those of the code, and ref is ref_, which finds the node of an id.      *)
(* An iteration of siftup_ or siftdown_ is a step; the clock moves between *)
(* the places where an operation reads it.                                 *)
(*                                                                         *)
(* Indices are size_t, and so is GetNextTick's result before it is         *)
(* returned as an int: what falls below 0 wraps around at SizeMax.         *)
(* The callbacks (CloseConn_) leave the heap alone.                        *)
(***************************************************************************)
EXTENDS Integers, FiniteSets

CONSTANTS Ids,       \* descriptors
          Timeout,   \* timeoutMS_, the same in every call, in units of the clock
          Milli,     \* units of the clock in a millisecond
          SizeMax,   \* one more than the largest size_t
          MaxTime    \* bound: the clock stops there

ASSUME IdsAssumption == IsFiniteSet(Ids)
ASSUME TimeAssumption == Timeout \in Nat /\ Milli \in Nat \ {0} /\ MaxTime \in Nat
ASSUME SizeAssumption == /\ SizeMax \in Nat
                         /\ SizeMax > 2 * Cardinality(Ids) + 2 /\ SizeMax > 2 * MaxTime + 2

VARIABLES
  heap,      \* heap_: index -> node
  size,      \* heap_.size()
  ref,       \* ref_: id -> index
  now,       \* the clock
  pc,        \* where the main thread is in an operation: "idle" between two,
             \* "aborted" after an assertion that failed
  op,        \* the operation
  i,         \* i of siftup_ and of siftdown_
  index,     \* index of siftdown_
  n,         \* n of siftdown_
  ret        \* what GetNextTick returned

vars == <<heap, size, ref, now, pc, op, i, index, n, ret>>

Node == [id : Ids, expires : Nat]

Less(j, k) == heap[j].expires < heap[k].expires

Wrapped(x) == IF x < 0 THEN x + SizeMax ELSE x
Parent(k) == Wrapped(k - 1) \div 2
Left(k) == 2 * k + 1

\* std::chrono::duration_cast to milliseconds rounds towards 0.
Millis(d) == IF d >= 0 THEN d \div Milli ELSE -((-d) \div Milli)

-----------------------------------------------------------------------------
(* SwapNode_, siftup_, siftdown_.                                          *)

Swapped(j, k) == [heap EXCEPT ![j] = heap[k], ![k] = heap[j]]

SwapRefsFirst(j, k) ==
  /\ heap' = Swapped(j, k)
  /\ ref' = [ref EXCEPT ![heap[j].id] = j, ![heap[k].id] = k]

SwapNode_(j, k) ==
  /\ heap' = Swapped(j, k)
  /\ ref' = [ref EXCEPT ![heap[k].id] = j, ![heap[j].id] = k]

\* add and adjust are over; del_ goes on.
Done == /\ pc' = IF op \in {"add", "adjust"} THEN "idle" ELSE "erase"
        /\ i' = 0 /\ index' = 0 /\ n' = 0

\* heap_[j] < heap_[i]: at the root, j is far outside of the vector, and the
\* comparison with what is read there may come out either way.
SiftUpStop ==
  /\ pc = "siftup"
  /\ Parent(i) < size => Less(Parent(i), i)
  /\ Done
  /\ UNCHANGED <<heap, size, ref, now, op, ret>>

SiftUpSwap ==
  /\ pc = "siftup"
  /\ Parent(i) < size /\ ~Less(Parent(i), i)
  /\ SwapNode_(i, Parent(i))
  /\ i' = Parent(i)
  /\ UNCHANGED <<size, now, pc, op, index, n, ret>>

\* assert(j >= 0 && j < heap_.size()) in SwapNode_.
SwapAborts ==
  /\ pc = "siftup"
  /\ Parent(i) >= size
  /\ pc' = "aborted"
  /\ UNCHANGED <<heap, size, ref, now, op, i, index, n, ret>>

LeftChild == Left(i)
Child == IF Left(i) + 1 < n /\ Less(Left(i) + 1, Left(i)) THEN Left(i) + 1 ELSE Left(i)

SiftDownSwap ==
  /\ pc = "siftdown"
  /\ Left(i) < n /\ ~Less(i, Child)
  /\ SwapNode_(i, Child)
  /\ i' = Child
  /\ UNCHANGED <<size, now, pc, op, index, n, ret>>

\* add and del_ sift up what has not moved down.
AlwaysSettled == TRUE
Settled == op = "adjust" \/ i > index

SiftDownStop ==
  /\ pc = "siftdown"
  /\ Left(i) < n => Less(i, Child)
  /\ IF Settled THEN Done ELSE pc' = "siftup" /\ UNCHANGED <<i, index, n>>
  /\ UNCHANGED <<heap, size, ref, now, op, ret>>

SiftDown(k, m) == pc' = "siftdown" /\ i' = k /\ index' = k /\ n' = m

-----------------------------------------------------------------------------
(* add, adjust.                                                            *)

AddNew(id) ==
  /\ pc = "idle"
  /\ id \notin DOMAIN ref
  /\ heap' = [k \in 0..size |-> IF k = size THEN [id |-> id, expires |-> now + Timeout]
                                            ELSE heap[k]]
  /\ ref' = [k \in DOMAIN ref \cup {id} |-> IF k = id THEN size ELSE ref[k]]
  /\ size' = size + 1
  /\ op' = "add" /\ pc' = "siftup" /\ i' = size
  /\ UNCHANGED <<now, index, n, ret>>

RestartInPlace(id) ==
  /\ pc = "idle"
  /\ id \in DOMAIN ref
  /\ heap' = [heap EXCEPT ![ref[id]].expires = now + Timeout]
  /\ UNCHANGED <<size, ref, now, pc, i, index, n, ret>>

Restart(id) ==
  /\ pc = "idle"
  /\ id \in DOMAIN ref
  /\ heap' = [heap EXCEPT ![ref[id]].expires = now + Timeout]
  /\ SiftDown(ref[id], size)
  /\ UNCHANGED <<size, ref, now, ret>>

AddAgain(id) == Restart(id) /\ op' = "add"

\* Called for ids that have a node: TimerNodePresent of module WebServer.
Adjust(id) == Restart(id) /\ op' = "adjust"

-----------------------------------------------------------------------------
(* del_, doWork, clear.                                                    *)

\* del_(k) puts the last node into k's place; the node to delete is last then.
Delete(k, o) ==
  /\ op' = o
  /\ IF k < size - 1 THEN SwapNode_(k, size - 1) /\ SiftDown(k, size - 1)
                     ELSE pc' = "erase" /\ UNCHANGED <<heap, ref, i, index, n>>
  /\ UNCHANGED <<size, now, ret>>

EraseNode ==
  /\ heap' = [k \in 0..(size - 2) |-> heap[k]]
  /\ size' = size - 1

EraseKeepsRef == EraseNode /\ UNCHANGED ref
EraseBack == EraseNode /\ ref' = [k \in DOMAIN ref \ {heap[size - 1].id} |-> ref[k]]

Erase ==
  /\ pc = "erase"
  /\ EraseBack
  /\ pc' = IF op = "pop" THEN "tick" ELSE "idle"
  /\ UNCHANGED <<now, op, i, index, n, ret>>

DoWork(id) ==
  /\ pc = "idle"
  /\ id \in DOMAIN ref
  /\ Delete(ref[id], "doWork")

Clear ==
  /\ pc = "idle"
  /\ heap' = [k \in {} |-> 0] /\ size' = 0
  /\ ref' = [k \in {} |-> 0]
  /\ UNCHANGED <<now, pc, op, i, index, n, ret>>

-----------------------------------------------------------------------------
(* GetNextTick and tick.                                                   *)

GetNextTick ==
  /\ pc = "idle"
  /\ pc' = "tick"
  /\ UNCHANGED <<heap, size, ref, now, op, i, index, n, ret>>

Remaining(k) == Millis(heap[k].expires - now)

TickExpired ==
  /\ pc = "tick"
  /\ size > 0 /\ Remaining(0) <= 0
  /\ Delete(0, "pop")

TickDone ==
  /\ pc = "tick"
  /\ size > 0 => Remaining(0) > 0
  /\ pc' = "next"
  /\ UNCHANGED <<heap, size, ref, now, op, i, index, n, ret>>

\* res is a size_t, so that it is never below 0 before it is returned as an int.
AsInt(x) == IF x >= SizeMax \div 2 THEN x - SizeMax ELSE x
Res == Wrapped(IF size > 0 THEN Remaining(0) ELSE -1)

Return ==
  /\ pc = "next"
  /\ ret' = AsInt(IF Res < 0 THEN 0 ELSE Res)
  /\ pc' = "idle"
  /\ UNCHANGED <<heap, size, ref, now, op, i, index, n>>

\* The clock moves where the next step reads it.
Advance ==
  /\ pc \in {"idle", "tick", "next"}
  /\ now' \in (now + 1)..MaxTime
  /\ UNCHANGED <<heap, size, ref, pc, op, i, index, n, ret>>

-----------------------------------------------------------------------------
Init ==
  /\ heap = [k \in {} |-> 0] /\ size = 0
  /\ ref = [k \in {} |-> 0]
  /\ now = 0
  /\ pc = "idle" /\ op = "add"
  /\ i = 0 /\ index = 0 /\ n = 0
  /\ ret = 0

Next == \/ \E id \in Ids : AddNew(id) \/ AddAgain(id) \/ Adjust(id) \/ DoWork(id)
        \/ Clear \/ GetNextTick
        \/ SiftUpStop \/ SiftUpSwap \/ SwapAborts \/ SiftDownStop \/ SiftDownSwap
        \/ Erase \/ TickExpired \/ TickDone \/ Return
        \/ Advance

Spec == Init /\ [][Next]_vars

-----------------------------------------------------------------------------
(* Properties.                                                             *)

\* Every variable has its type; the indices of a loop are indices of the heap.
TypeOK ==
  /\ size \in Nat /\ heap \in [0..(size - 1) -> Node]
  /\ DOMAIN ref \subseteq Ids /\ ref \in [DOMAIN ref -> 0..(size - 1)]
  /\ now \in Nat /\ ret \in Int
  /\ pc \in {"idle", "siftup", "siftdown", "erase", "tick", "next", "aborted"}
  /\ op \in {"add", "adjust", "doWork", "pop"}
  /\ i \in Nat /\ index \in Nat /\ n \in Nat
  /\ pc \in {"siftup", "siftdown"} => i < size
  /\ pc = "siftdown" => n <= size /\ index <= i
  /\ pc = "erase" => size > 0

(***************************************************************************)
(* ref_ finds each node at its place, through every swap of the loops: no  *)
(* id has two nodes, and adjust never moves the time of another connection.*)
(***************************************************************************)
RefInverse ==
  /\ \A k \in 0..(size - 1) : heap[k].id \in DOMAIN ref /\ ref[heap[k].id] = k
  /\ \A id \in DOMAIN ref : heap[ref[id]].id = id

(***************************************************************************)
(* Between two operations the heap is ordered, although adjust only sifts  *)
(* down: no node expires before its parent.                                *)
(***************************************************************************)
HeapOrdered ==
  pc \in {"idle", "tick", "next"} =>
    \A k \in 1..(size - 1) : ~Less(k, Parent(k))

(***************************************************************************)
(* epoll_wait never sleeps past an expiry: the timeout that GetNextTick    *)
(* returns, when it is one, is no longer than what any timer has left.     *)
(***************************************************************************)
NextTickInTime ==
  [][pc = "next" /\ pc' = "idle" /\ ret' >= 0 => \A k \in 0..(size - 1) : ret' <= Remaining(k)]_vars

(***************************************************************************)
(* The heap is a TimerSet: timers are set by add and adjust only, tick     *)
(* expires them in the order in which they are due, and does not end while *)
(* there is one that has expired.                                          *)
(***************************************************************************)
Ticking == pc = "tick" \/ (op = "pop" /\ pc \in {"siftdown", "siftup", "erase", "aborted"})

Due == [id \in DOMAIN ref |-> heap[ref[id]].expires]

TS == INSTANCE TimerSet WITH due <- Due, ticking <- Ticking

ImplementsTimerSet == TS!Spec

(***************************************************************************)
(* heaptimer.cpp, GetNextTick: if(res < 0) { res = 0; }.  While there is a *)
(* timer, the timeout is not negative, which epoll_wait takes for none.    *)
(***************************************************************************)
TimeoutNotNegative == [][pc = "next" /\ pc' = "idle" /\ size > 0 => ret' >= 0]_vars
=============================================================================
