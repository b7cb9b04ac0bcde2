------------------------------ MODULE TimerSet ------------------------------
(***************************************************************************)
(* What HeapTimer promises to the reactor: a set of ids, each with the     *)
(* time at which it is due.  A timer that is set is due Timeout later.     *)
(* Timers expire in a tick only, in the order in which they are due, none  *)
(* before its last millisecond, and a tick leaves none that has expired.   *)
(***************************************************************************)
EXTENDS Integers

CONSTANTS Ids,       \* descriptors
          Timeout,   \* how long a timer runs, in units of the clock
          Milli      \* units of the clock in a millisecond

VARIABLES now,       \* the clock
          due,       \* id -> when it is due, for the ids that have a timer
          ticking    \* a tick is under way

vars == <<now, due, ticking>>

\* A duration in whole milliseconds, rounded towards 0.
Millis(d) == IF d >= 0 THEN d \div Milli ELSE -((-d) \div Milli)

Expired(d) == Millis(d - now) <= 0

Without(id) == [k \in DOMAIN due \ {id} |-> due[k]]

-----------------------------------------------------------------------------
Init == now = 0 /\ due = [k \in {} |-> 0] /\ ticking = FALSE

\* A timer starts, or starts again.
Set(id) ==
  /\ ~ticking
  /\ due' = [k \in DOMAIN due \cup {id} |-> IF k = id THEN now + Timeout ELSE due[k]]
  /\ UNCHANGED <<now, ticking>>

Cancel(id) ==
  /\ ~ticking /\ id \in DOMAIN due
  /\ due' = Without(id)
  /\ UNCHANGED <<now, ticking>>

Clear ==
  /\ ~ticking
  /\ due' = [k \in {} |-> 0]
  /\ UNCHANGED <<now, ticking>>

BeginTick ==
  /\ ~ticking /\ ticking' = TRUE
  /\ UNCHANGED <<now, due>>

\* The first timer that is due goes off.
Expire(id) ==
  /\ ticking /\ id \in DOMAIN due
  /\ Expired(due[id])
  /\ \A k \in DOMAIN due : due[id] <= due[k]
  /\ due' = Without(id)
  /\ UNCHANGED <<now, ticking>>

EndTick ==
  /\ ticking /\ ticking' = FALSE
  /\ \A k \in DOMAIN due : ~Expired(due[k])
  /\ UNCHANGED <<now, due>>

Advance ==
  /\ now' \in Nat /\ now' > now
  /\ UNCHANGED <<due, ticking>>

Next == \/ \E id \in Ids : Set(id) \/ Cancel(id) \/ Expire(id)
        \/ Clear \/ BeginTick \/ EndTick \/ Advance

Spec == Init /\ [][Next]_vars
=============================================================================
