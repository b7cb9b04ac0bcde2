---------------------------- MODULE CourseTickets ----------------------------
(***************************************************************************)
(* lesson03's threads on one variable: 08/sellticket.c (no lock), 09/      *)
(* mutex.c (a mutex) sell tickets, 11/rwlock.c counts under a lock that    *)
(* many readers or one writer may hold.                                    *)
(***************************************************************************)
EXTENDS Integers

CONSTANTS Sellers, Readers,
          Tickets,     \* 100 in the code
          MaxNum       \* bound: how far rwlock.c counts

VARIABLES
  program,       \* "sellticket", "mutex" or "rwlock"
  shared,        \* ticket, or num
  at, read,      \* thread -> where it is, and what it has read of shared
  holders,       \* who has the mutex, or the rwlock
  done           \* the times that ticket-- or num++ was done

vars == <<program, shared, at, read, holders, done>>
Threads == Sellers \cup Readers

Init ==
  /\ program \in {"sellticket", "mutex", "rwlock"}
  /\ shared = (IF program = "rwlock" THEN 1 ELSE Tickets)
  /\ at = [t \in Threads |-> IF program = "sellticket" THEN "test" ELSE "lock"]
  /\ read = [t \in Threads |-> 0] /\ holders = {} /\ done = 0

Goes(t, place) == at' = [at EXCEPT ![t] = place]

-----------------------------------------------------------------------------
(* sellticket.c: the test, the read and the write of ticket are apart.     *)

Test(t) ==
  /\ program = "sellticket" /\ t \in Sellers /\ at[t] = "test"
  /\ Goes(t, IF shared > 0 THEN "load" ELSE "end")
  /\ UNCHANGED <<program, shared, read, holders, done>>

\* ticket-- and num++ read the variable ...
Load(t) ==
  /\ at[t] = "load" /\ read' = [read EXCEPT ![t] = shared] /\ Goes(t, "store")
  /\ UNCHANGED <<program, shared, holders, done>>

\* ... and write it.
Store(t) ==
  /\ at[t] = "store" /\ done' = done + 1
  /\ shared' = (IF program = "rwlock" THEN read[t] + 1 ELSE read[t] - 1)
  /\ Goes(t, IF program = "sellticket" THEN "test" ELSE "unlock")
  /\ UNCHANGED <<program, read, holders>>

-----------------------------------------------------------------------------
(* mutex.c                                                                 *)

MutexLock(t) ==
  /\ program = "mutex" /\ t \in Sellers /\ at[t] = "lock" /\ holders = {}
  /\ holders' = {t} /\ Goes(t, IF shared > 0 THEN "load" ELSE "last")
  /\ UNCHANGED <<program, shared, read, done>>

MutexUnlock(t) ==
  /\ program = "mutex" /\ at[t] \in {"unlock", "last"}
  /\ holders' = {} /\ Goes(t, IF at[t] = "last" THEN "end" ELSE "lock")
  /\ UNCHANGED <<program, shared, read, done>>

-----------------------------------------------------------------------------
(* rwlock.c                                                                *)

writeNum(t) ==
  /\ program = "rwlock" /\ t \in Sellers /\ at[t] = "lock" /\ holders = {} /\ shared < MaxNum
  /\ holders' = {t} /\ Goes(t, "load")
  /\ UNCHANGED <<program, shared, read, done>>

readNum(t) ==
  /\ program = "rwlock" /\ t \in Readers /\ at[t] = "lock" /\ holders \subseteq Readers
  /\ holders' = holders \cup {t} /\ read' = [read EXCEPT ![t] = shared] /\ Goes(t, "unlock")
  /\ UNCHANGED <<program, shared, done>>

unlock(t) ==
  /\ program = "rwlock" /\ at[t] = "unlock"
  /\ holders' = holders \ {t} /\ Goes(t, "lock")
  /\ UNCHANGED <<program, shared, read, done>>

Next == \E t \in Threads : \/ Test(t) \/ Load(t) \/ Store(t)
                           \/ MutexLock(t) \/ MutexUnlock(t)
                           \/ writeNum(t) \/ readNum(t) \/ unlock(t)

-----------------------------------------------------------------------------
\* Under a lock no step on the variable is lost, no ticket below the first is
\* sold, and who holds the lock for reading has read what is still true.
\* Without one a ticket may be sold twice, but no sale is missing.
CountKept ==
  /\ program = "mutex" => shared = Tickets - done /\ shared >= 0
  /\ program = "rwlock" =>
       shared = 1 + done /\ \A t \in Readers \cap holders : read[t] = shared
  /\ program = "sellticket" => shared >= Tickets - done
=============================================================================
