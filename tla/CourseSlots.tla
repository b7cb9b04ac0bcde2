----------------------------- MODULE CourseSlots -----------------------------
(***************************************************************************)
(* lesson04/21/server3.c: main accepts a client, looks for a slot of       *)
(* sockinfos that is free, and starts a thread that echoes and closes.  A  *)
(* slot is free while its fd is -1; nothing sets it back.                  *)
(***************************************************************************)
EXTENDS Integers, FiniteSets

CONSTANTS Descriptors,  \* what accept() can return
          max           \* the slots, 128

VARIABLES
  open, gone,     \* connected descriptors, and those whose client has closed
  sockinfos,      \* slot -> its fd, -1 for none
  working,        \* the slots whose thread runs
  at, cfd, i      \* main: "accept", "search", "create" or "exited"; its variables

vars == <<open, gone, sockinfos, working, at, cfd, i>>
Slots == 1..max

Init ==
  /\ open = {} /\ gone = {} /\ working = {}
  /\ sockinfos = [s \in Slots |-> -1]
  /\ at = "accept" /\ cfd = -1 /\ i = 1

Leave(f) ==
  /\ f \in open \ gone /\ gone' = gone \cup {f}
  /\ UNCHANGED <<open, sockinfos, working, at, cfd, i>>

\* accept() returns the lowest descriptor.
Accept ==
  /\ at = "accept" /\ at' = "search" /\ i' = 1
  /\ cfd' \in {f \in Descriptors \ open : \A g \in Descriptors \ open : f <= g}
  /\ open' = open \cup {cfd'} /\ gone' = gone \ {cfd'}
  /\ UNCHANGED <<sockinfos, working>>

\* The search stays at the last slot, asleep, until that one is free.
Search ==
  /\ at = "search"
  /\ IF sockinfos[i] = -1
     THEN at' = "create" /\ UNCHANGED i
     ELSE i' = (IF i = max THEN i ELSE i + 1) /\ UNCHANGED at
  /\ UNCHANGED <<open, gone, sockinfos, working, cfd>>

Create ==
  /\ at = "create" /\ at' = "accept"
  /\ sockinfos' = [sockinfos EXCEPT ![i] = cfd] /\ working' = working \cup {i}
  /\ UNCHANGED <<open, gone, cfd, i>>

\* working(): echoes until read() returns 0.
Close(s) ==
  /\ s \in working /\ sockinfos[s] \in gone
  /\ open' = open \ {sockinfos[s]} /\ working' = working \ {s}
  /\ UNCHANGED <<gone, sockinfos, at, cfd, i>>

\* The client has gone with a reset, for which read() fails and the thread calls
\* exit(), or before its echo, for which SIGPIPE comes: all the threads end.
Exit(s) ==
  /\ s \in working /\ sockinfos[s] \in gone
  /\ at' = "exited" /\ open' = {} /\ working' = {}
  /\ UNCHANGED <<gone, sockinfos, cfd, i>>

Next == \/ Accept \/ Search \/ Create
        \/ (\E f \in Descriptors : Leave(f)) \/ \E s \in Slots : Close(s) \/ Exit(s)

-----------------------------------------------------------------------------
\* Two threads never have one descriptor, although the slot of a thread that
\* has ended keeps its number and accept() gives that number out again; and an
\* open connection has its thread, but for the one that main holds.
OneThreadEach ==
  \A f \in open :
    Cardinality({s \in working : sockinfos[s] = f})
      = IF at # "accept" /\ cfd = f THEN 0 ELSE 1
=============================================================================
