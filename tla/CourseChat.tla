------------------------------ MODULE CourseChat ------------------------------
(***************************************************************************)
(* Two programs of lesson02/16 that talk over fifo1 (A to B) and fifo2 (B  *)
(* to A): charA.c and charB.c, which fork a child that reads while the     *)
(* parent writes, and code/chatA.c and chatB.c, which write and read in    *)
(* turn.  A fifo is at its end when it is empty and no process has it open *)
(* for writing; a forked child has both ends that its parent has.          *)
(***************************************************************************)
EXTENDS Integers, FiniteSets

CONSTANT MaxLines    \* bound: lines that one side types

VARIABLES
  version,   \* "char" or "chat"
  at,        \* process -> where it is
  fifo,      \* side -> the lines that wait to be read by it
  typed,     \* side -> lines typed so far
  killed     \* the processes that a signal ended

vars == <<version, at, fifo, typed, killed>>

Sides == {"A", "B"}
Other(s) == IF s = "A" THEN "B" ELSE "A"
Parent(s) == <<s, "parent">>
Child(s) == <<s, "child">>
Processes == Sides \X {"parent", "child"}

Init ==
  /\ version \in {"char", "chat"}
  /\ at = [p \in Processes |-> IF p[2] = "parent" THEN "open1" ELSE "none"]
  /\ fifo = [s \in Sides |-> 0] /\ typed = [s \in Sides |-> 0] /\ killed = {}

Alive(p) == at[p] \notin {"none", "end"}

\* The processes that have the fifo open which s reads: for writing, for reading.
Writers(s) == {p \in {Parent(Other(s)), Child(Other(s))} : Alive(p)}
Readers(s) == {p \in {Parent(s), Child(s)} : Alive(p)}

-----------------------------------------------------------------------------
(* open() waits for the other end: both sides open fifo1 first.            *)

OpenFirst ==
  /\ \A s \in Sides : at[Parent(s)] = "open1"
  /\ at' = [at EXCEPT ![Parent("A")] = "open2", ![Parent("B")] = "open2"]
  /\ UNCHANGED <<version, fifo, typed, killed>>

OpenSecond ==
  /\ \A s \in Sides : at[Parent(s)] = "open2"
  /\ at' = [p \in Processes |->
              IF p[2] = "child" THEN "none"
              ELSE IF version = "char" THEN "fork"
              ELSE IF p[1] = "A" THEN "write" ELSE "read"]
  /\ UNCHANGED <<version, fifo, typed, killed>>

-----------------------------------------------------------------------------
(* charA.c and charB.c.                                                    *)

\* fork(): the parent goes on as the writer, the child as the reader.
fork(s) ==
  /\ at[Parent(s)] = "fork"
  /\ at' = [at EXCEPT ![Parent(s)] = "write", ![Child(s)] = "read"]
  /\ UNCHANGED <<version, fifo, typed, killed>>

\* fgets() and write(): a line, or nothing at the end of the input, for ever.
\* With no reader left SIGPIPE ends the process.
Write(s) ==
  /\ version = "char" /\ at[Parent(s)] = "write" /\ typed[s] < MaxLines
  /\ IF Readers(Other(s)) = {}
     THEN /\ at' = [at EXCEPT ![Parent(s)] = "end"] /\ killed' = killed \cup {Parent(s)}
          /\ UNCHANGED <<fifo, typed>>
     ELSE /\ typed' = [typed EXCEPT ![s] = @ + 1]
          /\ fifo' = [fifo EXCEPT ![Other(s)] = @ + 1]
          /\ UNCHANGED <<at, killed>>
  /\ UNCHANGED version

\* read() takes all that is there, as one line; 0 ends the child.
Read(s) ==
  /\ version = "char" /\ at[Child(s)] = "read"
  /\ \/ fifo[s] > 0 /\ fifo' = [fifo EXCEPT ![s] = 0] /\ UNCHANGED at
     \/ /\ fifo[s] = 0 /\ Writers(s) = {}
        /\ at' = [at EXCEPT ![Child(s)] = "end"] /\ UNCHANGED fifo
  /\ UNCHANGED <<version, typed, killed>>

-----------------------------------------------------------------------------
(* chatA.c and chatB.c.                                                    *)

\* At the end of the input write() writes nothing, and the turn passes silently.
ChatWrite(s) ==
  /\ version = "chat" /\ at[Parent(s)] = "write" /\ typed[s] < MaxLines
  /\ IF Readers(Other(s)) = {}
     THEN /\ at' = [at EXCEPT ![Parent(s)] = "end"] /\ killed' = killed \cup {Parent(s)}
          /\ UNCHANGED <<fifo, typed>>
     ELSE /\ at' = [at EXCEPT ![Parent(s)] = "read"]
          /\ typed' = [typed EXCEPT ![s] = @ + 1]
          /\ \E n \in 0..1 : fifo' = [fifo EXCEPT ![Other(s)] = @ + n]
          /\ UNCHANGED killed
  /\ UNCHANGED version

ChatRead(s) ==
  /\ version = "chat" /\ at[Parent(s)] = "read"
  /\ \/ /\ fifo[s] > 0 /\ fifo' = [fifo EXCEPT ![s] = 0]
        /\ at' = [at EXCEPT ![Parent(s)] = "write"]
     \/ /\ fifo[s] = 0 /\ Writers(s) = {}
        /\ at' = [at EXCEPT ![Parent(s)] = "end"] /\ UNCHANGED fifo
  /\ UNCHANGED <<version, typed, killed>>

\* The user ends a program: a process of it gets the signal, or each of them.
Kill ==
  \E s \in Sides, ps \in SUBSET Processes :
    /\ ps # {} /\ \A p \in ps : p[1] = s /\ Alive(p)
    /\ at' = [p \in Processes |-> IF p \in ps THEN "end" ELSE at[p]]
    /\ killed' = killed \cup ps
    /\ UNCHANGED <<version, fifo, typed>>

charMain(s) == fork(s) \/ Write(s) \/ Read(s)
chatMain(s) == ChatWrite(s) \/ ChatRead(s)
Next == OpenFirst \/ OpenSecond \/ Kill \/ \E s \in Sides : charMain(s) \/ chatMain(s)

-----------------------------------------------------------------------------
\* The readers of char keep each other alive: each has the write end of the
\* fifo that the other reads, so neither sees the end of its fifo before the
\* other child was killed, even when both parents have gone; unless the other
\* side was killed before it forked.
ReadersWait ==
  version = "char" => \A s \in Sides :
    at[Child(s)] = "end" /\ Child(s) \notin killed =>
      Child(Other(s)) \in killed \/ at[Child(Other(s))] = "none"

\* In chat the turn is with one side: at most one line is on its way, and it is
\* on its way to a side that is reading.
TurnsTaken ==
  version = "chat" =>
    /\ fifo["A"] + fifo["B"] <= 1
    /\ \A s \in Sides : fifo[s] > 0 => at[Parent(s)] \in {"read", "end"}
    /\ ~\A s \in Sides : at[Parent(s)] = "write"
=============================================================================
