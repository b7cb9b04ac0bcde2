--------------------------- MODULE CourseProcesses ---------------------------
(***************************************************************************)
(* Children that end and the parent that reaps them: lesson04/21/server2.c *)
(* (one child for each connection) and lesson02/27/sigchld.c (children     *)
(* forked while SIGCHLD is blocked).  A signal is pending or not: several  *)
(* ends may come to one call of the handler.                               *)
(***************************************************************************)
CONSTANTS Children

VARIABLES program, child,   \* child -> "none", "running", "zombie" or "reaped"
          pending, blocked, \* SIGCHLD is pending, is blocked
          handler           \* the parent is in the handler

vars == <<program, child, pending, blocked, handler>>

Init ==
  /\ program \in {"server2", "sigchld"}
  /\ child = [c \in Children |-> "none"]
  /\ pending = FALSE /\ handler = FALSE
  /\ blocked = (program = "sigchld")

\* server2 forks when accept() has returned a connection, sigchld in a loop.
fork(c) ==
  /\ ~handler /\ child[c] = "none" /\ (program = "sigchld" => blocked)
  /\ child' = [child EXCEPT ![c] = "running"]
  /\ UNCHANGED <<program, pending, blocked, handler>>

exit(c) ==
  /\ child[c] = "running" /\ child' = [child EXCEPT ![c] = "zombie"]
  /\ pending' = TRUE
  /\ UNCHANGED <<program, blocked, handler>>

\* sigprocmask(SIG_UNBLOCK), after sigaction().
unblock ==
  /\ blocked /\ \A c \in Children : child[c] # "none"
  /\ blocked' = FALSE
  /\ UNCHANGED <<program, child, pending, handler>>

\* The handler interrupts the parent anywhere, but not itself.
deliver ==
  /\ pending /\ ~blocked /\ ~handler
  /\ pending' = FALSE /\ handler' = TRUE
  /\ UNCHANGED <<program, child, blocked>>

Zombies == {c \in Children : child[c] = "zombie"}

\* Mutant: one waitpid() for each signal.
recycle_once ==
  /\ handler /\ Zombies # {} /\ handler' = FALSE
  /\ \E c \in Zombies : child' = [child EXCEPT ![c] = "reaped"]
  /\ UNCHANGED <<program, pending, blocked>>

\* waitpid(-1, NULL, WNOHANG), again and again until none is left to reap.
recycleChild ==
  /\ handler
  /\ \/ /\ Zombies # {} /\ UNCHANGED handler
        /\ \E c \in Zombies : child' = [child EXCEPT ![c] = "reaped"]
     \/ Zombies = {} /\ handler' = FALSE /\ UNCHANGED child
  /\ UNCHANGED <<program, pending, blocked>>

Next == unblock \/ deliver \/ recycleChild \/ \E c \in Children : fork(c) \/ exit(c)

-----------------------------------------------------------------------------
\* A child that has ended is reaped: as long as one is not, its signal is
\* pending or the handler is still in its loop.
ZombiesReaped == Zombies # {} => pending \/ handler
=============================================================================
