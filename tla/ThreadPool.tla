----------------------------- MODULE ThreadPool -----------------------------
(***************************************************************************)
(* WebServer-master/code/pool/threadpool.h: the queue of tasks, the mutex  *)
(* and the condition variable that AddTask, the destructor and the workers *)
(* share.  A worker keeps the mutex from one turn of its loop to the next; *)
(* it gives it up to run a task and while it waits.                        *)
(*                                                                         *)
(* The destructor is called by one of the threads that add tasks, and, as  *)
(* for any object, only when no other call is under way or still to come.  *)
(***************************************************************************)
EXTENDS Integers, Sequences, FiniteSets

CONSTANTS Workers,      \* the detached threads of the constructor
          Callers,      \* threads that call AddTask
          Owner,        \* the one of them that destroys the pool
          Tasks,        \* bound: the tasks that are ever added
          Nobody,       \* mtx is free
          NoTask,
          MaxSpurious   \* bound: waits that end without a notification

ASSUME OwnerAssumption == Owner \in Callers
ASSUME CallersAssumption == Callers \cap Workers = {}
ASSUME NobodyAssumption == Nobody \notin Workers \cup Callers
ASSUME TaskAssumption == NoTask \notin Tasks
ASSUME FiniteAssumption == IsFiniteSet(Workers) /\ IsFiniteSet(Callers)
ASSUME SpuriousAssumption == MaxSpurious \in Nat

VARIABLES
  mtx,        \* the thread that holds pool->mtx, or Nobody
  waiting,    \* workers that wait on pool->cond
  tasks,      \* pool->tasks
  isClosed,   \* pool->isClosed
  pc,         \* thread -> where it is
  task,       \* thread -> the task it adds or runs, or NoTask
  fresh,      \* tasks not added yet
  ran,        \* tasks that have been run
  spurious    \* waits that ended without a notification (bounded)

vars == <<mtx, waiting, tasks, isClosed, pc, task, fresh, ran, spurious>>

Threads == Workers \cup Callers

At(t, p) == pc[t] = p
Goto(t, p) == pc' = [pc EXCEPT ![t] = p]

\* std::unique_lock, std::lock_guard: where a thread asks for mtx, and what it then does.
Asks == {"lock", "lockToClose", "lockAgain"}
Inside(p) == CASE p = "lock" -> "emplace"
               [] p = "lockToClose" -> "close"
               [] p = "lockAgain" -> "check"

Lock(t) ==
  /\ pc[t] \in Asks
  /\ mtx = Nobody
  /\ mtx' = t
  /\ Goto(t, Inside(pc[t]))
  /\ UNCHANGED <<waiting, tasks, isClosed, task, fresh, ran, spurious>>

-----------------------------------------------------------------------------
(* AddTask.                                                                *)

\* The lifetime of the pool: no call is made once its destructor is.
Alive == ~isClosed /\ pc[Owner] \notin {"lockToClose", "close"}

AddTask(c, k) ==
  /\ At(c, "idle")
  /\ Alive
  /\ k \in fresh
  /\ fresh' = fresh \ {k}
  /\ task' = [task EXCEPT ![c] = k]
  /\ Goto(c, "lock")
  /\ UNCHANGED <<mtx, waiting, tasks, isClosed, ran, spurious>>

Emplace(c) ==
  /\ At(c, "emplace")
  /\ tasks' = Append(tasks, task[c])
  /\ task' = [task EXCEPT ![c] = NoTask]
  /\ mtx' = Nobody
  /\ Goto(c, "notify_one")
  /\ UNCHANGED <<waiting, isClosed, fresh, ran, spurious>>

\* notify_one wakes one of the workers that wait, if there is one.
WhenFirst == IF Len(tasks) = 1 THEN waiting ELSE {}
Wakeable == waiting

NotifyOne(c) ==
  /\ At(c, "notify_one")
  /\ IF Wakeable = {}
       THEN Goto(c, "idle") /\ UNCHANGED waiting
       ELSE \E w \in Wakeable : /\ waiting' = waiting \ {w}
                                /\ pc' = [pc EXCEPT ![c] = "idle", ![w] = "lockAgain"]
  /\ UNCHANGED <<mtx, tasks, isClosed, task, fresh, ran, spurious>>

-----------------------------------------------------------------------------
(* ~ThreadPool.                                                            *)

Destroy ==
  /\ \A c \in Callers : At(c, "idle")
  /\ Alive
  /\ Goto(Owner, "lockToClose")
  /\ UNCHANGED <<mtx, waiting, tasks, isClosed, task, fresh, ran, spurious>>

Close ==
  /\ At(Owner, "close")
  /\ isClosed' = TRUE
  /\ mtx' = Nobody
  /\ Goto(Owner, "notify_all")
  /\ UNCHANGED <<waiting, tasks, task, fresh, ran, spurious>>

\* notify_all wakes every worker that waits.
OneOfThem == IF waiting = {} THEN {} ELSE {CHOOSE w \in waiting : TRUE}
AllOfThem == waiting

NotifyAll ==
  /\ At(Owner, "notify_all")
  /\ waiting' = waiting \ AllOfThem
  /\ pc' = [t \in Threads |-> IF t = Owner THEN "idle"
                              ELSE IF t \in AllOfThem THEN "lockAgain" ELSE pc[t]]
  /\ UNCHANGED <<mtx, tasks, isClosed, task, fresh, ran, spurious>>

-----------------------------------------------------------------------------
(* The loop of a worker.  It tests tasks.empty() before isClosed.          *)

FrontAfterPop == IF Len(tasks) > 1 THEN tasks[2] ELSE NoTask
Front == Head(tasks)

TakeTask(w) ==
  /\ At(w, "check")
  /\ tasks # <<>>
  /\ task' = [task EXCEPT ![w] = Front]
  /\ tasks' = Tail(tasks)
  /\ mtx' = Nobody
  /\ Goto(w, "run")
  /\ UNCHANGED <<waiting, isClosed, fresh, ran, spurious>>

Run(w) ==
  /\ At(w, "run")
  /\ ran' = ran \cup {task[w]}
  /\ task' = [task EXCEPT ![w] = NoTask]
  /\ Goto(w, "lockAgain")
  /\ UNCHANGED <<mtx, waiting, tasks, isClosed, fresh, spurious>>

ClosedFirst == isClosed
NothingLeft == tasks = <<>> /\ isClosed

Exit(w) ==
  /\ At(w, "check")
  /\ NothingLeft
  /\ mtx' = Nobody
  /\ Goto(w, "exit")
  /\ UNCHANGED <<waiting, tasks, isClosed, task, fresh, ran, spurious>>

Wait(w) ==
  /\ At(w, "check")
  /\ tasks = <<>> /\ ~isClosed
  /\ waiting' = waiting \cup {w}
  /\ mtx' = Nobody
  /\ Goto(w, "wait")
  /\ UNCHANGED <<tasks, isClosed, task, fresh, ran, spurious>>

\* A wait may end by itself.
Wake(w) ==
  /\ w \in waiting
  /\ spurious < MaxSpurious
  /\ spurious' = spurious + 1
  /\ waiting' = waiting \ {w}
  /\ Goto(w, "lockAgain")
  /\ UNCHANGED <<mtx, tasks, isClosed, task, fresh, ran>>

-----------------------------------------------------------------------------
Init ==
  /\ mtx = Nobody
  /\ waiting = {}
  /\ tasks = <<>>
  /\ isClosed = FALSE
  /\ pc = [t \in Threads |-> IF t \in Workers THEN "lockAgain" ELSE "idle"]
  /\ task = [t \in Threads |-> NoTask]
  /\ fresh = Tasks
  /\ ran = {}
  /\ spurious = 0

CallerStep(c) == Lock(c) \/ Emplace(c) \/ NotifyOne(c)
WorkerStep(w) == Lock(w) \/ TakeTask(w) \/ Run(w) \/ Exit(w) \/ Wait(w)
OwnerStep == Close \/ NotifyAll

Next == \/ \E c \in Callers : CallerStep(c) \/ \E k \in Tasks : AddTask(c, k)
        \/ Destroy \/ OwnerStep
        \/ \E w \in Workers : WorkerStep(w) \/ Wake(w)

Spec == Init /\ [][Next]_vars

(***************************************************************************)
(* A thread that can go on does; the threads contend for mtx a bounded     *)
(* number of times, so weak fairness is enough for each to get it.  Nobody *)
(* has to add a task or to destroy the pool, and tasks end.                *)
(***************************************************************************)
Fairness == /\ \A c \in Callers : WF_vars(CallerStep(c))
            /\ \A w \in Workers : WF_vars(WorkerStep(w))
            /\ WF_vars(OwnerStep)

FairSpec == Spec /\ Fairness

-----------------------------------------------------------------------------
(* Properties.                                                             *)

CallerPC == {"idle", "lock", "emplace", "notify_one", "lockToClose", "close", "notify_all"}
WorkerPC == {"lockAgain", "check", "run", "wait", "exit"}

\* Every variable has its type.
TypeOK ==
  /\ mtx \in Threads \cup {Nobody}
  /\ waiting \subseteq Workers
  /\ tasks \in Seq(Tasks)
  /\ isClosed \in BOOLEAN
  /\ pc \in [Threads -> CallerPC \cup WorkerPC]
  /\ \A c \in Callers : pc[c] \in CallerPC
  /\ \A w \in Workers : pc[w] \in WorkerPC
  /\ task \in [Threads -> Tasks \cup {NoTask}]
  /\ fresh \subseteq Tasks /\ ran \subseteq Tasks
  /\ spurious \in Nat

(***************************************************************************)
(* No wakeup is lost, although AddTask notifies after it has released mtx  *)
(* and a notification finds nobody when no worker waits: while a worker    *)
(* sleeps, for each task in the queue there is another worker on its way   *)
(* to look at the queue or a notification still to come.                   *)
(***************************************************************************)
Looking == {w \in Workers : pc[w] \in {"lockAgain", "check"}}
Notifying == {c \in Callers : At(c, "notify_one")}

WorkConserving ==
  waiting # {} => Len(tasks) <= Cardinality(Looking) + Cardinality(Notifying)

(***************************************************************************)
(* The pool is a TaskQueue: tasks start in the order of AddTask, each      *)
(* once, and the destructor lets the workers drain the queue before they   *)
(* end.  A task counts as given once it is in the queue.                   *)
(***************************************************************************)
TQ == INSTANCE TaskQueue WITH
        fresh <- fresh \cup ({task[c] : c \in Callers} \ {NoTask}),
        pending <- tasks,
        running <- [w \in Workers |-> task[w]],
        done <- ran,
        closed <- isClosed,
        retired <- {w \in Workers : At(w, "exit")}

ImplementsTaskQueue == TQ!Spec

\* Every task that is added is eventually run, also when the pool is destroyed first.
TasksRun == \A k \in Tasks : (k \notin fresh) ~> (k \in ran)

\* Once the destructor has set isClosed, every worker eventually ends.
WorkersExit == isClosed ~> \A w \in Workers : At(w, "exit")
=============================================================================
