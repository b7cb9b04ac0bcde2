------------------------- MODULE ThreadPool_proofs -------------------------
(***************************************************************************)
(* Proofs about ThreadPool, for any finite sets of workers and callers and *)
(* any tasks: its types, that it implements TaskQueue, and that no wakeup  *)
(* is lost.                                                                *)
(*                                                                         *)
(* PoolInv says what a thread holds at each point, that a task has one     *)
(* holder, and that the destructor is alone.                               *)
(***************************************************************************)
EXTENDS ThreadPool, TLAPS, FiniteSetTheorems

Adding == {"lock", "emplace"}

(* A thread holds a task from AddTask to Emplace, or while it runs it.     *)
HeldInv ==
  /\ \A c \in Callers : pc[c] \in Adding <=> task[c] # NoTask
  /\ \A w \in Workers : At(w, "run") <=> task[w] # NoTask

(* What is being added is not fresh and has one caller.                    *)
FreshInv ==
  /\ \A c \in Callers : task[c] \notin fresh
  /\ \A c, d \in Callers : task[c] = task[d] /\ task[c] # NoTask => c = d

(* Only the owner destroys the pool, once, and then nobody adds.           *)
OwnerInv ==
  /\ \A c \in Callers : pc[c] \in {"lockToClose", "close", "notify_all"} => c = Owner
  /\ ~Alive => \A c \in Callers : pc[c] \notin Adding \cup {"notify_one"}
  /\ pc[Owner] \in {"lockToClose", "close"} => ~isClosed

(* The workers that wait are those that notifications look for.            *)
WaitInv == \A w \in Workers : w \in waiting <=> At(w, "wait")

PoolInv == TypeOK /\ HeldInv /\ FreshInv /\ OwnerInv /\ WaitInv

-----------------------------------------------------------------------------
LEMMA ThreadFacts ==
  /\ Owner \in Callers /\ Owner \in Threads
  /\ \A c \in Callers : c \in Threads /\ c \notin Workers
  /\ \A w \in Workers : w \in Threads /\ w \notin Callers
  /\ \A t \in Threads : t # Nobody
  BY OwnerAssumption, CallersAssumption, NobodyAssumption DEF Threads

LEMMA PoolInvInit == Init => PoolInv
  <1> SUFFICES ASSUME Init PROVE PoolInv
    OBVIOUS
  <1>1. /\ \A c \in Callers : pc[c] = "idle" /\ task[c] = NoTask
        /\ \A w \in Workers : pc[w] = "lockAgain" /\ task[w] = NoTask
    BY ThreadFacts DEF Init
  <1>2. TypeOK
    <2>1. pc \in [Threads -> CallerPC \cup WorkerPC]
      BY DEF Init, CallerPC, WorkerPC
    <2>2. task \in [Threads -> Tasks \cup {NoTask}]
      BY DEF Init
    <2>3. tasks \in Seq(Tasks) /\ spurious \in Nat
      BY DEF Init
    <2> QED
      BY <1>1, <2>1, <2>2, <2>3 DEF Init, TypeOK, CallerPC, WorkerPC
  <1>3. HeldInv
    BY <1>1 DEF HeldInv, At, Adding
  <1>4. FreshInv
    BY <1>1, TaskAssumption DEF Init, FreshInv
  <1>5. OwnerInv
    BY <1>1, ThreadFacts DEF Init, OwnerInv, Alive, Adding
  <1>6. WaitInv
    BY <1>1 DEF Init, WaitInv, At
  <1> QED
    BY <1>2, <1>3, <1>4, <1>5, <1>6 DEF PoolInv

LEMMA TypeOKNext ==
  ASSUME TypeOK, HeldInv, [Next]_vars
  PROVE  TypeOK'
  <1> USE ThreadFacts, TaskAssumption
  <1>1. ASSUME NEW c \in Callers, Emplace(c) PROVE TypeOK'
    BY <1>1 DEF Emplace, HeldInv, Adding, TypeOK, CallerPC, WorkerPC, At, Goto
  <1>2. ASSUME NEW c \in Callers, NotifyOne(c) PROVE TypeOK'
    BY <1>2 DEF NotifyOne, Wakeable, TypeOK, CallerPC, WorkerPC, At, Goto
  <1>3. ASSUME NEW c \in Callers, NEW k \in Tasks, AddTask(c, k) PROVE TypeOK'
    BY <1>3 DEF AddTask, Alive, TypeOK, CallerPC, WorkerPC, At, Goto
  <1>4. ASSUME NEW t \in Threads, Lock(t) PROVE TypeOK'
    BY <1>4 DEF Lock, Asks, Inside, TypeOK, CallerPC, WorkerPC, At, Goto
  <1>5. CASE Destroy
    BY <1>5 DEF Destroy, Alive, TypeOK, CallerPC, WorkerPC, At, Goto
  <1>6. CASE Close
    BY <1>6 DEF Close, TypeOK, CallerPC, WorkerPC, At, Goto
  <1>7. CASE NotifyAll
    BY <1>7 DEF NotifyAll, AllOfThem, TypeOK, CallerPC, WorkerPC, At, Goto
  <1>8. ASSUME NEW w \in Workers, TakeTask(w) PROVE TypeOK'
    BY <1>8 DEF TakeTask, Front, TypeOK, CallerPC, WorkerPC, At, Goto
  <1>9. ASSUME NEW w \in Workers, Run(w) PROVE TypeOK'
    BY <1>9 DEF Run, HeldInv, TypeOK, CallerPC, WorkerPC, At, Goto
  <1>10. ASSUME NEW w \in Workers, Exit(w) PROVE TypeOK'
    BY <1>10 DEF Exit, NothingLeft, TypeOK, CallerPC, WorkerPC, At, Goto
  <1>11. ASSUME NEW w \in Workers, Wait(w) PROVE TypeOK'
    BY <1>11 DEF Wait, TypeOK, CallerPC, WorkerPC, At, Goto
  <1>12. ASSUME NEW w \in Workers, Wake(w) PROVE TypeOK'
    BY <1>12 DEF Wake, TypeOK, CallerPC, WorkerPC, At, Goto
  <1>13. CASE UNCHANGED vars
    BY <1>13 DEF vars, TypeOK, CallerPC, WorkerPC, At, Goto
  <1> QED
    BY <1>1, <1>2, <1>3, <1>4, <1>5, <1>6, <1>7, <1>8, <1>9, <1>10, <1>11, <1>12, <1>13
    DEF Next, CallerStep, OwnerStep, WorkerStep, Threads

LEMMA HeldInvNext ==
  ASSUME TypeOK, HeldInv, WaitInv, [Next]_vars
  PROVE  HeldInv'
  <1> USE ThreadFacts, TaskAssumption
  <1>1. ASSUME NEW c \in Callers, Emplace(c) PROVE HeldInv'
    BY <1>1 DEF Emplace, TypeOK, HeldInv, WaitInv, Adding, CallerPC, WorkerPC, At, Goto
  <1>2. ASSUME NEW c \in Callers, NotifyOne(c) PROVE HeldInv'
    BY <1>2 DEF NotifyOne, Wakeable, TypeOK, HeldInv, WaitInv, Adding, CallerPC,
      WorkerPC, At, Goto
  <1>3. ASSUME NEW c \in Callers, NEW k \in Tasks, AddTask(c, k) PROVE HeldInv'
    BY <1>3 DEF AddTask, Alive, TypeOK, HeldInv, WaitInv, Adding, CallerPC, WorkerPC,
      At, Goto
  <1>4. ASSUME NEW t \in Threads, Lock(t) PROVE HeldInv'
    BY <1>4 DEF Lock, Asks, Inside, TypeOK, HeldInv, WaitInv, Adding, CallerPC,
      WorkerPC, At, Goto
  <1>5. CASE Destroy
    BY <1>5 DEF Destroy, Alive, TypeOK, HeldInv, WaitInv, Adding, CallerPC, WorkerPC,
      At, Goto
  <1>6. CASE Close
    BY <1>6 DEF Close, TypeOK, HeldInv, WaitInv, Adding, CallerPC, WorkerPC, At, Goto
  <1>7. CASE NotifyAll
    BY <1>7 DEF NotifyAll, AllOfThem, TypeOK, HeldInv, WaitInv, Adding, CallerPC,
      WorkerPC, At, Goto
  <1>8. ASSUME NEW w \in Workers, TakeTask(w) PROVE HeldInv'
    BY <1>8 DEF TakeTask, Front, TypeOK, HeldInv, WaitInv, Adding, CallerPC, WorkerPC,
      At, Goto
  <1>9. ASSUME NEW w \in Workers, Run(w) PROVE HeldInv'
    BY <1>9 DEF Run, TypeOK, HeldInv, WaitInv, Adding, CallerPC, WorkerPC, At, Goto
  <1>10. ASSUME NEW w \in Workers, Exit(w) PROVE HeldInv'
    BY <1>10 DEF Exit, NothingLeft, TypeOK, HeldInv, WaitInv, Adding, CallerPC,
      WorkerPC, At, Goto
  <1>11. ASSUME NEW w \in Workers, Wait(w) PROVE HeldInv'
    BY <1>11 DEF Wait, TypeOK, HeldInv, WaitInv, Adding, CallerPC, WorkerPC, At, Goto
  <1>12. ASSUME NEW w \in Workers, Wake(w) PROVE HeldInv'
    BY <1>12 DEF Wake, TypeOK, HeldInv, WaitInv, Adding, CallerPC, WorkerPC, At, Goto
  <1>13. CASE UNCHANGED vars
    BY <1>13 DEF vars, TypeOK, HeldInv, WaitInv, Adding, CallerPC, WorkerPC, At, Goto
  <1> QED
    BY <1>1, <1>2, <1>3, <1>4, <1>5, <1>6, <1>7, <1>8, <1>9, <1>10, <1>11, <1>12, <1>13
    DEF Next, CallerStep, OwnerStep, WorkerStep, Threads

LEMMA FreshInvNext ==
  ASSUME TypeOK, HeldInv, FreshInv, [Next]_vars
  PROVE  FreshInv'
  <1> USE ThreadFacts, TaskAssumption
  <1>1. ASSUME NEW c \in Callers, Emplace(c) PROVE FreshInv'
    BY <1>1 DEF Emplace, TypeOK, HeldInv, FreshInv, Adding, At, Goto
  <1>2. ASSUME NEW c \in Callers, NotifyOne(c) PROVE FreshInv'
    BY <1>2 DEF NotifyOne, Wakeable, TypeOK, HeldInv, FreshInv, Adding, At, Goto
  <1>3. ASSUME NEW c \in Callers, NEW k \in Tasks, AddTask(c, k) PROVE FreshInv'
    BY <1>3 DEF AddTask, Alive, TypeOK, HeldInv, FreshInv, Adding, At, Goto
  <1>4. ASSUME NEW t \in Threads, Lock(t) PROVE FreshInv'
    BY <1>4 DEF Lock, Asks, Inside, TypeOK, HeldInv, FreshInv, Adding, At, Goto
  <1>5. CASE Destroy
    BY <1>5 DEF Destroy, Alive, TypeOK, HeldInv, FreshInv, Adding, At, Goto
  <1>6. CASE Close
    BY <1>6 DEF Close, TypeOK, HeldInv, FreshInv, Adding, At, Goto
  <1>7. CASE NotifyAll
    BY <1>7 DEF NotifyAll, AllOfThem, TypeOK, HeldInv, FreshInv, Adding, At, Goto
  <1>8. ASSUME NEW w \in Workers, TakeTask(w) PROVE FreshInv'
    BY <1>8 DEF TakeTask, Front, TypeOK, HeldInv, FreshInv, Adding, At, Goto
  <1>9. ASSUME NEW w \in Workers, Run(w) PROVE FreshInv'
    BY <1>9 DEF Run, TypeOK, HeldInv, FreshInv, Adding, At, Goto
  <1>10. ASSUME NEW w \in Workers, Exit(w) PROVE FreshInv'
    BY <1>10 DEF Exit, NothingLeft, TypeOK, HeldInv, FreshInv, Adding, At, Goto
  <1>11. ASSUME NEW w \in Workers, Wait(w) PROVE FreshInv'
    BY <1>11 DEF Wait, TypeOK, HeldInv, FreshInv, Adding, At, Goto
  <1>12. ASSUME NEW w \in Workers, Wake(w) PROVE FreshInv'
    BY <1>12 DEF Wake, TypeOK, HeldInv, FreshInv, Adding, At, Goto
  <1>13. CASE UNCHANGED vars
    BY <1>13 DEF vars, TypeOK, HeldInv, FreshInv, Adding, At, Goto
  <1> QED
    BY <1>1, <1>2, <1>3, <1>4, <1>5, <1>6, <1>7, <1>8, <1>9, <1>10, <1>11, <1>12, <1>13
    DEF Next, CallerStep, OwnerStep, WorkerStep, Threads

LEMMA OwnerInvNext ==
  ASSUME TypeOK, OwnerInv, WaitInv, [Next]_vars
  PROVE  OwnerInv'
  <1> USE ThreadFacts, TaskAssumption
  <1>1. ASSUME NEW c \in Callers, Emplace(c) PROVE OwnerInv'
    BY <1>1 DEF Emplace, TypeOK, OwnerInv, WaitInv, Alive, Adding, CallerPC, WorkerPC,
      At, Goto
  <1>2. ASSUME NEW c \in Callers, NotifyOne(c) PROVE OwnerInv'
    BY <1>2 DEF NotifyOne, Wakeable, TypeOK, OwnerInv, WaitInv, Alive, Adding, CallerPC,
      WorkerPC, At, Goto
  <1>3. ASSUME NEW c \in Callers, NEW k \in Tasks, AddTask(c, k) PROVE OwnerInv'
    BY <1>3 DEF AddTask, Alive, TypeOK, OwnerInv, WaitInv, Alive, Adding, CallerPC,
      WorkerPC, At, Goto
  <1>4. ASSUME NEW t \in Threads, Lock(t) PROVE OwnerInv'
    BY <1>4 DEF Lock, Asks, Inside, TypeOK, OwnerInv, WaitInv, Alive, Adding, CallerPC,
      WorkerPC, At, Goto
  <1>5. CASE Destroy
    BY <1>5 DEF Destroy, Alive, TypeOK, OwnerInv, WaitInv, Alive, Adding, CallerPC,
      WorkerPC, At, Goto
  <1>6. CASE Close
    BY <1>6 DEF Close, TypeOK, OwnerInv, WaitInv, Alive, Adding, CallerPC, WorkerPC, At,
      Goto
  <1>7. CASE NotifyAll
    BY <1>7 DEF NotifyAll, AllOfThem, TypeOK, OwnerInv, WaitInv, Alive, Adding,
      CallerPC, WorkerPC, At, Goto
  <1>8. ASSUME NEW w \in Workers, TakeTask(w) PROVE OwnerInv'
    BY <1>8 DEF TakeTask, Front, TypeOK, OwnerInv, WaitInv, Alive, Adding, CallerPC,
      WorkerPC, At, Goto
  <1>9. ASSUME NEW w \in Workers, Run(w) PROVE OwnerInv'
    BY <1>9 DEF Run, TypeOK, OwnerInv, WaitInv, Alive, Adding, CallerPC, WorkerPC, At,
      Goto
  <1>10. ASSUME NEW w \in Workers, Exit(w) PROVE OwnerInv'
    BY <1>10 DEF Exit, NothingLeft, TypeOK, OwnerInv, WaitInv, Alive, Adding, CallerPC,
      WorkerPC, At, Goto
  <1>11. ASSUME NEW w \in Workers, Wait(w) PROVE OwnerInv'
    BY <1>11 DEF Wait, TypeOK, OwnerInv, WaitInv, Alive, Adding, CallerPC, WorkerPC, At,
      Goto
  <1>12. ASSUME NEW w \in Workers, Wake(w) PROVE OwnerInv'
    BY <1>12 DEF Wake, TypeOK, OwnerInv, WaitInv, Alive, Adding, CallerPC, WorkerPC, At,
      Goto
  <1>13. CASE UNCHANGED vars
    BY <1>13 DEF vars, TypeOK, OwnerInv, WaitInv, Alive, Adding, CallerPC, WorkerPC, At,
      Goto
  <1> QED
    BY <1>1, <1>2, <1>3, <1>4, <1>5, <1>6, <1>7, <1>8, <1>9, <1>10, <1>11, <1>12, <1>13
    DEF Next, CallerStep, OwnerStep, WorkerStep, Threads

LEMMA WaitInvNext ==
  ASSUME TypeOK, WaitInv, [Next]_vars
  PROVE  WaitInv'
  <1> USE ThreadFacts, TaskAssumption
  <1>1. ASSUME NEW c \in Callers, Emplace(c) PROVE WaitInv'
    BY <1>1 DEF Emplace, TypeOK, WaitInv, CallerPC, WorkerPC, At, Goto
  <1>2. ASSUME NEW c \in Callers, NotifyOne(c) PROVE WaitInv'
    BY <1>2 DEF NotifyOne, Wakeable, TypeOK, WaitInv, CallerPC, WorkerPC, At, Goto
  <1>3. ASSUME NEW c \in Callers, NEW k \in Tasks, AddTask(c, k) PROVE WaitInv'
    BY <1>3 DEF AddTask, Alive, TypeOK, WaitInv, CallerPC, WorkerPC, At, Goto
  <1>4. ASSUME NEW t \in Threads, Lock(t) PROVE WaitInv'
    BY <1>4 DEF Lock, Asks, Inside, TypeOK, WaitInv, CallerPC, WorkerPC, At, Goto
  <1>5. CASE Destroy
    BY <1>5 DEF Destroy, Alive, TypeOK, WaitInv, CallerPC, WorkerPC, At, Goto
  <1>6. CASE Close
    BY <1>6 DEF Close, TypeOK, WaitInv, CallerPC, WorkerPC, At, Goto
  <1>7. CASE NotifyAll
    BY <1>7 DEF NotifyAll, AllOfThem, TypeOK, WaitInv, CallerPC, WorkerPC, At, Goto
  <1>8. ASSUME NEW w \in Workers, TakeTask(w) PROVE WaitInv'
    BY <1>8 DEF TakeTask, Front, TypeOK, WaitInv, CallerPC, WorkerPC, At, Goto
  <1>9. ASSUME NEW w \in Workers, Run(w) PROVE WaitInv'
    BY <1>9 DEF Run, TypeOK, WaitInv, CallerPC, WorkerPC, At, Goto
  <1>10. ASSUME NEW w \in Workers, Exit(w) PROVE WaitInv'
    BY <1>10 DEF Exit, NothingLeft, TypeOK, WaitInv, CallerPC, WorkerPC, At, Goto
  <1>11. ASSUME NEW w \in Workers, Wait(w) PROVE WaitInv'
    BY <1>11 DEF Wait, TypeOK, WaitInv, CallerPC, WorkerPC, At, Goto
  <1>12. ASSUME NEW w \in Workers, Wake(w) PROVE WaitInv'
    BY <1>12 DEF Wake, TypeOK, WaitInv, CallerPC, WorkerPC, At, Goto
  <1>13. CASE UNCHANGED vars
    BY <1>13 DEF vars, TypeOK, WaitInv, CallerPC, WorkerPC, At, Goto
  <1> QED
    BY <1>1, <1>2, <1>3, <1>4, <1>5, <1>6, <1>7, <1>8, <1>9, <1>10, <1>11, <1>12, <1>13
    DEF Next, CallerStep, OwnerStep, WorkerStep, Threads

LEMMA PoolInvNext == PoolInv /\ [Next]_vars => PoolInv'
  BY TypeOKNext, HeldInvNext, FreshInvNext, OwnerInvNext, WaitInvNext DEF PoolInv

LEMMA PoolInvAlways == Spec => []PoolInv
  BY PoolInvInit, PoolInvNext, PTL DEF Spec

(* Every variable of the pool keeps its type: what a worker moves out of   *)
(* the queue and runs is a task, never what is behind an empty queue.      *)
THEOREM TypeCorrect == Spec => []TypeOK
  <1>1. PoolInv => TypeOK
    BY DEF PoolInv
  <1> QED
    BY <1>1, PoolInvAlways, PTL

-----------------------------------------------------------------------------
(* The refinement.                                                         *)

Given == fresh \cup ({task[c] : c \in Callers} \ {NoTask})
Running == [w \in Workers |-> task[w]]
Retired == {w \in Workers : At(w, "exit")}

LEMMA InitImplements == Init => TQ!Init
  <1> SUFFICES ASSUME Init PROVE TQ!Init
    OBVIOUS
  <1>1. \A t \in Threads : task[t] = NoTask
    BY DEF Init
  <1>2. Given = Tasks
    BY <1>1, ThreadFacts DEF Init, Given
  <1>3. Running = [w \in Workers |-> NoTask]
    BY <1>1, ThreadFacts DEF Running
  <1>4. Retired = {}
    BY ThreadFacts DEF Init, Retired, At
  <1> QED
    BY <1>2, <1>3, <1>4 DEF Init, TQ!Init, Given, Running, Retired

(* A step that leaves the queue, the running tasks and the ended workers   *)
(* alone is a stutter of the task queue.                                   *)
LEMMA Stutter ==
  ASSUME UNCHANGED <<tasks, ran, isClosed>>, Given' = Given,
         \A w \in Workers : task'[w] = task[w] /\ (At(w, "exit")' <=> At(w, "exit"))
  PROVE  UNCHANGED TQ!vars
  <1>1. Running' = Running /\ Retired' = Retired
    BY DEF Running, Retired
  <1> QED
    BY <1>1 DEF TQ!vars, Given, Running, Retired

LEMMA NextImplements ==
  ASSUME PoolInv, [Next]_vars
  PROVE  [TQ!Next]_TQ!vars
  <1> USE ThreadFacts, TaskAssumption DEF PoolInv
  <1>1. ASSUME NEW c \in Callers, Emplace(c) PROVE TQ!Next
    <2>1. task[c] \in Tasks /\ task[c] \notin fresh /\ ~isClosed
      BY <1>1 DEF Emplace, TypeOK, HeldInv, FreshInv, OwnerInv, At, Alive, Adding
    <2>2. \A t \in Threads : task'[t] = IF t = c THEN NoTask ELSE task[t]
      BY <1>1 DEF Emplace, TypeOK
    <2>3. task[c] \in Given /\ Given' = Given \ {task[c]}
      BY <1>1, <2>1, <2>2 DEF Emplace, Given, FreshInv
    <2>4. Running' = Running
      BY <2>2 DEF Running
    <2>5. Retired' = Retired
      BY <1>1 DEF Retired, Emplace, At, Goto, TypeOK
    <2>6. TQ!Submit(task[c])
      BY <1>1, <2>1, <2>3, <2>4, <2>5 DEF Emplace, TQ!Submit, Given, Running, Retired
    <2> HIDE DEF PoolInv
    <2>7. \E k \in Tasks : TQ!Submit(k)
      BY <2>1, <2>6 DEF TQ!Submit
    <2> QED
      BY <2>7 DEF TQ!Next
  <1>2. ASSUME NEW c \in Callers, NotifyOne(c) PROVE UNCHANGED TQ!vars
    <2>1. \A w \in Workers : At(w, "exit")' <=> At(w, "exit")
      BY <1>2 DEF NotifyOne, Wakeable, TypeOK, WaitInv, At, Goto
    <2> QED
      BY <1>2, <2>1, Stutter DEF NotifyOne, Given
  <1>3. ASSUME NEW c \in Callers, NEW k \in Tasks, AddTask(c, k) PROVE UNCHANGED TQ!vars
    <2>1. \A t \in Threads : task'[t] = IF t = c THEN k ELSE task[t]
      BY <1>3 DEF AddTask, TypeOK
    <2>2. task[c] = NoTask
      BY <1>3 DEF AddTask, HeldInv, At, Adding
    <2>3. Given' = Given
      BY <1>3, <2>1, <2>2 DEF AddTask, Given
    <2>4. \A w \in Workers : task'[w] = task[w] /\ (At(w, "exit")' <=> At(w, "exit"))
      BY <1>3, <2>1 DEF AddTask, At, Goto, TypeOK
    <2> QED
      BY <1>3, <2>3, <2>4, Stutter DEF AddTask
  <1>4. ASSUME NEW t \in Threads, Lock(t) PROVE UNCHANGED TQ!vars
    <2>1. \A w \in Workers : At(w, "exit")' <=> At(w, "exit")
      BY <1>4 DEF Lock, Asks, Inside, At, Goto, TypeOK
    <2> QED
      BY <1>4, <2>1, Stutter DEF Lock, Given
  <1>5. CASE Destroy
    <2>1. \A w \in Workers : At(w, "exit")' <=> At(w, "exit")
      BY <1>5 DEF Destroy, At, Goto, TypeOK
    <2> QED
      BY <1>5, <2>1, Stutter DEF Destroy, Given
  <1>6. CASE Close
    <2>1. Given' = Given /\ Running' = Running
      BY <1>6 DEF Close, Given, Running
    <2>2. Retired' = Retired
      BY <1>6 DEF Close, Retired, At, Goto, TypeOK
    <2>3. ~isClosed
      BY <1>6 DEF Close, OwnerInv, At
    <2>4. TQ!Close
      BY <1>6, <2>1, <2>2, <2>3 DEF Close, TQ!Close, Given, Running, Retired
    <2> QED
      BY <2>4 DEF TQ!Next
  <1>7. CASE NotifyAll
    <2>1. \A w \in Workers : At(w, "exit")' <=> At(w, "exit")
      BY <1>7 DEF NotifyAll, AllOfThem, At, TypeOK, WaitInv
    <2> QED
      BY <1>7, <2>1, Stutter DEF NotifyAll, Given
  <1>8. ASSUME NEW w \in Workers, TakeTask(w) PROVE TQ!Next
    <2>1. \A t \in Threads : task'[t] = IF t = w THEN Head(tasks) ELSE task[t]
      BY <1>8 DEF TakeTask, Front, TypeOK
    <2>2. Given' = Given
      BY <1>8, <2>1 DEF TakeTask, Given
    <2>3. Running' = [Running EXCEPT ![w] = Head(tasks)]
      BY <2>1 DEF Running
    <2>4. Retired' = Retired /\ w \notin Retired
      BY <1>8 DEF TakeTask, Retired, At, Goto, TypeOK
    <2>5. Running[w] = NoTask
      BY <1>8 DEF TakeTask, Running, HeldInv, At
    <2>6. TQ!Start(w)
      BY <1>8, <2>2, <2>3, <2>4, <2>5 DEF TakeTask, TQ!Start, Given, Running, Retired
    <2> QED
      BY <2>6 DEF TQ!Next
  <1>9. ASSUME NEW w \in Workers, Run(w) PROVE TQ!Next
    <2>1. \A t \in Threads : task'[t] = IF t = w THEN NoTask ELSE task[t]
      BY <1>9 DEF Run, TypeOK
    <2>2. Given' = Given
      BY <1>9, <2>1 DEF Run, Given
    <2>3. Running' = [Running EXCEPT ![w] = NoTask]
      BY <2>1 DEF Running
    <2>4. Retired' = Retired
      BY <1>9 DEF Run, Retired, At, Goto, TypeOK
    <2>5. Running[w] = task[w] /\ task[w] # NoTask
      BY <1>9 DEF Run, Running, HeldInv
    <2>6. TQ!Finish(w)
      BY <1>9, <2>2, <2>3, <2>4, <2>5 DEF Run, TQ!Finish, Given, Running, Retired
    <2> QED
      BY <2>6 DEF TQ!Next
  <1>10. ASSUME NEW w \in Workers, Exit(w) PROVE TQ!Next
    <2>1. Given' = Given /\ Running' = Running
      BY <1>10 DEF Exit, Given, Running
    <2>2. Retired' = Retired \cup {w}
      BY <1>10 DEF Exit, Retired, At, Goto, TypeOK
    <2>3. Running[w] = NoTask
      BY <1>10 DEF Exit, Running, HeldInv, At
    <2>4. TQ!Retire(w)
      BY <1>10, <2>1, <2>2, <2>3 DEF Exit, NothingLeft, TQ!Retire, Given, Running, Retired
    <2> QED
      BY <2>4 DEF TQ!Next
  <1>11. ASSUME NEW w \in Workers, Wait(w) PROVE UNCHANGED TQ!vars
    <2>1. \A v \in Workers : At(v, "exit")' <=> At(v, "exit")
      BY <1>11 DEF Wait, At, Goto, TypeOK
    <2> QED
      BY <1>11, <2>1, Stutter DEF Wait, Given
  <1>12. ASSUME NEW w \in Workers, Wake(w) PROVE UNCHANGED TQ!vars
    <2>1. \A v \in Workers : At(v, "exit")' <=> At(v, "exit")
      BY <1>12 DEF Wake, At, Goto, TypeOK, WaitInv
    <2> QED
      BY <1>12, <2>1, Stutter DEF Wake, Given
  <1>13. CASE UNCHANGED vars
    BY <1>13, Stutter DEF vars, Given, At
  <1> QED
    BY <1>1, <1>2, <1>3, <1>4, <1>5, <1>6, <1>7, <1>8, <1>9, <1>10, <1>11, <1>12, <1>13
    DEF Next, CallerStep, OwnerStep, WorkerStep, Threads

(* The pool implements the task queue: AddTask gives a task when it is in  *)
(* the queue, tasks are started in that order, each once, and a worker     *)
(* ends only when the destructor has run and nothing is left.              *)
THEOREM ThreadPoolImplements == Spec => ImplementsTaskQueue
  <1>1. Init => TQ!Init
    BY InitImplements
  <1>2. PoolInv /\ [Next]_vars => [TQ!Next]_TQ!vars
    BY NextImplements
  <1> QED
    BY <1>1, <1>2, PoolInvAlways, PTL DEF Spec, ImplementsTaskQueue, TQ!Spec

-----------------------------------------------------------------------------
(* The tasks in the queue that a worker looks for or a notification        *)
(* announces.                                                              *)

LEMMA Counted ==
  /\ IsFiniteSet(Looking) /\ Cardinality(Looking) \in Nat
  /\ IsFiniteSet(Notifying) /\ Cardinality(Notifying) \in Nat
  <1>1. IsFiniteSet(Looking) /\ IsFiniteSet(Notifying)
    BY FiniteAssumption, FS_Subset DEF Looking, Notifying
  <1> QED
    BY <1>1, FS_CardinalityType

LEMMA CountedNext ==
  /\ IsFiniteSet(Looking') /\ Cardinality(Looking') \in Nat
  /\ IsFiniteSet(Notifying') /\ Cardinality(Notifying') \in Nat
  <1>1. IsFiniteSet(Looking') /\ IsFiniteSet(Notifying')
    BY FiniteAssumption, FS_Subset DEF Looking, Notifying
  <1> QED
    BY <1>1, FS_CardinalityType

(* A step that leaves the queue and both sets alone, and that puts nobody  *)
(* to sleep, or one that leaves nobody asleep or the queue empty.          *)
LEMMA StillConserving ==
  ASSUME WorkConserving,
         \/ waiting' \subseteq waiting /\ UNCHANGED <<tasks, Looking, Notifying>>
         \/ waiting' = {}
         \/ tasks' = <<>>
  PROVE  WorkConserving'
  BY CountedNext DEF WorkConserving

LEMMA WorkConservingNext ==
  ASSUME PoolInv, WorkConserving, [Next]_vars
  PROVE  WorkConserving'
  <1> USE ThreadFacts, TaskAssumption DEF PoolInv
  <1>1. ASSUME NEW c \in Callers, Emplace(c) PROVE WorkConserving'
    <2>1. Looking' = Looking /\ Notifying' = Notifying \cup {c} /\ c \notin Notifying
      BY <1>1 DEF Emplace, TypeOK, Looking, Notifying, At, Goto
    <2>2. Cardinality(Notifying') = Cardinality(Notifying) + 1
      BY <2>1, Counted, FS_AddElement
    <2>3. Len(tasks') = Len(tasks) + 1 /\ Len(tasks) \in Nat /\ waiting' = waiting
      BY <1>1 DEF Emplace, TypeOK, HeldInv, Adding, At
    <2> QED
      BY <2>1, <2>2, <2>3, Counted DEF WorkConserving
  <1>2. ASSUME NEW c \in Callers, NotifyOne(c) PROVE WorkConserving'
    <2>1. CASE waiting = {}
      BY <1>2, <2>1, StillConserving DEF NotifyOne, Wakeable
    <2>2. CASE waiting # {}
      <3>1. PICK w \in waiting : /\ waiting' = waiting \ {w}
                                 /\ pc' = [pc EXCEPT ![c] = "idle", ![w] = "lockAgain"]
        BY <1>2, <2>2 DEF NotifyOne, Wakeable
      <3>2. w \in Workers /\ pc[w] = "wait" /\ w # c
        BY <3>1 DEF TypeOK, WaitInv, At
      <3>3. /\ Looking' = Looking \cup {w} /\ w \notin Looking
            /\ Notifying' = Notifying \ {c} /\ c \in Notifying
        BY <1>2, <3>1, <3>2 DEF NotifyOne, TypeOK, Looking, Notifying, At
      <3>4. /\ Cardinality(Looking') = Cardinality(Looking) + 1
            /\ Cardinality(Notifying') = Cardinality(Notifying) - 1
        BY <3>3, Counted, FS_AddElement, FS_RemoveElement
      <3> QED
        BY <1>2, <2>2, <3>4, Counted DEF NotifyOne, WorkConserving, TypeOK
    <2> QED
      BY <2>1, <2>2
  <1>3. ASSUME NEW c \in Callers, NEW k \in Tasks, AddTask(c, k) PROVE WorkConserving'
    <2>1. Looking' = Looking /\ Notifying' = Notifying
      BY <1>3 DEF AddTask, TypeOK, Looking, Notifying, At, Goto
    <2> QED
      BY <1>3, <2>1, StillConserving DEF AddTask
  <1>4. ASSUME NEW t \in Threads, Lock(t) PROVE WorkConserving'
    <2>1. Looking' = Looking /\ Notifying' = Notifying
      BY <1>4 DEF Lock, Asks, Inside, TypeOK, Looking, Notifying, At, Goto, CallerPC, WorkerPC
    <2> QED
      BY <1>4, <2>1, StillConserving DEF Lock
  <1>5. CASE Destroy
    <2>1. Looking' = Looking /\ Notifying' = Notifying
      BY <1>5 DEF Destroy, TypeOK, Looking, Notifying, At, Goto
    <2> QED
      BY <1>5, <2>1, StillConserving DEF Destroy
  <1>6. CASE Close
    <2>1. Looking' = Looking /\ Notifying' = Notifying
      BY <1>6 DEF Close, TypeOK, Looking, Notifying, At, Goto
    <2> QED
      BY <1>6, <2>1, StillConserving DEF Close
  <1>7. CASE NotifyAll
    BY <1>7, StillConserving DEF NotifyAll, AllOfThem
  <1>8. ASSUME NEW w \in Workers, TakeTask(w) PROVE WorkConserving'
    <2>1. Looking' = Looking \ {w} /\ w \in Looking /\ Notifying' = Notifying
      BY <1>8 DEF TakeTask, TypeOK, Looking, Notifying, At, Goto
    <2>2. Cardinality(Looking') = Cardinality(Looking) - 1
      BY <2>1, Counted, FS_RemoveElement
    <2>3. Len(tasks') = Len(tasks) - 1 /\ waiting' = waiting
      BY <1>8 DEF TakeTask, TypeOK
    <2> QED
      BY <2>1, <2>2, <2>3, Counted DEF WorkConserving, TypeOK
  <1>9. ASSUME NEW w \in Workers, Run(w) PROVE WorkConserving'
    <2>1. Looking' = Looking \cup {w} /\ w \notin Looking /\ Notifying' = Notifying
      BY <1>9 DEF Run, TypeOK, Looking, Notifying, At, Goto
    <2>2. Cardinality(Looking') = Cardinality(Looking) + 1
      BY <2>1, Counted, FS_AddElement
    <2> QED
      BY <1>9, <2>1, <2>2, Counted DEF Run, WorkConserving, TypeOK
  <1>10. ASSUME NEW w \in Workers, Exit(w) PROVE WorkConserving'
    BY <1>10, StillConserving DEF Exit, NothingLeft
  <1>11. ASSUME NEW w \in Workers, Wait(w) PROVE WorkConserving'
    BY <1>11, StillConserving DEF Wait
  <1>12. ASSUME NEW w \in Workers, Wake(w) PROVE WorkConserving'
    <2>1. Looking' = Looking \cup {w} /\ w \notin Looking /\ Notifying' = Notifying
      BY <1>12 DEF Wake, TypeOK, WaitInv, Looking, Notifying, At, Goto
    <2>2. Cardinality(Looking') = Cardinality(Looking) + 1
      BY <2>1, Counted, FS_AddElement
    <2> QED
      BY <1>12, <2>1, <2>2, Counted DEF Wake, WorkConserving, TypeOK
  <1>13. CASE UNCHANGED vars
    <2>1. Looking' = Looking /\ Notifying' = Notifying
      BY <1>13 DEF vars, Looking, Notifying, At
    <2> QED
      BY <1>13, <2>1, StillConserving DEF vars
  <1> QED
    BY <1>1, <1>2, <1>3, <1>4, <1>5, <1>6, <1>7, <1>8, <1>9, <1>10, <1>11, <1>12, <1>13
    DEF Next, CallerStep, OwnerStep, WorkerStep, Threads

(* While a worker sleeps on cond, every task in the queue has a worker on  *)
(* its way to it or a notify_one still to come: notifying after the mutex  *)
(* is released loses no wakeup.                                            *)
THEOREM WorkConservingAlways == Spec => []WorkConserving
  <1>1. Init => WorkConserving
    BY DEF Init, WorkConserving
  <1> QED
    BY <1>1, WorkConservingNext, PoolInvAlways, PTL DEF Spec
=============================================================================
