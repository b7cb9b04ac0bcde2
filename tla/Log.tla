-------------------------------- MODULE Log --------------------------------
(***************************************************************************)
(* WebServer-master/code/log: threads that log (LOG_BASE, Log::write), the *)
(* BlockDeque between them and the log thread (AsyncWrite_), and ~Log.     *)
(*                                                                         *)
(* Log::mtx_ is held over several operations and is a variable.  The mutex *)
(* of the BlockDeque is held for one operation at a time, each of which is *)
(* one step here; only a wait gives it up in the middle.  The log is       *)
(* asynchronous (init with maxQueueSize > 0).  Whether a call finds that   *)
(* the day or the number of lines asks for a new file is left open, and so *)
(* are the names of the files: what is in the log is what is in any of     *)
(* them.                                                                   *)
(*                                                                         *)
(* Log::Instance() is destroyed when main returns, by the owner, when the  *)
(* other threads are done logging.                                         *)
(***************************************************************************)
EXTENDS Integers, Sequences

CONSTANTS Writers,    \* threads that log
          LogThread,  \* writeThread_
          Owner,      \* the thread that runs ~Log
          Nobody,     \* mtx_ is free
          NoLine,
          Capacity,   \* capacity_ of the deque
          MaxLines    \* bound: lines that each writer logs

ASSUME ThreadsAssumption == /\ LogThread \notin Writers
                            /\ Owner \notin Writers
                            /\ Owner # LogThread
                            /\ Nobody \notin Writers
ASSUME CapacityAssumption == Capacity \in Nat \ {0}
ASSUME MaxLinesAssumption == MaxLines \in Nat
ASSUME NoLineAssumption == NoLine \notin Writers \X (1..MaxLines)

VARIABLES
  mtx,       \* the writer that holds Log::mtx_, or Nobody
  deq,       \* BlockDeque::deq_
  isClose,   \* BlockDeque::isClose_
  pc,        \* thread -> where it is
  logged,    \* writer -> the number of lines it has begun to log
  str,       \* the line that the log thread has popped and not written, or NoLine
  \* history
  pushed,    \* the lines that went into the deque, in order
  drained,   \* the lines that the log thread has put in the file, in order
  direct     \* the lines that writers have put in the file themselves

vars == <<mtx, deq, isClose, pc, logged, str, pushed, drained, direct>>

Threads == Writers \cup {LogThread, Owner}
Line == Writers \X (1..MaxLines)
LineOf(w) == <<w, logged[w]>>

Goto(t, p) == pc' = [pc EXCEPT ![t] = p]

\* condConsumer_ has one waiter at most, the log thread: t goes on at p, and
\* the log thread is woken if it waits.
Notify(t, p) ==
  pc' = [pc EXCEPT ![t] = p, ![LogThread] = IF @ = "wait" THEN "woken" ELSE @]

-----------------------------------------------------------------------------
(* LOG_BASE: write, then flush.                                            *)

\* The test for a new file, with no lock.
Write(w) ==
  /\ pc[w] = "idle"
  /\ logged[w] < MaxLines
  /\ pc[Owner] = "main"
  /\ logged' = [logged EXCEPT ![w] = @ + 1]
  /\ \E p \in {"roll", "lock"} : Goto(w, p)
  /\ UNCHANGED <<mtx, deq, isClose, str, pushed, drained, direct>>

\* Another file takes the place of fp_, under mtx_; flush() notifies.
Roll(w) ==
  /\ pc[w] = "roll"
  /\ mtx = Nobody
  /\ Notify(w, "lock")
  /\ UNCHANGED <<mtx, deq, isClose, logged, str, pushed, drained, direct>>

Lock(w) ==
  /\ pc[w] = "lock"
  /\ mtx = Nobody
  /\ mtx' = w
  /\ Goto(w, "full")
  /\ UNCHANGED <<deq, isClose, logged, str, pushed, drained, direct>>

FullLate == Len(deq) > Capacity
Full == Len(deq) >= Capacity

TestFull(w) ==
  /\ pc[w] = "full"
  /\ Goto(w, IF Full THEN "fputs" ELSE "push_back")
  /\ UNCHANGED <<mtx, deq, isClose, logged, str, pushed, drained, direct>>

PushedFirst(l) == <<l>> \o deq
Pushed(l) == Append(deq, l)

\* push_back: the line goes into the deque, or the writer waits on condProducer_,
\* still with mtx_, until a pop has made room.
PushBack(w) ==
  /\ pc[w] \in {"push_back", "pushing"}
  /\ IF Len(deq) < Capacity
       THEN /\ deq' = Pushed(LineOf(w))
            /\ pushed' = Append(pushed, LineOf(w))
            /\ mtx' = Nobody
            /\ Notify(w, "flush")
       ELSE /\ Goto(w, "waitProducer")
            /\ UNCHANGED <<deq, pushed, mtx>>
  /\ UNCHANGED <<isClose, logged, str, drained, direct>>

\* The deque was full: the line goes to the file at once.
Fputs(w) ==
  /\ pc[w] = "fputs"
  /\ direct' = direct \cup {LineOf(w)}
  /\ mtx' = Nobody
  /\ Goto(w, "flush")
  /\ UNCHANGED <<deq, isClose, logged, str, pushed, drained>>

\* flush() after the line: condConsumer_.notify_one, fflush, with no lock.
Flush(w) ==
  /\ pc[w] = "flush"
  /\ Notify(w, "idle")
  /\ UNCHANGED <<mtx, deq, isClose, logged, str, pushed, drained, direct>>

WriterStep(w) == \/ Roll(w) \/ Lock(w) \/ TestFull(w) \/ PushBack(w)
                 \/ Fputs(w) \/ Flush(w)

-----------------------------------------------------------------------------
(* AsyncWrite_, the loop of the log thread.                                *)

FrontOf(s) == Head(s)

\* Where a wait on condConsumer_ ends: pop asks for isClose_ only there.
PopClosed ==
  /\ pc[LogThread] = "woken"
  /\ isClose
  /\ Goto(LogThread, "exit")
  /\ UNCHANGED <<mtx, deq, isClose, logged, str, pushed, drained, direct>>

\* pop: the front of the deque, with the writers that wait for room woken ...
Popping == pc[LogThread] = "pop" \/ (pc[LogThread] = "woken" /\ ~isClose)

Pop ==
  /\ Popping
  /\ deq # <<>>
  /\ str' = FrontOf(deq)
  /\ deq' = Tail(deq)
  /\ pc' = [t \in Threads |-> IF t = LogThread THEN "write"
                              ELSE IF pc[t] = "waitProducer" THEN "pushing" ELSE pc[t]]
  /\ UNCHANGED <<mtx, isClose, logged, pushed, drained, direct>>

\* ... or a wait for it.
PopWait ==
  /\ Popping
  /\ deq = <<>>
  /\ Goto(LogThread, "wait")
  /\ UNCHANGED <<mtx, deq, isClose, logged, str, pushed, drained, direct>>

\* A wait may end by itself.
Wake ==
  /\ pc[LogThread] = "wait"
  /\ Goto(LogThread, "woken")
  /\ UNCHANGED <<mtx, deq, isClose, logged, str, pushed, drained, direct>>

\* fputs under mtx_.
AsyncWrite ==
  /\ pc[LogThread] = "write"
  /\ mtx = Nobody
  /\ drained' = Append(drained, str)
  /\ str' = NoLine
  /\ Goto(LogThread, "pop")
  /\ UNCHANGED <<mtx, deq, isClose, logged, pushed, direct>>

LogStep == PopClosed \/ Pop \/ PopWait \/ AsyncWrite

-----------------------------------------------------------------------------
(* ~Log.                                                                   *)

Destroy ==
  /\ pc[Owner] = "main"
  /\ \A w \in Writers : pc[w] = "idle"
  /\ Goto(Owner, "~Log")
  /\ UNCHANGED <<mtx, deq, isClose, logged, str, pushed, drained, direct>>

\* while(!deque_->empty()) flush().
DrainedSoon == Len(deq) <= 1
DrainedAll == deq = <<>>

Drain ==
  /\ pc[Owner] = "~Log"
  /\ IF DrainedAll THEN Goto(Owner, "Close") ELSE Notify(Owner, "~Log")
  /\ UNCHANGED <<mtx, deq, isClose, logged, str, pushed, drained, direct>>

\* BlockDeque::Close empties the deque and wakes all that wait.
Close ==
  /\ pc[Owner] = "Close"
  /\ deq' = <<>>
  /\ isClose' = TRUE
  /\ Notify(Owner, "join")
  /\ UNCHANGED <<mtx, logged, str, pushed, drained, direct>>

\* writeThread_->join, then the file is closed.
Join ==
  /\ pc[Owner] = "join"
  /\ pc[LogThread] = "exit"
  /\ Goto(Owner, "end")
  /\ UNCHANGED <<mtx, deq, isClose, logged, str, pushed, drained, direct>>

OwnerStep == Drain \/ Close \/ Join

-----------------------------------------------------------------------------
Init ==
  /\ mtx = Nobody
  /\ deq = <<>>
  /\ isClose = FALSE
  /\ pc = [t \in Threads |-> IF t = LogThread THEN "pop"
                             ELSE IF t = Owner THEN "main" ELSE "idle"]
  /\ logged = [w \in Writers |-> 0]
  /\ str = NoLine
  /\ pushed = <<>> /\ drained = <<>> /\ direct = {}

Next == \/ \E w \in Writers : Write(w) \/ WriterStep(w)
        \/ LogStep \/ Wake
        \/ Destroy \/ OwnerStep

Spec == Init /\ [][Next]_vars

(***************************************************************************)
(* A thread that can go on does, and mtx_ is not kept from any thread for  *)
(* ever; nobody has to log, to destroy the log, or to wake without cause.  *)
(***************************************************************************)
FairSpec == Spec /\ (\A w \in Writers : WF_vars(WriterStep(w)))
                 /\ WF_vars(LogStep) /\ WF_vars(OwnerStep)

-----------------------------------------------------------------------------
(* Properties.                                                             *)

WriterPC == {"idle", "roll", "lock", "full", "push_back", "pushing", "waitProducer",
             "fputs", "flush"}
LogPC == {"pop", "wait", "woken", "write", "exit"}
OwnerPC == {"main", "~Log", "Close", "join", "end"}

\* Every variable has its type.
TypeOK ==
  /\ mtx \in Writers \cup {Nobody}
  /\ deq \in Seq(Line) /\ pushed \in Seq(Line) /\ drained \in Seq(Line)
  /\ isClose \in BOOLEAN
  /\ pc \in [Threads -> WriterPC \cup LogPC \cup OwnerPC]
  /\ \A w \in Writers : pc[w] \in WriterPC
  /\ pc[LogThread] \in LogPC /\ pc[Owner] \in OwnerPC
  /\ logged \in [Writers -> 0..MaxLines]
  /\ str \in Line \cup {NoLine}
  /\ direct \subseteq Line

(***************************************************************************)
(* A queued line is not lost, doubled or overtaken by another queued line, *)
(* through any run of full and empty deques, and Close, which empties the  *)
(* deque, finds nothing in it: the lines of the log thread, the line that  *)
(* it holds and the deque are, in order, what was pushed.                  *)
(***************************************************************************)
Held == IF str = NoLine THEN <<>> ELSE <<str>>
QueueOrder == drained \o Held \o deq = pushed

(***************************************************************************)
(* push_back, called with mtx_ held, never waits for room: full() was asked*)
(* under the same mtx_, and nobody else pushes.  A writer that waited there*)
(* would keep mtx_ from the log thread, which needs it before it pops.     *)
(***************************************************************************)
PushNeverWaits == \A w \in Writers : pc[w] # "waitProducer"

\* A call of LOG_BASE returns, whatever the log thread and ~Log do.
WriteReturns == \A w \in Writers : (pc[w] # "idle") ~> (pc[w] = "idle")

\* What was queued eventually is in the file, also when the log is destroyed.
LinesWritten ==
  \A l \in Line : (\E i \in 1..Len(pushed) : pushed[i] = l)
                    ~> (\E i \in 1..Len(drained) : drained[i] = l)

(***************************************************************************)
(* blockqueue.h: pop returns false once the deque is closed, and ~Log      *)
(* joins the log thread after it has closed it.  So ~Log comes to an end.  *)
(***************************************************************************)
LogCloses == (pc[Owner] = "~Log") ~> (pc[Owner] = "end")
=============================================================================
