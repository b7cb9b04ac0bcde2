-------------------------- MODULE WebServer_proofs --------------------------
(***************************************************************************)
(* WebServer, for any descriptors, workers and bounds: type correctness,   *)
(* the timer nodes, one owner per descriptor and the count of connections. *)
(*                                                                         *)
(* PcArg and MainInv tie a thread's position to what it works on.          *)
(* TimerInv says where the timer node of a registered descriptor is: it    *)
(* survives every overrun, because only tick() takes a node away, and      *)
(* only after its callback has removed the registration.                   *)
(*                                                                         *)
(* The rest holds as long as no timer has overrun the work on its          *)
(* connection, and follows a descriptor through its owners.  Owned says    *)
(* which registration and which state of users_[fd] go with each kind of   *)
(* owner, and that an owner excludes the others: every action that is not  *)
(* quiet hands a descriptor from one kind of owner to the next.  CountInv  *)
(* needs it: an owner alone closes its descriptor, and closes it once.     *)
(***************************************************************************)
EXTENDS WebServer, FiniteSetTheorems, TLAPS

-----------------------------------------------------------------------------
(* A thread has a HttpConn exactly while it is at a step that uses one.    *)
UsesConn == ClosePC \cup {"AddClient_"}

PcArg == /\ \A w \in Workers : pc[w] = "idle" <=> arg[w] = 0
         /\ pc[Main] \in UsesConn <=> arg[Main] # 0

(* The main thread is in tick() only between two batches of events.        *)
MainInv == /\ pc[Main] \in {"tick", "pop", "Wait"} => batch = {}
           /\ pc[Main] = "pop" => expiring # 0
           /\ expiring # 0 => /\ batch = {}
                              /\ pc[Main] \in ClosePC \cup {"pop"}
                              /\ pc[Main] \in ClosePC => arg[Main] = expiring

(* A descriptor that is registered, or has an event to handle, or is about *)
(* to be registered, has a timer node; the one that is being popped is     *)
(* registered no more.                                                     *)
TimerInv ==
  /\ \A f \in Fds : watch[f] # "none" => f \in timers
  /\ \A e \in batch : e.fd # ListenFd => e.fd \in timers
  /\ pc[Main] = "AddClient_" => arg[Main] \in timers
  /\ expiring # 0 /\ pc[Main] # "DelFd" => watch[expiring] = "none"

ControlInv == TypeOK /\ PcArg /\ MainInv /\ (UseTimers => TimerInv)

-----------------------------------------------------------------------------
(* Type correctness.                                                       *)

LEMMA ThreadFacts == Main \in Threads /\ Workers \subseteq Threads /\ \A w \in Workers : w # Main
  BY ThreadsAssumption DEF Threads

(* What a thread that is at work works on is a descriptor.                 *)
LEMMA HasConn ==
  ASSUME TypeOK, PcArg, NEW t \in Threads,
         (t \in Workers /\ pc[t] # "idle") \/ (t = Main /\ pc[t] \in UsesConn)
  PROVE  arg[t] \in Fds
  BY DEF TypeOK, ThreadTypeOK, PcArg

(* Both kinds of thread close connections.                                 *)
LEMMA ClosesConn ==
  ASSUME TypeOK, PcArg, NEW t \in Threads, pc[t] \in ClosePC
  PROVE  arg[t] \in Fds
  BY HasConn DEF Threads, UsesConn, ClosePC

LEMMA TypeInit == Init => TypeOK
  <1> SUFFICES ASSUME Init PROVE TypeOK
    OBVIOUS
  <1>1. backlog \in Nat /\ arrived \in Nat /\ accepted \in Nat /\ sent \in Nat
    BY DEF Init
  <1>2. sock \in [Fds -> Nat] /\ inbox \in [Fds -> Nat]
    BY DEF Init
  <1>3. KernelTypeOK
    BY <1>1, <1>2 DEF Init, KernelTypeOK
  <1>4. ConnTypeOK
    <2>1. userCount \in Int /\ readBuff \in [Fds -> Nat] /\ toWrite \in [Fds -> Nat]
      BY DEF Init
    <2> QED
      BY <2>1 DEF Init, ConnTypeOK
  <1>5. MainTypeOK
    <2>1. tasks \in Seq(Task)
      BY DEF Init
    <2> QED
      BY <2>1 DEF Init, MainTypeOK
  <1>6. ThreadTypeOK
    BY ThreadFacts DEF Init, ThreadTypeOK, MainPC, WorkerPC
  <1> QED
    BY <1>3, <1>4, <1>5, <1>6 DEF TypeOK

LEMMA KernelTypeNext == TypeOK /\ PcArg /\ [Next]_vars => KernelTypeOK'
  <1> SUFFICES ASSUME TypeOK, KernelTypeOK, PcArg, [Next]_vars PROVE KernelTypeOK'
    BY DEF TypeOK
  <1>1. CASE Connect
    BY <1>1 DEF Connect, KernelTypeOK, connVars, mainVars
  <1>2. ASSUME NEW f \in Fds, Send(f) PROVE KernelTypeOK'
    BY <1>2 DEF Send, KernelTypeOK, connVars, mainVars
  <1>3. ASSUME NEW f \in Fds, Shutdown(f) PROVE KernelTypeOK'
    BY <1>3 DEF Shutdown, KernelTypeOK, connVars, mainVars
  <1>4. ASSUME NEW f \in Fds, Drain(f) PROVE KernelTypeOK'
    BY <1>4 DEF Drain, KernelTypeOK, connVars, mainVars
  <1>5. ASSUME NEW f \in Fds, TickExpired(f) PROVE KernelTypeOK'
    BY <1>5 DEF TickExpired, Busy, KernelTypeOK, Take, kernelVars, connVars
  <1>6. CASE Pop
    BY <1>6 DEF Pop, KernelTypeOK, Goto, kernelVars, connVars
  <1>7. CASE TickDone
    BY <1>7 DEF TickDone, KernelTypeOK, Goto, kernelVars, connVars, mainVars
  <1>8. CASE Wait
    BY <1>8 DEF Wait, ReadyEvents, EventOf, Ready, Reported, KernelTypeOK, Goto,
      connVars
  <1>9. ASSUME NEW e \in batch, Dispatch(e) PROVE KernelTypeOK'
    BY <1>9 DEF Dispatch, DispatchListen, DispatchHup, Deal, KernelTypeOK, Goto, Take,
      kernelVars, connVars
  <1>10. CASE DispatchDone
    BY <1>10 DEF DispatchDone, KernelTypeOK, Goto, kernelVars, connVars, mainVars
  <1>11. CASE AcceptNone
    BY <1>11 DEF AcceptNone, AcceptReturns, KernelTypeOK, Goto, kernelVars, connVars
  <1>12. CASE AcceptBusy
    BY <1>12 DEF AcceptBusy, AcceptReturns, KernelTypeOK, Goto, connVars
  <1>13. ASSUME NEW f \in Fds, AcceptOne(f) PROVE KernelTypeOK'
    BY <1>13 DEF AcceptOne, AcceptReturns, Lowest, KernelTypeOK, Take
  <1>14. CASE AddFd
    BY <1>14 DEF AddFd, AcceptNext, KernelTypeOK, Take, Leave, kernelVars, connVars,
      mainVars
  <1>15. ASSUME NEW w \in Workers, TakeTask(w) PROVE KernelTypeOK'
    BY <1>15 DEF TakeTask, KernelTypeOK, Take, kernelVars, connVars, mainVars
  <1>16. ASSUME NEW w \in Workers, OnRead_(w) PROVE KernelTypeOK'
    BY <1>16 DEF OnRead_, KernelTypeOK, Goto, mainVars
  <1>17. ASSUME NEW w \in Workers, ProcessNothing(w) PROVE KernelTypeOK'
    BY <1>17 DEF ProcessNothing, KernelTypeOK, Goto, kernelVars, mainVars
  <1>18. ASSUME NEW w \in Workers, ProcessRequest(w) PROVE KernelTypeOK'
    BY <1>18 DEF ProcessRequest, KernelTypeOK, Goto, kernelVars, mainVars
  <1>19. ASSUME NEW w \in Workers, ModIn(w) PROVE KernelTypeOK'
    BY <1>19 DEF ModIn, ModFd, KernelTypeOK, Take, Leave, kernelVars, connVars, mainVars
  <1>20. ASSUME NEW w \in Workers, ModOut(w) PROVE KernelTypeOK'
    BY <1>20 DEF ModOut, ModFd, KernelTypeOK, Take, Leave, kernelVars, connVars,
      mainVars
  <1>21. ASSUME NEW w \in Workers, WriteDone(w) PROVE KernelTypeOK'
    BY <1>21 DEF WriteDone, KernelTypeOK, Goto, kernelVars, mainVars
  <1>22. ASSUME NEW w \in Workers, WriteAgain(w) PROVE KernelTypeOK'
    <2>1. arg[w] \in Fds
      BY <1>22, HasConn, ThreadFacts DEF WriteAgain
    <2> QED
      BY <1>22, <2>1 DEF WriteAgain, KernelTypeOK, Goto
  <1>23. ASSUME NEW w \in Workers, WriteError(w) PROVE KernelTypeOK'
    BY <1>23 DEF WriteError, KernelTypeOK, Goto, kernelVars, connVars, mainVars
  <1>24. ASSUME NEW t \in Threads, DelFd(t) PROVE KernelTypeOK'
    BY <1>24 DEF DelFd, KernelTypeOK, Goto, kernelVars, connVars, mainVars
  <1>25. ASSUME NEW t \in Threads, CloseTest(t) PROVE KernelTypeOK'
    BY <1>25 DEF CloseTest, Returned, KernelTypeOK, Goto, Take, Leave, kernelVars,
      connVars, mainVars
  <1>26. ASSUME NEW t \in Threads, CloseQuit(t) PROVE KernelTypeOK'
    BY <1>26 DEF CloseQuit, KernelTypeOK, Goto, kernelVars, mainVars
  <1>27. ASSUME NEW t \in Threads, CloseFd(t) PROVE KernelTypeOK'
    BY <1>27 DEF CloseFd, Returned, KernelTypeOK, Take, Leave, connVars, mainVars
  <1>28. CASE UNCHANGED vars
    BY <1>28 DEF vars, kernelVars, connVars, mainVars, KernelTypeOK
  <1> QED
    BY <1>1, <1>2, <1>3, <1>4, <1>5, <1>6, <1>7, <1>8,
      <1>9, <1>10, <1>11, <1>12, <1>13, <1>14, <1>15, <1>16, <1>17,
      <1>18, <1>19, <1>20, <1>21, <1>22, <1>23, <1>24, <1>25, <1>26,
      <1>27, <1>28
       DEF Next, Client, MainStep, DealListen_, CloseConn_, WorkerStep, Threads

LEMMA ConnTypeNext == TypeOK /\ PcArg /\ [Next]_vars => ConnTypeOK'
  <1> SUFFICES ASSUME TypeOK, KernelTypeOK, ConnTypeOK, PcArg, [Next]_vars PROVE ConnTypeOK'
    BY DEF TypeOK
  <1>1. CASE Connect
    BY <1>1 DEF Connect, ConnTypeOK, connVars, mainVars
  <1>2. ASSUME NEW f \in Fds, Send(f) PROVE ConnTypeOK'
    BY <1>2 DEF Send, ConnTypeOK, connVars, mainVars
  <1>3. ASSUME NEW f \in Fds, Shutdown(f) PROVE ConnTypeOK'
    BY <1>3 DEF Shutdown, ConnTypeOK, connVars, mainVars
  <1>4. ASSUME NEW f \in Fds, Drain(f) PROVE ConnTypeOK'
    BY <1>4 DEF Drain, ConnTypeOK, connVars, mainVars
  <1>5. ASSUME NEW f \in Fds, TickExpired(f) PROVE ConnTypeOK'
    BY <1>5 DEF TickExpired, Busy, ConnTypeOK, Take, kernelVars, connVars
  <1>6. CASE Pop
    BY <1>6 DEF Pop, ConnTypeOK, Goto, kernelVars, connVars
  <1>7. CASE TickDone
    BY <1>7 DEF TickDone, ConnTypeOK, Goto, kernelVars, connVars, mainVars
  <1>8. CASE Wait
    BY <1>8 DEF Wait, ReadyEvents, EventOf, Ready, Reported, ConnTypeOK, Goto, connVars
  <1>9. ASSUME NEW e \in batch, Dispatch(e) PROVE ConnTypeOK'
    BY <1>9 DEF Dispatch, DispatchListen, DispatchHup, Deal, ConnTypeOK, Goto, Take,
      kernelVars, connVars
  <1>10. CASE DispatchDone
    BY <1>10 DEF DispatchDone, ConnTypeOK, Goto, kernelVars, connVars, mainVars
  <1>11. CASE AcceptNone
    BY <1>11 DEF AcceptNone, AcceptReturns, ConnTypeOK, Goto, kernelVars, connVars
  <1>12. CASE AcceptBusy
    BY <1>12 DEF AcceptBusy, AcceptReturns, ConnTypeOK, Goto, connVars
  <1>13. ASSUME NEW f \in Fds, AcceptOne(f) PROVE ConnTypeOK'
    BY <1>13 DEF AcceptOne, AcceptReturns, Lowest, ConnTypeOK, Take
  <1>14. CASE AddFd
    BY <1>14 DEF AddFd, AcceptNext, ConnTypeOK, Take, Leave, kernelVars, connVars,
      mainVars
  <1>15. ASSUME NEW w \in Workers, TakeTask(w) PROVE ConnTypeOK'
    BY <1>15 DEF TakeTask, ConnTypeOK, Take, kernelVars, connVars, mainVars
  <1>16. ASSUME NEW w \in Workers, OnRead_(w) PROVE ConnTypeOK'
    <2>1. arg[w] \in Fds
      BY <1>16, HasConn, ThreadFacts DEF OnRead_
    <2>2. readBuff' \in [Fds -> Nat]
      BY <1>16, <2>1 DEF OnRead_, KernelTypeOK, ConnTypeOK
    <2> QED
      BY <1>16, <2>2 DEF OnRead_, ConnTypeOK
  <1>17. ASSUME NEW w \in Workers, ProcessNothing(w) PROVE ConnTypeOK'
    BY <1>17 DEF ProcessNothing, ConnTypeOK
  <1>18. ASSUME NEW w \in Workers, ProcessRequest(w) PROVE ConnTypeOK'
    <2>1. arg[w] \in Fds
      BY <1>18, HasConn, ThreadFacts DEF ProcessRequest
    <2>2. /\ readBuff' \in [Fds -> Nat] /\ toWrite' \in [Fds -> Nat]
          /\ keepAlive' \subseteq Fds
      BY <1>18, <2>1, BoundsAssumption DEF ProcessRequest, ConnTypeOK
    <2> QED
      BY <1>18, <2>2 DEF ProcessRequest, ConnTypeOK
  <1>19. ASSUME NEW w \in Workers, ModIn(w) PROVE ConnTypeOK'
    BY <1>19 DEF ModIn, ModFd, ConnTypeOK, Take, Leave, kernelVars, connVars, mainVars
  <1>20. ASSUME NEW w \in Workers, ModOut(w) PROVE ConnTypeOK'
    BY <1>20 DEF ModOut, ModFd, ConnTypeOK, Take, Leave, kernelVars, connVars, mainVars
  <1>21. ASSUME NEW w \in Workers, WriteDone(w) PROVE ConnTypeOK'
    BY <1>21 DEF WriteDone, ConnTypeOK, Goto, kernelVars, mainVars
  <1>22. ASSUME NEW w \in Workers, WriteAgain(w) PROVE ConnTypeOK'
    <2>1. arg[w] \in Fds
      BY <1>22, HasConn, ThreadFacts DEF WriteAgain
    <2>2. toWrite' \in [Fds -> Nat]
      BY <1>22, <2>1 DEF WriteAgain, ConnTypeOK
    <2> QED
      BY <1>22, <2>2 DEF WriteAgain, ConnTypeOK
  <1>23. ASSUME NEW w \in Workers, WriteError(w) PROVE ConnTypeOK'
    BY <1>23 DEF WriteError, ConnTypeOK, Goto, kernelVars, connVars, mainVars
  <1>24. ASSUME NEW t \in Threads, DelFd(t) PROVE ConnTypeOK'
    BY <1>24 DEF DelFd, ConnTypeOK, Goto, kernelVars, connVars, mainVars
  <1>25. ASSUME NEW t \in Threads, CloseTest(t) PROVE ConnTypeOK'
    BY <1>25 DEF CloseTest, Returned, ConnTypeOK, Goto, Take, Leave, kernelVars,
      connVars, mainVars
  <1>26. ASSUME NEW t \in Threads, CloseQuit(t) PROVE ConnTypeOK'
    <2>1. arg[t] \in Fds
      BY <1>26, ClosesConn DEF CloseQuit, ClosePC
    <2> QED
      BY <1>26, <2>1 DEF CloseQuit, ConnTypeOK
  <1>27. ASSUME NEW t \in Threads, CloseFd(t) PROVE ConnTypeOK'
    BY <1>27 DEF CloseFd, Returned, ConnTypeOK, Take, Leave, connVars, mainVars
  <1>28. CASE UNCHANGED vars
    BY <1>28 DEF vars, kernelVars, connVars, mainVars, ConnTypeOK
  <1> QED
    BY <1>1, <1>2, <1>3, <1>4, <1>5, <1>6, <1>7, <1>8,
      <1>9, <1>10, <1>11, <1>12, <1>13, <1>14, <1>15, <1>16, <1>17,
      <1>18, <1>19, <1>20, <1>21, <1>22, <1>23, <1>24, <1>25, <1>26,
      <1>27, <1>28
       DEF Next, Client, MainStep, DealListen_, CloseConn_, WorkerStep, Threads

LEMMA MainTypeNext == TypeOK /\ [Next]_vars => MainTypeOK'
  <1> SUFFICES ASSUME KernelTypeOK, MainTypeOK, [Next]_vars PROVE MainTypeOK'
    BY DEF TypeOK
  <1>1. CASE Connect
    BY <1>1 DEF Connect, MainTypeOK, connVars, mainVars
  <1>2. ASSUME NEW f \in Fds, Send(f) PROVE MainTypeOK'
    BY <1>2 DEF Send, MainTypeOK, connVars, mainVars
  <1>3. ASSUME NEW f \in Fds, Shutdown(f) PROVE MainTypeOK'
    BY <1>3 DEF Shutdown, MainTypeOK, connVars, mainVars
  <1>4. ASSUME NEW f \in Fds, Drain(f) PROVE MainTypeOK'
    BY <1>4 DEF Drain, MainTypeOK, connVars, mainVars
  <1>5. ASSUME NEW f \in Fds, TickExpired(f) PROVE MainTypeOK'
    BY <1>5 DEF TickExpired, Busy, MainTypeOK, Take, kernelVars, connVars
  <1>6. CASE Pop
    BY <1>6 DEF Pop, MainTypeOK, Goto, kernelVars, connVars
  <1>7. CASE TickDone
    BY <1>7 DEF TickDone, MainTypeOK, Goto, kernelVars, connVars, mainVars
  <1>8. CASE Wait
    BY <1>8 DEF Wait, ReadyEvents, EventOf, Ready, Reported, Event, MainTypeOK, Goto,
      connVars
  <1>9. ASSUME NEW e \in batch, Dispatch(e) PROVE MainTypeOK'
    <2>1. batch' \subseteq Event
      BY <1>9 DEF Dispatch, MainTypeOK
    <2>2. tasks' \in Seq(Task)
      <3>1. CASE tasks' = tasks
        BY <3>1 DEF MainTypeOK
      <3>2. CASE Deal(e)
        <4>1. e.fd \in Fds /\ sock[e.fd] \in Nat
          BY <3>2 DEF Deal, MainTypeOK, Event, KernelTypeOK
        <4> QED
          BY <3>2, <4>1 DEF Deal, MainTypeOK, Task
      <3> QED
        BY <1>9, <3>1, <3>2 DEF Dispatch, DispatchListen, DispatchHup
    <2> QED
      BY <1>9, <2>1, <2>2 DEF Dispatch, MainTypeOK
  <1>10. CASE DispatchDone
    BY <1>10 DEF DispatchDone, MainTypeOK, Goto, kernelVars, connVars, mainVars
  <1>11. CASE AcceptNone
    BY <1>11 DEF AcceptNone, AcceptReturns, MainTypeOK, Goto, kernelVars, connVars
  <1>12. CASE AcceptBusy
    BY <1>12 DEF AcceptBusy, AcceptReturns, MainTypeOK, Goto, connVars
  <1>13. ASSUME NEW f \in Fds, AcceptOne(f) PROVE MainTypeOK'
    BY <1>13 DEF AcceptOne, AcceptReturns, Lowest, MainTypeOK, Take
  <1>14. CASE AddFd
    BY <1>14 DEF AddFd, AcceptNext, MainTypeOK, Take, Leave, kernelVars, connVars,
      mainVars
  <1>15. ASSUME NEW w \in Workers, TakeTask(w) PROVE MainTypeOK'
    BY <1>15 DEF TakeTask, Task, MainTypeOK, Take, kernelVars, connVars, mainVars
  <1>16. ASSUME NEW w \in Workers, OnRead_(w) PROVE MainTypeOK'
    BY <1>16 DEF OnRead_, MainTypeOK, Goto, mainVars
  <1>17. ASSUME NEW w \in Workers, ProcessNothing(w) PROVE MainTypeOK'
    BY <1>17 DEF ProcessNothing, MainTypeOK, Goto, kernelVars, mainVars
  <1>18. ASSUME NEW w \in Workers, ProcessRequest(w) PROVE MainTypeOK'
    BY <1>18 DEF ProcessRequest, MainTypeOK, Goto, kernelVars, mainVars
  <1>19. ASSUME NEW w \in Workers, ModIn(w) PROVE MainTypeOK'
    BY <1>19 DEF ModIn, ModFd, MainTypeOK, Take, Leave, kernelVars, connVars, mainVars
  <1>20. ASSUME NEW w \in Workers, ModOut(w) PROVE MainTypeOK'
    BY <1>20 DEF ModOut, ModFd, MainTypeOK, Take, Leave, kernelVars, connVars, mainVars
  <1>21. ASSUME NEW w \in Workers, WriteDone(w) PROVE MainTypeOK'
    BY <1>21 DEF WriteDone, MainTypeOK, Goto, kernelVars, mainVars
  <1>22. ASSUME NEW w \in Workers, WriteAgain(w) PROVE MainTypeOK'
    BY <1>22 DEF WriteAgain, RetryStep, MainTypeOK, Goto, mainVars
  <1>23. ASSUME NEW w \in Workers, WriteError(w) PROVE MainTypeOK'
    BY <1>23 DEF WriteError, MainTypeOK, Goto, kernelVars, connVars, mainVars
  <1>24. ASSUME NEW t \in Threads, DelFd(t) PROVE MainTypeOK'
    BY <1>24 DEF DelFd, MainTypeOK, Goto, kernelVars, connVars, mainVars
  <1>25. ASSUME NEW t \in Threads, CloseTest(t) PROVE MainTypeOK'
    BY <1>25 DEF CloseTest, Returned, MainTypeOK, Goto, Take, Leave, kernelVars,
      connVars, mainVars
  <1>26. ASSUME NEW t \in Threads, CloseQuit(t) PROVE MainTypeOK'
    BY <1>26 DEF CloseQuit, MainTypeOK, Goto, kernelVars, mainVars
  <1>27. ASSUME NEW t \in Threads, CloseFd(t) PROVE MainTypeOK'
    BY <1>27 DEF CloseFd, Returned, MainTypeOK, Take, Leave, connVars, mainVars
  <1>28. CASE UNCHANGED vars
    BY <1>28 DEF vars, kernelVars, connVars, mainVars, MainTypeOK
  <1> QED
    BY <1>1, <1>2, <1>3, <1>4, <1>5, <1>6, <1>7, <1>8,
      <1>9, <1>10, <1>11, <1>12, <1>13, <1>14, <1>15, <1>16, <1>17,
      <1>18, <1>19, <1>20, <1>21, <1>22, <1>23, <1>24, <1>25, <1>26,
      <1>27, <1>28
       DEF Next, Client, MainStep, DealListen_, CloseConn_, WorkerStep, Threads

LEMMA ThreadTypeNext == TypeOK /\ [Next]_vars => ThreadTypeOK'
  <1> SUFFICES ASSUME KernelTypeOK, MainTypeOK, ThreadTypeOK, [Next]_vars PROVE ThreadTypeOK'
    BY DEF TypeOK
  <1> USE ThreadFacts
  <1>1. CASE Connect
    BY <1>1 DEF Connect, KernelTypeOK, MainTypeOK, ThreadTypeOK, WorkerPC, MainPC,
      ClosePC, connVars, mainVars
  <1>2. ASSUME NEW f \in Fds, Send(f) PROVE ThreadTypeOK'
    BY <1>2 DEF Send, KernelTypeOK, MainTypeOK, ThreadTypeOK, WorkerPC, MainPC, ClosePC,
      connVars, mainVars
  <1>3. ASSUME NEW f \in Fds, Shutdown(f) PROVE ThreadTypeOK'
    BY <1>3 DEF Shutdown, KernelTypeOK, MainTypeOK, ThreadTypeOK, WorkerPC, MainPC,
      ClosePC, connVars, mainVars
  <1>4. ASSUME NEW f \in Fds, Drain(f) PROVE ThreadTypeOK'
    BY <1>4 DEF Drain, KernelTypeOK, MainTypeOK, ThreadTypeOK, WorkerPC, MainPC,
      ClosePC, connVars, mainVars
  <1>5. ASSUME NEW f \in Fds, TickExpired(f) PROVE ThreadTypeOK'
    BY <1>5 DEF TickExpired, Busy, KernelTypeOK, MainTypeOK, ThreadTypeOK, WorkerPC,
      MainPC, ClosePC, Take, kernelVars, connVars
  <1>6. CASE Pop
    BY <1>6 DEF Pop, KernelTypeOK, MainTypeOK, ThreadTypeOK, WorkerPC, MainPC, ClosePC,
      Goto, kernelVars, connVars
  <1>7. CASE TickDone
    BY <1>7 DEF TickDone, KernelTypeOK, MainTypeOK, ThreadTypeOK, WorkerPC, MainPC,
      ClosePC, Goto, kernelVars, connVars, mainVars
  <1>8. CASE Wait
    BY <1>8 DEF Wait, ReadyEvents, EventOf, Ready, Reported, Event, KernelTypeOK,
      MainTypeOK, ThreadTypeOK, WorkerPC, MainPC, ClosePC, Goto, connVars
  <1>9. ASSUME NEW e \in batch, Dispatch(e) PROVE ThreadTypeOK'
    BY <1>9 DEF Dispatch, DispatchListen, DispatchHup, Deal, Task, Event, KernelTypeOK,
      MainTypeOK, ThreadTypeOK, WorkerPC, MainPC, ClosePC, Goto, Take, kernelVars,
      connVars
  <1>10. CASE DispatchDone
    BY <1>10 DEF DispatchDone, KernelTypeOK, MainTypeOK, ThreadTypeOK, WorkerPC, MainPC,
      ClosePC, Goto, kernelVars, connVars, mainVars
  <1>11. CASE AcceptNone
    BY <1>11 DEF AcceptNone, AcceptReturns, KernelTypeOK, MainTypeOK, ThreadTypeOK,
      WorkerPC, MainPC, ClosePC, Goto, kernelVars, connVars
  <1>12. CASE AcceptBusy
    BY <1>12 DEF AcceptBusy, AcceptReturns, KernelTypeOK, MainTypeOK, ThreadTypeOK,
      WorkerPC, MainPC, ClosePC, Goto, connVars
  <1>13. ASSUME NEW f \in Fds, AcceptOne(f) PROVE ThreadTypeOK'
    BY <1>13 DEF AcceptOne, AcceptReturns, Lowest, KernelTypeOK, MainTypeOK,
      ThreadTypeOK, WorkerPC, MainPC, ClosePC, Take
  <1>14. CASE AddFd
    BY <1>14 DEF AddFd, AcceptNext, KernelTypeOK, MainTypeOK, ThreadTypeOK, WorkerPC,
      MainPC, ClosePC, Take, Leave, kernelVars, connVars, mainVars
  <1>15. ASSUME NEW w \in Workers, TakeTask(w) PROVE ThreadTypeOK'
    <2>1. Head(tasks) \in Task
      BY <1>15 DEF TakeTask, MainTypeOK
    <2> QED
      BY <1>15, <2>1 DEF TakeTask, Take, Task, ThreadTypeOK, WorkerPC
  <1>16. ASSUME NEW w \in Workers, OnRead_(w) PROVE ThreadTypeOK'
    BY <1>16 DEF OnRead_, KernelTypeOK, MainTypeOK, ThreadTypeOK, WorkerPC, MainPC,
      ClosePC, Goto, mainVars
  <1>17. ASSUME NEW w \in Workers, ProcessNothing(w) PROVE ThreadTypeOK'
    BY <1>17 DEF ProcessNothing, KernelTypeOK, MainTypeOK, ThreadTypeOK, WorkerPC,
      MainPC, ClosePC, Goto, kernelVars, mainVars
  <1>18. ASSUME NEW w \in Workers, ProcessRequest(w) PROVE ThreadTypeOK'
    BY <1>18 DEF ProcessRequest, KernelTypeOK, MainTypeOK, ThreadTypeOK, WorkerPC,
      MainPC, ClosePC, Goto, kernelVars, mainVars
  <1>19. ASSUME NEW w \in Workers, ModIn(w) PROVE ThreadTypeOK'
    BY <1>19 DEF ModIn, ModOut, ModFd, KernelTypeOK, MainTypeOK, ThreadTypeOK, WorkerPC,
      MainPC, ClosePC, Take, Leave, kernelVars, connVars, mainVars
  <1>20. ASSUME NEW w \in Workers, ModOut(w) PROVE ThreadTypeOK'
    BY <1>20 DEF ModOut, ModFd, KernelTypeOK, MainTypeOK, ThreadTypeOK, WorkerPC,
      MainPC, ClosePC, Take, Leave, kernelVars, connVars, mainVars
  <1>21. ASSUME NEW w \in Workers, WriteDone(w) PROVE ThreadTypeOK'
    BY <1>21 DEF WriteDone, KernelTypeOK, MainTypeOK, ThreadTypeOK, WorkerPC, MainPC,
      ClosePC, Goto, kernelVars, mainVars
  <1>22. ASSUME NEW w \in Workers, WriteAgain(w) PROVE ThreadTypeOK'
    BY <1>22 DEF WriteAgain, RetryStep, KernelTypeOK, MainTypeOK, ThreadTypeOK,
      WorkerPC, MainPC, ClosePC, Goto, mainVars
  <1>23. ASSUME NEW w \in Workers, WriteError(w) PROVE ThreadTypeOK'
    BY <1>23 DEF WriteError, KernelTypeOK, MainTypeOK, ThreadTypeOK, WorkerPC, MainPC,
      ClosePC, Goto, kernelVars, connVars, mainVars
  <1>24. ASSUME NEW t \in Threads, DelFd(t) PROVE ThreadTypeOK'
    BY <1>24 DEF DelFd, KernelTypeOK, MainTypeOK, ThreadTypeOK, WorkerPC, MainPC,
      ClosePC, Goto, kernelVars, connVars, mainVars
  <1>25. ASSUME NEW t \in Threads, CloseTest(t) PROVE ThreadTypeOK'
    <2>1. t \in Workers \/ t = Main
      BY DEF Threads
    <2>2. CASE t = Main
      BY <1>25, <2>2 DEF CloseTest, Returned, Goto, Leave, Take, ThreadTypeOK, MainPC, ClosePC
    <2>3. CASE t \in Workers
      BY <1>25, <2>3 DEF CloseTest, Returned, Goto, Leave, Take, ThreadTypeOK, WorkerPC, ClosePC
    <2> QED
      BY <2>1, <2>2, <2>3
  <1>26. ASSUME NEW t \in Threads, CloseQuit(t) PROVE ThreadTypeOK'
    BY <1>26 DEF CloseQuit, KernelTypeOK, MainTypeOK, ThreadTypeOK, WorkerPC, MainPC,
      ClosePC, Goto, kernelVars, mainVars
  <1>27. ASSUME NEW t \in Threads, CloseFd(t) PROVE ThreadTypeOK'
    BY <1>27 DEF CloseFd, Returned, KernelTypeOK, MainTypeOK, ThreadTypeOK, WorkerPC,
      MainPC, ClosePC, Take, Leave, connVars, mainVars
  <1>28. CASE UNCHANGED vars
    BY <1>28 DEF vars, kernelVars, connVars, mainVars, KernelTypeOK, MainTypeOK,
      ThreadTypeOK, WorkerPC, MainPC, ClosePC
  <1> QED
    BY <1>1, <1>2, <1>3, <1>4, <1>5, <1>6, <1>7, <1>8,
      <1>9, <1>10, <1>11, <1>12, <1>13, <1>14, <1>15, <1>16, <1>17,
      <1>18, <1>19, <1>20, <1>21, <1>22, <1>23, <1>24, <1>25, <1>26,
      <1>27, <1>28
       DEF Next, Client, MainStep, DealListen_, CloseConn_, WorkerStep, Threads

-----------------------------------------------------------------------------
(* What a thread works on, and where the main thread is.                   *)

LEMMA ControlInit == Init => PcArg /\ MainInv
  BY ThreadFacts DEF Init, PcArg, MainInv, UsesConn, ClosePC

LEMMA PcArgNext == TypeOK /\ PcArg /\ MainInv /\ [Next]_vars => PcArg'
  <1> SUFFICES ASSUME TypeOK, ThreadTypeOK, PcArg, MainInv, [Next]_vars PROVE PcArg'
    BY DEF TypeOK
  <1> USE ThreadFacts, FdsAssumption
  <1>1. CASE Connect
    BY <1>1 DEF Connect, ThreadTypeOK, PcArg, UsesConn, ClosePC, connVars, mainVars
  <1>2. ASSUME NEW f \in Fds, Send(f) PROVE PcArg'
    BY <1>2 DEF Send, ThreadTypeOK, PcArg, UsesConn, ClosePC, connVars, mainVars
  <1>3. ASSUME NEW f \in Fds, Shutdown(f) PROVE PcArg'
    BY <1>3 DEF Shutdown, ThreadTypeOK, PcArg, UsesConn, ClosePC, connVars, mainVars
  <1>4. ASSUME NEW f \in Fds, Drain(f) PROVE PcArg'
    BY <1>4 DEF Drain, ThreadTypeOK, PcArg, UsesConn, ClosePC, connVars, mainVars
  <1>5. ASSUME NEW f \in Fds, TickExpired(f) PROVE PcArg'
    BY <1>5 DEF TickExpired, Busy, ThreadTypeOK, PcArg, UsesConn, ClosePC, Take,
      kernelVars, connVars
  <1>6. CASE Pop
    BY <1>6 DEF Pop, ThreadTypeOK, PcArg, UsesConn, ClosePC, Goto, kernelVars, connVars
  <1>7. CASE TickDone
    BY <1>7 DEF TickDone, ThreadTypeOK, PcArg, UsesConn, ClosePC, Goto, kernelVars,
      connVars, mainVars
  <1>8. CASE Wait
    BY <1>8 DEF Wait, ReadyEvents, EventOf, Ready, Reported, ThreadTypeOK, PcArg,
      UsesConn, ClosePC, Goto, connVars
  <1>9. ASSUME NEW e \in batch, Dispatch(e) PROVE PcArg'
    BY <1>9 DEF Dispatch, DispatchListen, DispatchHup, Deal, ListenFd, Goto, Take,
      ThreadTypeOK, PcArg, UsesConn, ClosePC
  <1>10. CASE DispatchDone
    BY <1>10 DEF DispatchDone, ThreadTypeOK, PcArg, UsesConn, ClosePC, Goto, kernelVars,
      connVars, mainVars
  <1>11. CASE AcceptNone
    BY <1>11 DEF AcceptNone, AcceptReturns, ThreadTypeOK, PcArg, UsesConn, ClosePC,
      Goto, kernelVars, connVars
  <1>12. CASE AcceptBusy
    BY <1>12 DEF AcceptBusy, AcceptReturns, ThreadTypeOK, PcArg, UsesConn, ClosePC,
      Goto, connVars
  <1>13. ASSUME NEW f \in Fds, AcceptOne(f) PROVE PcArg'
    BY <1>13 DEF AcceptOne, AcceptReturns, Lowest, ThreadTypeOK, PcArg, UsesConn,
      ClosePC, Take
  <1>14. CASE AddFd
    BY <1>14 DEF AddFd, AcceptNext, ThreadTypeOK, PcArg, UsesConn, ClosePC, Take, Leave,
      kernelVars, connVars, mainVars
  <1>15. ASSUME NEW w \in Workers, TakeTask(w) PROVE PcArg'
    <2>1. Head(tasks) \in Task
      BY <1>15 DEF TakeTask, TypeOK, MainTypeOK
    <2> QED
      BY <1>15, <2>1 DEF TakeTask, Take, Task, ThreadTypeOK, PcArg
  <1>16. ASSUME NEW w \in Workers, OnRead_(w) PROVE PcArg'
    BY <1>16 DEF OnRead_, ThreadTypeOK, PcArg, UsesConn, ClosePC, Goto, mainVars
  <1>17. ASSUME NEW w \in Workers, ProcessNothing(w) PROVE PcArg'
    BY <1>17 DEF ProcessNothing, ThreadTypeOK, PcArg, UsesConn, ClosePC, Goto,
      kernelVars, mainVars
  <1>18. ASSUME NEW w \in Workers, ProcessRequest(w) PROVE PcArg'
    BY <1>18 DEF ProcessRequest, ThreadTypeOK, PcArg, UsesConn, ClosePC, Goto,
      kernelVars, mainVars
  <1>19. ASSUME NEW w \in Workers, ModIn(w) PROVE PcArg'
    BY <1>19 DEF ModIn, ModFd, ThreadTypeOK, PcArg, UsesConn, ClosePC, Take, Leave,
      kernelVars, connVars, mainVars
  <1>20. ASSUME NEW w \in Workers, ModOut(w) PROVE PcArg'
    BY <1>20 DEF ModOut, ModFd, ThreadTypeOK, PcArg, UsesConn, ClosePC, Take, Leave,
      kernelVars, connVars, mainVars
  <1>21. ASSUME NEW w \in Workers, WriteDone(w) PROVE PcArg'
    BY <1>21 DEF WriteDone, ThreadTypeOK, PcArg, UsesConn, ClosePC, Goto, kernelVars,
      mainVars
  <1>22. ASSUME NEW w \in Workers, WriteAgain(w) PROVE PcArg'
    BY <1>22 DEF WriteAgain, RetryStep, ThreadTypeOK, PcArg, UsesConn, ClosePC, Goto,
      mainVars
  <1>23. ASSUME NEW w \in Workers, WriteError(w) PROVE PcArg'
    BY <1>23 DEF WriteError, ThreadTypeOK, PcArg, UsesConn, ClosePC, Goto, kernelVars,
      connVars, mainVars
  <1>24. ASSUME NEW t \in Threads, DelFd(t) PROVE PcArg'
    BY <1>24 DEF DelFd, ThreadTypeOK, PcArg, UsesConn, ClosePC, Goto, kernelVars,
      connVars, mainVars
  <1>25. ASSUME NEW t \in Threads, CloseTest(t) PROVE PcArg'
    BY <1>25 DEF CloseTest, Returned, ThreadTypeOK, PcArg, UsesConn, ClosePC, Goto,
      Take, Leave, kernelVars, connVars, mainVars
  <1>26. ASSUME NEW t \in Threads, CloseQuit(t) PROVE PcArg'
    BY <1>26 DEF CloseQuit, ThreadTypeOK, PcArg, UsesConn, ClosePC, Goto, kernelVars,
      mainVars
  <1>27. ASSUME NEW t \in Threads, CloseFd(t) PROVE PcArg'
    BY <1>27 DEF CloseFd, Returned, ThreadTypeOK, PcArg, UsesConn, ClosePC, Take, Leave,
      connVars, mainVars
  <1>28. CASE UNCHANGED vars
    BY <1>28 DEF vars, kernelVars, connVars, mainVars, ThreadTypeOK, PcArg, UsesConn,
      ClosePC
  <1> QED
    BY <1>1, <1>2, <1>3, <1>4, <1>5, <1>6, <1>7, <1>8,
      <1>9, <1>10, <1>11, <1>12, <1>13, <1>14, <1>15, <1>16, <1>17,
      <1>18, <1>19, <1>20, <1>21, <1>22, <1>23, <1>24, <1>25, <1>26,
      <1>27, <1>28
       DEF Next, Client, MainStep, DealListen_, CloseConn_, WorkerStep, Threads

LEMMA MainInvNext == TypeOK /\ PcArg /\ MainInv /\ [Next]_vars => MainInv'
  <1> SUFFICES ASSUME TypeOK, ThreadTypeOK, PcArg, MainInv, [Next]_vars PROVE MainInv'
    BY DEF TypeOK
  <1> USE ThreadFacts, FdsAssumption
  <1>1. CASE Connect
    BY <1>1 DEF Connect, ThreadTypeOK, MainInv, ClosePC, connVars, mainVars
  <1>2. ASSUME NEW f \in Fds, Send(f) PROVE MainInv'
    BY <1>2 DEF Send, ThreadTypeOK, MainInv, ClosePC, connVars, mainVars
  <1>3. ASSUME NEW f \in Fds, Shutdown(f) PROVE MainInv'
    BY <1>3 DEF Shutdown, ThreadTypeOK, MainInv, ClosePC, connVars, mainVars
  <1>4. ASSUME NEW f \in Fds, Drain(f) PROVE MainInv'
    BY <1>4 DEF Drain, ThreadTypeOK, MainInv, ClosePC, connVars, mainVars
  <1>5. ASSUME NEW f \in Fds, TickExpired(f) PROVE MainInv'
    BY <1>5 DEF TickExpired, Busy, ThreadTypeOK, MainInv, ClosePC, Take, kernelVars,
      connVars
  <1>6. CASE Pop
    BY <1>6 DEF Pop, ThreadTypeOK, MainInv, ClosePC, Goto, kernelVars, connVars
  <1>7. CASE TickDone
    BY <1>7 DEF TickDone, ThreadTypeOK, MainInv, ClosePC, Goto, kernelVars, connVars,
      mainVars
  <1>8. CASE Wait
    BY <1>8 DEF Wait, ReadyEvents, EventOf, Ready, Reported, ThreadTypeOK, MainInv,
      ClosePC, Goto, connVars
  <1>9. ASSUME NEW e \in batch, Dispatch(e) PROVE MainInv'
    BY <1>9 DEF Dispatch, DispatchListen, DispatchHup, Deal, ThreadTypeOK, MainInv,
      ClosePC, Goto, Take, kernelVars, connVars
  <1>10. CASE DispatchDone
    BY <1>10 DEF DispatchDone, ThreadTypeOK, MainInv, ClosePC, Goto, kernelVars,
      connVars, mainVars
  <1>11. CASE AcceptNone
    BY <1>11 DEF AcceptNone, AcceptReturns, ThreadTypeOK, MainInv, ClosePC, Goto,
      kernelVars, connVars
  <1>12. CASE AcceptBusy
    BY <1>12 DEF AcceptBusy, AcceptReturns, ThreadTypeOK, MainInv, ClosePC, Goto,
      connVars
  <1>13. ASSUME NEW f \in Fds, AcceptOne(f) PROVE MainInv'
    BY <1>13 DEF AcceptOne, AcceptReturns, Lowest, ThreadTypeOK, MainInv, ClosePC, Take
  <1>14. CASE AddFd
    BY <1>14 DEF AddFd, AcceptNext, ThreadTypeOK, MainInv, ClosePC, Take, Leave,
      kernelVars, connVars, mainVars
  <1>15. ASSUME NEW w \in Workers, TakeTask(w) PROVE MainInv'
    BY <1>15 DEF TakeTask, ThreadTypeOK, MainInv, ClosePC, Take, kernelVars, connVars,
      mainVars
  <1>16. ASSUME NEW w \in Workers, OnRead_(w) PROVE MainInv'
    BY <1>16 DEF OnRead_, ThreadTypeOK, MainInv, ClosePC, Goto, mainVars
  <1>17. ASSUME NEW w \in Workers, ProcessNothing(w) PROVE MainInv'
    BY <1>17 DEF ProcessNothing, ThreadTypeOK, MainInv, ClosePC, Goto, kernelVars,
      mainVars
  <1>18. ASSUME NEW w \in Workers, ProcessRequest(w) PROVE MainInv'
    BY <1>18 DEF ProcessRequest, ThreadTypeOK, MainInv, ClosePC, Goto, kernelVars,
      mainVars
  <1>19. ASSUME NEW w \in Workers, ModIn(w) PROVE MainInv'
    BY <1>19 DEF ModIn, ModFd, ThreadTypeOK, MainInv, ClosePC, Take, Leave, kernelVars,
      connVars, mainVars
  <1>20. ASSUME NEW w \in Workers, ModOut(w) PROVE MainInv'
    BY <1>20 DEF ModOut, ModFd, ThreadTypeOK, MainInv, ClosePC, Take, Leave, kernelVars,
      connVars, mainVars
  <1>21. ASSUME NEW w \in Workers, WriteDone(w) PROVE MainInv'
    BY <1>21 DEF WriteDone, ThreadTypeOK, MainInv, ClosePC, Goto, kernelVars, mainVars
  <1>22. ASSUME NEW w \in Workers, WriteAgain(w) PROVE MainInv'
    BY <1>22 DEF WriteAgain, RetryStep, ThreadTypeOK, MainInv, ClosePC, Goto, mainVars
  <1>23. ASSUME NEW w \in Workers, WriteError(w) PROVE MainInv'
    BY <1>23 DEF WriteError, ThreadTypeOK, MainInv, ClosePC, Goto, kernelVars, connVars,
      mainVars
  <1>24. ASSUME NEW t \in Threads, DelFd(t) PROVE MainInv'
    BY <1>24 DEF DelFd, ThreadTypeOK, MainInv, ClosePC, Goto, kernelVars, connVars,
      mainVars
  <1>25. ASSUME NEW t \in Threads, CloseTest(t) PROVE MainInv'
    BY <1>25 DEF CloseTest, Returned, ThreadTypeOK, MainInv, ClosePC, Goto, Take, Leave,
      kernelVars, connVars, mainVars
  <1>26. ASSUME NEW t \in Threads, CloseQuit(t) PROVE MainInv'
    BY <1>26 DEF CloseQuit, ThreadTypeOK, MainInv, ClosePC, Goto, kernelVars, mainVars
  <1>27. ASSUME NEW t \in Threads, CloseFd(t) PROVE MainInv'
    BY <1>27 DEF CloseFd, Returned, ThreadTypeOK, MainInv, ClosePC, Take, Leave,
      connVars, mainVars
  <1>28. CASE UNCHANGED vars
    BY <1>28 DEF vars, kernelVars, connVars, mainVars, ThreadTypeOK, MainInv, ClosePC
  <1> QED
    BY <1>1, <1>2, <1>3, <1>4, <1>5, <1>6, <1>7, <1>8,
      <1>9, <1>10, <1>11, <1>12, <1>13, <1>14, <1>15, <1>16, <1>17,
      <1>18, <1>19, <1>20, <1>21, <1>22, <1>23, <1>24, <1>25, <1>26,
      <1>27, <1>28
       DEF Next, Client, MainStep, DealListen_, CloseConn_, WorkerStep, Threads

-----------------------------------------------------------------------------
(* The timer nodes.                                                        *)

LEMMA TimerInit == Init => TimerInv
  BY ThreadFacts DEF Init, TimerInv

LEMMA TimerNext ==
  UseTimers /\ TypeOK /\ PcArg /\ MainInv /\ TimerInv /\ [Next]_vars => TimerInv'
  <1> SUFFICES ASSUME UseTimers, TypeOK, KernelTypeOK, ThreadTypeOK, MainTypeOK,
                      PcArg, MainInv, TimerInv, [Next]_vars
               PROVE  TimerInv'
    BY DEF TypeOK
  <1> USE ThreadFacts, FdsAssumption
  <1>1. CASE Connect
    BY <1>1 DEF Connect, KernelTypeOK, ThreadTypeOK, MainTypeOK, MainInv, TimerInv,
      connVars, mainVars
  <1>2. ASSUME NEW f \in Fds, Send(f) PROVE TimerInv'
    BY <1>2 DEF Send, KernelTypeOK, ThreadTypeOK, MainTypeOK, MainInv, TimerInv,
      connVars, mainVars
  <1>3. ASSUME NEW f \in Fds, Shutdown(f) PROVE TimerInv'
    BY <1>3 DEF Shutdown, KernelTypeOK, ThreadTypeOK, MainTypeOK, MainInv, TimerInv,
      connVars, mainVars
  <1>4. ASSUME NEW f \in Fds, Drain(f) PROVE TimerInv'
    BY <1>4 DEF Drain, KernelTypeOK, ThreadTypeOK, MainTypeOK, MainInv, TimerInv,
      connVars, mainVars
  <1>5. ASSUME NEW f \in Fds, TickExpired(f) PROVE TimerInv'
    BY <1>5 DEF TickExpired, Busy, KernelTypeOK, ThreadTypeOK, MainTypeOK, MainInv,
      TimerInv, Take, kernelVars, connVars
  <1>6. CASE Pop
    BY <1>6 DEF Pop, KernelTypeOK, ThreadTypeOK, MainTypeOK, MainInv, TimerInv, Goto,
      kernelVars, connVars
  <1>7. CASE TickDone
    BY <1>7 DEF TickDone, KernelTypeOK, ThreadTypeOK, MainTypeOK, MainInv, TimerInv,
      Goto, kernelVars, connVars, mainVars
  <1>8. CASE Wait
    BY <1>8 DEF Wait, ReadyEvents, EventOf, Ready, Reported, Event, KernelTypeOK,
      ThreadTypeOK, MainTypeOK, MainInv, TimerInv, Goto, connVars
  <1>9. ASSUME NEW e \in batch, Dispatch(e) PROVE TimerInv'
    BY <1>9 DEF Dispatch, DispatchListen, DispatchHup, Deal, Task, Event, KernelTypeOK,
      ThreadTypeOK, MainTypeOK, MainInv, TimerInv, Goto, Take, kernelVars, connVars
  <1>10. CASE DispatchDone
    BY <1>10 DEF DispatchDone, KernelTypeOK, ThreadTypeOK, MainTypeOK, MainInv,
      TimerInv, Goto, kernelVars, connVars, mainVars
  <1>11. CASE AcceptNone
    BY <1>11 DEF AcceptNone, AcceptReturns, KernelTypeOK, ThreadTypeOK, MainTypeOK,
      MainInv, TimerInv, Goto, kernelVars, connVars
  <1>12. CASE AcceptBusy
    BY <1>12 DEF AcceptBusy, AcceptReturns, KernelTypeOK, ThreadTypeOK, MainTypeOK,
      MainInv, TimerInv, Goto, connVars
  <1>13. ASSUME NEW f \in Fds, AcceptOne(f) PROVE TimerInv'
    BY <1>13 DEF AcceptOne, AcceptReturns, Lowest, KernelTypeOK, ThreadTypeOK,
      MainTypeOK, MainInv, TimerInv, Take
  <1>14. CASE AddFd
    BY <1>14 DEF AddFd, AcceptNext, Leave, Take, KernelTypeOK, ThreadTypeOK, MainInv,
      ClosePC, TimerInv, mainVars
  <1>15. ASSUME NEW w \in Workers, TakeTask(w) PROVE TimerInv'
    BY <1>15 DEF TakeTask, Task, KernelTypeOK, ThreadTypeOK, MainTypeOK, MainInv,
      TimerInv, Take, kernelVars, connVars, mainVars
  <1>16. ASSUME NEW w \in Workers, OnRead_(w) PROVE TimerInv'
    BY <1>16 DEF OnRead_, KernelTypeOK, ThreadTypeOK, MainTypeOK, MainInv, TimerInv,
      Goto, mainVars
  <1>17. ASSUME NEW w \in Workers, ProcessNothing(w) PROVE TimerInv'
    BY <1>17 DEF ProcessNothing, KernelTypeOK, ThreadTypeOK, MainTypeOK, MainInv,
      TimerInv, Goto, kernelVars, mainVars
  <1>18. ASSUME NEW w \in Workers, ProcessRequest(w) PROVE TimerInv'
    BY <1>18 DEF ProcessRequest, KernelTypeOK, ThreadTypeOK, MainTypeOK, MainInv,
      TimerInv, Goto, kernelVars, mainVars
  <1>19. ASSUME NEW w \in Workers, ModIn(w) PROVE TimerInv'
    BY <1>19 DEF ModIn, ModFd, KernelTypeOK, ThreadTypeOK, MainTypeOK, MainInv,
      TimerInv, Take, Leave, kernelVars, connVars, mainVars
  <1>20. ASSUME NEW w \in Workers, ModOut(w) PROVE TimerInv'
    BY <1>20 DEF ModOut, ModFd, KernelTypeOK, ThreadTypeOK, MainTypeOK, MainInv,
      TimerInv, Take, Leave, kernelVars, connVars, mainVars
  <1>21. ASSUME NEW w \in Workers, WriteDone(w) PROVE TimerInv'
    BY <1>21 DEF WriteDone, KernelTypeOK, ThreadTypeOK, MainTypeOK, MainInv, TimerInv,
      Goto, kernelVars, mainVars
  <1>22. ASSUME NEW w \in Workers, WriteAgain(w) PROVE TimerInv'
    BY <1>22 DEF WriteAgain, RetryStep, KernelTypeOK, ThreadTypeOK, MainTypeOK, MainInv,
      TimerInv, Goto, mainVars
  <1>23. ASSUME NEW w \in Workers, WriteError(w) PROVE TimerInv'
    BY <1>23 DEF WriteError, KernelTypeOK, ThreadTypeOK, MainTypeOK, MainInv, TimerInv,
      Goto, kernelVars, connVars, mainVars
  <1>24. ASSUME NEW t \in Threads, DelFd(t) PROVE TimerInv'
    BY <1>24 DEF DelFd, KernelTypeOK, ThreadTypeOK, MainTypeOK, MainInv, TimerInv, Goto,
      kernelVars, connVars, mainVars
  <1>25. ASSUME NEW t \in Threads, CloseTest(t) PROVE TimerInv'
    BY <1>25 DEF CloseTest, Returned, KernelTypeOK, ThreadTypeOK, MainTypeOK, MainInv,
      TimerInv, Goto, Take, Leave, kernelVars, connVars, mainVars
  <1>26. ASSUME NEW t \in Threads, CloseQuit(t) PROVE TimerInv'
    BY <1>26 DEF CloseQuit, KernelTypeOK, ThreadTypeOK, MainTypeOK, MainInv, TimerInv,
      Goto, kernelVars, mainVars
  <1>27. ASSUME NEW t \in Threads, CloseFd(t) PROVE TimerInv'
    BY <1>27 DEF CloseFd, Returned, KernelTypeOK, ThreadTypeOK, MainTypeOK, MainInv,
      TimerInv, Take, Leave, connVars, mainVars
  <1>28. CASE UNCHANGED vars
    BY <1>28 DEF vars, kernelVars, connVars, mainVars, KernelTypeOK, ThreadTypeOK,
      MainTypeOK, MainInv, TimerInv
  <1> QED
    BY <1>1, <1>2, <1>3, <1>4, <1>5, <1>6, <1>7, <1>8,
      <1>9, <1>10, <1>11, <1>12, <1>13, <1>14, <1>15, <1>16, <1>17,
      <1>18, <1>19, <1>20, <1>21, <1>22, <1>23, <1>24, <1>25, <1>26,
      <1>27, <1>28
       DEF Next, Client, MainStep, DealListen_, CloseConn_, WorkerStep, Threads

-----------------------------------------------------------------------------
(* The theorems.                                                           *)

LEMMA ControlInvInit == Init => ControlInv
  BY TypeInit, ControlInit, TimerInit DEF ControlInv

LEMMA ControlInvNext == ControlInv /\ [Next]_vars => ControlInv'
  BY KernelTypeNext, ConnTypeNext, MainTypeNext, ThreadTypeNext, PcArgNext, MainInvNext,
     TimerNext DEF ControlInv, TypeOK

LEMMA ControlAlways == Spec => []ControlInv
  BY ControlInvInit, ControlInvNext, PTL DEF Spec

(* Every variable of the reactor keeps its type, whatever the timers do:   *)
(* the pending count of the listening socket never goes below zero, and a  *)
(* task, an event or a timer node is always about a client descriptor.     *)
THEOREM TypeCorrect == Spec => []TypeOK
  <1>1. ControlInv => TypeOK
    BY DEF ControlInv
  <1> QED
    BY <1>1, ControlAlways, PTL

(* The assertion of HeapTimer::adjust never fails: whenever DealRead_ or   *)
(* DealWrite_ extends the time of a connection its node is in the heap,    *)
(* also after a timer has closed a connection under a worker.              *)
THEOREM TimerNodeAlways == Spec => []TimerNodePresent
  <1>1. ControlInv => TimerNodePresent
    BY DEF ControlInv, TimerInv, TimerNodePresent
  <1> QED
    BY <1>1, ControlAlways, PTL

-----------------------------------------------------------------------------
(* The descriptor of a task is open, disabled in the epoll instance, and   *)
(* neither in an event nor held nor in another task.                       *)
TaskOwns(i) ==
  LET f == tasks[i].fd IN
  /\ sock[f] # 0 /\ tasks[i].conn = sock[f] /\ watch[f] = "off" /\ f \notin isClose
  /\ \A j \in 1..Len(tasks) : tasks[j].fd = f => i = j
  /\ \A e \in batch : e.fd # f
  /\ \A t \in Threads : arg[t] # f

EventOwns(e) ==
  LET f == e.fd IN
  /\ sock[f] # 0 /\ watch[f] = "off" /\ f \notin isClose
  /\ \A d \in batch : d.fd = f => d = e
  /\ \A t \in Threads : arg[t] # f

(* What a thread that holds f has found, by the step it is at.             *)
ThreadOwns(t) ==
  LET f == arg[t] IN
  /\ job[t] = sock[f]
  /\ \A u \in Threads : arg[u] = f => u = t
  /\ (t = Main /\ expiring = f /\ pc[t] = "DelFd") =>
        IF sock[f] = 0 THEN f \in isClose /\ watch[f] = "none"
                       ELSE f \notin isClose /\ Armed(f)
  /\ ~(t = Main /\ expiring = f) =>
        /\ sock[f] # 0
        /\ pc[t] \notin {"Close", "quit", "closefd", "AddClient_"} =>
              f \notin isClose /\ watch[f] = "off"
  /\ pc[t] = "Close" => watch[f] = "none" /\ (f \in isClose <=> sock[f] = 0)
  /\ pc[t] \in {"quit", "AddClient_"} => watch[f] = "none" /\ sock[f] # 0 /\ f \notin isClose
  /\ pc[t] = "closefd" => watch[f] = "none" /\ sock[f] # 0 /\ f \in isClose

TasksOwn == \A i \in 1..Len(tasks) : TaskOwns(i)
EventsOwn == \A e \in batch : e.fd # ListenFd => EventOwns(e)
ThreadsOwn == \A t \in Threads : arg[t] # 0 => ThreadOwns(t)
ClosedIsInert == \A f \in Fds : sock[f] = 0 => f \in isClose /\ watch[f] = "none"
OpenIsOwned ==
  \A f \in Fds : sock[f] # 0 => \/ Armed(f) /\ f \notin isClose
                                \/ \E i \in 1..Len(tasks) : tasks[i].fd = f
                                \/ \E e \in batch : e.fd = f
                                \/ \E t \in Threads : arg[t] = f
Owned == TasksOwn /\ EventsOwn /\ ThreadsOwn /\ ClosedIsInert /\ OpenIsOwned



-----------------------------------------------------------------------------
LEMMA OwnedInit == Init => Owned
  BY ThreadFacts DEF Init, Owned, TasksOwn, EventsOwn, ThreadsOwn, ClosedIsInert, OpenIsOwned

(* A step that moves no descriptor, and no thread out of the work on its   *)
(* connection, changes no owner.                                           *)
WorkPC == {"OnRead_", "OnProcess", "OnWrite_", "ModIn", "ModOut", "DelFd"}

QuietStep ==
  /\ UNCHANGED <<sock, watch, isClose, tasks, batch, arg, job, expiring>>
  /\ \A t \in Threads : arg[t] # 0 =>
        pc'[t] = pc[t] \/ (t # Main /\ pc[t] \in WorkPC /\ pc'[t] \in WorkPC)

LEMMA QuietKeepsOwned == Owned /\ QuietStep => Owned'
  <1> SUFFICES ASSUME Owned, QuietStep PROVE Owned'
    OBVIOUS
  <1>1. TasksOwn'
    BY DEF Owned, QuietStep, TasksOwn, TaskOwns
  <1>2. EventsOwn'
    BY DEF Owned, QuietStep, EventsOwn, EventOwns
  <1>3. ThreadsOwn'
    BY DEF Owned, QuietStep, ThreadsOwn, ThreadOwns, WorkPC, Armed
  <1>4. ClosedIsInert' /\ OpenIsOwned'
    BY DEF Owned, QuietStep, ClosedIsInert, OpenIsOwned, Armed
  <1> QED
    BY <1>1, <1>2, <1>3, <1>4 DEF Owned

LEMMA TaskTyped ==
  ASSUME MainTypeOK, NEW i \in 1..Len(tasks)
  PROVE  tasks[i] \in Task
  BY DEF MainTypeOK

-----------------------------------------------------------------------------
(* What the threads are at after a step, one thread at a time.             *)

LEMMA TakeEffect ==
  ASSUME ThreadTypeOK, NEW t \in Threads, NEW p, NEW f, NEW c, Take(t, p, f, c),
         NEW u \in Threads
  PROVE  /\ pc'[u] = IF u = t THEN p ELSE pc[u]
         /\ arg'[u] = IF u = t THEN f ELSE arg[u]
         /\ job'[u] = IF u = t THEN c ELSE job[u]
  BY DEF Take, ThreadTypeOK

LEMMA GotoEffect ==
  ASSUME ThreadTypeOK, NEW t \in Threads, NEW p, Goto(t, p), NEW u \in Threads
  PROVE  /\ pc'[u] = IF u = t THEN p ELSE pc[u]
         /\ arg'[u] = arg[u]
         /\ job'[u] = job[u]
  BY DEF Goto, ThreadTypeOK

LEMMA LeaveEffect ==
  ASSUME ThreadTypeOK, NEW t \in Threads, NEW p, Leave(t, p), NEW u \in Threads
  PROVE  /\ u # t => pc'[u] = pc[u] /\ arg'[u] = arg[u] /\ job'[u] = job[u]
         /\ arg'[t] = 0
  BY DEF Leave, Take, ThreadTypeOK

(* The thread that holds f lets it go, closed or armed.                    *)
LetsGo(t) ==
  LET f == arg[t] IN
  /\ UNCHANGED <<isClose, tasks, batch, expiring>>
  /\ \A u \in Threads : u # t => pc'[u] = pc[u] /\ arg'[u] = arg[u] /\ job'[u] = job[u]
  /\ arg'[t] = 0
  /\ \A g \in Fds : g # f => sock'[g] = sock[g] /\ watch'[g] = watch[g]
  /\ IF sock'[f] = 0 THEN f \in isClose /\ watch'[f] = "none"
                     ELSE f \notin isClose /\ watch'[f] \in {"in", "out"}

LEMMA HoldReleased ==
  ASSUME TypeOK, Owned, NEW t \in Threads, arg[t] \in Fds, LetsGo(t)
  PROVE  Owned'
  <1> DEFINE f == arg[t]
  <1>1. f \in Fds /\ f # 0 /\ ThreadOwns(t)
    BY FdsAssumption DEF Owned, ThreadsOwn
  <1>2. \A i \in 1..Len(tasks) : tasks[i].fd \in Fds /\ tasks[i].fd # f /\ tasks[i].fd # 0
    BY TaskTyped, FdsAssumption DEF Owned, TasksOwn, TaskOwns, TypeOK, Task
  <1>3. \A e \in batch : e.fd # f /\ (e.fd # ListenFd => e.fd \in Fds)
    BY <1>1 DEF Owned, EventsOwn, EventOwns, TypeOK, MainTypeOK, Event, ListenFd
  <1>4. TasksOwn'
    BY <1>2 DEF LetsGo, Owned, TasksOwn, TaskOwns
  <1>5. EventsOwn'
    BY <1>3 DEF LetsGo, Owned, EventsOwn, EventOwns, ListenFd
  <1>6. ASSUME NEW u \in Threads, arg'[u] # 0 PROVE ThreadOwns(u)'
    <2>1. u # t /\ arg'[u] = arg[u]
      BY <1>6 DEF LetsGo
    <2>2. arg[u] \in Fds /\ arg[u] # f /\ ThreadOwns(u)
      BY <1>1, <1>6, <2>1 DEF TypeOK, ThreadTypeOK, Owned, ThreadsOwn, ThreadOwns
    <2> QED
      BY <1>6, <2>1, <2>2 DEF LetsGo, ThreadOwns, Armed
  <1>7. ClosedIsInert'
    BY <1>1 DEF LetsGo, Owned, ClosedIsInert
  <1>8. OpenIsOwned'
    <2>1. \A g \in Fds, u \in Threads : arg[u] = g => arg'[u] = g \/ g = f
      BY DEF LetsGo
    <2> QED
      BY <1>1, <2>1 DEF LetsGo, Owned, OpenIsOwned, Armed
  <1> QED
    BY <1>4, <1>5, <1>6, <1>7, <1>8 DEF Owned, ThreadsOwn

-----------------------------------------------------------------------------
(* The steps that hand a descriptor over.                                  *)

(* tick() takes an armed, or an already closed, connection.                *)
LEMMA TickExpiredOwned ==
  ASSUME TypeOK, PcArg, MainInv, Owned, ~overrun', NEW f \in Fds, TickExpired(f)
  PROVE  Owned'
  <1> USE ThreadFacts
  <1>1. /\ UNCHANGED <<sock, watch, isClose, tasks, batch>>
        /\ \A t \in Threads : /\ pc'[t] = IF t = Main THEN "DelFd" ELSE pc[t]
                              /\ arg'[t] = IF t = Main THEN f ELSE arg[t]
                              /\ job'[t] = IF t = Main THEN sock[f] ELSE job[t]
    BY TakeEffect DEF TickExpired, kernelVars, connVars, TypeOK
  <1>2. \A i \in 1..Len(tasks) : tasks[i].fd # f
    BY DEF TickExpired, Busy
  <1>3. batch = {} /\ expiring = 0 /\ expiring' = f /\ f # 0 /\ arg[Main] = 0
    BY FdsAssumption DEF TickExpired, MainInv, PcArg, UsesConn, ClosePC
  <1>4. \A t \in Threads : arg[t] # f
    BY <1>3 DEF TickExpired, Busy, Threads, PcArg
  <1>5. IF sock[f] = 0 THEN f \in isClose /\ watch[f] = "none"
                       ELSE f \notin isClose /\ Armed(f)
    BY <1>2, <1>3, <1>4 DEF Owned, ClosedIsInert, OpenIsOwned
  <1>6. TasksOwn'
    BY <1>1, <1>2, <1>3 DEF Owned, TasksOwn, TaskOwns
  <1>7. EventsOwn'
    BY <1>1, <1>3 DEF EventsOwn
  <1>8. ASSUME NEW t \in Threads, arg'[t] # 0 PROVE ThreadOwns(t)'
    <2>1. CASE t = Main
      BY <1>1, <1>3, <1>4, <1>5, <2>1 DEF ThreadOwns, Armed
    <2>2. CASE t # Main
      BY <1>1, <1>3, <1>4, <1>8, <2>2 DEF Owned, ThreadsOwn, ThreadOwns, Armed
    <2> QED
      BY <2>1, <2>2
  <1>9. ClosedIsInert'
    BY <1>1 DEF Owned, ClosedIsInert
  <1>10. OpenIsOwned'
    <2>1. \A g \in Fds, t \in Threads : arg[t] = g => arg'[t] = g
      BY <1>1, <1>3, FdsAssumption
    <2> QED
      BY <1>1, <2>1 DEF Owned, OpenIsOwned, Armed
  <1> QED
    BY <1>6, <1>7, <1>8, <1>9, <1>10 DEF Owned, ThreadsOwn

(* tick() has no descriptor left when it pops the node.                    *)
LEMMA PopOwned ==
  ASSUME TypeOK, PcArg, MainInv, Owned, Pop
  PROVE  Owned'
  <1> USE ThreadFacts
  <1>1. /\ UNCHANGED <<sock, watch, isClose, tasks, batch>>
        /\ \A t \in Threads : /\ pc'[t] = IF t = Main THEN "tick" ELSE pc[t]
                              /\ arg'[t] = arg[t] /\ job'[t] = job[t]
    BY GotoEffect DEF Pop, kernelVars, connVars, TypeOK
  <1>2. arg[Main] = 0
    BY DEF Pop, PcArg, UsesConn, ClosePC
  <1>3. TasksOwn' /\ EventsOwn'
    BY <1>1 DEF Owned, TasksOwn, TaskOwns, EventsOwn, EventOwns
  <1>4. ThreadsOwn'
    BY <1>1, <1>2 DEF Owned, ThreadsOwn, ThreadOwns, Armed
  <1>5. ClosedIsInert' /\ OpenIsOwned'
    BY <1>1 DEF Owned, ClosedIsInert, OpenIsOwned, Armed
  <1> QED
    BY <1>3, <1>4, <1>5 DEF Owned

(* epoll_wait turns an armed registration into an event.                   *)
LEMMA WaitOwned ==
  ASSUME TypeOK, PcArg, MainInv, Owned, Wait
  PROVE  Owned'
  <1> USE ThreadFacts
  <1>1. /\ UNCHANGED <<sock, isClose, tasks, expiring>>
        /\ \A t \in Threads : /\ pc'[t] = IF t = Main THEN "dispatch" ELSE pc[t]
                              /\ arg'[t] = arg[t] /\ job'[t] = job[t]
    BY GotoEffect DEF Wait, connVars, TypeOK
  <1>2. batch = {} /\ expiring = 0 /\ arg[Main] = 0
    BY DEF Wait, MainInv, PcArg, UsesConn, ClosePC
  <1>3. \A f \in Fds : watch'[f] = IF Ready(f) THEN "off" ELSE watch[f]
    BY DEF Wait, Reported
  <1>4. \A f \in Fds : Ready(f) => Armed(f)
    BY DEF Ready, Armed
  <1>5. \A e \in batch' : e.fd # ListenFd =>
          e.fd \in Fds /\ Ready(e.fd) /\ e = EventOf(e.fd)
    BY FdsAssumption DEF Wait, ReadyEvents, EventOf
  <1>6. \A f \in Fds : Ready(f) => \E e \in batch' : e.fd = f
    <2>1. \A f \in Fds : EventOf(f).fd = f
      BY DEF EventOf
    <2>2. \A f \in Fds : Ready(f) => EventOf(f) \in batch'
      BY DEF Wait, ReadyEvents
    <2> QED
      BY <2>1, <2>2
  <1>7. \A f \in Fds : Armed(f) => \A i \in 1..Len(tasks) : tasks[i].fd # f
    BY DEF Owned, TasksOwn, TaskOwns, Armed
  <1>8. ASSUME NEW f \in Fds, Armed(f)
        PROVE  sock[f] # 0 /\ f \notin isClose /\ \A t \in Threads : arg[t] # f
    <2>1. \A t \in Threads : arg[t] # f
      BY <1>2, <1>8, FdsAssumption DEF Owned, ThreadsOwn, ThreadOwns, Armed
    <2>2. sock[f] # 0
      BY <1>8 DEF Owned, ClosedIsInert, Armed
    <2> QED
      BY <1>2, <1>7, <1>8, <2>1, <2>2 DEF Owned, OpenIsOwned
  <1>9. TasksOwn'
    <2>1. \A i \in 1..Len(tasks) : tasks[i].fd \in Fds /\ tasks[i].fd # ListenFd
      BY TaskTyped, FdsAssumption DEF TypeOK, Task, ListenFd
    <2>2. \A i \in 1..Len(tasks) : ~Ready(tasks[i].fd)
      BY <1>4, <1>7, <2>1
    <2>3. \A i \in 1..Len(tasks) : \A e \in batch' : e.fd # tasks[i].fd
      BY <1>5, <2>1, <2>2
    <2>4. \A i \in 1..Len(tasks) : watch'[tasks[i].fd] = watch[tasks[i].fd]
      BY <1>3, <2>1, <2>2
    <2> QED
      BY <1>1, <2>3, <2>4 DEF Owned, TasksOwn, TaskOwns
  <1>10. EventsOwn'
    BY <1>1, <1>3, <1>4, <1>5, <1>8 DEF EventsOwn, EventOwns
  <1>11. ThreadsOwn'
    BY <1>1, <1>2, <1>3, <1>4, <1>8 DEF Owned, ThreadsOwn, ThreadOwns, Armed, TypeOK, ThreadTypeOK
  <1>12. ClosedIsInert'
    BY <1>1, <1>3, <1>4, <1>8 DEF Owned, ClosedIsInert
  <1>13. OpenIsOwned'
    BY <1>1, <1>2, <1>3, <1>6 DEF Owned, OpenIsOwned, Armed
  <1> QED
    BY <1>9, <1>10, <1>11, <1>12, <1>13 DEF Owned

(* DealListen_ leaves, DealRead_ and DealWrite_ turn the event into a task, *)
(* CloseConn_ takes the descriptor in the main thread.                     *)
LEMMA DispatchOwned ==
  ASSUME TypeOK, PcArg, MainInv, Owned, NEW e \in batch, Dispatch(e)
  PROVE  Owned'
  <1> USE ThreadFacts
  <1>1. /\ UNCHANGED <<sock, watch, isClose, expiring>>
        /\ batch' = batch \ {e} /\ expiring = 0 /\ arg[Main] = 0
    BY DEF Dispatch, kernelVars, connVars, MainInv, PcArg, UsesConn, ClosePC
  <1>2. e.fd \in Fds \cup {ListenFd}
    BY DEF TypeOK, MainTypeOK, Event
  <1>3. EventsOwn'
    <2>1. \A t \in Threads : arg'[t] = arg[t] \/ (arg'[t] = e.fd /\ e.fd # ListenFd)
      <3>1. CASE DispatchListen(e)
        BY <3>1 DEF DispatchListen, Goto
      <3>2. CASE DispatchHup(e)
        BY <3>2, TakeEffect DEF DispatchHup, TypeOK
      <3>3. CASE Deal(e)
        BY <3>3 DEF Deal
      <3> QED
        BY <3>1, <3>2, <3>3 DEF Dispatch
    <2> QED
      BY <1>1, <2>1 DEF Owned, EventsOwn, EventOwns
  <1>4. ClosedIsInert'
    BY <1>1 DEF Owned, ClosedIsInert
  <1>5. CASE DispatchListen(e)
    <2>1. /\ tasks' = tasks
          /\ \A t \in Threads : /\ pc'[t] = IF t = Main THEN "accept" ELSE pc[t]
                                /\ arg'[t] = arg[t] /\ job'[t] = job[t]
      BY <1>5, GotoEffect DEF DispatchListen, TypeOK
    <2>2. TasksOwn'
      BY <1>1, <2>1 DEF Owned, TasksOwn, TaskOwns
    <2>3. ThreadsOwn'
      BY <1>1, <2>1 DEF Owned, ThreadsOwn, ThreadOwns, Armed
    <2>4. OpenIsOwned'
      <3>1. \A d \in batch : d.fd \in Fds => d \in batch'
        BY <1>1, <1>5, FdsAssumption DEF DispatchListen, ListenFd
      <3> QED
        BY <1>1, <2>1, <3>1 DEF Owned, OpenIsOwned, Armed
    <2> QED
      BY <1>3, <1>4, <2>2, <2>3, <2>4 DEF Owned
  <1>6. CASE DispatchHup(e)
    <2> DEFINE f == e.fd
    <2>1. /\ tasks' = tasks
          /\ \A t \in Threads : /\ pc'[t] = IF t = Main THEN "DelFd" ELSE pc[t]
                                /\ arg'[t] = IF t = Main THEN f ELSE arg[t]
                                /\ job'[t] = IF t = Main THEN sock[f] ELSE job[t]
      BY <1>6, TakeEffect DEF DispatchHup, TypeOK
    <2>2. f \in Fds /\ f # 0 /\ EventOwns(e)
      BY <1>2, <1>6, FdsAssumption DEF DispatchHup, ListenFd, Owned, EventsOwn
    <2>3. \A i \in 1..Len(tasks) : tasks[i].fd # f
      BY DEF Owned, TasksOwn, TaskOwns
    <2>4. TasksOwn'
      BY <1>1, <2>1, <2>3 DEF Owned, TasksOwn, TaskOwns
    <2>5. ASSUME NEW t \in Threads, arg'[t] # 0 PROVE ThreadOwns(t)'
      <3>1. CASE t = Main
        BY <1>1, <2>1, <2>2, <3>1 DEF EventOwns, ThreadOwns, ClosePC
      <3>2. CASE t # Main
        BY <1>1, <2>1, <2>2, <2>5, <3>2 DEF Owned, ThreadsOwn, ThreadOwns, EventOwns, Armed
      <3> QED
        BY <3>1, <3>2
    <2>6. OpenIsOwned'
      <3>1. \A g \in Fds, t \in Threads : arg[t] = g => arg'[t] = g
        BY <1>1, <2>1, FdsAssumption
      <3>2. \A d \in batch : d \in batch' \/ d.fd = arg'[Main]
        BY <1>1, <2>1
      <3> QED
        BY <1>1, <2>1, <3>1, <3>2 DEF Owned, OpenIsOwned, Armed
    <2> QED
      BY <1>3, <1>4, <2>4, <2>5, <2>6 DEF Owned, ThreadsOwn
  <1>7. CASE Deal(e)
    <2> DEFINE f == e.fd
               n == Len(tasks) + 1
    <2>1. UNCHANGED <<pc, arg, job>>
      BY <1>7 DEF Deal
    <2>2. f \in Fds /\ f # 0 /\ EventOwns(e)
      BY <1>2, <1>7, FdsAssumption DEF Deal, ListenFd, Owned, EventsOwn
    <2>3. /\ Len(tasks') = n
          /\ \A i \in 1..Len(tasks) : tasks'[i] = tasks[i]
          /\ tasks'[n].fd = f /\ tasks'[n].conn = sock[f]
      BY <1>7 DEF Deal, TypeOK, MainTypeOK
    <2>4. n \in 1..Len(tasks') /\ \A i \in 1..Len(tasks') : i = n \/ i \in 1..Len(tasks)
      BY <2>3 DEF TypeOK, MainTypeOK
    <2>5. \A i \in 1..Len(tasks) : tasks[i].fd # f
      BY DEF Owned, TasksOwn, TaskOwns
    <2>6. \A i \in 1..Len(tasks) : i \in 1..Len(tasks')
      BY <2>3 DEF TypeOK, MainTypeOK
    <2>7. ASSUME NEW i \in 1..Len(tasks') PROVE TaskOwns(i)'
      <3>1. CASE i = n
        BY <1>1, <2>1, <2>2, <2>3, <2>4, <2>5, <3>1 DEF EventOwns, TaskOwns
      <3>2. CASE i \in 1..Len(tasks)
        BY <1>1, <2>1, <2>3, <2>4, <2>5, <3>2 DEF Owned, TasksOwn, TaskOwns
      <3> QED
        BY <2>4, <3>1, <3>2
    <2>8. ThreadsOwn'
      BY <1>1, <2>1 DEF Owned, ThreadsOwn, ThreadOwns, Armed
    <2>9. OpenIsOwned'
      <3>1. \A d \in batch : d \in batch' \/ d.fd = tasks'[n].fd
        BY <1>1, <2>3
      <3> QED
        BY <1>1, <2>1, <2>3, <2>4, <2>6, <3>1 DEF Owned, OpenIsOwned, Armed
    <2> QED
      BY <1>3, <1>4, <2>7, <2>8, <2>9 DEF Owned, TasksOwn
  <1> QED
    BY <1>5, <1>6, <1>7 DEF Dispatch

(* accept() returns a closed descriptor, and AddClient_ takes it.          *)
LEMMA AcceptOneOwned ==
  ASSUME TypeOK, PcArg, MainInv, Owned, NEW f \in Fds, AcceptOne(f)
  PROVE  Owned'
  <1> USE ThreadFacts
  <1> DEFINE c == accepted + 1
  <1>1. /\ UNCHANGED <<watch, tasks, batch, expiring>>
        /\ \A g \in Fds : sock'[g] = IF g = f THEN c ELSE sock[g]
        /\ isClose' = isClose \ {f}
        /\ c # 0
    BY DEF AcceptOne, TypeOK, KernelTypeOK
  <1>2. \A t \in Threads : /\ pc'[t] = IF t = Main THEN "AddClient_" ELSE pc[t]
                           /\ arg'[t] = IF t = Main THEN f ELSE arg[t]
                           /\ job'[t] = IF t = Main THEN c ELSE job[t]
    <2>1. Take(Main, "AddClient_", f, c)
      BY DEF AcceptOne
    <2> QED
      BY <2>1, TakeEffect DEF TypeOK
  <1> HIDE DEF c
  <1>3. arg[Main] = 0 /\ expiring = 0 /\ f # 0
    BY FdsAssumption DEF AcceptOne, MainInv, PcArg, UsesConn, ClosePC
  <1>4. sock[f] = 0 /\ watch[f] = "none" /\ f \in isClose
    BY DEF AcceptOne, Lowest, Owned, ClosedIsInert
  <1>5. \A i \in 1..Len(tasks) : tasks[i].fd \in Fds /\ tasks[i].fd # f
    BY <1>4, TaskTyped DEF Owned, TasksOwn, TaskOwns, TypeOK, Task
  <1>6. \A e \in batch : e.fd # f /\ (e.fd # ListenFd => e.fd \in Fds)
    BY <1>3, <1>4 DEF Owned, EventsOwn, EventOwns, TypeOK, MainTypeOK, Event, ListenFd
  <1>7. \A t \in Threads : arg[t] # f
    <2> SUFFICES ASSUME NEW t \in Threads, arg[t] = f PROVE FALSE
      OBVIOUS
    <2>1. t # Main /\ ThreadOwns(t)
      BY <1>3 DEF Owned, ThreadsOwn
    <2> QED
      BY <1>4, <2>1 DEF ThreadOwns
  <1>8. TasksOwn'
    BY <1>1, <1>2, <1>5 DEF Owned, TasksOwn, TaskOwns
  <1>9. EventsOwn'
    BY <1>1, <1>2, <1>6 DEF Owned, EventsOwn, EventOwns
  <1>10. ASSUME NEW t \in Threads, arg'[t] # 0 PROVE ThreadOwns(t)'
    <2>1. CASE t = Main
      BY <1>1, <1>2, <1>3, <1>4, <1>7, <2>1 DEF ThreadOwns
    <2>2. CASE t # Main
      <3>1. arg[t] \in Fds /\ arg[t] # f /\ arg'[t] = arg[t]
        BY <1>2, <1>7, <1>10, <2>2 DEF TypeOK, ThreadTypeOK
      <3> QED
        BY <1>1, <1>2, <1>3, <1>10, <2>2, <3>1 DEF Owned, ThreadsOwn, ThreadOwns, Armed
    <2> QED
      BY <2>1, <2>2
  <1>11. ClosedIsInert'
    BY <1>1 DEF Owned, ClosedIsInert
  <1>12. OpenIsOwned'
    <2>1. \A g \in Fds, t \in Threads : arg[t] = g => arg'[t] = g
      BY <1>2, <1>3, FdsAssumption
    <2> QED
      BY <1>1, <1>2, <2>1 DEF Owned, OpenIsOwned, Armed
  <1> QED
    BY <1>8, <1>9, <1>10, <1>11, <1>12 DEF Owned, ThreadsOwn

(* AddFd gives the descriptor to the epoll instance.                       *)
LEMMA AddFdOwned ==
  ASSUME TypeOK, PcArg, MainInv, Owned, AddFd
  PROVE  Owned'
  <1> USE ThreadFacts
  <1>1. arg[Main] \in Fds /\ arg[Main] # 0 /\ expiring = 0 /\ ThreadOwns(Main)
    BY HasConn, FdsAssumption DEF AddFd, MainInv, UsesConn, ClosePC, Owned, ThreadsOwn
  <1>2. sock[arg[Main]] # 0 /\ arg[Main] \notin isClose
    BY <1>1 DEF AddFd, ThreadOwns
  <1>3. \A g \in Fds : watch'[g] = IF g = arg[Main] THEN "in" ELSE watch[g]
    BY <1>1, <1>2 DEF AddFd, TypeOK, KernelTypeOK
  <1>4. UNCHANGED <<sock, isClose, tasks, batch, expiring>>
    BY DEF AddFd, kernelVars, connVars, mainVars
  <1>5. LetsGo(Main)
    BY <1>1, <1>2, <1>3, <1>4, LeaveEffect DEF AddFd, AcceptNext, LetsGo, TypeOK
  <1> QED
    BY <1>1, <1>5, HoldReleased

(* A worker takes the descriptor of the first task.                        *)
LEMMA TakeTaskOwned ==
  ASSUME TypeOK, PcArg, MainInv, Owned, NEW w \in Workers, TakeTask(w)
  PROVE  Owned'
  <1> USE ThreadFacts
  <1> DEFINE f == tasks[1].fd
  <1>1. /\ Len(tasks) \in Nat /\ Len(tasks) > 0
        /\ Len(tasks') = Len(tasks) - 1
        /\ \A i \in 1..Len(tasks') : tasks'[i] = tasks[i + 1]
    BY DEF TakeTask, TypeOK, MainTypeOK
  <1>2. /\ 1 \in 1..Len(tasks)
        /\ \A i \in 1..Len(tasks') : i + 1 \in 1..Len(tasks) /\ i + 1 # 1
        /\ \A i \in 1..Len(tasks) : i = 1 \/ i - 1 \in 1..Len(tasks')
        /\ \A i, j \in 1..Len(tasks') : i + 1 = j + 1 => i = j
    BY <1>1
  <1>3. \A i \in 1..Len(tasks) : i # 1 => tasks'[i - 1] = tasks[i]
    BY <1>1
  <1>4. tasks[1] \in Task /\ TaskOwns(1)
    BY <1>2, TaskTyped DEF TypeOK, Owned, TasksOwn
  <1>5. f \in Fds /\ f # 0 /\ tasks[1].op \in {"OnRead_", "OnWrite_"} /\ w # Main
    BY <1>4, FdsAssumption DEF Task
  <1>6. /\ UNCHANGED <<sock, watch, isClose, batch, expiring>>
        /\ \A t \in Threads : /\ pc'[t] = IF t = w THEN tasks[1].op ELSE pc[t]
                              /\ arg'[t] = IF t = w THEN f ELSE arg[t]
                              /\ job'[t] = IF t = w THEN tasks[1].conn ELSE job[t]
    <2>1. Take(w, tasks[1].op, tasks[1].fd, tasks[1].conn)
      BY DEF TakeTask
    <2> QED
      BY <2>1, TakeEffect DEF TypeOK, TakeTask, kernelVars, connVars, mainVars
  <1>7. arg[w] = 0
    BY DEF TakeTask, PcArg
  <1>8. \A i \in 1..Len(tasks') : tasks[i + 1].fd # f
    BY <1>2, <1>4 DEF TaskOwns
  <1>9. ASSUME NEW i \in 1..Len(tasks') PROVE TaskOwns(i)'
    <2>1. TaskOwns(i + 1) /\ tasks'[i] = tasks[i + 1] /\ tasks'[i].fd # f
      BY <1>1, <1>2, <1>8 DEF Owned, TasksOwn
    <2>2. \A j \in 1..Len(tasks') : tasks'[j].fd = tasks'[i].fd => i = j
      BY <1>1, <1>2, <2>1 DEF TaskOwns
    <2> QED
      BY <1>6, <2>1, <2>2 DEF TaskOwns
  <1>10. EventsOwn'
    BY <1>4, <1>6 DEF Owned, EventsOwn, EventOwns, TaskOwns
  <1>11. ASSUME NEW t \in Threads, arg'[t] # 0 PROVE ThreadOwns(t)'
    <2>1. CASE t = w
      BY <1>4, <1>5, <1>6, <2>1 DEF TaskOwns, ThreadOwns
    <2>2. CASE t # w
      BY <1>4, <1>5, <1>6, <1>11, <2>2 DEF Owned, ThreadsOwn, ThreadOwns, TaskOwns, Armed
    <2> QED
      BY <2>1, <2>2
  <1>12. ClosedIsInert'
    BY <1>6 DEF Owned, ClosedIsInert
  <1>13. OpenIsOwned'
    <2>1. \A g \in Fds, t \in Threads : arg[t] = g => arg'[t] = g
      BY <1>6, <1>7, FdsAssumption
    <2>2. \A i \in 1..Len(tasks) : \/ tasks[i].fd = arg'[w]
                                   \/ \E j \in 1..Len(tasks') : tasks'[j].fd = tasks[i].fd
      BY <1>2, <1>3, <1>6
    <2> QED
      BY <1>6, <2>1, <2>2 DEF Owned, OpenIsOwned, Armed
  <1> QED
    BY <1>9, <1>10, <1>11, <1>12, <1>13 DEF Owned, TasksOwn, ThreadsOwn

(* ModFd arms the descriptor again and the worker lets it go.              *)
LEMMA RearmOwned ==
  ASSUME TypeOK, PcArg, MainInv, Owned, NEW w \in Workers, ModIn(w) \/ ModOut(w)
  PROVE  Owned'
  <1> USE ThreadFacts
  <1>1. PICK interest \in {"in", "out"} :
             ModFd(arg[w], interest) /\ Leave(w, "idle") /\ pc[w] \in {"ModIn", "ModOut"}
    BY DEF ModIn, ModOut
  <1>2. arg[w] \in Fds /\ arg[w] # 0 /\ ThreadOwns(w) /\ w # Main
    BY <1>1, HasConn, FdsAssumption DEF Owned, ThreadsOwn
  <1>3. sock[arg[w]] # 0 /\ watch[arg[w]] = "off" /\ arg[w] \notin isClose
    BY <1>1, <1>2 DEF ThreadOwns
  <1>4. \A g \in Fds : watch'[g] = IF g = arg[w] THEN interest ELSE watch[g]
    BY <1>1, <1>2, <1>3 DEF ModFd, TypeOK, KernelTypeOK
  <1>5. UNCHANGED <<sock, isClose, tasks, batch, expiring>>
    BY DEF ModIn, ModOut, kernelVars, connVars, mainVars
  <1>6. LetsGo(w)
    BY <1>1, <1>2, <1>3, <1>4, <1>5, LeaveEffect DEF LetsGo, TypeOK
  <1> QED
    BY <1>2, <1>6, HoldReleased

-----------------------------------------------------------------------------
(* CloseConn_.                                                             *)

(* The thread that holds f goes on with it: only what f's registration and *)
(* users_[f] become has to be looked at.                                   *)
KeepsHold(t) ==
  LET f == arg[t] IN
  /\ UNCHANGED <<sock, tasks, batch, expiring, arg, job>>
  /\ \A u \in Threads : u # t => pc'[u] = pc[u]
  /\ \A g \in Fds : g # f => /\ watch'[g] = watch[g]
                             /\ g \in isClose' <=> g \in isClose

LEMMA HoldKept ==
  ASSUME TypeOK, Owned, NEW t \in Threads, arg[t] \in Fds, KeepsHold(t), ThreadOwns(t)',
         sock[arg[t]] = 0 => arg[t] \in isClose' /\ watch'[arg[t]] = "none"
  PROVE  Owned'
  <1> DEFINE f == arg[t]
  <1>1. f \in Fds /\ f # 0 /\ arg' = arg /\ ThreadOwns(t)
    BY FdsAssumption DEF Owned, ThreadsOwn, KeepsHold
  <1>2. \A i \in 1..Len(tasks) : tasks[i].fd \in Fds /\ tasks[i].fd # f
    BY TaskTyped DEF Owned, TasksOwn, TaskOwns, TypeOK, Task
  <1>3. \A e \in batch : e.fd # f /\ (e.fd # ListenFd => e.fd \in Fds)
    BY <1>1 DEF Owned, EventsOwn, EventOwns, TypeOK, MainTypeOK, Event, ListenFd
  <1>4. TasksOwn'
    BY <1>2 DEF KeepsHold, Owned, TasksOwn, TaskOwns
  <1>5. EventsOwn'
    BY <1>3 DEF KeepsHold, Owned, EventsOwn, EventOwns, ListenFd
  <1>6. ASSUME NEW u \in Threads, u # t, arg[u] # 0 PROVE ThreadOwns(u)'
    <2>1. arg[u] \in Fds /\ arg[u] # f /\ ThreadOwns(u)
      BY <1>1, <1>6 DEF TypeOK, ThreadTypeOK, Owned, ThreadsOwn, ThreadOwns
    <2> QED
      BY <1>6, <2>1 DEF KeepsHold, ThreadOwns, Armed
  <1>7. ClosedIsInert'
    BY <1>1 DEF KeepsHold, Owned, ClosedIsInert
  <1>8. OpenIsOwned'
    BY <1>1 DEF KeepsHold, Owned, OpenIsOwned, Armed
  <1> QED
    BY <1>1, <1>4, <1>5, <1>6, <1>7, <1>8 DEF Owned, ThreadsOwn

LEMMA DelFdOwned ==
  ASSUME TypeOK, PcArg, MainInv, Owned, NEW t \in Threads, DelFd(t)
  PROVE  Owned'
  <1>1. arg[t] \in Fds /\ arg[t] # 0 /\ ThreadOwns(t)
    BY ClosesConn, FdsAssumption DEF DelFd, ClosePC, Owned, ThreadsOwn
  <1>2. /\ \A u \in Threads : pc'[u] = IF u = t THEN "Close" ELSE pc[u]
        /\ arg' = arg /\ job' = job
    BY GotoEffect DEF DelFd, Goto, TypeOK
  <1>3. \A g \in Fds : watch'[g] = IF g = arg[t] THEN "none" ELSE watch[g]
    BY <1>1 DEF DelFd, TypeOK, KernelTypeOK
  <1>4. UNCHANGED <<sock, isClose, tasks, batch, expiring>>
    BY DEF DelFd, kernelVars, connVars, mainVars
  <1>5. KeepsHold(t)
    BY <1>2, <1>3, <1>4 DEF KeepsHold
  <1>6. ThreadOwns(t)'
    BY <1>1, <1>2, <1>3, <1>4 DEF DelFd, ThreadOwns, Armed
  <1> QED
    BY <1>1, <1>3, <1>4, <1>5, <1>6, HoldKept DEF Owned, ClosedIsInert

LEMMA CloseQuitOwned ==
  ASSUME TypeOK, PcArg, MainInv, Owned, NEW t \in Threads, CloseQuit(t)
  PROVE  Owned'
  <1>1. arg[t] \in Fds /\ arg[t] # 0 /\ ThreadOwns(t)
    BY ClosesConn, FdsAssumption DEF CloseQuit, ClosePC, Owned, ThreadsOwn
  <1>2. /\ \A u \in Threads : pc'[u] = IF u = t THEN "closefd" ELSE pc[u]
        /\ arg' = arg /\ job' = job
    BY GotoEffect DEF CloseQuit, Goto, TypeOK
  <1>3. UNCHANGED <<sock, watch, tasks, batch, expiring>> /\ isClose' = isClose \cup {arg[t]}
    BY DEF CloseQuit, kernelVars, mainVars
  <1>4. KeepsHold(t)
    BY <1>2, <1>3 DEF KeepsHold
  <1>5. ThreadOwns(t)'
    BY <1>1, <1>2, <1>3 DEF CloseQuit, ThreadOwns
  <1> QED
    BY <1>1, <1>3, <1>4, <1>5, HoldKept DEF CloseQuit, ThreadOwns

LEMMA CloseTestOwned ==
  ASSUME TypeOK, PcArg, MainInv, Owned, NEW t \in Threads, CloseTest(t)
  PROVE  Owned'
  <1>1. arg[t] \in Fds /\ arg[t] # 0 /\ ThreadOwns(t)
    BY ClosesConn, FdsAssumption DEF CloseTest, ClosePC, Owned, ThreadsOwn
  <1>2. UNCHANGED <<sock, watch, isClose, tasks, batch, expiring>>
    BY DEF CloseTest, kernelVars, connVars, mainVars
  <1>3. watch[arg[t]] = "none" /\ (arg[t] \in isClose <=> sock[arg[t]] = 0)
    BY <1>1 DEF CloseTest, ThreadOwns
  <1>4. CASE arg[t] \in isClose
    <2>1. LetsGo(t)
      BY <1>2, <1>3, <1>4, LeaveEffect DEF CloseTest, LetsGo, TypeOK
    <2> QED
      BY <1>1, <2>1, HoldReleased
  <1>5. CASE arg[t] \notin isClose
    <2>1. /\ \A u \in Threads : pc'[u] = IF u = t THEN "quit" ELSE pc[u]
          /\ arg' = arg /\ job' = job
      BY <1>5, GotoEffect DEF CloseTest, Goto, TypeOK
    <2>2. KeepsHold(t)
      BY <1>2, <2>1 DEF KeepsHold
    <2>3. ThreadOwns(t)'
      BY <1>1, <1>2, <1>3, <1>5, <2>1 DEF ThreadOwns
    <2> QED
      BY <1>1, <1>3, <1>5, <2>2, <2>3, HoldKept
  <1> QED
    BY <1>4, <1>5

LEMMA CloseFdOwned ==
  ASSUME TypeOK, PcArg, MainInv, Owned, NEW t \in Threads, CloseFd(t)
  PROVE  Owned'
  <1>1. arg[t] \in Fds /\ arg[t] # 0 /\ ThreadOwns(t)
    BY ClosesConn, FdsAssumption DEF CloseFd, ClosePC, Owned, ThreadsOwn
  <1>2. UNCHANGED <<isClose, tasks, batch, expiring>>
    BY DEF CloseFd, connVars, mainVars
  <1>3. \A g \in Fds : /\ sock'[g] = IF g = arg[t] THEN 0 ELSE sock[g]
                      /\ watch'[g] = IF g = arg[t] THEN "none" ELSE watch[g]
    BY <1>1 DEF CloseFd, TypeOK, KernelTypeOK
  <1>4. arg[t] \in isClose
    BY <1>1 DEF CloseFd, ThreadOwns
  <1>5. LetsGo(t)
    BY <1>1, <1>2, <1>3, <1>4, LeaveEffect DEF CloseFd, LetsGo, TypeOK
  <1> QED
    BY <1>1, <1>5, HoldReleased

-----------------------------------------------------------------------------
(* Every step.                                                             *)

LEMMA OverrunStays == [Next]_vars /\ overrun => overrun'
  BY DEF Next, Client, MainStep, DealListen_, CloseConn_, WorkerStep, Connect, Send, Shutdown,
    Drain, TickExpired, Pop, TickDone, Wait, Dispatch, DispatchDone, AcceptNone, AcceptBusy,
    AcceptOne, AddFd, TakeTask, OnRead_, ProcessNothing, ProcessRequest, ModIn, ModOut,
    WriteDone, WriteAgain, WriteError, DelFd, CloseTest, CloseQuit, CloseFd, vars, mainVars

LEMMA OwnedNext ==
  ASSUME TypeOK, PcArg, MainInv, Owned, ~overrun', [Next]_vars
  PROVE  Owned'
  <1> USE ThreadFacts
  <1>1. CASE Connect
    BY <1>1, QuietKeepsOwned DEF Connect, connVars, mainVars, QuietStep
  <1>2. ASSUME NEW f \in Fds, Send(f) PROVE Owned'
    BY <1>2, QuietKeepsOwned DEF Send, connVars, mainVars, QuietStep
  <1>3. ASSUME NEW f \in Fds, Shutdown(f) PROVE Owned'
    BY <1>3, QuietKeepsOwned DEF Shutdown, connVars, mainVars, QuietStep
  <1>4. ASSUME NEW f \in Fds, Drain(f) PROVE Owned'
    BY <1>4, QuietKeepsOwned DEF Drain, connVars, mainVars, QuietStep
  <1>5. CASE TickDone
    <2>1. arg[Main] = 0
      BY <1>5 DEF TickDone, PcArg, UsesConn, ClosePC
    <2> QED
      BY <1>5, <2>1, GotoEffect, QuietKeepsOwned
      DEF TickDone, kernelVars, connVars, mainVars, QuietStep, Goto, TypeOK
  <1>6. CASE DispatchDone
    <2>1. arg[Main] = 0
      BY <1>6 DEF DispatchDone, PcArg, UsesConn, ClosePC
    <2> QED
      BY <1>6, <2>1, GotoEffect, QuietKeepsOwned
      DEF DispatchDone, kernelVars, connVars, mainVars, QuietStep, Goto, TypeOK
  <1>7. CASE AcceptNone
    <2>1. arg[Main] = 0
      BY <1>7 DEF AcceptNone, PcArg, UsesConn, ClosePC
    <2> QED
      BY <1>7, <2>1, GotoEffect, QuietKeepsOwned
      DEF AcceptNone, kernelVars, connVars, QuietStep, Goto, TypeOK
  <1>8. CASE AcceptBusy
    <2>1. arg[Main] = 0
      BY <1>8 DEF AcceptBusy, PcArg, UsesConn, ClosePC
    <2> QED
      BY <1>8, <2>1, GotoEffect, QuietKeepsOwned
      DEF AcceptBusy, connVars, QuietStep, Goto, TypeOK
  <1>9. ASSUME NEW w \in Workers, OnRead_(w) PROVE Owned'
    BY <1>9, GotoEffect, QuietKeepsOwned
    DEF OnRead_, mainVars, QuietStep, WorkPC, Goto, TypeOK
  <1>10. ASSUME NEW w \in Workers, ProcessNothing(w) PROVE Owned'
    BY <1>10, GotoEffect, QuietKeepsOwned
    DEF ProcessNothing, kernelVars, mainVars, QuietStep, WorkPC, Goto, TypeOK
  <1>11. ASSUME NEW w \in Workers, ProcessRequest(w) PROVE Owned'
    BY <1>11, GotoEffect, QuietKeepsOwned
    DEF ProcessRequest, kernelVars, mainVars, QuietStep, WorkPC, Goto, TypeOK
  <1>12. ASSUME NEW w \in Workers, WriteDone(w) PROVE Owned'
    BY <1>12, GotoEffect, QuietKeepsOwned
    DEF WriteDone, kernelVars, mainVars, QuietStep, WorkPC, Goto, TypeOK
  <1>13. ASSUME NEW w \in Workers, WriteAgain(w) PROVE Owned'
    BY <1>13, GotoEffect, QuietKeepsOwned
    DEF WriteAgain, RetryStep, mainVars, QuietStep, WorkPC, Goto, TypeOK
  <1>14. ASSUME NEW w \in Workers, WriteError(w) PROVE Owned'
    BY <1>14, GotoEffect, QuietKeepsOwned
    DEF WriteError, kernelVars, connVars, mainVars, QuietStep, WorkPC, Goto, TypeOK
  <1>15. CASE UNCHANGED vars
    BY <1>15, QuietKeepsOwned DEF vars, mainVars, kernelVars, connVars, QuietStep
  <1> QED
    BY <1>1, <1>2, <1>3, <1>4, <1>5, <1>6, <1>7, <1>8, <1>9, <1>10, <1>11, <1>12, <1>13, <1>14, <1>15,
       TickExpiredOwned, PopOwned, WaitOwned, DispatchOwned, AcceptOneOwned, AddFdOwned,
       TakeTaskOwned, RearmOwned, DelFdOwned, CloseTestOwned, CloseQuitOwned, CloseFdOwned
    DEF Next, Client, MainStep, DealListen_, CloseConn_, WorkerStep

(***************************************************************************)
(* The count of connections.                                               *)
(***************************************************************************)
OpenFds == {f \in Fds : sock[f] # 0}
Closing == {t \in Threads : pc[t] = "closefd"}

CountInv == /\ IsFiniteSet(OpenFds) /\ IsFiniteSet(Closing)
            /\ userCount = Cardinality(OpenFds) - Cardinality(Closing)

LEMMA CountInit == Init => CountInv
  <1> SUFFICES ASSUME Init PROVE CountInv
    OBVIOUS
  <1>1. OpenFds = {} /\ Closing = {} /\ userCount = 0
    BY DEF Init, OpenFds, Closing
  <1> QED
    BY <1>1, FS_EmptySet DEF CountInv

(* A step that opens and closes nothing, and brings no thread to or from   *)
(* its close(), changes no count.                                          *)
CountQuiet == /\ UNCHANGED <<sock, userCount>>
              /\ \A t \in Threads : pc[t] = "closefd" <=> pc'[t] = "closefd"

LEMMA QuietKeepsCount == CountInv /\ CountQuiet => CountInv'
  <1> SUFFICES ASSUME CountInv, CountQuiet PROVE CountInv'
    OBVIOUS
  <1>1. OpenFds' = OpenFds /\ Closing' = Closing
    BY DEF CountQuiet, OpenFds, Closing
  <1> QED
    BY <1>1 DEF CountInv, CountQuiet

LEMMA AcceptOneCount ==
  ASSUME TypeOK, CountInv, NEW f \in Fds, AcceptOne(f)
  PROVE  CountInv'
  <1>1. f \notin OpenFds /\ OpenFds' = OpenFds \cup {f}
    <2>1. accepted' # 0
      BY DEF AcceptOne, TypeOK, KernelTypeOK
    <2>2. sock[f] = 0 /\ \A g \in Fds : sock'[g] = IF g = f THEN accepted' ELSE sock[g]
      BY DEF AcceptOne, Lowest, TypeOK, KernelTypeOK
    <2> QED
      BY <2>1, <2>2 DEF OpenFds
  <1>2. Closing' = Closing
    BY TakeEffect, ThreadFacts DEF AcceptOne, Closing, TypeOK
  <1>3. userCount' = userCount + 1 /\ userCount \in Int
    BY DEF AcceptOne, TypeOK, ConnTypeOK
  <1>4. IsFiniteSet(OpenFds') /\ Cardinality(OpenFds') = Cardinality(OpenFds) + 1
    BY <1>1, FS_AddElement DEF CountInv
  <1>5. Cardinality(OpenFds) \in Nat /\ Cardinality(Closing) \in Nat
    BY FS_CardinalityType DEF CountInv
  <1> QED
    BY <1>2, <1>3, <1>4, <1>5 DEF CountInv

LEMMA CloseQuitCount ==
  ASSUME TypeOK, CountInv, NEW t \in Threads, CloseQuit(t)
  PROVE  CountInv'
  <1>1. t \notin Closing /\ Closing' = Closing \cup {t}
    BY GotoEffect DEF CloseQuit, Closing, TypeOK
  <1>2. OpenFds' = OpenFds
    BY DEF CloseQuit, OpenFds, kernelVars
  <1>3. userCount' = userCount - 1 /\ userCount \in Int
    BY DEF CloseQuit, TypeOK, ConnTypeOK
  <1>4. IsFiniteSet(Closing') /\ Cardinality(Closing') = Cardinality(Closing) + 1
    BY <1>1, FS_AddElement DEF CountInv
  <1>5. Cardinality(OpenFds) \in Nat /\ Cardinality(Closing) \in Nat
    BY FS_CardinalityType DEF CountInv
  <1> QED
    BY <1>2, <1>3, <1>4, <1>5 DEF CountInv

(* The descriptor that is closed was open: its owner is closing it.        *)
LEMMA CloseFdCount ==
  ASSUME TypeOK, PcArg, Owned, CountInv, NEW t \in Threads, CloseFd(t)
  PROVE  CountInv'
  <1>1. arg[t] \in Fds /\ sock[arg[t]] # 0
    BY ClosesConn, FdsAssumption DEF CloseFd, ClosePC, Owned, ThreadsOwn, ThreadOwns
  <1>2. arg[t] \in OpenFds /\ OpenFds' = OpenFds \ {arg[t]}
    BY <1>1 DEF CloseFd, OpenFds, TypeOK, KernelTypeOK
  <1>3. t \in Closing /\ Closing' = Closing \ {t}
    <2>1. pc'[t] # "closefd" /\ \A u \in Threads : u # t => pc'[u] = pc[u]
      BY DEF CloseFd, Leave, Take, Returned, TypeOK, ThreadTypeOK
    <2> QED
      BY <2>1 DEF CloseFd, Closing
  <1>4. userCount' = userCount
    BY DEF CloseFd, connVars
  <1>5. /\ IsFiniteSet(OpenFds') /\ Cardinality(OpenFds') = Cardinality(OpenFds) - 1
        /\ IsFiniteSet(Closing') /\ Cardinality(Closing') = Cardinality(Closing) - 1
    BY <1>2, <1>3, FS_RemoveElement DEF CountInv
  <1>6. Cardinality(OpenFds) \in Nat /\ Cardinality(Closing) \in Nat
    BY FS_CardinalityType DEF CountInv
  <1> QED
    BY <1>4, <1>5, <1>6 DEF CountInv

LEMMA CountNext ==
  ASSUME TypeOK, PcArg, Owned, CountInv, [Next]_vars
  PROVE  CountInv'
  <1> USE ThreadFacts, QuietKeepsCount DEF CountQuiet
  <1>1. CASE Connect
    BY <1>1 DEF Connect, connVars
  <1>2. ASSUME NEW f \in Fds, Send(f) PROVE CountInv'
    BY <1>2 DEF Send, connVars
  <1>3. ASSUME NEW f \in Fds, Shutdown(f) PROVE CountInv'
    BY <1>3 DEF Shutdown, connVars
  <1>4. ASSUME NEW f \in Fds, Drain(f) PROVE CountInv'
    BY <1>4 DEF Drain, connVars
  <1>5. ASSUME NEW f \in Fds, TickExpired(f) PROVE CountInv'
    BY <1>5, TakeEffect DEF TickExpired, kernelVars, connVars, TypeOK
  <1>6. CASE Pop
    BY <1>6, GotoEffect DEF Pop, kernelVars, connVars, TypeOK
  <1>7. CASE TickDone
    BY <1>7, GotoEffect DEF TickDone, kernelVars, connVars, TypeOK
  <1>8. CASE Wait
    BY <1>8, GotoEffect DEF Wait, connVars, TypeOK
  <1>9. ASSUME NEW e \in batch, Dispatch(e) PROVE CountInv'
    <2>1. UNCHANGED <<sock, userCount>>
      BY <1>9 DEF Dispatch, kernelVars, connVars
    <2>2. CASE DispatchListen(e)
      BY <1>9, <2>1, <2>2, GotoEffect DEF Dispatch, DispatchListen, TypeOK
    <2>3. CASE DispatchHup(e)
      BY <1>9, <2>1, <2>3, TakeEffect DEF Dispatch, DispatchHup, TypeOK
    <2>4. CASE Deal(e)
      BY <1>9, <2>1, <2>4 DEF Deal
    <2> QED
      BY <1>9, <2>2, <2>3, <2>4 DEF Dispatch
  <1>10. CASE DispatchDone
    BY <1>10, GotoEffect DEF DispatchDone, kernelVars, connVars, TypeOK
  <1>11. CASE AcceptNone
    BY <1>11, GotoEffect DEF AcceptNone, kernelVars, connVars, TypeOK
  <1>12. CASE AcceptBusy
    BY <1>12, GotoEffect DEF AcceptBusy, connVars, TypeOK
  <1>13. CASE AddFd
    BY <1>13 DEF AddFd, AcceptNext, Leave, Take, kernelVars, connVars, TypeOK, ThreadTypeOK
  <1>14. ASSUME NEW w \in Workers, TakeTask(w) PROVE CountInv'
    <2>1. Head(tasks) \in Task
      BY <1>14 DEF TakeTask, TypeOK, MainTypeOK
    <2>2. Head(tasks).op # "closefd"
      BY <2>1 DEF Task
    <2> QED
      BY <1>14, <2>2, TakeEffect DEF TakeTask, kernelVars, connVars, TypeOK
  <1>15. ASSUME NEW w \in Workers, OnRead_(w) PROVE CountInv'
    BY <1>15, GotoEffect DEF OnRead_, TypeOK
  <1>16. ASSUME NEW w \in Workers, ProcessNothing(w) PROVE CountInv'
    BY <1>16, GotoEffect DEF ProcessNothing, kernelVars, TypeOK
  <1>17. ASSUME NEW w \in Workers, ProcessRequest(w) PROVE CountInv'
    BY <1>17, GotoEffect DEF ProcessRequest, kernelVars, TypeOK
  <1>18. ASSUME NEW w \in Workers, ModIn(w) \/ ModOut(w) PROVE CountInv'
    BY <1>18 DEF ModIn, ModOut, Leave, Take, kernelVars, connVars, TypeOK, ThreadTypeOK
  <1>19. ASSUME NEW w \in Workers, WriteDone(w) PROVE CountInv'
    BY <1>19, GotoEffect DEF WriteDone, kernelVars, TypeOK
  <1>20. ASSUME NEW w \in Workers, WriteAgain(w) PROVE CountInv'
    BY <1>20, GotoEffect DEF WriteAgain, RetryStep, TypeOK
  <1>21. ASSUME NEW w \in Workers, WriteError(w) PROVE CountInv'
    BY <1>21, GotoEffect DEF WriteError, kernelVars, connVars, TypeOK
  <1>22. ASSUME NEW t \in Threads, DelFd(t) PROVE CountInv'
    BY <1>22, GotoEffect DEF DelFd, kernelVars, connVars, TypeOK
  <1>23. ASSUME NEW t \in Threads, CloseTest(t) PROVE CountInv'
    BY <1>23 DEF CloseTest, Returned, Leave, Take, Goto, kernelVars, connVars, TypeOK,
      ThreadTypeOK
  <1>24. CASE UNCHANGED vars
    BY <1>24 DEF vars, kernelVars, connVars
  <1> QED
    BY <1>1, <1>2, <1>3, <1>4, <1>5, <1>6, <1>7, <1>8, <1>9, <1>10, <1>11, <1>12, <1>13, <1>14,
       <1>15, <1>16, <1>17, <1>18, <1>19, <1>20, <1>21, <1>22, <1>23, <1>24,
       AcceptOneCount, CloseQuitCount, CloseFdCount
    DEF Next, Client, MainStep, DealListen_, CloseConn_, WorkerStep

-----------------------------------------------------------------------------
IInv == ControlInv /\ (~overrun => Owned /\ CountInv)

LEMMA IInvInit == Init => IInv
  BY ControlInvInit, OwnedInit, CountInit DEF IInv

LEMMA IInvNext == IInv /\ [Next]_vars => IInv'
  BY ControlInvNext, OwnedNext, CountNext, OverrunStays DEF IInv, ControlInv

LEMMA IInvAlways == Spec => []IInv
  BY IInvInit, IInvNext, PTL DEF Spec

-----------------------------------------------------------------------------
(* The theorems.                                                           *)

(* While no timer has overrun, nothing acts on an HttpConn beside its one  *)
(* owner: an armed registration, an event, a task or a thread.  This is    *)
(* the exclusion that EPOLLONESHOT is meant to give OnRead_ and OnWrite_.  *)
THEOREM OneOwnerAlways == Spec => []OneOwner
  <1>1. IInv => OneOwner
    <2> SUFFICES ASSUME TypeOK, PcArg, MainInv, Owned, NEW f \in Fds,
                        NEW x \in Owners(f), NEW y \in Owners(f)
                 PROVE  x = y
      BY DEF IInv, ControlInv, OneOwner
    <2> DEFINE T == {<<"task", i>> : i \in {j \in 1..Len(tasks) : tasks[j].fd = f}}
               E == {<<"event", e>> : e \in {d \in batch : d.fd = f}}
               H == {<<"thread", t>> : t \in {u \in Threads : arg[u] = f}}
               A == IF LeftArmed(f) THEN {<<"armed", f>>} ELSE {}
    <2>1. x \in T \cup E \cup H \cup A /\ y \in T \cup E \cup H \cup A
      BY DEF Owners
    <2>2. f # 0 /\ f # ListenFd
      BY FdsAssumption DEF ListenFd
    <2>3. \A i \in 1..Len(tasks) : tasks[i].fd = f =>
            /\ T = {<<"task", i>>} /\ E = {} /\ H = {} /\ ~LeftArmed(f)
      BY DEF Owned, TasksOwn, TaskOwns, LeftArmed, Armed
    <2>4. \A e \in batch : e.fd = f =>
            /\ E = {<<"event", e>>} /\ H = {} /\ ~LeftArmed(f)
      BY <2>2 DEF Owned, EventsOwn, EventOwns, LeftArmed, Armed
    <2>5. ASSUME NEW t \in Threads, arg[t] = f
          PROVE  H = {<<"thread", t>>} /\ ~LeftArmed(f)
      <3>1. ThreadOwns(t)
        BY <2>2, <2>5 DEF Owned, ThreadsOwn
      <3>2. H = {<<"thread", t>>}
        BY <2>5, <3>1 DEF ThreadOwns
      <3>3. ~LeftArmed(f)
        <4>1. CASE t = Main /\ expiring = f
          <5>1. pc[Main] \in ClosePC
            BY <2>2, <2>5, <4>1 DEF MainInv, PcArg, UsesConn, ClosePC
          <5> QED
            BY <2>5, <3>1, <4>1, <5>1 DEF ThreadOwns, LeftArmed, Armed, ClosePC
        <4>2. CASE ~(t = Main /\ expiring = f)
          BY <2>5, <3>1, <4>2 DEF ThreadOwns, LeftArmed, Armed
        <4> QED
          BY <4>1, <4>2
      <3> QED
        BY <3>2, <3>3
    <2>6. CASE x \in T \/ y \in T
      BY <2>1, <2>3, <2>6
    <2>7. CASE T = {} /\ (x \in E \/ y \in E)
      BY <2>1, <2>4, <2>7
    <2>8. CASE T = {} /\ E = {} /\ (x \in H \/ y \in H)
      BY <2>1, <2>5, <2>8
    <2>9. CASE T = {} /\ E = {} /\ H = {}
      BY <2>1, <2>9
    <2> QED
      BY <2>1, <2>3, <2>4, <2>6, <2>7, <2>8, <2>9
  <1> QED
    BY <1>1, IInvAlways, PTL

(* And an open descriptor always has its owner: no connection is left with *)
(* nobody to look at it again.                                             *)
THEOREM NeverStrandedAlways == Spec => []NeverStranded
  <1>1. IInv => NeverStranded
    <2> SUFFICES ASSUME TypeOK, PcArg, MainInv, Owned, NEW f \in Fds, sock[f] # 0
                 PROVE  Owners(f) # {}
      BY DEF IInv, ControlInv, NeverStranded
    <2>1. CASE LeftArmed(f)
      BY <2>1 DEF Owners
    <2>2. CASE Armed(f) /\ ~LeftArmed(f)
      <3>1. arg[Main] = f /\ Main \in Threads
        BY <2>2, FdsAssumption, ThreadFacts DEF LeftArmed, MainInv, ClosePC
      <3> QED
        BY <3>1 DEF Owners
    <2>3. CASE \E i \in 1..Len(tasks) : tasks[i].fd = f
      BY <2>3 DEF Owners
    <2>4. CASE \E e \in batch : e.fd = f
      BY <2>4 DEF Owners
    <2>5. CASE \E t \in Threads : arg[t] = f
      BY <2>5 DEF Owners
    <2> QED
      BY <2>1, <2>2, <2>3, <2>4, <2>5 DEF Owned, OpenIsOwned
  <1> QED
    BY <1>1, IInvAlways, PTL

(* Until a timer overruns, a task or a thread never acts on a later        *)
(* connection that was given its descriptor number and its HttpConn.       *)
THEOREM NoStaleWorkAlways == Spec => []NoStaleWork
  <1>1. IInv => NoStaleWork
    BY DEF IInv, NoStaleWork, Owned, TasksOwn, TaskOwns, ThreadsOwn, ThreadOwns
  <1> QED
    BY <1>1, IInvAlways, PTL

(* userCount, by which DealListen_ refuses a connection, never drifts from *)
(* the number of open descriptors: each is counted once when it is         *)
(* accepted and subtracted once, however its closing interleaves.          *)
THEOREM CountExactAlways == Spec => []CountExact
  <1>1. IInv => CountExact
    BY DEF IInv, CountExact, CountInv, OpenFds, Closing
  <1> QED
    BY <1>1, IInvAlways, PTL
=============================================================================
