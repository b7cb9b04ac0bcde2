------------------------------ MODULE WebServer ------------------------------
(***************************************************************************)
(* The reactor of WebServer-master/code: the main thread that runs         *)
(* WebServer::Start, the epoll instance whose client descriptors are       *)
(* registered with EPOLLONESHOT, the worker threads that run OnRead_ and   *)
(* OnWrite_, and the timer nodes whose callback is CloseConn_.             *)
(*                                                                         *)
(* The configuration is that of main.cpp: trigMode 3, so both the listening *)
(* socket and the connections are edge triggered.  A descriptor number is  *)
(* reused as soon as it is closed, and users_[fd] is one HttpConn object    *)
(* per number, reused with it: connections are numbered here only to tell  *)
(* the successive users of a descriptor apart.                             *)
(*                                                                         *)
(* Time is not measured: a timer may be found expired whenever tick() runs.*)
(* The variable overrun records whether a timer has ever expired while the *)
(* work that it should have waited for was still queued or running.        *)
(***************************************************************************)
EXTENDS Integers, Sequences, FiniteSets

CONSTANTS Fds,        \* descriptors that accept() can return
          Workers,    \* threads of the pool
          Main,       \* the thread that runs Start()
          UseTimers,  \* timeoutMS_ > 0
          MAX_FD,     \* HttpConn::userCount stays below it
          MaxConns,   \* bound: connections that arrive
          MaxMsgs,    \* bound: messages that the clients send
          MaxChunks   \* bound: writes that a response needs when the peer is slow

ASSUME FdsAssumption == Fds \subseteq Nat \ {0}
ASSUME ThreadsAssumption == Main \notin Workers
ASSUME UseTimersAssumption == UseTimers \in BOOLEAN
ASSUME BoundsAssumption == /\ MAX_FD \in Int
                           /\ MaxConns \in Nat
                           /\ MaxMsgs \in Nat
                           /\ MaxChunks \in Nat \ {0}

VARIABLES
  \* the kernel, as seen through the system calls
  backlog,     \* connections waiting to be accepted
  listenEdge,  \* an edge of the listening socket not yet reported
  arrived,     \* connections that ever arrived (bounded)
  accepted,    \* connections that ever got a descriptor: the last one's number
  sock,        \* descriptor -> the connection it is open on, 0 when closed
  inbox,       \* descriptor -> messages received and not read
  sent,        \* messages that ever arrived (bounded)
  peerClosed,  \* descriptors whose peer has shut down its side
  full,        \* descriptors whose send buffer is full
  watch,       \* descriptor -> its epoll registration
  \* the server
  userCount,   \* HttpConn::userCount
  isClose,     \* descriptors whose users_[fd].isClose_ is true
  readBuff,    \* descriptor -> messages in readBuff_
  toWrite,     \* descriptor -> ToWriteBytes(), in chunks
  keepAlive,   \* descriptors whose request_.IsKeepAlive() is true
  timers,      \* ids that have a node in timer_
  expiring,    \* the id whose callback tick() is running, 0 for none
  tasks,       \* the queue of threadpool_
  batch,       \* events returned by Wait and not yet handled
  pc,          \* thread -> where it is
  arg,         \* thread -> the descriptor of the HttpConn it works on
  \* history
  job,         \* thread -> the connection for which it took the descriptor
  cutShort,    \* DealListen_ returned with connections still waiting
  overrun      \* a timer expired on a connection with work queued or running

kernelVars == <<backlog, listenEdge, arrived, accepted, sock, inbox, sent,
                peerClosed, full>>
connVars == <<userCount, isClose, readBuff, toWrite, keepAlive>>
mainVars == <<timers, expiring, batch, cutShort, overrun>>
vars == <<kernelVars, watch, connVars, mainVars, tasks, pc, arg, job>>

Threads == Workers \cup {Main}
ListenFd == 0

Task == [op: {"OnRead_", "OnWrite_"}, fd: Fds, conn: Nat]
Event == [fd: Fds \cup {ListenFd}, ev: {"hup", "in", "out"}]
ClosePC == {"DelFd", "Close", "quit", "closefd"}
WorkerPC == {"idle", "OnRead_", "OnProcess", "OnWrite_", "ModIn", "ModOut"} \cup ClosePC
MainPC == {"tick", "pop", "Wait", "dispatch", "accept", "AddClient_"} \cup ClosePC

\* Thread t goes on at p with the same HttpConn, with that of f, or with none.
Goto(t, p) == /\ pc' = [pc EXCEPT ![t] = p]
              /\ UNCHANGED <<arg, job>>
Take(t, p, f, c) == /\ pc' = [pc EXCEPT ![t] = p]
                    /\ arg' = [arg EXCEPT ![t] = f]
                    /\ job' = [job EXCEPT ![t] = c]
Leave(t, p) == Take(t, p, 0, 0)

-----------------------------------------------------------------------------
(* A client connects, sends, reads what it was sent, shuts down.           *)

Connect ==
  /\ arrived < MaxConns
  /\ arrived' = arrived + 1
  /\ backlog' = backlog + 1
  /\ listenEdge' = TRUE
  /\ UNCHANGED <<accepted, sock, inbox, sent, peerClosed, full, watch, connVars,
                 mainVars, tasks, pc, arg, job>>

Send(f) ==
  /\ sock[f] # 0
  /\ f \notin peerClosed
  /\ sent < MaxMsgs
  /\ sent' = sent + 1
  /\ inbox' = [inbox EXCEPT ![f] = @ + 1]
  /\ UNCHANGED <<backlog, listenEdge, arrived, accepted, sock, peerClosed, full,
                 watch, connVars, mainVars, tasks, pc, arg, job>>

Shutdown(f) ==
  /\ sock[f] # 0
  /\ f \notin peerClosed
  /\ peerClosed' = peerClosed \cup {f}
  /\ UNCHANGED <<backlog, listenEdge, arrived, accepted, sock, inbox, sent, full,
                 watch, connVars, mainVars, tasks, pc, arg, job>>

Drain(f) ==
  /\ f \in full
  /\ full' = full \ {f}
  /\ UNCHANGED <<backlog, listenEdge, arrived, accepted, sock, inbox, sent,
                 peerClosed, watch, connVars, mainVars, tasks, pc, arg, job>>

Client == Connect \/ \E f \in Fds : Send(f) \/ Shutdown(f) \/ Drain(f)

-----------------------------------------------------------------------------
(* The epoll instance.  "in" and "out" are armed registrations, "off" one  *)
(* that EPOLLONESHOT has disabled, "none" no registration.                 *)

Armed(f) == watch[f] \in {"in", "out"}

Ready(f) == \/ watch[f] = "in" /\ (inbox[f] > 0 \/ f \in peerClosed)
            \/ watch[f] = "out" /\ (f \notin full \/ f \in peerClosed)

\* EPOLLRDHUP is looked at before EPOLLIN and EPOLLOUT.
EventOf(f) == [fd |-> f, ev |-> IF f \in peerClosed THEN "hup" ELSE watch[f]]

ReadyEvents == {EventOf(f) : f \in {g \in Fds : Ready(g)}}

\* Reporting an event leaves the registration disabled: connEvent_ has EPOLLONESHOT.
ReportedLevel(f) == watch[f]
Reported(f) == "off"

\* ModFd fails, and changes nothing, on a descriptor that is not registered.
ModFdOutOnly(f, interest) ==
  watch' = [watch EXCEPT ![f] = IF @ = "none" THEN "none"
                                ELSE IF interest = "in" THEN "off" ELSE interest]
ModFd(f, interest) ==
  watch' = [watch EXCEPT ![f] = IF @ = "none" THEN "none" ELSE interest]

-----------------------------------------------------------------------------
(* CloseConn_, run by whichever thread: DelFd, then the test of isClose_   *)
(* in HttpConn::Close, then its assignment with the decrement of           *)
(* userCount, then close().  Nothing makes these steps one.                *)

DelFd(t) ==
  /\ pc[t] = "DelFd"
  /\ watch' = [watch EXCEPT ![arg[t]] = "none"]
  /\ Goto(t, "Close")
  /\ UNCHANGED <<kernelVars, connVars, mainVars, tasks>>

\* Where a thread goes on once CloseConn_ has returned.
Returned(t) == IF t # Main THEN "idle" ELSE IF expiring # 0 THEN "pop" ELSE "dispatch"

\* if(isClose_ == false)
CloseTest(t) ==
  /\ pc[t] = "Close"
  /\ IF arg[t] \in isClose THEN Leave(t, Returned(t)) ELSE Goto(t, "quit")
  /\ UNCHANGED <<kernelVars, watch, connVars, mainVars, tasks>>

CloseQuit(t) ==
  /\ pc[t] = "quit"
  /\ isClose' = isClose \cup {arg[t]}
  /\ userCount' = userCount - 1
  /\ Goto(t, "closefd")
  /\ UNCHANGED <<kernelVars, watch, readBuff, toWrite, keepAlive, mainVars, tasks>>

\* Closing a descriptor that is already closed fails and changes nothing;
\* closing an open one also removes it from the epoll instance.
CloseFd(t) ==
  /\ pc[t] = "closefd"
  /\ LET f == arg[t] IN
       /\ sock' = [sock EXCEPT ![f] = 0]
       /\ inbox' = [inbox EXCEPT ![f] = 0]
       /\ peerClosed' = peerClosed \ {f}
       /\ full' = full \ {f}
       /\ watch' = [watch EXCEPT ![f] = "none"]
  /\ Leave(t, Returned(t))
  /\ UNCHANGED <<backlog, listenEdge, arrived, accepted, sent, connVars, mainVars, tasks>>

CloseConn_(t) == DelFd(t) \/ CloseTest(t) \/ CloseQuit(t) \/ CloseFd(t)

-----------------------------------------------------------------------------
(* The main thread: Start.                                                 *)

\* A descriptor has work queued for it, or a worker holds it.
Busy(f) == \/ \E i \in 1..Len(tasks) : tasks[i].fd = f
           \/ \E w \in Workers : pc[w] # "idle" /\ arg[w] = f

\* GetNextTick: tick() finds the node of f expired and calls its callback ...
TickSilently(f) ==
  /\ pc[Main] = "tick"
  /\ f \in timers
  /\ expiring' = f
  /\ Goto(Main, "pop")
  /\ UNCHANGED <<kernelVars, watch, connVars, timers, batch, cutShort, overrun, tasks>>
TickExpired(f) ==
  /\ pc[Main] = "tick"
  /\ f \in timers
  /\ expiring' = f
  /\ overrun' = (overrun \/ Busy(f))
  /\ Take(Main, "DelFd", f, sock[f])
  /\ UNCHANGED <<kernelVars, watch, connVars, timers, batch, cutShort, tasks>>

\* ... then pops the node, whatever the callback did ...
Pop ==
  /\ pc[Main] = "pop"
  /\ timers' = timers \ {expiring}
  /\ expiring' = 0
  /\ Goto(Main, "tick")
  /\ UNCHANGED <<kernelVars, watch, connVars, batch, cutShort, overrun, tasks>>

\* ... until the front of the heap has not expired.
TickDone ==
  /\ pc[Main] = "tick"
  /\ Goto(Main, "Wait")
  /\ UNCHANGED <<kernelVars, watch, connVars, mainVars, tasks>>

\* epoll_wait returns everything that is ready.  It returns nothing only when
\* it times out, which it does only while there is a timer.
Wait ==
  /\ pc[Main] = "Wait"
  /\ listenEdge \/ ReadyEvents # {} \/ timers # {}
  /\ batch' = ReadyEvents \cup
              (IF listenEdge THEN {[fd |-> ListenFd, ev |-> "in"]} ELSE {})
  /\ listenEdge' = FALSE
  /\ watch' = [f \in Fds |-> IF Ready(f) THEN Reported(f) ELSE watch[f]]
  /\ Goto(Main, "dispatch")
  /\ UNCHANGED <<backlog, arrived, accepted, sock, inbox, sent, peerClosed, full,
                 connVars, timers, expiring, cutShort, overrun, tasks>>

DispatchListen(e) ==
  /\ e.fd = ListenFd
  /\ Goto(Main, "accept")
  /\ UNCHANGED tasks

DispatchHup(e) ==
  /\ e.fd # ListenFd
  /\ e.ev = "hup"
  /\ Take(Main, "DelFd", e.fd, sock[e.fd])
  /\ UNCHANGED tasks

\* DealRead_ and DealWrite_: ExtentTime_, which asserts that the timer node
\* exists, then AddTask.
Deal(e) ==
  /\ e.fd # ListenFd
  /\ e.ev # "hup"
  /\ tasks' = Append(tasks, [op |-> IF e.ev = "in" THEN "OnRead_" ELSE "OnWrite_",
                             fd |-> e.fd, conn |-> sock[e.fd]])
  /\ UNCHANGED <<pc, arg, job>>

Dispatch(e) ==
  /\ pc[Main] = "dispatch"
  /\ batch' = batch \ {e}
  /\ DispatchListen(e) \/ DispatchHup(e) \/ Deal(e)
  /\ UNCHANGED <<kernelVars, watch, connVars, timers, expiring, cutShort, overrun>>

DispatchDone ==
  /\ pc[Main] = "dispatch"
  /\ batch = {}
  /\ Goto(Main, IF UseTimers THEN "tick" ELSE "Wait")
  /\ UNCHANGED <<kernelVars, watch, connVars, mainVars, tasks>>

\* The lowest descriptor that is not open.
Lowest(f) == sock[f] = 0 /\ \A g \in Fds : sock[g] = 0 => f <= g

\* accept() returns a descriptor.
AcceptUnchecked == \E f \in Fds : sock[f] = 0
AcceptReturns == backlog > 0 /\ \E f \in Fds : sock[f] = 0

\* DealListen_: accept() has nothing to return, or no descriptor for it.
AcceptNone ==
  /\ pc[Main] = "accept"
  /\ ~AcceptReturns
  /\ cutShort' = (backlog > 0)
  /\ Goto(Main, "dispatch")
  /\ UNCHANGED <<kernelVars, watch, connVars, timers, expiring, batch, overrun, tasks>>

\* "Server busy!": the connection is answered, closed, and the loop is left.
AcceptBusy ==
  /\ pc[Main] = "accept"
  /\ AcceptReturns
  /\ userCount >= MAX_FD
  /\ backlog' = backlog - 1
  /\ cutShort' = (backlog' > 0)
  /\ Goto(Main, "dispatch")
  /\ UNCHANGED <<listenEdge, arrived, accepted, sock, inbox, sent, peerClosed, full,
                 watch, connVars, timers, expiring, batch, overrun, tasks>>

\* accept() returns f; AddClient_ runs users_[f].init and timer_->add.
AcceptOne(f) ==
  /\ pc[Main] = "accept"
  /\ AcceptReturns
  /\ userCount < MAX_FD
  /\ Lowest(f)
  /\ backlog' = backlog - 1
  /\ accepted' = accepted + 1
  /\ sock' = [sock EXCEPT ![f] = accepted']
  /\ userCount' = userCount + 1
  /\ isClose' = isClose \ {f}
  /\ readBuff' = [readBuff EXCEPT ![f] = 0]
  /\ timers' = IF UseTimers THEN timers \cup {f} ELSE timers
  /\ Take(Main, "AddClient_", f, accepted')
  /\ UNCHANGED <<listenEdge, arrived, inbox, sent, peerClosed, full, watch, toWrite,
                 keepAlive, expiring, batch, cutShort, overrun, tasks>>

\* The loop of DealListen_ goes on while the listening socket is edge triggered.
AcceptOnce == "dispatch"
AcceptNext == "accept"

\* AddClient_ ends with AddFd, which fails if the descriptor is closed by now.
AddFd ==
  /\ pc[Main] = "AddClient_"
  /\ LET f == arg[Main] IN
       watch' = [watch EXCEPT ![f] = IF sock[f] # 0 THEN "in" ELSE "none"]
  /\ Leave(Main, AcceptNext)
  /\ UNCHANGED <<kernelVars, connVars, mainVars, tasks>>

DealListen_ == AcceptNone \/ AcceptBusy \/ AddFd \/ \E f \in Fds : AcceptOne(f)

MainStep == \/ \E f \in Fds : TickExpired(f)
            \/ Pop \/ TickDone \/ Wait
            \/ \E e \in batch : Dispatch(e)
            \/ DispatchDone
            \/ DealListen_
            \/ CloseConn_(Main)

-----------------------------------------------------------------------------
(* A worker: one task at a time, in the order of the queue.                *)

TakeTask(w) ==
  /\ pc[w] = "idle"
  /\ tasks # <<>>
  /\ Take(w, Head(tasks).op, Head(tasks).fd, Head(tasks).conn)
  /\ tasks' = Tail(tasks)
  /\ UNCHANGED <<kernelVars, watch, connVars, mainVars>>

\* HttpConn::read drains the socket.  It ends with EAGAIN, or with 0 from a
\* peer that has shut down, or with EBADF from a closed descriptor: the last
\* two close the connection, whatever was read before.
OnRead_(w) ==
  /\ pc[w] = "OnRead_"
  /\ LET f == arg[w] IN
       /\ readBuff' = [readBuff EXCEPT ![f] = @ + inbox[f]]
       /\ inbox' = [inbox EXCEPT ![f] = 0]
       /\ Goto(w, IF sock[f] = 0 \/ f \in peerClosed THEN "DelFd" ELSE "OnProcess")
  /\ UNCHANGED <<backlog, listenEdge, arrived, accepted, sock, sent, peerClosed, full,
                 watch, userCount, isClose, toWrite, keepAlive, mainVars, tasks>>

\* HttpConn::process has nothing to parse.
ProcessNothing(w) ==
  /\ pc[w] = "OnProcess"
  /\ readBuff[arg[w]] = 0
  /\ keepAlive' = keepAlive \ {arg[w]}
  /\ Goto(w, "ModIn")
  /\ UNCHANGED <<kernelVars, watch, userCount, isClose, readBuff, toWrite, mainVars, tasks>>

\* It makes a response.  Only a request whose first line and headers were taken
\* from the buffer keeps the connection; what follows it may stay there.
ProcessRequest(w) ==
  /\ pc[w] = "OnProcess"
  /\ LET f == arg[w] IN
       /\ readBuff[f] > 0
       /\ \E rest \in 0..readBuff[f], keep \in BOOLEAN, n \in 1..MaxChunks :
            /\ keep => rest < readBuff[f]
            /\ readBuff' = [readBuff EXCEPT ![f] = rest]
            /\ keepAlive' = IF keep THEN keepAlive \cup {f} ELSE keepAlive \ {f}
            /\ toWrite' = [toWrite EXCEPT ![f] = n]
  /\ Goto(w, "ModOut")
  /\ UNCHANGED <<kernelVars, watch, userCount, isClose, mainVars, tasks>>

\* ModFd(connEvent_ | EPOLLIN) or ModFd(connEvent_ | EPOLLOUT) ends the task.
ModIn(w) ==
  /\ pc[w] = "ModIn"
  /\ ModFd(arg[w], "in")
  /\ Leave(w, "idle")
  /\ UNCHANGED <<kernelVars, connVars, mainVars, tasks>>

ModOut(w) ==
  /\ pc[w] = "ModOut"
  /\ ModFd(arg[w], "out")
  /\ Leave(w, "idle")
  /\ UNCHANGED <<kernelVars, connVars, mainVars, tasks>>

\* HttpConn::write sent everything that was left.
WriteDone(w) ==
  /\ pc[w] = "OnWrite_"
  /\ LET f == arg[w] IN
       /\ toWrite[f] = 0 \/ (sock[f] # 0 /\ f \notin full)
       /\ toWrite' = [toWrite EXCEPT ![f] = 0]
       /\ Goto(w, IF f \in keepAlive THEN "OnProcess" ELSE "DelFd")
  /\ UNCHANGED <<kernelVars, watch, userCount, isClose, readBuff, keepAlive, mainVars,
                 tasks>>

\* The send buffer filled up first: EAGAIN, wait for EPOLLOUT.
RetryAsRead == "ModIn"
RetryStep == "ModOut"
WriteAgain(w) ==
  /\ pc[w] = "OnWrite_"
  /\ LET f == arg[w] IN
       /\ sock[f] # 0
       /\ \E n \in 1..toWrite[f] :
            /\ (n < toWrite[f]) <=> f \notin full
            /\ toWrite' = [toWrite EXCEPT ![f] = n]
       /\ full' = full \cup {f}
  /\ Goto(w, RetryStep)
  /\ UNCHANGED <<backlog, listenEdge, arrived, accepted, sock, inbox, sent, peerClosed,
                 watch, userCount, isClose, readBuff, keepAlive, mainVars, tasks>>

\* writev failed: the peer is gone, or the descriptor is closed.
WriteError(w) ==
  /\ pc[w] = "OnWrite_"
  /\ LET f == arg[w] IN toWrite[f] > 0 /\ (sock[f] = 0 \/ f \in peerClosed)
  /\ Goto(w, "DelFd")
  /\ UNCHANGED <<kernelVars, watch, connVars, mainVars, tasks>>

WorkerStep(w) == \/ TakeTask(w) \/ OnRead_(w) \/ ProcessNothing(w) \/ ProcessRequest(w)
                 \/ ModIn(w) \/ ModOut(w)
                 \/ WriteDone(w) \/ WriteAgain(w) \/ WriteError(w)
                 \/ CloseConn_(w)

-----------------------------------------------------------------------------
Init ==
  /\ backlog = 0 /\ listenEdge = FALSE /\ arrived = 0 /\ accepted = 0 /\ sent = 0
  /\ sock = [f \in Fds |-> 0]
  /\ inbox = [f \in Fds |-> 0]
  /\ peerClosed = {}
  /\ full = {}
  /\ watch = [f \in Fds |-> "none"]
  /\ userCount = 0
  /\ isClose = Fds
  /\ readBuff = [f \in Fds |-> 0]
  /\ toWrite = [f \in Fds |-> 0]
  /\ keepAlive = {}
  /\ timers = {} /\ expiring = 0 /\ tasks = <<>> /\ batch = {}
  /\ pc = [t \in Threads |-> IF t = Main THEN "dispatch" ELSE "idle"]
  /\ arg = [t \in Threads |-> 0]
  /\ job = [t \in Threads |-> 0]
  /\ cutShort = FALSE /\ overrun = FALSE

Next == Client \/ MainStep \/ \E w \in Workers : WorkerStep(w)

Spec == Init /\ [][Next]_vars

(***************************************************************************)
(* Every thread that can run is scheduled, and a peer that has been sent   *)
(* data reads it; a peer need not send, and need not shut down.            *)
(***************************************************************************)
Fairness == /\ WF_vars(MainStep)
            /\ \A w \in Workers : WF_vars(WorkerStep(w))
            /\ \A f \in Fds : WF_vars(Drain(f))

FairSpec == Spec /\ Fairness

-----------------------------------------------------------------------------
(* Properties.                                                             *)

\* Every variable has its type.
KernelTypeOK ==
  /\ backlog \in Nat /\ listenEdge \in BOOLEAN /\ arrived \in Nat /\ accepted \in Nat
  /\ sock \in [Fds -> Nat] /\ inbox \in [Fds -> Nat] /\ sent \in Nat
  /\ peerClosed \subseteq Fds /\ full \subseteq Fds
  /\ watch \in [Fds -> {"none", "in", "out", "off"}]
ConnTypeOK ==
  /\ userCount \in Int
  /\ isClose \subseteq Fds
  /\ readBuff \in [Fds -> Nat] /\ toWrite \in [Fds -> Nat]
  /\ keepAlive \subseteq Fds
MainTypeOK ==
  /\ timers \subseteq Fds /\ expiring \in Fds \cup {0}
  /\ tasks \in Seq(Task) /\ batch \subseteq Event
  /\ cutShort \in BOOLEAN /\ overrun \in BOOLEAN
ThreadTypeOK ==
  /\ pc \in [Threads -> WorkerPC \cup MainPC]
  /\ pc[Main] \in MainPC /\ \A w \in Workers : pc[w] \in WorkerPC
  /\ arg \in [Threads -> Fds \cup {0}]
  /\ job \in [Threads -> Nat]
TypeOK == KernelTypeOK /\ ConnTypeOK /\ MainTypeOK /\ ThreadTypeOK

\* Armed, and not about to be disarmed by the timer that has expired.
LeftArmed(f) == Armed(f) /\ ~(expiring = f /\ pc[Main] = "DelFd")

\* What may act on the HttpConn of f, or will without anything else happening first.
Owners(f) ==
  {<<"task", i>> : i \in {j \in 1..Len(tasks) : tasks[j].fd = f}}
    \cup {<<"event", e>> : e \in {d \in batch : d.fd = f}}
    \cup {<<"thread", t>> : t \in {u \in Threads : arg[u] = f}}
    \cup (IF LeftArmed(f) THEN {<<"armed", f>>} ELSE {})

(***************************************************************************)
(* As long as no timer has overrun its connection's work, an HttpConn has  *)
(* at most one of: an armed registration, an event to handle, a queued     *)
(* task, a thread working on it.  This is what EPOLLONESHOT is for         *)
(* (webserver.cpp, connEvent_): no lock protects an HttpConn.  A timer that *)
(* expires takes the HttpConn while it is armed, and disarms it before it  *)
(* touches it.                                                             *)
(***************************************************************************)
OneOwner ==
  ~overrun => \A f \in Fds : \A x, y \in Owners(f) : x = y

(***************************************************************************)
(* And an open descriptor always has such an owner: no interleaving of     *)
(* tasks, events and expirations leaves a connection that nobody will ever *)
(* look at again.                                                          *)
(***************************************************************************)
NeverStranded ==
  ~overrun => \A f \in Fds : sock[f] # 0 => Owners(f) # {}

(***************************************************************************)
(* A thread works for the connection that its event or task was about,     *)
(* although descriptor numbers and HttpConn objects are reused: the        *)
(* descriptor a task or a thread names is still open on that connection.   *)
(***************************************************************************)
NoStaleWork ==
  ~overrun => /\ \A i \in 1..Len(tasks) : tasks[i].conn = sock[tasks[i].fd]
              /\ \A t \in Threads : arg[t] # 0 => job[t] = sock[arg[t]]

(***************************************************************************)
(* userCount, which DealListen_ compares with MAX_FD, is the number of     *)
(* open descriptors, but for those that a thread is about to close and has *)
(* already subtracted.                                                     *)
(***************************************************************************)
CountExact ==
  ~overrun => userCount = Cardinality({f \in Fds : sock[f] # 0})
                          - Cardinality({t \in Threads : pc[t] = "closefd"})

(***************************************************************************)
(* heaptimer.cpp, adjust: assert(!heap_.empty() && ref_.count(id) > 0).    *)
(* Whatever the timers have done, an event that is going to extend the     *)
(* time of a connection finds its timer node.                              *)
(***************************************************************************)
TimerNodePresent ==
  UseTimers => \A e \in batch : e.fd # ListenFd => e.fd \in timers

(***************************************************************************)
(* readme.md: the timer closes the inactive connections that have timed    *)
(* out.  A connection for which a worker has a task is not inactive.       *)
(***************************************************************************)
TimerClosesInactive == ~overrun

\* What a client has sent is eventually read by OnRead_, or its connection is closed.
RequestRead == \A f \in Fds : (inbox[f] > 0) ~> (inbox[f] = 0 \/ overrun)

\* A response that waits for EPOLLOUT is eventually sent whole, or its connection closed.
ResponseSent ==
  \A f \in Fds : (watch[f] = "out" /\ toWrite[f] > 0)
                   ~> (toWrite[f] = 0 \/ f \in isClose \/ overrun)

(***************************************************************************)
(* A connection that arrives is eventually accepted or refused, although   *)
(* the edge of the listening socket is reported once, unless DealListen_   *)
(* has left its loop early for want of a descriptor or of room.            *)
(***************************************************************************)
PendingAccepted == (backlog > 0) ~> (backlog = 0 \/ cutShort)
=============================================================================
