------------------------------- MODULE CServer -------------------------------
(***************************************************************************)
(* The C-style server (webserver/): the main thread that polls, reads and  *)
(* writes, the threadpool whose workers parse, and the descriptors that    *)
(* pass between them.  What a connection reads and writes is in module     *)
(* CConn: here read(), process() and write() are told apart by their       *)
(* outcome only.  lesson05/main.cpp and lesson05/threadpool.h do the same. *)
(***************************************************************************)
EXTENDS Integers, Sequences, FiniteSets

CONSTANTS Descriptors,      \* what accept() can return
          Threads,          \* the workers
          MAX_FD,           \* clients at most
          max_requests,     \* m_max_requests
          MAX_EVENT_NUMBER, \* events that epoll_wait returns at most
          MaxClients        \* bound: connections that ever arrive

VARIABLES
  backlog, clients,  \* connections waiting, and those that ever arrived
  open,              \* descriptors that are open
  armed,             \* descriptor -> its registration: "in", "out" or "off"
  user_count,        \* http_conn::m_user_count
  events,            \* the events not yet handled
  main, sockfd,      \* where main is, and the connection that it handles
  holder,            \* who has m_queuelocker
  workqueue,         \* m_workqueue
  queuestat,         \* the value of m_queuestat
  at, request,       \* worker -> where it is, and the request that it took
  refused            \* the descriptors whose last append() returned false

kernel == <<backlog, clients, open>>
pool == <<holder, workqueue, queuestat, at, request>>
vars == <<kernel, armed, user_count, events, main, sockfd, pool, refused>>

listenfd == 0
Nobody == "nobody"
MainThread == "main"

Init ==
  /\ backlog = 0 /\ clients = 0 /\ open = {}
  /\ armed = [f \in Descriptors |-> "off"]
  /\ user_count = 0 /\ events = {} /\ main = "poll" /\ sockfd = listenfd
  /\ holder = Nobody /\ workqueue = <<>> /\ queuestat = 0
  /\ at = [w \in Threads |-> "wait"] /\ request = [w \in Threads |-> listenfd]
  /\ refused = {}

-----------------------------------------------------------------------------
(* A connection arrives.  What the clients send, and when they leave, is   *)
(* in what epoll may report and in how read() and write() may end.         *)

Connect ==
  /\ clients < MaxClients
  /\ clients' = clients + 1 /\ backlog' = backlog + 1
  /\ UNCHANGED <<open, armed, user_count, events, main, sockfd, pool, refused>>

-----------------------------------------------------------------------------
(* epoll.  Every registration of a connection has EPOLLONESHOT: an event   *)
(* that is reported leaves the descriptor "off" until a modfd().           *)

Registered == {f \in Descriptors : armed[f] # "off"}

\* Mutant: without EPOLLONESHOT a registration survives its event.
ReportedLevel(fs) == armed

Reported(fs) == [f \in Descriptors |-> IF f \in fs THEN "off" ELSE armed[f]]

modfd(f, ev) == [armed EXCEPT ![f] = ev]

\* The order of the events is the kernel's: main takes any of the set next.
epoll_wait ==
  /\ main = "poll" /\ events = {}
  /\ \E fs \in SUBSET Registered, l \in SUBSET {listenfd} :
       /\ l # {} => backlog > 0
       /\ Cardinality(fs \cup l) \in 1..MAX_EVENT_NUMBER
       /\ \E hup \in SUBSET fs :
            events' = {<<f, IF f \in hup THEN "hup" ELSE armed[f]>> : f \in fs}
                        \cup {<<f, "in">> : f \in l}
       /\ armed' = Reported(fs)
  /\ UNCHANGED <<kernel, user_count, main, sockfd, pool, refused>>

-----------------------------------------------------------------------------
(* The main thread.                                                        *)

close_conn(f) ==
  /\ open' = open \ {f} /\ armed' = [armed EXCEPT ![f] = "off"]
  /\ user_count' = user_count - 1
  /\ UNCHANGED <<backlog, clients>>

Lowest(free) == CHOOSE f \in free : \A g \in free : f <= g

\* accept() and init(); with MAX_FD users, or no descriptor left, nobody is added.
Accept ==
  /\ <<listenfd, "in">> \in events
  /\ events' = events \ {<<listenfd, "in">>}
  /\ LET free == Descriptors \ open IN
     IF free = {}
     THEN UNCHANGED <<kernel, armed, user_count>>
     ELSE IF user_count >= MAX_FD
     THEN /\ backlog' = backlog - 1
          /\ UNCHANGED <<clients, open, armed, user_count>>
     ELSE LET connfd == Lowest(free) IN
          /\ backlog' = backlog - 1
          /\ open' = open \cup {connfd} /\ armed' = modfd(connfd, "in")
          /\ user_count' = user_count + 1
          /\ UNCHANGED clients
  /\ UNCHANGED <<main, sockfd, pool, refused>>

Hup(f) ==
  /\ <<f, "hup">> \in events /\ events' = events \ {<<f, "hup">>}
  /\ close_conn(f)
  /\ UNCHANGED <<main, sockfd, pool, refused>>

\* read() fails when the client has left or the read buffer is full.
DealRead(f) ==
  /\ <<f, "in">> \in events /\ events' = events \ {<<f, "in">>}
  /\ \/ /\ main' = "append" /\ sockfd' = f
        /\ UNCHANGED <<kernel, armed, user_count>>
     \/ close_conn(f) /\ UNCHANGED <<main, sockfd>>
  /\ UNCHANGED <<pool, refused>>

\* write() is done and keeps the connection, has met EAGAIN, or main closes.
DealWrite(f) ==
  /\ <<f, "out">> \in events /\ events' = events \ {<<f, "out">>}
  /\ \/ /\ \E ev \in {"in", "out"} : armed' = modfd(f, ev)
        /\ UNCHANGED <<kernel, user_count>>
     \/ close_conn(f)
  /\ UNCHANGED <<main, sockfd, pool, refused>>

Handle == main = "poll" /\ (Accept \/ \E f \in Descriptors : Hup(f) \/ DealRead(f) \/ DealWrite(f))

\* append(), whose result main ignores.
AppendLock ==
  /\ main = "append" /\ holder = Nobody /\ holder' = MainThread
  /\ main' = "push"
  /\ UNCHANGED <<kernel, armed, user_count, events, sockfd, workqueue, queuestat, at, request,
                 refused>>

Push ==
  /\ main = "push" /\ holder' = Nobody
  /\ IF Len(workqueue) > max_requests
     THEN /\ main' = "poll" /\ sockfd' = listenfd /\ refused' = refused \cup {sockfd}
          /\ UNCHANGED workqueue
     ELSE /\ main' = "post" /\ workqueue' = Append(workqueue, sockfd)
          /\ sockfd' = listenfd
          /\ UNCHANGED refused
  /\ UNCHANGED <<kernel, armed, user_count, events, queuestat, at, request>>

\* Mutant: the semaphore is posted only for a request that finds the queue empty.
PostIfFirst ==
  /\ main = "post" /\ main' = "poll"
  /\ queuestat' = queuestat + (IF Len(workqueue) > 1 THEN 0 ELSE 1)
  /\ UNCHANGED <<kernel, armed, user_count, events, sockfd, holder, workqueue, at, request, refused>>

Post ==
  /\ main = "post" /\ main' = "poll" /\ queuestat' = queuestat + 1
  /\ UNCHANGED <<kernel, armed, user_count, events, sockfd, holder, workqueue, at, request, refused>>

Main == epoll_wait \/ Handle \/ AppendLock \/ Push \/ Post

-----------------------------------------------------------------------------
(* run(), the loop of a worker.                                            *)

SemWait(w) ==
  /\ at[w] = "wait" /\ queuestat > 0
  /\ queuestat' = queuestat - 1 /\ at' = [at EXCEPT ![w] = "lock"]
  /\ UNCHANGED <<holder, workqueue, request, armed>>

WorkerLock(w) ==
  /\ at[w] = "lock" /\ holder = Nobody
  /\ holder' = w /\ at' = [at EXCEPT ![w] = "pop"]
  /\ UNCHANGED <<workqueue, queuestat, request, armed>>

Pop(w) ==
  /\ at[w] = "pop" /\ holder' = Nobody
  /\ IF workqueue = <<>>
     THEN at' = [at EXCEPT ![w] = "wait"] /\ UNCHANGED <<workqueue, request>>
     ELSE /\ request' = [request EXCEPT ![w] = Head(workqueue)]
          /\ workqueue' = Tail(workqueue)
          /\ at' = [at EXCEPT ![w] = "process"]
  /\ UNCHANGED <<queuestat, armed>>

\* process(): NO_REQUEST waits for more, any other result for the socket.
Process(w) ==
  /\ at[w] = "process" /\ at' = [at EXCEPT ![w] = "wait"]
  /\ \E ev \in {"in", "out"} : armed' = modfd(request[w], ev)
  /\ request' = [request EXCEPT ![w] = listenfd]
  /\ UNCHANGED <<holder, workqueue, queuestat>>

Worker(w) == /\ SemWait(w) \/ WorkerLock(w) \/ Pop(w) \/ Process(w)
             /\ UNCHANGED <<kernel, user_count, events, main, sockfd, refused>>

Next == Connect \/ Main \/ \E w \in Threads : Worker(w)
Spec == Init /\ [][Next]_vars

\* The threads are scheduled; a lock that is often free is got at last.
Fairness == WF_vars(Main) /\ \A w \in Threads : WF_vars(Worker(w))
FairSpec == Spec /\ Fairness

-----------------------------------------------------------------------------
\* Who has the connection f: its registration, main, the queue or a worker.
Turns(f) ==
  LET One(b) == IF b THEN 1 ELSE 0 IN
  One(armed[f] # "off") + Cardinality({e \in events : e[1] = f}) + One(sockfd = f)
    + Cardinality({i \in DOMAIN workqueue : workqueue[i] = f})
    + Cardinality({w \in Threads : request[w] = f})

\* An open connection is in one pair of hands, so that main and the workers
\* share the fields of http_conn without a lock, and in none only when append()
\* has refused it; a closed one is in nobody's.  m_user_count agrees.
TurnsKept ==
  /\ user_count = Cardinality(open)
  /\ \A f \in Descriptors :
       Turns(f) = IF f \in open /\ f \notin refused THEN 1 ELSE 0

\* A connection that main has read is processed and registered again, unless
\* append() has refused it: no post of the semaphore is lost.
RequestProcessed ==
  \A f \in Descriptors : sockfd = f ~> armed[f] # "off" \/ f \in refused
=============================================================================
