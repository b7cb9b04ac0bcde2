------------------------------ MODULE TimerList ------------------------------
(***************************************************************************)
(* webserver/noactive: a server that closes inactive connections.  A       *)
(* sorted list of timers, linked in both directions (lst_timer.h); alarm() *)
(* raises SIGALRM, whose handler sends a byte through a socket pair to the *)
(* loop of main, which ticks the list and sets the next alarm              *)
(* (nonactive_conn.cpp).  All descriptors are edge triggered.              *)
(*                                                                         *)
(* A node is named by the descriptor of its connection.  A time is kept as *)
(* what is left until it, in slots of TIMESLOT seconds, and not below 0;   *)
(* the system's clock, which time() reads, is not set back.                *)
(***************************************************************************)
EXTENDS Integers, FiniteSets, FiniteSetsExt

CONSTANTS Descriptors,   \* what accept() can return
          MaxClients,    \* bound: connections that ever arrive
          MaxUnread,     \* bound: pieces of BUFFER_SIZE - 1 bytes that nobody has read
          Slots          \* slots until a connection expires, 3

VARIABLES
  \* the kernel
  backlog, clients,    \* connections not yet accepted, connections so far
  open, gone,          \* open descriptors; those whose client has closed
  unread,              \* descriptor -> pieces not yet read
  edges,               \* descriptors with an edge not yet reported
  alarm,               \* an alarm is set
  pipe,                \* the signals whose byte is in the pipe
  \* the server
  list,                \* timer_lst: head, tail, and the nodes' prev, next and expire
  pc, events, timeout, stop_server

kernel == <<backlog, clients, open, gone, unread, edges, pipe>>
vars == <<kernel, alarm, list, pc, events, timeout, stop_server>>

NULL == 0
\* Numbers that accept() does not return.
listenfd == -1
pipefd == -2

Init ==
  /\ backlog = 0 /\ clients = 0 /\ open = {} /\ gone = {} /\ edges = {}
  /\ unread = [f \in Descriptors |-> 0]
  /\ alarm = TRUE /\ pipe = {}
  /\ list = [head |-> NULL, tail |-> NULL, prev |-> [f \in Descriptors |-> NULL],
             next |-> [f \in Descriptors |-> NULL], expire |-> [f \in Descriptors |-> 0]]
  /\ pc = "poll" /\ events = {} /\ timeout = FALSE /\ stop_server = FALSE

-----------------------------------------------------------------------------
(* Clients, signals and the clock.                                         *)

Connect == /\ clients < MaxClients
           /\ clients' = clients + 1 /\ backlog' = backlog + 1
           /\ edges' = edges \cup {listenfd}
           /\ UNCHANGED <<open, gone, unread, pipe, alarm, list>>

Send(f) == /\ f \in open \ gone /\ MapThenSumSet(LAMBDA g : unread[g], Descriptors) < MaxUnread
           /\ unread' = [unread EXCEPT ![f] = @ + 1] /\ edges' = edges \cup {f}
           /\ UNCHANGED <<backlog, clients, open, gone, pipe, alarm, list>>

Leave(f) == /\ f \in open \ gone
            /\ gone' = gone \cup {f} /\ edges' = edges \cup {f}
            /\ UNCHANGED <<backlog, clients, open, unread, pipe, alarm, list>>

\* sig_handler()
Signal(sig) == pipe' = pipe \cup {sig} /\ edges' = edges \cup {pipefd}

Terminate == /\ ~stop_server /\ Signal("SIGTERM")
             /\ UNCHANGED <<backlog, clients, open, gone, unread, alarm, list>>

Slot == /\ list' = [list EXCEPT !.expire = [f \in Descriptors |-> IF @[f] > 0 THEN @[f] - 1 ELSE 0]]
        /\ IF alarm THEN Signal("SIGALRM") ELSE UNCHANGED <<pipe, edges>>
        /\ alarm' = FALSE
        /\ UNCHANGED <<backlog, clients, open, gone, unread>>

\* As long as the process runs.
World == /\ pc = "handle" \/ ~stop_server
         /\ \/ Connect \/ Terminate \/ Slot
            \/ \E f \in Descriptors : Send(f) \/ Leave(f)
         /\ UNCHANGED <<pc, events, timeout, stop_server>>

-----------------------------------------------------------------------------
(* lst_timer.h                                                             *)

\* The n-th node after node.
After(l, node) ==
  LET nth[n \in 0..Cardinality(Descriptors)] ==
        IF n = 0 THEN node ELSE IF nth[n - 1] = NULL THEN NULL ELSE l.next[nth[n - 1]]
  IN  nth

\* The private add_timer: before the first node after lst_head that expires later.
insert_timer(l, timer, lst_head) ==
  LET nth == After(l, lst_head)
      Here(n) == nth[n] = NULL \/ l.expire[timer] < l.expire[nth[n]]
      n == CHOOSE n \in 1..Cardinality(Descriptors) : Here(n) /\ \A m \in 1..n - 1 : ~Here(m)
      prev == nth[n - 1]
      tmp == nth[n]
  IN  IF tmp # NULL
      THEN [l EXCEPT !.next = [@ EXCEPT ![prev] = timer, ![timer] = tmp],
                     !.prev = [@ EXCEPT ![tmp] = timer, ![timer] = prev]]
      ELSE [l EXCEPT !.next = [@ EXCEPT ![prev] = timer, ![timer] = NULL],
                     !.prev = [@ EXCEPT ![timer] = prev], !.tail = timer]

add_timer(l, timer) ==
  IF l.head = NULL THEN [l EXCEPT !.head = timer, !.tail = timer]
  ELSE IF l.expire[timer] < l.expire[l.head]
  THEN [l EXCEPT !.next = [@ EXCEPT ![timer] = l.head], !.prev = [@ EXCEPT ![l.head] = timer],
                 !.head = timer]
  ELSE insert_timer(l, timer, l.head)

\* Mutant: the node that follows keeps its link to the one taken out.
unlink_next(l, timer) == [l EXCEPT !.next = [@ EXCEPT ![l.prev[timer]] = l.next[timer]]]

\* The neighbours of timer, which is in the middle, are linked to each other.
unlink(l, timer) ==
  [l EXCEPT !.next = [@ EXCEPT ![l.prev[timer]] = l.next[timer]],
            !.prev = [@ EXCEPT ![l.next[timer]] = l.prev[timer]]]

adjust_timer(l, timer) ==
  LET tmp == l.next[timer] IN
  IF tmp = NULL THEN l
  ELSE IF l.expire[timer] < l.expire[tmp] THEN l
  ELSE IF timer = l.head
  THEN insert_timer([l EXCEPT !.head = tmp, !.prev = [@ EXCEPT ![tmp] = NULL],
                              !.next = [@ EXCEPT ![timer] = NULL]], timer, tmp)
  ELSE insert_timer(unlink(l, timer), timer, tmp)

\* A deleted node's fields are no longer read; those of a new one are NULL.
Freed(l, nodes) ==
  [l EXCEPT !.next = [f \in Descriptors |-> IF f \in nodes THEN NULL ELSE @[f]],
            !.prev = [f \in Descriptors |-> IF f \in nodes THEN NULL ELSE @[f]],
            !.expire = [f \in Descriptors |-> IF f \in nodes THEN 0 ELSE @[f]]]

del_timer(l, timer) ==
  Freed(CASE timer = l.head /\ timer = l.tail -> [l EXCEPT !.head = NULL, !.tail = NULL]
          [] timer = l.head /\ timer # l.tail ->
               [l EXCEPT !.head = l.next[timer], !.prev = [@ EXCEPT ![l.next[timer]] = NULL]]
          [] timer # l.head /\ timer = l.tail ->
               [l EXCEPT !.tail = l.prev[timer], !.next = [@ EXCEPT ![l.prev[timer]] = NULL]]
          [] OTHER -> unlink(l, timer),
        {timer})

\* The nodes that tick() takes: from the head to the first that is not due.
Ticked(l) ==
  LET nth == After(l, l.head)
      Stays(n) == nth[n] = NULL \/ l.expire[nth[n]] > 0
  IN  {nth[n] : n \in {m \in DOMAIN nth : \A k \in 0..m : ~Stays(k)}}

tick(l) ==
  LET due == Ticked(l)
      nth == After(l, l.head)
      head == nth[Cardinality(due)]
  IN  Freed([l EXCEPT !.head = head,
                      !.prev = IF head = NULL THEN @ ELSE [@ EXCEPT ![head] = NULL]], due)

-----------------------------------------------------------------------------
(* The loop of main.                                                       *)

epoll_wait ==
  /\ pc = "poll" /\ ~stop_server /\ edges # {}
  /\ events' = edges /\ edges' = {} /\ pc' = "handle"
  /\ UNCHANGED <<backlog, clients, open, gone, unread, pipe, alarm, list, timeout,
                 stop_server>>

Lowest(free) == CHOOSE f \in free : \A g \in free : f <= g

\* Closing a descriptor takes it out of epoll, with what was to be reported.
Closed(fs) == /\ open' = open \ fs /\ gone' = gone \ fs /\ edges' = edges \ fs
              /\ unread' = [f \in Descriptors |-> IF f \in fs THEN 0 ELSE unread[f]]

\* One accept() for each event.
Accept ==
  /\ listenfd \in events /\ events' = events \ {listenfd}
  /\ LET connfd == Lowest(Descriptors \ open) IN
     /\ backlog' = backlog - 1
     /\ open' = open \cup {connfd}
     /\ list' = add_timer([list EXCEPT !.expire = [@ EXCEPT ![connfd] = Slots]], connfd)
  /\ UNCHANGED <<clients, gone, unread, edges, pipe, timeout, stop_server>>

ReadSignals ==
  /\ pipefd \in events /\ events' = events \ {pipefd}
  /\ pipe' = {}
  /\ timeout' = (timeout \/ "SIGALRM" \in pipe)
  /\ stop_server' = (stop_server \/ "SIGTERM" \in pipe)
  /\ UNCHANGED <<backlog, clients, open, gone, unread, edges, list>>

\* One recv() for each event; with nothing to read, EAGAIN or the end.
Recv(f) ==
  /\ f \in events /\ events' = events \ {f}
  /\ \/ /\ unread[f] > 0 /\ unread' = [unread EXCEPT ![f] = @ - 1]
        /\ list' = adjust_timer([list EXCEPT !.expire = [@ EXCEPT ![f] = Slots]], f)
        /\ UNCHANGED <<open, gone, edges>>
     \/ /\ unread[f] = 0 /\ f \in gone
        /\ Closed({f}) /\ list' = del_timer(list, f)
     \/ /\ unread[f] = 0 /\ f \notin gone
        /\ UNCHANGED <<open, gone, unread, edges, list>>
  /\ UNCHANGED <<backlog, clients, pipe, timeout, stop_server>>

Handle == /\ pc = "handle" /\ UNCHANGED <<pc, alarm>>
          /\ Accept \/ ReadSignals \/ \E f \in Descriptors : Recv(f)

\* Mutant: the next alarm is set only while there is a timer.
AlarmIfAny == list'.head # NULL

NextAlarm == TRUE

\* timer_handler(), when the events are done and the flag is set.
timer_handler ==
  /\ pc = "handle" /\ events = {} /\ timeout
  /\ Closed(Ticked(list)) /\ list' = tick(list)
  /\ alarm' = NextAlarm /\ timeout' = FALSE /\ pc' = "poll"
  /\ UNCHANGED <<backlog, clients, pipe, events, stop_server>>

NoTimeout ==
  /\ pc = "handle" /\ events = {} /\ ~timeout /\ pc' = "poll"
  /\ UNCHANGED <<kernel, alarm, list, events, timeout, stop_server>>

Main == epoll_wait \/ Handle \/ timer_handler \/ NoTimeout

Next == World \/ Main
Spec == Init /\ [][Next]_vars

\* Where main's loop goes: Main, without what it does there.
Loop == \/ pc = "poll" /\ ~stop_server /\ edges # {} /\ pc' = "handle" /\ events' = edges
        \/ pc = "handle" /\ events # {} /\ pc' = pc /\ \E f \in events : events' = events \ {f}
        \/ pc = "handle" /\ events = {} /\ pc' = "poll" /\ events' = {}

\* The process is scheduled (a Main step is one that takes its loop on), and
\* time passes.
Time == Slot /\ UNCHANGED <<pc, events, timeout, stop_server>>
Fairness == WF_<<pc, events>>(Loop) /\ WF_vars(Time)
FairSpec == Spec /\ Fairness

-----------------------------------------------------------------------------
\* The nodes of the list, by next from the head.
Nodes == LET nth == After(list, list.head) IN {nth[n] : n \in DOMAIN nth} \ {NULL}

\* Between two operations every open connection has its node in the list and
\* no other is there, prev undoes next, the tail is the last, and no node expires
\* before the one in front of it.
ListSound ==
  /\ Nodes = open
  /\ list.head # NULL => /\ list.prev[list.head] = NULL
                         /\ list.tail \in Nodes /\ list.next[list.tail] = NULL
  /\ \A f \in Nodes : list.next[f] # NULL =>
       /\ list.prev[list.next[f]] = f
       /\ list.expire[f] <= list.expire[list.next[f]]

\* A connection whose client has closed is closed too, even when the edge that
\* told of it was used up by a read: one alarm follows another, through the
\* handler, the pipe and the flag, as long as the server runs.
GoneClosed == \A f \in Descriptors : f \in gone ~> f \notin gone \/ stop_server
=============================================================================
