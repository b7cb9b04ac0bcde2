---------------------------- MODULE LessonTimers ----------------------------
(***************************************************************************)
(* The server of lesson05/noactive, written out again from the one of      *)
(* webserver/noactive (module TimerList, here Site).  The loop of main is  *)
(* the same; two assignments of the list differ.                           *)
(***************************************************************************)
EXTENDS Integers, FiniteSets

CONSTANTS Descriptors, MaxClients, MaxUnread, Slots
VARIABLES backlog, clients, open, gone, unread, edges, alarm, pipe, list, pc, events, timeout,
          stop_server

Site == INSTANCE TimerList

vars == Site!vars
Init == Site!Init
\* Bound: what happens once main hangs is left out.
World == pc # "hung" /\ Site!World

\* The node in front of which, or NULL behind whose last, timer goes: the n-th after lst_head.
Place(l, timer, lst_head, n) ==
  LET nth == Site!After(l, lst_head)
      Here(m) == nth[m] = Site!NULL \/ l.expire[timer] < l.expire[nth[m]]
  IN  n \in DOMAIN nth \ {0} /\ Here(n) /\ \A m \in 1..n - 1 : ~Here(m)

\* On a ring of nodes that expire no later than timer, the loop goes round for ever.
Endless(l, timer, lst_head) ==
  \A n \in 1..Cardinality(Descriptors) : ~Place(l, timer, lst_head, n)

\* The private add_timer: tmp->next is set where tmp->prev is meant.
insert_timer(l, timer, lst_head) ==
  LET nth == Site!After(l, lst_head)
      n == CHOOSE n \in DOMAIN nth : Place(l, timer, lst_head, n)
      prev == nth[n - 1]
      tmp == nth[n]
  IN  IF tmp # Site!NULL
      THEN [l EXCEPT !.next = [@ EXCEPT ![prev] = timer, ![timer] = tmp, ![tmp] = timer],
                     !.prev = [@ EXCEPT ![timer] = prev]]
      ELSE [l EXCEPT !.next = [@ EXCEPT ![prev] = timer, ![timer] = Site!NULL],
                     !.prev = [@ EXCEPT ![timer] = prev], !.tail = timer]

add_timer(l, timer) ==
  IF l.head = Site!NULL THEN [l EXCEPT !.head = timer, !.tail = timer]
  ELSE IF l.expire[timer] < l.expire[l.head]
  THEN [l EXCEPT !.next = [@ EXCEPT ![timer] = l.head], !.prev = [@ EXCEPT ![l.head] = timer],
                 !.head = timer]
  ELSE insert_timer(l, timer, l.head)

\* timer->next->next is set where timer->next->prev is meant: the node that
\* follows leads back to the one in front.
unlink(l, timer) ==
  [l EXCEPT !.next = [@ EXCEPT ![l.prev[timer]] = l.next[timer], ![l.next[timer]] = l.prev[timer]]]

\* adjust_timer() leaves the last one, and one that expires before the next.
Moves(l, timer) == l.next[timer] # Site!NULL /\ l.expire[timer] >= l.expire[l.next[timer]]

\* What adjust_timer() makes of the list before it adds timer behind its next.
Detached(l, timer) ==
  IF timer = l.head
  THEN [l EXCEPT !.head = l.next[timer], !.prev = [@ EXCEPT ![l.next[timer]] = Site!NULL],
                 !.next = [@ EXCEPT ![timer] = Site!NULL]]
  ELSE unlink(l, timer)

del_timer(l, timer) == Site!del_timer(l, timer)
tick(l) == Site!tick(l)

-----------------------------------------------------------------------------
epoll_wait == Site!epoll_wait

Accept ==
  /\ pc = "handle" /\ Site!listenfd \in events /\ events' = events \ {Site!listenfd}
  /\ LET connfd == Site!Lowest(Descriptors \ open) IN
     /\ backlog' = backlog - 1
     /\ open' = open \cup {connfd}
     /\ list' = add_timer([list EXCEPT !.expire = [@ EXCEPT ![connfd] = Slots]], connfd)
  /\ UNCHANGED <<clients, gone, unread, edges, alarm, pipe, pc, timeout, stop_server>>

ReadSignals == pc = "handle" /\ Site!ReadSignals /\ UNCHANGED <<alarm, pc>>

\* recv() returns bytes: the timer is put off; main may not come back from that.
RecvData(f) ==
  /\ pc = "handle" /\ f \in events /\ events' = events \ {f}
  /\ unread[f] > 0 /\ unread' = [unread EXCEPT ![f] = @ - 1]
  /\ LET l == [list EXCEPT !.expire = [@ EXCEPT ![f] = Slots]] IN
     IF ~Moves(l, f)
     THEN list' = l /\ UNCHANGED pc
     ELSE IF Endless(Detached(l, f), f, l.next[f])
     THEN pc' = "hung" /\ UNCHANGED list
     ELSE list' = insert_timer(Detached(l, f), f, l.next[f]) /\ UNCHANGED pc
  /\ UNCHANGED <<backlog, clients, open, gone, edges, alarm, pipe, timeout, stop_server>>

\* recv() returns 0 or -1.
RecvEnd(f) ==
  /\ pc = "handle" /\ f \in events /\ events' = events \ {f} /\ unread[f] = 0
  /\ IF f \in gone THEN Site!Closed({f}) /\ list' = del_timer(list, f)
                   ELSE UNCHANGED <<open, gone, unread, edges, list>>
  /\ UNCHANGED <<backlog, clients, alarm, pipe, pc, timeout, stop_server>>

timer_handler == Site!timer_handler
NoTimeout == Site!NoTimeout

Next == \/ World \/ epoll_wait \/ Accept \/ ReadSignals \/ timer_handler \/ NoTimeout
        \/ \E f \in Descriptors : RecvData(f) \/ RecvEnd(f)

-----------------------------------------------------------------------------
\* The list of this copy is as sound as the other one until main hangs in it,
\* and that takes a client that sends while one is in front of it and one behind.
SoundUntilHung ==
  /\ pc # "hung" => Site!ListSound
  /\ pc = "hung" => Cardinality(open) >= 3
=============================================================================
