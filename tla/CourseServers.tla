---------------------------- MODULE CourseServers ----------------------------
(***************************************************************************)
(* The echo servers of lesson04 that serve all clients from one thread:    *)
(* 27/server_select.c, server_poll.c and server_epoll.c, 31/epoll_lt.c and *)
(* epoll_et.c.  A table says which descriptors the wait looks at; an index *)
(* is the descriptor itself but for poll, which fills its array from the   *)
(* front.  What is echoed is left out; a unit of data is what one buffer   *)
(* of the 31/ servers holds, all of it fits the others' 1024 bytes.        *)
(***************************************************************************)
EXTENDS Integers, FiniteSets

CONSTANTS Descriptors, \* what accept() can return: above listenfd
          LastIndex,   \* bound: of the table
          MaxClients,  \* bound: clients that ever arrive
          MaxUnread    \* bound: units of data that wait in a socket

VARIABLES
  kind,             \* which server runs
  arrived, backlog, \* clients that ever arrived, and those not yet accepted
  open, unread,     \* connected descriptors, and the data that waits in them
  gone,             \* fd -> "no", "fin" (closed by the client) or "rst"
  full,             \* the descriptors that take no more data to send
  edge,             \* the descriptors with an edge not yet reported
  table, top,       \* index -> the descriptor looked at, 0 for none; the last index used
  revents,          \* the indices whose event is not yet handled
  accepting,        \* the event of the listening socket is not yet handled
  at, cur           \* "loop", "send" or "exited"; the index being handled

clientVars == <<arrived, backlog, gone, full>>
vars == <<kind, clientVars, open, unread, edge, table, top, revents, accepting, at, cur>>

Indices == 1..LastIndex

Waits ==
  /\ arrived = 0 /\ backlog = 0 /\ open = {} /\ full = {} /\ edge = {}
  /\ unread = [f \in Descriptors |-> 0] /\ gone = [f \in Descriptors |-> "no"]
  /\ table = [i \in Indices |-> 0]
  /\ accepting = FALSE /\ at = "loop" /\ cur = 0

SelectInit == kind = "select" /\ top = 0 /\ revents = {}
PollInit == kind = "poll" /\ top = 0 /\ revents \in SUBSET Indices  \* not initialised
EpollInit == kind = "epoll" /\ top = LastIndex /\ revents = {}
LtInit == kind = "lt" /\ top = LastIndex /\ revents = {}
EtInit == kind = "et" /\ top = LastIndex /\ revents = {}
Init == Waits /\ (SelectInit \/ PollInit \/ EpollInit \/ LtInit \/ EtInit)

-----------------------------------------------------------------------------
(* The clients.                                                            *)

Ready(f) == unread[f] > 0 \/ gone[f] # "no"

Connect ==
  /\ arrived < MaxClients /\ backlog + Cardinality(open) < Cardinality(Descriptors)
  /\ arrived' = arrived + 1 /\ backlog' = backlog + 1
  /\ UNCHANGED <<kind, gone, full, open, unread, edge, table, top, revents, accepting, at, cur>>

ClientSend(f) ==
  /\ f \in open /\ gone[f] = "no" /\ unread[f] < MaxUnread
  /\ unread' = [unread EXCEPT ![f] = @ + 1] /\ edge' = edge \cup {f}
  /\ UNCHANGED <<kind, clientVars, open, table, top, revents, accepting, at, cur>>

ClientReads(f) ==
  /\ f \in full /\ gone[f] = "no" /\ full' = full \ {f}
  /\ UNCHANGED <<kind, arrived, backlog, gone, open, unread, edge, table, top, revents,
                 accepting, at, cur>>

Leave(f) ==
  /\ f \in open /\ gone[f] = "no" /\ edge' = edge \cup {f}
  /\ \E how \in {"fin", "rst"} : gone' = [gone EXCEPT ![f] = how]
  /\ full' = full \ {f}
  /\ UNCHANGED <<kind, arrived, backlog, open, unread, table, top, revents, accepting, at, cur>>

Client == Connect \/ \E f \in Descriptors : ClientSend(f) \/ ClientReads(f) \/ Leave(f)

-----------------------------------------------------------------------------
(* Waiting for events: when those of the last wait have been handled.      *)

Left == {i \in revents : i <= top}
Watched == {i \in Indices : table[i] # 0 /\ i <= top}

Reports(is) ==
  /\ at = "loop" /\ cur = 0 /\ Left = {} /\ ~accepting
  /\ is # {} \/ backlog > 0
  /\ accepting' = (backlog > 0)
  /\ revents' = is
  /\ UNCHANGED <<kind, clientVars, open, unread, table, top, at, cur>>

SelectWait ==
  kind = "select" /\ Reports({i \in Watched : Ready(table[i])}) /\ UNCHANGED edge

\* The entries after the first nfds + 1 keep the revents they had.
PollWait ==
  /\ kind = "poll" /\ UNCHANGED edge
  /\ Reports({i \in Watched : Ready(table[i])} \cup {i \in revents : i > top})

EpollWait ==
  kind = "epoll" /\ Reports({i \in Watched : Ready(table[i])}) /\ UNCHANGED edge

LtWait ==
  kind = "lt" /\ Reports({i \in Watched : Ready(table[i])}) /\ UNCHANGED edge

EtWait ==
  kind = "et" /\ Reports({i \in Watched : table[i] \in edge}) /\ edge' = {}

Wait == SelectWait \/ PollWait \/ EpollWait \/ LtWait \/ EtWait

-----------------------------------------------------------------------------
(* A client is accepted; it may have sent already.                         *)

Least(S) == CHOOSE x \in S : \A y \in S : x <= y
NewFd == {f \in Descriptors \ open : \A g \in Descriptors \ open : f <= g}
Larger(a, b) == IF a > b THEN a ELSE b

Enters(cfd, index) ==
  /\ accepting /\ at = "loop" /\ cur = 0
  /\ accepting' = FALSE /\ backlog' = backlog - 1 /\ open' = open \cup {cfd}
  /\ \E n \in 0..1 : /\ unread' = [unread EXCEPT ![cfd] = n]
                     /\ edge' = IF n > 0 THEN edge \cup {cfd} ELSE edge \ {cfd}
  /\ gone' = [gone EXCEPT ![cfd] = "no"] /\ full' = full \ {cfd}
  /\ table' = [table EXCEPT ![index] = cfd]
  /\ UNCHANGED <<kind, arrived, revents, at, cur>>

SelectAccept ==
  /\ kind = "select"
  /\ \E cfd \in NewFd : Enters(cfd, cfd) /\ top' = Larger(top, cfd)

\* nfds is an index, but it is raised to the descriptor.
PollAccept ==
  /\ kind = "poll"
  /\ \E cfd \in NewFd :
       /\ Enters(cfd, Least({i \in Indices : table[i] = 0}))
       /\ top' = Larger(top, cfd)

EpollAccept ==
  kind = "epoll" /\ (\E cfd \in NewFd : Enters(cfd, cfd)) /\ UNCHANGED top

LtAccept ==
  kind = "lt" /\ (\E cfd \in NewFd : Enters(cfd, cfd)) /\ UNCHANGED top

EtAccept ==
  kind = "et" /\ (\E cfd \in NewFd : Enters(cfd, cfd)) /\ UNCHANGED top

Accept == SelectAccept \/ PollAccept \/ EpollAccept \/ LtAccept \/ EtAccept

-----------------------------------------------------------------------------
(* The event of index i is handled.                                        *)

\* select and poll look at the listening socket first, then along the table.
Along(i) == at = "loop" /\ cur = 0 /\ ~accepting /\ Left # {} /\ i = Least(Left)
\* epoll's events are in any order.
InList(i) == at = "loop" /\ i \in Left /\ cur \in {0, i}

\* recv() returns up to n units, 0 when the client has closed, -1 when it was
\* reset: then the program exits.  With nothing to read recv() waits.
Recv(i, n) ==
  \/ /\ table[i] = 0 \/ (table[i] # 0 /\ gone[table[i]] = "rst")
     /\ at' = "exited" /\ cur' = 0 /\ UNCHANGED <<open, unread, table, revents, edge>>
  \/ /\ table[i] # 0 /\ gone[table[i]] # "rst" /\ unread[table[i]] > 0
     /\ unread' = [unread EXCEPT ![table[i]] = IF @ < n THEN 0 ELSE @ - n]
     /\ at' = "send" /\ cur' = i /\ UNCHANGED <<open, table, revents, edge>>
  \/ /\ table[i] # 0 /\ gone[table[i]] = "fin" /\ unread[table[i]] = 0
     /\ open' = open \ {table[i]} /\ table' = [table EXCEPT ![i] = 0]
     /\ edge' = edge \ {table[i]}
     /\ revents' = revents \ {i} /\ cur' = 0 /\ UNCHANGED <<at, unread>>

RecvOnly == UNCHANGED <<kind, clientVars, top, accepting>>
SelectRecv(i) == kind = "select" /\ Along(i) /\ Recv(i, MaxUnread) /\ RecvOnly
PollRecv(i) == kind = "poll" /\ Along(i) /\ Recv(i, MaxUnread) /\ RecvOnly
EpollRecv(i) == kind = "epoll" /\ InList(i) /\ Recv(i, MaxUnread) /\ RecvOnly
LtRecv(i) == kind = "lt" /\ InList(i) /\ Recv(i, 1) /\ RecvOnly

\* Mutant: one read() for each event, as in epoll_lt.c.
EtRecvOnce(i) ==
  /\ kind = "et" /\ InList(i) /\ RecvOnly
  /\ \/ cur = 0 /\ Recv(i, 1)
     \/ /\ cur = i /\ revents' = revents \ {i} /\ cur' = 0
        /\ UNCHANGED <<open, unread, edge, table, at>>

\* read() does not wait: the loop ends with EAGAIN when nothing is left.
EtRecv(i) ==
  /\ kind = "et" /\ InList(i) /\ RecvOnly
  /\ \/ Recv(i, 1)
     \/ /\ ~Ready(table[i]) /\ revents' = revents \ {i} /\ cur' = 0
        /\ UNCHANGED <<open, unread, edge, table, at>>

\* send() waits for room.  To a client that has left it may bring a reset, and
\* after the reset SIGPIPE ends the program.
Sent ==
  /\ at = "send"
  /\ \E f \in {table[cur]} :
       \/ /\ gone[f] = "no" /\ full' \in {full, full \cup {f}} /\ at' = "loop" /\ UNCHANGED gone
       \/ /\ gone[f] = "fin" /\ at' = "loop" /\ UNCHANGED full
          /\ \E how \in {"fin", "rst"} : gone' = [gone EXCEPT ![f] = how]
       \/ gone[f] = "rst" /\ at' = "exited" /\ UNCHANGED <<gone, full>>
  /\ UNCHANGED <<kind, arrived, backlog, open, unread, edge, table, top, accepting>>

SentWhole == Sent /\ table[cur] \notin full /\ cur' = 0 /\ revents' = revents \ {cur}

SelectSend == kind = "select" /\ SentWhole
PollSend == kind = "poll" /\ SentWhole
EpollSend == kind = "epoll" /\ SentWhole
LtSend == kind = "lt" /\ SentWhole
EtSend == kind = "et" /\ Sent /\ UNCHANGED <<cur, revents>>   \* what has no room is lost

Handle ==
  \/ \E i \in Indices : SelectRecv(i) \/ PollRecv(i) \/ EpollRecv(i) \/ LtRecv(i) \/ EtRecv(i)
  \/ SelectSend \/ PollSend \/ EpollSend \/ LtSend \/ EtSend

Next == Client \/ Wait \/ Accept \/ Handle

-----------------------------------------------------------------------------
\* As long as the program runs, every connection is in the range of the table
\* that the next wait looks at, once; with edges, what is left in a socket has
\* an edge to be reported or is being read: no client is left unheard.
ClientsWatched ==
  at # "exited" =>
    \A f \in open :
      /\ Cardinality({i \in Watched : table[i] = f}) = 1
      /\ kind = "et" /\ Ready(f) => f \in edge \/ \E i \in Left : table[i] = f

\* Only a client's reset ends the program; poll's revents, which nothing
\* initialises, may end it too.
ExitsOnReset ==
  at = "exited" => kind = "poll" \/ \E f \in open : gone[f] = "rst"
=============================================================================
