------------------------------- MODULE Programs -------------------------------
(***************************************************************************)
(* The C-style server, the timer lists, the course programs and the user   *)
(* accounts, one at a time: prog says which, and the variables of the      *)
(* others keep their first values.                                         *)
(***************************************************************************)
EXTENDS Integers, Sequences, FiniteSets

CONSTANTS
  Requests, Resources, FileSize, BodyLen, READ_BUFFER_SIZE,                     \* CConn
  Descriptors, cThreads, MAX_FD, max_requests, MAX_EVENT_NUMBER, MaxClients,    \* CServer
  tDescriptors, tMaxClients, tMaxUnread, tSlots,                                \* TimerList
  Producers, Customers, Room, MaxNodes,                                         \* CourseThreads
  Children,                                                                     \* CourseProcesses
  eDescriptors, LastIndex, eMaxClients, MaxUnread,                              \* CourseServers
  sDescriptors, max,                                                            \* CourseSlots
  MaxLines,                                                                     \* CourseChat
  Clients, MaxTyped,                                                            \* CourseTelnet
  Sellers, kReaders, Tickets, MaxNum,                                           \* CourseTickets
  Workers, Names, Passwords, MaxCalls                                           \* Accounts

\* Descriptors are numbers and threads are finitely many; 0 is the listening socket.
ASSUME ServerAssumption == IsFiniteSet(cThreads) /\ Descriptors \subseteq Nat \ {0}
\* Descriptors are positive numbers, and there is one for every client that arrives.
ASSUME TimersAssumption == /\ IsFiniteSet(tDescriptors) /\ tDescriptors \subseteq Nat \ {0}
                           /\ tMaxClients \in Nat /\ tMaxClients <= Cardinality(tDescriptors)
                           /\ tSlots \in Nat
\* The threads are finitely many: each adds nodes or takes them, and one takes them.
ASSUME CourseAssumption == /\ IsFiniteSet(Producers \cup Customers) /\ Customers # {}
                           /\ Producers \cap Customers = {}
                           /\ Room \in Nat
\* The table has an index for every descriptor that accept() can return.
ASSUME EchoAssumption == /\ LastIndex \in Nat /\ eDescriptors \subseteq 1..LastIndex
                         /\ MaxUnread \in Nat
\* Slots are numbered from 1.
ASSUME SlotAssumption == sDescriptors \subseteq Nat /\ max \in Nat \ {0}
\* A thread of rwlock.c either writes or reads.
ASSUME TicketsAssumption == Sellers \cap kReaders = {} /\ Tickets \in Nat

VARIABLES
  prog,
  script, sentN, readN, got, room, cut, state, conn, iov, have, told,           \* CConn
  backlog, clients, open, armed, user_count, events, main, sockfd, holder,      \* CServer
  workqueue, queuestat, at, request, refused,
  tBacklog, tClients, tOpen, gone, unread, edges, alarm, pipe, list, pc,        \* TimerList
  tEvents, timeout, stop_server,
  list_program, nodes, mutex, psem, csem, thread,                               \* CourseThreads
  fork_program, child, pending, blocked, handler,                               \* CourseProcesses
  kind, arrived, eBacklog, eOpen, eUnread, eGone, full, edge, table, top,       \* CourseServers
  revents, accepting, eAt, cur,
  sOpen, sGone, sockinfos, working, sAt, sCfd, i,                               \* CourseSlots
  fVersion, fAt, fifo, fTyped, killed,                                          \* CourseChat
  hVersion, hBacklog, srv, hCfd, client, typed, wire, answers, reset, shut,     \* CourseTelnet
  tickets_program, shared, kAt, kRead, holders, done,                           \* CourseTickets
  user, uAt, call, flag, calls, together, lost                                  \* Accounts

connVars == <<script, sentN, readN, got, room, cut, state, conn, iov, have, told>>
serverVars == <<backlog, clients, open, armed, user_count, events, main, sockfd, holder,
                workqueue, queuestat, at, request, refused>>
timerVars == <<tBacklog, tClients, tOpen, gone, unread, edges, alarm, pipe, list, pc, tEvents,
               timeout, stop_server>>
threadVars == <<list_program, nodes, mutex, psem, csem, thread>>
processVars == <<fork_program, child, pending, blocked, handler>>
echoVars == <<kind, arrived, eBacklog, eOpen, eUnread, eGone, full, edge, table, top, revents,
              accepting, eAt, cur>>
slotVars == <<sOpen, sGone, sockinfos, working, sAt, sCfd, i>>
chatVars == <<fVersion, fAt, fifo, fTyped, killed>>
telnetVars == <<hVersion, hBacklog, srv, hCfd, client, typed, wire, answers, reset, shut>>
ticketVars == <<tickets_program, shared, kAt, kRead, holders, done>>
accountVars == <<user, uAt, call, flag, calls, together, lost>>
courseVars == <<echoVars, slotVars, chatVars, telnetVars, ticketVars, accountVars>>
vars == <<prog, connVars, serverVars, timerVars, threadVars, processVars, courseVars>>

-----------------------------------------------------------------------------
Conn == INSTANCE CConn
Lesson == INSTANCE LessonConn
Server == INSTANCE CServer WITH Threads <- cThreads
Timers == INSTANCE TimerList WITH
            Descriptors <- tDescriptors, MaxClients <- tMaxClients, MaxUnread <- tMaxUnread,
            Slots <- tSlots, backlog <- tBacklog, clients <- tClients, open <- tOpen, events <- tEvents
Lists == INSTANCE LessonTimers WITH
            Descriptors <- tDescriptors, MaxClients <- tMaxClients, MaxUnread <- tMaxUnread,
            Slots <- tSlots, backlog <- tBacklog, clients <- tClients, open <- tOpen, events <- tEvents
Course == INSTANCE CourseThreads WITH program <- list_program, at <- thread
Reaping == INSTANCE CourseProcesses WITH program <- fork_program
Echo == INSTANCE CourseServers WITH
          Descriptors <- eDescriptors, MaxClients <- eMaxClients,
          backlog <- eBacklog, open <- eOpen, unread <- eUnread, gone <- eGone, at <- eAt
Slot == INSTANCE CourseSlots WITH
          Descriptors <- sDescriptors, open <- sOpen, gone <- sGone, at <- sAt, cfd <- sCfd
Chat == INSTANCE CourseChat WITH version <- fVersion, at <- fAt, typed <- fTyped
Telnet == INSTANCE CourseTelnet WITH version <- hVersion, backlog <- hBacklog, cfd <- hCfd
Selling == INSTANCE CourseTickets WITH
             Readers <- kReaders, program <- tickets_program, at <- kAt, read <- kRead
Users == INSTANCE Accounts WITH at <- uAt

-----------------------------------------------------------------------------
Init ==
  /\ prog \in {"conn", "lesson", "server", "timers", "lists", "course", "reaping",
              "echo", "slot", "chat", "telnet", "tickets", "accounts"}
  /\ Conn!Init /\ Server!Init /\ Timers!Init
  /\ Course!Init /\ (prog # "course" => list_program = "cond")
  /\ Reaping!Init /\ (prog # "reaping" => fork_program = "server2")
  /\ Echo!Init /\ (prog # "echo" => kind = "select")
  /\ Slot!Init
  /\ Chat!Init /\ (prog # "chat" => fVersion = "char")
  /\ Telnet!Init /\ (prog # "telnet" => hVersion = "telnet")
  /\ Selling!Init /\ (prog # "tickets" => tickets_program = "mutex")
  /\ Users!Init

ConnOnly ==
  UNCHANGED <<prog, serverVars, timerVars, threadVars, processVars, courseVars>>
ServerOnly ==
  UNCHANGED <<prog, connVars, timerVars, threadVars, processVars, courseVars>>
TimersOnly ==
  UNCHANGED <<prog, connVars, serverVars, threadVars, processVars, courseVars>>
CourseOnly ==
  UNCHANGED <<prog, connVars, serverVars, timerVars, processVars, courseVars>>
ReapingOnly ==
  UNCHANGED <<prog, connVars, serverVars, timerVars, threadVars, courseVars>>
LastOnly == UNCHANGED <<prog, connVars, serverVars, timerVars, threadVars, processVars>>

Next ==
  \/ prog = "conn" /\ Conn!Next /\ ConnOnly
  \/ prog = "lesson" /\ Lesson!Next /\ ConnOnly
  \/ prog = "server" /\ Server!Next /\ ServerOnly
  \/ prog = "timers" /\ Timers!Next /\ TimersOnly
  \/ prog = "lists" /\ Lists!Next /\ TimersOnly
  \/ prog = "course" /\ Course!Next /\ CourseOnly
  \/ prog = "reaping" /\ Reaping!Next /\ ReapingOnly
  \/ prog = "echo" /\ Echo!Next /\ LastOnly
     /\ UNCHANGED <<slotVars, chatVars, telnetVars, ticketVars, accountVars>>
  \/ prog = "slot" /\ Slot!Next /\ LastOnly
     /\ UNCHANGED <<echoVars, chatVars, telnetVars, ticketVars, accountVars>>
  \/ prog = "chat" /\ Chat!Next /\ LastOnly
     /\ UNCHANGED <<echoVars, slotVars, telnetVars, ticketVars, accountVars>>
  \/ prog = "telnet" /\ Telnet!Next /\ LastOnly
     /\ UNCHANGED <<echoVars, slotVars, chatVars, ticketVars, accountVars>>
  \/ prog = "tickets" /\ Selling!Next /\ LastOnly
     /\ UNCHANGED <<echoVars, slotVars, chatVars, telnetVars, accountVars>>
  \/ prog = "accounts" /\ Users!Next /\ LastOnly
     /\ UNCHANGED <<echoVars, slotVars, chatVars, telnetVars, ticketVars>>

\* The fairness of each program, as its module states it.
Fairness ==
  /\ WF_vars(prog = "conn" /\ Conn!Server /\ ConnOnly)
  /\ WF_vars(prog = "conn" /\ Conn!Drain /\ ConnOnly)
  /\ WF_vars(prog = "conn" /\ Conn!Send /\ ConnOnly)
  /\ WF_vars(prog = "server" /\ Server!Main /\ ServerOnly)
  /\ \A w \in cThreads : WF_vars(prog = "server" /\ Server!Worker(w) /\ ServerOnly)
  /\ WF_<<pc, tEvents>>(prog = "timers" /\ Timers!Loop)
  /\ WF_vars(prog = "timers" /\ Timers!Time /\ TimersOnly)
FairSpec == Init /\ [][Next]_vars /\ Fairness

-----------------------------------------------------------------------------
\* See CServer: an open connection is in one pair of hands.
TurnsKept == Server!TurnsKept
\* See CServer: what main has read is processed, unless append() refuses it.
RequestProcessed == prog = "server" => Server!RequestProcessed

\* See CConn: a client receives the answers due, however its requests are cut.
Answered == prog = "conn" => Conn!Answered

\* See TimerList and LessonTimers: the list is linked, ordered and complete; in
\* the course's copy until main hangs in it.
ListSound ==
  /\ prog = "timers" => Timers!ListSound
  /\ prog = "lists" => Lists!SoundUntilHung
\* See TimerList: a connection whose client has closed is closed too.
GoneClosed == prog = "timers" => Timers!GoneClosed

\* See CourseThreads, CourseTickets, CourseProcesses, CourseSlots and CourseChat:
\* what the threads and the processes of the course hand over or count is neither
\* lost nor shared.
HandedOver ==
  /\ Course!NodesTaken /\ Selling!CountKept
  /\ Reaping!ZombiesReaped
  /\ Slot!OneThreadEach
  /\ Chat!ReadersWait /\ Chat!TurnsTaken

\* See CourseServers, CourseTelnet and LessonConn: the course's servers hear
\* every client as long as they run. An echo server ends with a reset client
\* only, poll's apart, and lesson05's parser refuses whatever it reads.
ClientsHeard ==
  /\ Echo!ClientsWatched /\ Echo!ExitsOnReset
  /\ Telnet!SessionsKept
  /\ prog = "lesson" => Lesson!OnlyRefuses

\* See Accounts: what the table of users and the answers of UserVerify say agrees.
AccountsKept == Users!AccountsKept
=============================================================================
