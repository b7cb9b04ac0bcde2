# TLA+ models of StudyWebServer

The repository collects a course on Linux network programming: exercises
(`lesson01` to `lesson04`, `homework`), a web server in the style of C
(`webserver/`, with an earlier copy in `lesson05/`), and the C++ web server
`WebServer-master/code`, which is the program of real size: a reactor with a
thread pool, a heap of timers, a pool of MySQL connections and an asynchronous
log. This directory holds TLA+ models of it, the TLC runs that check them, and
proofs that TLAPS checks.

Contents: [the system](#the-system), [the plan](#the-plan),
[the modules](#the-modules), [the runs](#the-runs), [findings](#findings),
[the proofs](#the-proofs), [what is not modelled](#what-is-not-modelled),
[running the tools](#running-the-tools).

Source paths below are relative to `src/WebServer-master/code/`; those that
begin with `webserver/`, `homework/` or `lesson` are relative to `src/`.

## The system

| component | state | operations | meets the others through |
|---|---|---|---|
| Reactor: `server/webserver`, `server/epoller` | `users_`, the epoll registrations, `isClose_` | `Start`, `DealListen_`, `AddClient_`, `DealRead_`, `DealWrite_` on the main thread; `OnRead_`, `OnProcess`, `OnWrite_` on workers; `CloseConn_` on either | tasks given to the thread pool; callbacks of the timer heap; `epoll_ctl` from both sides |
| Connection: `http/httpconn` | `fd_`, `isClose_`, `readBuff_`, `writeBuff_`, `iov_`, the static `userCount` | `init`, `Close`, `read`, `process`, `write` | no lock: whoever holds the `HttpConn*` |
| Thread pool: `pool/threadpool.h` | `tasks`, `isClosed`, a mutex, a condition variable | `AddTask`, the workers' loop, the destructor | shared with the detached workers |
| Timer heap: `timer/heaptimer` | `heap_`, `ref_` | `add`, `adjust`, `tick`, `pop`, `GetNextTick` | main thread only; its callback is `CloseConn_` |
| Connection pool: `pool/sqlconnpool`, `pool/sqlconnRAII.h` | `connQue_`, `semId_`, a mutex | `Init`, `GetConn`, `FreeConn`, `ClosePool` | called by `UserVerify` on workers |
| User accounts: `HttpRequest::UserVerify` | the table of users, in MySQL | SELECT, INSERT | workers, through the connection pool |
| Log: `log/log`, `log/blockqueue.h` | `buff_`, `fp_`, `toDay_`, `lineCount_`, the deque | `LOG_BASE`, `write`, `flush`, the log thread, `~Log` | every thread; the deque between writers and log thread |
| Parser, response, buffer: `http/httprequest`, `http/httpresponse`, `buffer/buffer` | parser state, mapped file, read and write positions | `parse`, `MakeResponse`, `ReadFd`, `Append`, `Retrieve...` | owned by one `HttpConn` |
| C-style server: `webserver/` (again in `lesson05/`) | `users`, `m_workqueue`, a semaphore, `m_user_count` | `main` reads and writes, workers parse and re-arm | `http_conn` objects, no lock |
| Timer list: `webserver/noactive` (again in `lesson05/noactive`) | sorted list, signal pipe, `timeout` | `add_timer`, `adjust_timer`, `del_timer`, `tick`, the loop of `main` | one thread and a signal handler |
| Course, threads: `lesson03/08` to `14` | a list of nodes, `ticket`, `num`; mutexes, a condition variable, semaphores | producers and customers, sellers, readers and writers | the variables they share |
| Course, servers: `lesson04/21`, `27`, `31` | descriptor sets, the `poll` array, epoll registrations, `sockinfos` | `accept`, `recv`, `send` in one loop, a child or a thread per client | clients; SIGCHLD; the slots that main gives its threads |
| Course, processes: `lesson02/16`, `lesson02/27` | fifos; children and SIGCHLD | two programs that talk; the parent that reaps | fifos and signals |
| Homework: `homework/` | one connection at a time | `client.c`'s `select`, both servers' commands | a TCP stream without message ends |

What is hard about it:

* **Ownership without a lock.** An `HttpConn` is used by the main thread and by
  the workers and has no mutex. What keeps them apart is `EPOLLONESHOT`, one
  `ModFd` per finished task, and the order of the calls. Descriptor numbers, and
  the `HttpConn` objects with them, are reused at once.
* **Timers that do not ask.** The callback of an expired timer closes the
  connection on the main thread whatever the workers do with it.
* **Edges.** Both the listening socket and the connections are edge triggered:
  what is not consumed, or not re-armed, is not reported again.
* **Condition variables and semaphores**: notifications after unlocking, waits
  without a test, a test without the lock, a semaphore beside a mutex.
* **Ends**: the order in which the pool and the log are closed.
* **Streams**: requests cut anywhere, pipelined, abandoned; responses that
  `writev` sends in parts; buffers that grow, move or are filled from the stack.
* **Two copies**: `lesson05` and `webserver` write the same server twice, with
  small differences that decide what works.

The properties that make each component correct:

* *Reactor*: one owner per connection; no connection without an owner; no task
  for a connection that is gone; the user count is right; every request is read,
  every response is sent, every client accepted; `adjust` finds its node.
* *Thread pool*: it is a first-in first-out queue whose tasks run once each, it
  is drained before the workers end, and no wakeup is lost.
* *Connection pool*: semaphore and queue agree; no connection is lost; no two
  calls share one; a call returns.
* *Log*: no queued line is lost, doubled or overtaken; a writer never waits
  while it holds the lock; the log comes to an end.
* *Timer heap*: the front node expires first, `ref_` inverts `heap_`, the
  timeout given to `epoll_wait` is never past the first expiry.
* *Parser, response and buffer*: `readPos_ <= writePos_ <= size`; no byte is
  lost or parsed twice; what the client receives is a beginning of the responses
  made for it; nothing follows a close; a polite client gets its files.
* *Accounts*: who is told that a name is registered or known finds it in the
  table, and no name has two rows unless two registrations met or an insert
  failed.
* *C-style server*: one pair of hands per connection, and none left without but
  by a refused `append`; no request is lost; a response is sent whole and once.
* *Timer list*: linked both ways, sorted and complete; the alarm goes on; a
  client that has gone is closed.
* *Course*: a node is taken by one customer, a ticket sold once, a child reaped,
  a slot used by one thread; every client is heard until the server ends.

The `hazards` of `PROJECT.json` list, line by line, what of this a test would
hardly reach, with the properties that cover it or the reason why none does.

## The plan

Most important behaviour first. 1 to 10 are done; 11 is what is left.

1. `WebServer`: the reactor with epoll, workers, timers and the reuse of
   descriptors. Theorems: types, ownership, no stranded connection, no stale
   work, the assertion of `adjust`.
2. `ThreadPool` against its abstract specification `TaskQueue`. Theorems: the
   refinement, no lost wakeup.
3. `SqlConnPool`: pool, guard and `UserVerify`. Theorems: semaphore and queue,
   no lost connection.
4. `Log`: log, deque, log thread, `~Log`. Theorems: order and completeness of
   the queued lines, no wait with the lock held.
5. `HeapTimer`: the heap, `ref_` and the loops, with its abstract specification
   `TimerSet`. Theorems: `ref_` inverts `heap_`, the heap's order, the timeout of
   `GetNextTick`, the refinement.
6. `Buffer` and `Http`: one `HttpConn` with its buffers, the parser, the response
   and `write`. Theorems: the positions, the order of the bytes read, what the
   client receives, closing.
7. `CServer` and `CConn`: `webserver/threadpool.h`, `main` and `http_conn`.
   Theorem: one pair of hands per connection.
8. `TimerList`: the sorted list, the signal pipe and the loop of `main`.
9. `LessonConn`, `LessonTimers`: where `lesson05` differs from `webserver`.
10. `Accounts`: `UserVerify` and the table of users. `CourseThreads`,
    `CourseTickets`, `CourseProcesses`, `CourseSlots`, `CourseServers`,
    `CourseChat`, `CourseTelnet`: the course's concurrent programs. `Programs`:
    the modules of 7 to 10 side by side. Theorems: the user accounts, the list of
    timers, what is handed over, who is heard.
11. Left: the rollover of `Log` with the day, the line count and `fp_`; an
    abstract specification for the list of timers, as `TimerSet` is for the heap;
    theorems about what a client of `CConn` has received; `ClosePool`.

## The modules

Every definition that stands for code is listed in `PROJECT.json` under `map`
with its file and lines. An action is one step of a thread between two points
where another thread may come in: a system call, a lock, an access to shared
state. Where a thread is inside a function is `pc`, its labels named after the
function or the call that comes next.

### `WebServer`

| in the model | in the code |
|---|---|
| `sock`, `backlog`, `listenEdge`, `inbox`, `full`, `peerClosed` | the kernel: the connection a descriptor is open on, the accept queue, unread messages, a full send buffer, a shutdown of the peer |
| `watch[f]`: `none`, `in`, `out`, `off` | the registration of `f`; `off` is a registration disarmed by `EPOLLONESHOT` |
| `userCount`, `isClose`, `readBuff`, `toWrite`, `keepAlive` | the fields of `users_[fd]`, one object per descriptor; buffers are counted in messages and in chunks |
| `timers`, `expiring` | the ids with a node; the id whose callback `tick` is in |
| `tasks`, `batch` | the queue of the thread pool; the events returned by `Wait` and not handled |
| `pc`, `arg`, `job` | where a thread is, its `HttpConn`, and (history) the connection it took it for |
| `MainStep`: `TickExpired`, `Pop`, `TickDone`, `Wait`, `DispatchListen`, `DispatchHup`, `Deal`, `AcceptOne`, `AddFd`, ... | `Start`, `GetNextTick`, `DealListen_`, `AddClient_`, `DealRead_`, `DealWrite_` |
| `WorkerStep`: `OnRead_`, `ProcessRequest`, `ModOut`, `WriteDone`, `WriteAgain`, ... | `OnRead_`, `OnProcess`, `OnWrite_` with `HttpConn::read`, `process`, `write` |
| `CloseConn_`: `DelFd`, `CloseTest`, `CloseQuit`, `CloseFd` | `CloseConn_` and `HttpConn::Close`, a step per access, since two threads may be in them |

Abstractions. The configuration is that of `main.cpp` (`trigMode` 3). Time is
not measured: `tick` may find any timer expired; the history variable `overrun`
records that one expired while work for its connection was queued or running,
which in the code needs `timeoutMS_` (60 s) between `DealRead_` and the tick, a
long queue or a slow MySQL. `epoll_wait` returns all events that are ready, in
any order. Each response has a file. What `parse` makes of a message is left
open. After an overrun the buffers may be raced on, which is undefined in C++;
the model goes on with their counts only, and the properties of ownership are
stated for behaviours without an overrun. A write to a reset connection returns
an error: the SIGPIPE that would end the program is a hazard in the list.

### `TaskQueue` and `ThreadPool`

`TaskQueue` is what a pool promises: tasks are given once, start in the order
they were given, run once, and after `Close` the workers retire when the queue
is empty. `ThreadPool` has the mutex (`mtx`), the condition variable
(`waiting`), the queue and the threads of `threadpool.h`, with `notify_one` after
the unlock, spurious wakeups, and a destructor that runs when no other call is
under way (the object's lifetime). `ImplementsTaskQueue` is
`TaskQueue`'s specification under the mapping at the end of the module: a task
counts as given when it is in the queue, a worker as retired when its thread has
ended.

### `SqlConnPool` and `Pools`

`connQue`, `popped` and `semId` are the queue, where it starts and the
semaphore. `empty()` is called without the mutex and is two reads of the queue's
pointers (`ReadEnd`, `ReadBegin`), between which others may pop and push.
`SqlConnRAII(&sql, ...)` in `UserVerify` is a temporary: `Destroy` frees the
connection before the first query, `Return` frees it again. Connections that
failed are entries `NoConn`; `assert(sql)` ends the process (`aborted`). The
queries are steps with any outcome; the table is in `Accounts`.

`Pools` puts the two pools of `pool/` side by side: it extends `ThreadPool` and
has an instance of `SqlConnPool`, and its variable `pool` says which of them
runs; the other keeps its first values. Each has its own fairness.

### `Log`

`mtx` is `Log::mtx_`; each operation of `BlockDeque` holds the deque's own
mutex once and is one step, except for the waits. `logged`, `pushed`, `drained`
and `direct` are history: the lines of each writer, those queued, those the log
thread wrote, those a writer wrote itself because the deque was full. Whether a
line starts a new file is left open (`roll`), the files' names are left out.
The log is asynchronous, as `main.cpp` makes it, and `~Log` runs when no writer
is inside. `Wake` is a spurious wakeup.

### `TimerSet` and `HeapTimer`

`TimerSet` is what the heap promises: a set of ids, each with the time at which
it is due; a tick expires them in the order in which they are due, none before
its last millisecond, and leaves none that has expired. `HeapTimer` has `heap`,
`size` and `ref` for `heap_`, `heap_.size()` and `ref_`, and the indices of the
code: an iteration of `siftup_` or `siftdown_` is a step, and `Delete` and
`Erase` are the two halves of `del_`. `doWork` and `clear` are there although the
server does not call them. The clock is read by `add`, `adjust`, `tick` and
`GetNextTick`, and moves before any of these reads. Indices wrap around at
`SizeMax`: `siftup_` at the root computes a parent far outside of the vector, and
the comparison with what is read there may come out either way (`SiftUpStop`, or
`SwapAborts` at the assertion of `SwapNode_`). Assumed: every call has the same
timeout, as in the server; the clock never goes back; a callback leaves the heap
alone, which holds for `CloseConn_`.

### `Buffer` and `Http`

`Buffer` has the methods of `buffer.cpp` as operators on the record
`[buffer_, readPos_, writePos_]`: `MakeSpace_` with its two cases, `Append`,
`ReadFd` with the second vector on the stack, the `Retrieve` family. `Http` is
one object `users_[fd]` and the clients it serves one after another.

| in the model | in the code |
|---|---|
| `script`, `sentN`, `readN`, `got`, `full`, `eof` | the client: what it sends and how far, what has been read of it, what it has received, a full send buffer, whether it has gone |
| `readBuff_`, `writeBuff_`, `iov_`, `request_`, `response_`, `isET` | the fields of `HttpConn`, `HttpRequest` and `HttpResponse` |
| `pc` | the registration (`in`, `out`) or the function that is running |
| `DealRead_`, `read`, `process`, `parse` | a report of `epoll`, `HttpConn::read`, `process`, `HttpRequest::parse` line by line |
| `MakeResponse`, `AddStateLine_`, `AddHeader_`, `AddContent_` | the methods of `HttpResponse`; the last one also fills `iov_` and re-arms |
| `Writev`, `WritevEnds` with `Advance` and `OnWrite_` | the loop of `HttpConn::write`, one `writev` at a time, and `OnWrite_` after it |
| `told` | history: the responses begun, as they should reach the client |

A byte of the model stands for a piece of text the code does not look into (a
method, a path, a header field), `cr` and `lf` for themselves; each piece may
arrive apart from the next. A request line that is cut behind `HTTP/` is
accepted, with a version that is not `1.1`, as the regular expression of
`ParseRequestLine_` accepts it. What is left out is a cut inside a word, after
which the parser does what it does for an incomplete line. A form is one token: the
decoding of its characters is not there, and whether `UserVerify` agrees is open
(`Accounts` says when it does). `Flaky` names the files for which `open` may
fail.
The reactor around it (who runs which step) is `WebServer`; here one thread at a
time has the connection, as `OneOwner` says. Connections are level or edge
triggered, chosen at the start, as `trigMode` is.

### `CServer`, `CConn`, `LessonConn`

`CServer` has main's loop, the registrations with `EPOLLONESHOT`, the pool's
queue, lock and semaphore, and the workers; how a read, a parse or a write ends
is left open. `refused` is history: the descriptors whose last `append` returned
false, which `main` ignores, so that nobody ever re-arms them. `CConn` is the
other half: one `http_conn`, its parser with the positions that survive from one
read to the next, the `iovec` arithmetic of `write`, and a client whose requests
are cut anywhere. `told` is what `process_write` has answered. `LessonConn` takes
from `CConn` what `lesson05/http_conn.cpp` has in common and defines what
differs: the loop of `process_read` compares `line_status == parse_line()` where
it should assign.

### `TimerList`, `LessonTimers`

The list of `lst_timer.h` with both links as functions, its four operations one
step each (one thread calls them), the handler that sends a byte through the
socket pair, and the loop of `nonactive_conn.cpp`. A time is what is left until
it, in slots of `TIMESLOT` seconds, so that the clock needs no bound.
`LessonTimers` replaces the two operations that `lesson05` wrote differently.

### `Accounts`

The calls of `UserVerify` with the table: `Select`, `Insert` and `Return` are
the steps between which other workers come in, and either query may fail. Rows
are pairs, equal rows are not told apart. `together` and `lost` are history: the
names two calls were registering at a time, and the inserts that failed and were
answered with `true` all the same. `AccountsKept` is exact about these two ways
in which the code breaks its promise.

### The course's programs

`CourseThreads`: `prod-cust.c`, `cond.c`, `semaphore.c` as three programs over
one list. `CourseTickets`: `sellticket.c`, `mutex.c`, `rwlock.c`. `CourseProcesses`: the
children of `server2.c` and `sigchld.c` and the handler of SIGCHLD, a signal
being pending or not. `CourseSlots`: `server3.c`, with the `exit` that a thread's
failed `read` is for the whole process. `CourseServers`: the five
servers with `select`, `poll` and `epoll`. `CourseChat`: `charA`/`charB` and
`chatA`/`chatB` over two fifos with end of file and SIGPIPE. `CourseTelnet`:
`client.c` with `server.c` or `telnet-server.c`; a client ends by its `quit`,
which shuts its side down and then kills it with SIGPIPE, or by the user's
Ctrl-C (`interrupt`), and answers it has not read make the end a reset: behind
the end of the stream after `quit`, so that the server's `read` still returns 0,
without one after Ctrl-C, so that it fails (`read_fails`). A variable says which program of
the module runs; it never changes.

### `Programs`

The modules from `CServer` to `CourseTelnet` and `Accounts` side by side, each
with constants and variables of its own: `prog` says at the start which of them
runs, the others keep their first values. One instance of `Programs`
(`MCPrograms`) thus checks them all, and its properties are those of the parts.
Its assumptions are the least that the theorems need, and each says something of
the code: threads are finitely many and have one role each (`ServerAssumption`,
`CourseAssumption`, `TicketsAssumption`); descriptors are numbers above that of
the listening socket; there is one for each client, for no server here treats an
`accept` that fails (`TimersAssumption`); the tables of the echo servers have an
entry for each descriptor, as theirs of 1024 have under the usual limit of open
files (`EchoAssumption`); the slots of `server3.c` are numbered
(`SlotAssumption`).

## The runs

| run | instance | states | shows |
|---|---|---|---|
| `reactor` | 3 connections over 3 descriptors, at most 2 at a time, 2 messages, responses of up to 2 chunks, 2 workers | 2.0 M, 35 s | `OneOwner`, `NeverStranded`, `NoStaleWork`, `CountExact`, `TimerNodePresent` |
| `reactor_live` | 2 connections, 2 descriptors, otherwise the same | 0.23 M, 60 s | `RequestRead`, `ResponseSent`, `PendingAccepted` |
| `reactor_timeout` | the same | violation | a timer may close a connection that is being served |
| `pools` | threads: 3 workers, 2 callers, 3 tasks, 1 spurious wakeup; connections: 3 workers, 2 connections, 5 calls, any connection failed | 0.16 M, 45 s | `WorkConserving`, `ImplementsTaskQueue`, `TasksRun`, `WorkersExit`; `SemMatches`, `ConnsKept`, `CallReturns` |
| `sqlpool_shared` | 2 workers, 3 connections, none failed | violation | two calls use one connection, even with more connections than workers |
| `log` | 2 writers with 3 lines each, a deque of 2 | 34 k | `QueueOrder`, `PushNeverWaits`, `WriteReturns`, `LinesWritten` |
| `log_close` | 2 writers with 1 line each | violation | `~Log` may wait for ever |
| `heap` | 6 ids, timers of 3 units, 2 units to a millisecond, a clock up to 4 | 0.26 M, 30 s | `RefInverse`, `HeapOrdered`, `NextTickInTime`, `ImplementsTimerSet` |
| `heap_delay` | the same with 2 ids | violation | `GetNextTick` may return a negative timeout |
| `http` | 2 clients one after another on one `HttpConn`, 9 scripts, buffers of 4 cells and 3 on the stack, low water 2 | 0.68 M, 45 s | `TypeOK`, `ReadInOrder`, `ReceivedExact`, `CloseIsLast`, `ClosesWhenDone`, `PoliteServed` |
| `programs` | 13 programs, one at a time (below) | 0.28 M, 2 min | `TurnsKept`, `RequestProcessed`, `Answered`, `ListSound`, `GoneClosed`, `HandedOver`, `ClientsHeard`, `AccountsKept` |
| `telnet_exit` | `CourseTelnet` with 1 client and 2 commands | violation | a client that quits may end the homework's server |

`programs` checks `Programs`, each property being about the program it belongs
to. Instances:
`CServer` with 4 descriptors, 2 workers, `MAX_FD` 3, `max_requests` 1, 2 events
at a time and 4 clients; `CConn` and `LessonConn` with a read buffer of 12 and
files of 2; the timer lists with 3 clients; `CourseThreads` with 2 producers and
2 customers; 3 children; `CourseServers` with 2 descriptors and 3 clients;
`CourseSlots` with 2 slots; `CourseChat` with 3 lines a side; `CourseTelnet` with
2 clients and 2 commands; `CourseTickets` with 2 tickets, 2 sellers and 2
readers; `Accounts` with 2 workers, 3 calls, one name and two passwords.

**Bounds and why they are enough.** Two workers and the main thread are the
three parties that can meet on one connection: its task, another task for the
same descriptor after reuse, and the timer or the event. Three connections over
two places make a descriptor change hands with others open, and reach `MAX_FD`
with a client waiting. Two messages give a request that is read while another is
on its way, and a pipelined one; two chunks give a response that is cut by
EAGAIN. After an overrun, `OverrunBound` stops at two connections, one more than
the descriptor that is reused needs. Workers are interchangeable in the safety
runs of the reactor (`WorkerSymmetry`); no symmetry is used with liveness. In
`pools`, three workers and three tasks leave one worker asleep while two run and
a notification meets nobody, and three workers on two connections meet
the empty queue, the semaphore at 0 and, with five calls, the doubled entries;
in `log`, two writers and six lines on a deque of two meet the full deque, the
direct write and the last line in the log thread's hand. In `heap`, six nodes are
the least with which `del_` has to sift up; five times of the clock and timers of
three units give nodes that are due at the same time, at different times, expired
and not, and two units to a millisecond make the rounding show. Ids are
interchangeable (`IdSymmetry`): all its properties are safety. In `http`, four
cells make every request move and grow the buffer and spill to the stack, two
connections show what the object keeps from the one before, and the scripts have
a pipelined pair, forms, a stray `\r`, a missing and a forbidden file. In
`programs`, `max_requests` 1 with four descriptors fills the queue, so that
`append` refuses, while two workers are busy and main has an event in hand;
`MAX_FD` 3 refuses the fourth client; 12 cells are less than a pipelined pair,
so that the read buffer fills; three nodes have a first, a middle and a last one
to unlink; two workers and three calls give two registrations of one name that
meet and a login after them.

**Deadlock.** `CHECK_DEADLOCK FALSE` everywhere, for one reason: clients,
callers and lines are bounded, after which the servers wait for work as they
should; the heap stops at an assertion that failed. That nobody waits who should
not is what the liveness properties say.

**Fairness.** Weak fairness of each thread's own steps: the operating system
schedules every thread that can run, and a mutex that is released again and
again is obtained. Of the environment only `Drain` is fair: a peer reads what it
is sent. No client has to connect, send or shut down, no timer has to expire, no
wait has to end spuriously, nobody has to destroy the pool or the log.
`sem_wait` is a step of its worker under the same weak fairness. In `http` the
thread that has the connection, the client's reading, and the sending of a
*polite* client (one that waits for its answer and stays) are fair; other clients
may stop anywhere. In `programs`: main and the workers of `CServer`; `CConn`'s
server, the client's reading and, for `Answered`, its sending; `TimerList`'s loop
and the passing of time, without which no alarm comes.

Each property of a passing run comes with a mutant of a definition it depends
on (`PROJECT.json`, `mutants`), a bug such as a dropped guard, a re-arm for the
wrong event or `notify_one` for `notify_all`, with which the run fails. The type
invariants of `SqlConnPool` and `Log` are not repeated in a run: they are proved.

## Findings

* **A timer closes connections that are served** (`reactor_timeout`,
  `server/webserver.cpp:130`). `readme.md:8` says that it closes inactive ones.
  Two threads then own the `HttpConn`, and once the descriptor is reused the
  worker acts on another client's connection.
* **Two workers query with one connection** (`sqlpool_shared`,
  `http/httprequest.cpp:181`). The guard is an unnamed temporary, and
  `FreeConn` at line 233 queues the connection a second time;
  `pool/sqlconnRAII.h:11` says that it is released when the object is destroyed.
* **`~Log` may hang** (`log_close`, `log/blockqueue.h:154`). `pop` tests
  `isClose_` after a wait only; when the log thread is writing the last line
  while `~Log` closes the deque, it waits afterwards for a notification that has
  been given already.
* **The timeout may be negative** (`heap_delay`, `timer/heaptimer.cpp:128`).
  `res` is a `size_t`, so that `if(res < 0) { res = 0; }` never holds; a timer
  that expires two milliseconds before that line makes `epoll_wait` wait for
  ever.
* **The homework's server ends with its client** (`telnet_exit`,
  `homework/telnet-server.c:91`). `homework/readme.md:109` forbids that, and
  line 11 says the same of `quit`. A client that quits before it has read an
  answer resets its connection; the `send` of the next answer fails, SIGPIPE
  being ignored, and `main` returns, in `server.c` too. Ctrl-C does the same, and
  can make the `read` of `telnet-server.c:78` fail, which exits. `ClientsHeard`
  says nothing of these exits: its part `SessionsKept` is about the sessions of a
  server that lives.
* **`pwd` and `cd` end `server.c`** (`homework/server.c:108`; no run of its own,
  the steps are in `server_command`). `homework/readme.md:8-9` asks for both
  commands. `getcwd` returns an array on the stack, which `free` aborts on;
  `cd` without a directory leaves a rest of length -1 for `memcpy`.

## The proofs

| module | theorems |
|---|---|
| `WebServer_proofs` | `TypeCorrect`; `TimerNodeAlways`; `OneOwnerAlways`, `NeverStrandedAlways`, `NoStaleWorkAlways`; `CountExactAlways` |
| `ThreadPool_proofs` | `TypeCorrect`; `ThreadPoolImplements`; `WorkConservingAlways` |
| `Pools_proofs` | `TypeCorrect`; `SemMatchesAlways`; `ConnsKeptAlways`, of the connection pool in `Pools` |
| `Log_proofs` | `TypeCorrect`; `QueueOrderAlways`; `PushNeverWaitsAlways` |
| `HeapTimer_proofs` | `TypeCorrect`; `RefInverseAlways`; `HeapOrderedAlways`; `NextTickInTimeAlways`; `HeapTimerImplements` |
| `Http_proofs` | `TypeCorrect`; `ReadInOrderAlways`; `ReceivedExactAlways`; `CloseIsLastAlways`; `ClosesWhenDoneAlways` |
| `CServer_proofs` | `TurnsKeptAlways` |
| `Programs_proofs` | `AccountsKeptAlways`; `ListSoundAlways`; `HandedOverAlways`; `ClientsHeardAlways`; `TurnsKeptAlways` |

They hold for any number of descriptors, workers, connections, callers, lines and
timers, under the named assumptions of each module (`FdsAssumption`,
`ThreadsAssumption`, ...), which say no more than that threads are distinct from
each other and from the null values, that counted sets are finite and that
bounds are numbers. `TurnsKeptAlways` of `CServer_proofs` states its assumption
itself (`Sized`: finitely many threads, descriptors other than the listening
one); that of `Programs_proofs` carries it over to `Programs`, as the other
theorems of that module are about `Programs` and its assumptions. With them every
invariant that a passing run checks is also a theorem. TLC checked each
strengthening below as an invariant of its run before it was proved.

*Reactor.* `OneOwner` is not inductive: it counts what may act on a connection,
and to keep it a step must know where each thread is. `ControlInv` comes first:
types, each thread's program counter and argument fit (`PcArg`), the main thread
is in `tick` exactly while a timer is expiring (`MainInv`), and, with timers,
every armed or reported descriptor has its node (`TimerInv`), from which
`TimerNodeAlways` follows. On top of it `Owned`, as long as no timer has overrun:
tasks, events and threads each exclude the others on a descriptor (`TasksOwn`,
`EventsOwn`, `ThreadsOwn`), a closed descriptor has none of them
(`ClosedIsInert`), an open one has one (`OpenIsOwned`). One lemma,
`QuietStep`, does the many steps that move no owner; two pairs of lemmas do the
steps in which a thread lets go of its descriptor and those in which it keeps it;
the others have a proof each. The three theorems are consequences of `Owned`.

`CountExact` counts on top of these: `CountInv` says that `userCount` is the
number of open descriptors less the threads about to close one, and that both
are finite. `AcceptOne` adds 1 to both sides, `CloseQuit` takes 1 from
`userCount` and puts its thread at `closefd`, `CloseFd` takes 1 from both sets;
that the descriptor which is closed is still open is what `Owned` is needed for,
and all other steps leave both sets alone (`CountQuiet`).

*Thread pool.* `PoolInv` says that a caller holds a task exactly while it adds
it and a worker exactly while it runs it (`HeldInv`), that a task being added is
not fresh and has one caller (`FreshInv`), that nobody adds while the owner
destroys the pool (`OwnerInv`), and that `waiting` is the set of workers in
`wait` (`WaitInv`). The refinement goes action by action: `Emplace` is `Submit`,
`TakeTask` is `Start`, `Run` is `Finish`, `Close` is `Close`, `Exit` is `Retire`,
and all others stutter. `WorkConserving` is proved by counting: each step changes
the two cardinalities by at most one, and only where the length of the queue
moves with them.

*Connection pool.* `SemMatches` is inductive with the types: `Pop` is the only
step that takes from the queue, and it leaves `Popping`. `ConnsKept` is
inductive with the types. A step of the threads leaves the variables of the
connection pool as they are.

*Log.* `LogInv` says that `mtx_` is held by the writer whose program counter
says so, that a writer past `full()` has room (`RoomInv`, which needs that no
other thread pushes without `mtx_`), that the log thread holds a line exactly
when it is about to write it, and that at `Close` nobody writes and the deque is
empty. `QueueOrder` then follows each concatenation.

*Timer heap.* `TypeInv` is inductive: a swap exchanges two nodes and their
entries in `ref_` (`SwapFacts`), and as no id has two nodes the root's computed
parent lies outside of the heap (`RootFacts`, from `SizeAssumption`). `OrderInv`
says what holds within the loops: the order is broken at `i` only, towards its
parent in `siftup_`, also towards its children in `siftdown_`, and the children
of `i` are in order with `i`'s parent (`Bridged`), which is what makes a swap
repair more than it breaks. `adjust` may leave out `siftup_` because no node is
due later than one restarted now (`NoneLater`), which needs that every call has
the same timeout. That the root is due first (`RootIsFirst`) takes the first node
due before it, whose parent would be one before that. With `PopInv`, which
follows the node that `tick` pops to the end of the vector, and the monotony of
the rounding (`MillisFacts`), each step is a step of `TimerSet` or a stutter.

*HTTP connection.* Three invariants. `ReadInv`: the buffer is well formed and
its readable bytes are the end of what was read; every method of `Buffer` has a
lemma that says what it does to its contents, `MakeSpace_` included. `WriteInv`:
while a response is under way, what was told to the client is what it got,
followed by what is left in `writeBuff_` and then by the rest of the mapped file,
and the two lengths in `iov_` are those of these two parts; `write` may advance
inside either, which is where a wrong subtraction would show. `KeepInv`: whether
the connection is kept agrees with the last response made. `ReadInOrder`,
`ReceivedExact`, `CloseIsLast` and `ClosesWhenDone` follow.

*C-style server.* `TurnsKept` counts the hands that have a descriptor: its
registration, its events, main, the queue and the workers. The sum is proved
inductive (`HandsInv`) with the types and the bookkeeping of `open` (`TypeInv`).
`Alone` draws from the sum being at most 1 that whoever has the descriptor has it
alone; each step then takes 1 from one summand and gives it to another, with a
lemma for each way of counting (`EventsTaken`, `QueueAppended`, `QueueTaken`,
`RequestChanged`). A refused `append` is the only step after which the sum is 0
for an open descriptor. `Programs_proofs` uses this module through an `INSTANCE`:
it shows that each action of the one instance of `CServer` is that of the other.

*User accounts.* `AccountsKept` says which rows and answers there may be, and is
not inductive: what a worker is about to insert depends on what others did since
its SELECT. `AccountsInv` adds what each worker knows (`Registers`: who is about
to insert a name found no row of it, and any row or registration since then
counts as `together`; `Returns`: the answer is true of the table). A step of one
worker only adds to the table and to `together` (`StepOf`), so that what is true
of the others stays true (`OthersKeep`).

*List of timers.* The links are two functions; the proof reads them as a
sequence. `Has(list, open)` says that there are `n` nodes `s`, linked both ways
and in the order of their times, that they are the open connections, and that
all other nodes are as clean as new ones (`Sound`). Each operation is a step on
sequences: a node goes behind the last one (`Last`), one is taken out
(`TakenOut`, with a case for the head, the tail and the middle), the first `d`
are freed (`BehindIs`, `FreedKeeps`), all times go down by 1 (`PassedKeeps`).
`FollowsOnce` and `ChainFollows` connect the recursive functions of the model
with `s`; they rest on the least number at which two functions would differ, for
induction with a predicate as a parameter is out of the prover's reach. `Awaited`
says that an event of the listening socket stands for a client that waits, so
that `accept` finds a free descriptor. The copy in `lesson05` loses a neighbour
when it puts off a timer from the middle: `RingEndless` shows that the walk then
goes round two nodes for ever, and `ListsInv` that main hangs there with three
connections at least, and not before.

*Course, what is handed over.* `CourseInv` counts for `semaphore.c`: what `psem`
has left, the producers let in, the nodes and the customers about to post make up
the room, and `csem` with the producers about to post to it and the customers let
in make up the nodes (`SemaphoresCount`, with `OneMoves` for the counts that a
step changes); for `cond.c`, that a node for which all customers wait is about to
be told of (`NodeTold`). `SellingInv` has one part for each program: without a
lock what was read is at least what is unsold, with the mutex a seller between
lock and unlock is alone, with the lock of `rwlock.c` so is a writer, and a reader
has read what is there. `ReapingInv`: a child that has ended has its signal
pending or the handler running. `SlotInv`: the threads' slots have different open
descriptors, and one that main has accepted and not handed over is in none.
`ChatInv`: a line on its way, or a side that writes, leaves the other side
reading.

*Course, who is heard.* `EchoInv`: every open connection is in the table once,
within what the wait looks at; for `poll` the first free entry is within `nfds`
because fewer entries than descriptors are taken (`FreeEntry`, by counting), and
with edges what is ready is reported, being read or about to be reported.
`SessionsEnd`: as long as the server lives, a session that it has shut has a
client that ended its stream and from which all was read, and no client reaches
the end that only a server's close brings; `ClientKeeps` and `TelnetServerKeeps`
follow it through the two sides. `LessonInv`: nothing that
`parse_line` does keeps the connection, and whatever was read is answered with
the one refusal.

Only model-checked: liveness, which TLAPS does not prove here (`TasksRun`,
`RequestRead`, `RequestProcessed`, `Answered`, `GoneClosed` and the others under
fairness), and everything about the instances that show violations.

## What is not modelled

* *Log*: which file is open and when it changes (`toDay_`, `lineCount_`, `fp_`),
  `SetLevel`, the timed `pop`, `push_front`. The rollover is unsynchronised; a
  `FILE*` used during its `fclose` has no outcomes to choose from.
* *Parser and response*: the decoding of a form's characters; an `mmap` that
  fails and a file that changes between `stat` and `mmap`
  (`http/httpresponse.cpp:134` is a hazard without a property); types of files.
* *Reactor*: level triggered modes in `WebServer` (`Http` has both); SIGPIPE,
  whose default action would end every behaviour where it is raised.
* *Connection pool*: `ClosePool`, which runs when the process ends, and
  `GetFreeConnCount`; what MySQL does inside.
* *C-style server*: the destructor of its pool, after which `run` is not reached
  again, and `locker.h`'s condition variable, which nothing uses.
* *Course*: programs on one system call each (fork, pipe, mmap, a signal, UDP),
  file and build exercises, in which no order of steps matters; `telnet-client.c`
  does what `client.c` does; `lesson05/main.cpp` and `threadpool.h` what
  `CServer` models.
* `webbench` and the pages under `resources` (vendored code and data),
  `main.cpp` and `config` (they choose the constants), `test/test.cpp` (a driver
  whose orders are among those of `Log` and `ThreadPool`), the setup of listening
  sockets, the text of log lines and of HTTP headers.

## Running the tools

    tlc -workers 2 -config MCWebServer.cfg MCWebServer
    tlapm WebServer_proofs.tla

Each run of `PROJECT.json` names its module and its `.cfg`; no run needs options
beyond these.
