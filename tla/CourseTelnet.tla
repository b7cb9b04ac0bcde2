----------------------------- MODULE CourseTelnet -----------------------------
(***************************************************************************)
(* The homework's remote shell: server.c and telnet-server.c, which serve  *)
(* one client after another, and client.c (telnet-client.c does the same), *)
(* whose select() looks at the terminal and at the socket.  A command is   *)
(* sent without an end: a read() may find several, which are none.         *)
(***************************************************************************)
EXTENDS Integers, Sequences

CONSTANTS Clients,
          MaxTyped     \* bound: commands that the clients type

VARIABLES
  version,       \* "server" (server.c) or "telnet" (telnet-server.c)
  backlog,       \* the clients that wait for accept()
  srv, cfd,      \* the server: "accept", "read", "exited" or "aborted"; its client
  client,        \* client -> "new", "select", "quit"; how it has ended: "killed" by
                 \* its quit, "left" or "cut" by the user, "closed" by the server
  typed, wire,   \* commands typed; client -> those of its own not yet read
  answers,       \* client -> answers that wait in its socket
  reset, shut    \* the connections that were reset, those that the server closed

vars == <<version, backlog, srv, cfd, client, typed, wire, answers, reset, shut>>

Commands == {"ls", "pwd", "cd", "cd dir", "other"}
Nobody == "nobody"
\* The clients whose end of the stream has reached the server.
Finished == {"quit", "killed", "left"}

Init ==
  /\ version \in {"server", "telnet"}
  /\ backlog = <<>> /\ srv = "accept" /\ cfd = Nobody
  /\ client = [c \in Clients |-> "new"] /\ typed = 0
  /\ wire = [c \in Clients |-> <<>>] /\ answers = [c \in Clients |-> 0]
  /\ reset = {} /\ shut = {}

-----------------------------------------------------------------------------
(* client.c.                                                               *)

connect(c) ==
  /\ client[c] = "new" /\ srv \in {"accept", "read"}
  /\ client' = [client EXCEPT ![c] = "select"] /\ backlog' = Append(backlog, c)
  /\ UNCHANGED <<version, srv, cfd, typed, wire, answers, reset, shut>>

\* Standard input: a command is sent.
command(c) ==
  /\ client[c] = "select" /\ c \notin shut /\ typed < MaxTyped
  /\ typed' = typed + 1
  /\ \E cmd \in Commands : wire' = [wire EXCEPT ![c] = Append(@, cmd)]
  /\ UNCHANGED <<version, backlog, srv, cfd, client, answers, reset, shut>>

\* The socket: the answers are printed, or the server has closed.
answer(c) ==
  /\ client[c] = "select"
  /\ \/ answers[c] > 0 /\ answers' = [answers EXCEPT ![c] = 0] /\ UNCHANGED client
     \/ /\ answers[c] = 0 /\ c \in shut
        /\ client' = [client EXCEPT ![c] = "closed"] /\ UNCHANGED answers
  /\ UNCHANGED <<version, backlog, srv, cfd, typed, wire, reset, shut>>

\* "quit": shutdown(fd, SHUT_WR) ...
shutdown(c) ==
  /\ client[c] = "select" /\ client' = [client EXCEPT ![c] = "quit"]
  /\ UNCHANGED <<version, backlog, srv, cfd, typed, wire, answers, reset, shut>>

\* ... and the line is sent all the same, for which SIGPIPE ends the client.
\* An answer that it has not read makes the end a reset.
quit(c) ==
  /\ client[c] = "quit" /\ client' = [client EXCEPT ![c] = "killed"]
  /\ reset' = IF answers[c] > 0 THEN reset \cup {c} ELSE reset
  /\ UNCHANGED <<version, backlog, srv, cfd, typed, wire, answers, shut>>

\* The user ends the client with Ctrl-C: what it has not read makes the end a
\* reset, with no end of the stream before it.
interrupt(c) ==
  /\ client[c] = "select"
  /\ IF answers[c] > 0
     THEN client' = [client EXCEPT ![c] = "cut"] /\ reset' = reset \cup {c}
     ELSE client' = [client EXCEPT ![c] = "left"] /\ UNCHANGED reset
  /\ UNCHANGED <<version, backlog, srv, cfd, typed, wire, answers, shut>>

Client(c) ==
  connect(c) \/ command(c) \/ answer(c) \/ shutdown(c) \/ quit(c) \/ interrupt(c)

-----------------------------------------------------------------------------
(* The servers.                                                            *)

accept ==
  /\ srv = "accept" /\ backlog # <<>>
  /\ cfd' = Head(backlog) /\ backlog' = Tail(backlog) /\ srv' = "read"
  /\ UNCHANGED <<version, client, typed, wire, answers, reset, shut>>

\* An answer to a client that has gone brings a reset, one after it fails.
Send(next) ==
  IF cfd \in reset
  THEN srv' = "exited" /\ shut' = Clients /\ UNCHANGED <<answers, reset>>
  ELSE /\ srv' = next /\ shut' = IF next = "read" THEN shut ELSE Clients
       /\ IF client[cfd] \in {"killed", "left"}
          THEN reset' = reset \cup {cfd} /\ UNCHANGED answers
          ELSE answers' = [answers EXCEPT ![cfd] = @ + 1] /\ UNCHANGED reset

\* What the server reads: one command, or several, as text that is no command
\* but may begin with one.
Text(n) == IF n = 1 THEN wire[cfd][1]
           ELSE IF wire[cfd][1] = "cd dir" THEN "cd dir" ELSE "other"

Takes(n) ==
  /\ srv = "read" /\ n \in 1..Len(wire[cfd])
  /\ wire' = [wire EXCEPT ![cfd] = SubSeq(@, n + 1, Len(@))]
  /\ UNCHANGED <<version, backlog, cfd, client, typed>>

\* server.c: getcwd() returns buf, which free() aborts on; "cd" is compared with
\* its end, and then the length of the rest is -1.
server_command(n) ==
  /\ version = "server" /\ Takes(n)
  /\ CASE Text(n) = "pwd" -> Send("aborted")
       [] Text(n) = "cd" -> srv' = "aborted" /\ shut' = Clients /\ UNCHANGED <<answers, reset>>
       [] OTHER -> Send("read")

\* telnet-server.c: chdir() has no answer.
telnet_command(n) ==
  /\ version = "telnet" /\ Takes(n)
  /\ IF Text(n) = "cd dir" THEN UNCHANGED <<srv, shut, answers, reset>> ELSE Send("read")

\* read() fails when a reset has come with no end of the stream: telnet-server.c
\* exits; server.c goes on with an empty command, and returns when it cannot answer.
read_fails ==
  /\ srv = "read" /\ wire[cfd] = <<>> /\ client[cfd] = "cut"
  /\ srv' = "exited" /\ shut' = Clients
  /\ UNCHANGED <<version, backlog, cfd, client, typed, wire, answers, reset>>

\* read() returns 0, after a reset too: the next client is served.
client_closed ==
  /\ srv = "read" /\ wire[cfd] = <<>> /\ client[cfd] \in Finished
  /\ srv' = "accept" /\ shut' = shut \cup {cfd} /\ cfd' = Nobody
  /\ UNCHANGED <<version, backlog, client, typed, wire, answers, reset>>

Server == \/ accept \/ read_fails \/ client_closed
          \/ \E n \in 1..MaxTyped : server_command(n) \/ telnet_command(n)

Next == Server \/ \E c \in Clients : Client(c)

-----------------------------------------------------------------------------
\* As long as the server lives, it closes no client before that one has ended its
\* stream and all that it typed has been read, and no client reaches "server
\* closed": "quit" kills it first.
SessionsKept ==
  srv \in {"accept", "read"} =>
    /\ \A c \in shut : client[c] \in Finished /\ wire[c] = <<>>
    /\ \A c \in Clients : client[c] # "closed"

\* The homework asks that the server not end because a client exits with "quit".
ServerStays == srv = "exited" => client[cfd] # "killed"
=============================================================================
