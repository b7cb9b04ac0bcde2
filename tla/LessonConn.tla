----------------------------- MODULE LessonConn -----------------------------
(***************************************************************************)
(* The http_conn of lesson05/http_conn.cpp, written out again from the one *)
(* of webserver/ (module CConn, here Site).  The functions that are the    *)
(* same in both are taken from there; the loop of process_read(), the      *)
(* request line, the header fields and write() differ.                     *)
(***************************************************************************)
EXTENDS Integers, Sequences

CONSTANTS Requests, Resources, FileSize, BodyLen, READ_BUFFER_SIZE
VARIABLES script, sentN, readN, got, room, cut, state, conn, iov, have, told

Site == INSTANCE CConn

vars == Site!vars
Init == Site!Init
Accept == Site!Accept
Client == Site!Send \/ Site!Drain
DealRead == Site!DealRead
Recv == Site!Recv

parse_line(c) == Site!parse_line(c)
get_line(c) == Site!get_line(c)

\* Blanks are tabs here: a line with spaces is one word.
parse_request_line(text) == text # <<>> /\ text[1] = "GETt" /\ Site!parse_request_line(text)

\* text[0] = '\0' is an assignment: the line is emptied, and no field found in it.
parse_headers(c, from) == [c EXCEPT !.buf = IF from < Len(@) THEN [@ EXCEPT ![from + 1] = "nul"]
                                                             ELSE @]

process_write(code) == Site!process_write(code)

\* The loop's condition compares where Site assigns: line_status stays LINE_OK,
\* and the loop goes on while parse_line() returns anything else.
LoopGoesOn(c) == c.line # "OK"

\* One turn of the loop in process_read(), and the end of process().  The state
\* CONTENT is not reached, for no Content-Length is found.
Process ==
  /\ state = "process"
  /\ \E c \in {parse_line(conn)} :
     LET next == [c EXCEPT !.start = c.checked]
     IN  \/ /\ ~LoopGoesOn(c)                         \* NO_REQUEST
            /\ conn' = c /\ state' = "in"
            /\ UNCHANGED <<iov, told, have>>
         \/ /\ LoopGoesOn(c) /\ c.check = "REQUESTLINE" /\ parse_request_line(get_line(c))
            /\ conn' = [next EXCEPT !.check = "HEADER"]
            /\ UNCHANGED <<iov, told, state, have>>
         \/ /\ LoopGoesOn(c) /\ c.check = "REQUESTLINE" /\ ~parse_request_line(get_line(c))
            /\ conn' = next /\ process_write("400")
         \/ /\ LoopGoesOn(c) /\ c.check = "HEADER"
            /\ conn' = parse_headers(next, c.start)
            /\ UNCHANGED <<iov, told, state, have>>
  /\ UNCHANGED <<script, sentN, readN, got, room, cut>>

DealWrite == Site!DealWrite

\* bytes_to_send = temp: after the first writev, which EPOLLOUT has made room
\* for, nothing is left to send.
Writev ==
  /\ state = "write"
  /\ LET all == iov.head \o iov.file IN
     \E n \in 1..Len(all) :
       /\ room' = (n = Len(all))
       /\ cut' = (cut \/ n < Len(all))
       /\ got' = IF cut' THEN <<>> ELSE got \o all
       /\ have' = n
       /\ state' = "closed"
  /\ UNCHANGED <<script, sentN, readN, told, conn, iov>>

Server == DealRead \/ Recv \/ Process \/ DealWrite \/ Writev
Next == Accept \/ Client \/ Server

-----------------------------------------------------------------------------
\* Whatever a client sends, this copy answers it with 400 or not at all: it
\* serves no file, and it keeps no connection.
OnlyRefuses == told \in {<<>>, Site!Response("400", FALSE)}
=============================================================================
