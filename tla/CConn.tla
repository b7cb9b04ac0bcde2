-------------------------------- MODULE CConn --------------------------------
(***************************************************************************)
(* One http_conn of the C-style server (webserver/http_conn.cpp) and its   *)
(* client: the non-blocking read(), the line parser whose position         *)
(* survives from one read to the next, the requests it accepts, and the    *)
(* write() that sends the response.  Main runs read() and write(), a worker *)
(* process(); EPOLLONESHOT makes them take turns (module CServer).         *)
(*                                                                         *)
(* Bytes are pieces of text as in module Http: "GET" ("GETt" when tabs are *)
(* the blanks of its line), a url, "1.1", the header fields "KA" (Connection:  *)
(* keep-alive), "len" (Content-Length, of BodyLen bytes) and "host"; "cr",  *)
(* "lf", and "nul" for the '\0' that ends a line once it is parsed.         *)
(***************************************************************************)
EXTENDS Integers, Sequences

CONSTANTS Requests,          \* what clients send: the bytes, where the requests end,
                             \* and the [code, keep] of the answers due
          Resources,         \* url -> its kind in the file system
          FileSize,          \* bytes of a file
          BodyLen,           \* bytes of a body
          READ_BUFFER_SIZE   \* 2048

VARIABLES
  script,    \* what the client sends
  sentN,     \* bytes of it sent
  readN,     \* bytes of it taken by recv()
  got,       \* bytes received, as long as no writev was cut
  room,      \* the send buffer takes bytes
  cut,       \* a writev has taken only a part of the response
  state,     \* "in" and "out" are armed registrations; else the function
  conn,      \* the fields of http_conn for reading
  iov,       \* what m_iv points to: header and content, and m_write_idx
  have,      \* bytes_have_send
  told       \* the response made, as it should reach the client

vars == <<script, sentN, readN, got, room, cut, state, conn, iov, have, told>>

\* m_read_buf up to m_read_idx, m_checked_idx, m_start_line, m_check_state,
\* m_url, m_linger, m_content_length, and the local line_status of process_read().
EmptyConn == [buf |-> <<>>, checked |-> 0, start |-> 0, check |-> "REQUESTLINE",
              url |-> "", linger |-> FALSE, length |-> 0, line |-> "OK"]
NoIov == [head |-> <<>>, file |-> <<>>, write_idx |-> 0]

Init ==
  /\ script = [bytes |-> <<>>, ends |-> {}, due |-> <<>>]
  /\ sentN = 0 /\ readN = 0 /\ got = <<>> /\ room = TRUE /\ cut = FALSE
  /\ state = "closed" /\ conn = EmptyConn /\ iov = NoIov /\ have = 0 /\ told = <<>>

\* http_conn::init(sockfd, addr)
Accept ==
  /\ state = "closed" /\ script.bytes = <<>>
  /\ script' \in Requests
  /\ state' = "in" /\ conn' = EmptyConn
  /\ UNCHANGED <<sentN, readN, got, room, cut, iov, have, told>>

\* The client sends any part of a request, and the next one when the answer
\* has come.
Send ==
  /\ state # "closed"
  /\ \E n \in sentN + 1 .. Len(script.bytes) :
       /\ \A e \in script.ends :
            sentN <= e /\ e < n => sentN = e /\ told # <<>> /\ got = told /\ state = "in"
       /\ sentN' = n
  /\ UNCHANGED <<script, readN, got, room, cut, state, conn, iov, have, told>>

Drain ==
  /\ ~room /\ room' = TRUE
  /\ UNCHANGED <<script, sentN, readN, got, cut, state, conn, iov, have, told>>

-----------------------------------------------------------------------------
(* read(): recv until there is nothing left.  With the buffer full recv is *)
(* asked for no byte and returns 0, which read() takes for the client's    *)
(* having closed.                                                          *)
DealRead ==
  /\ state = "in" /\ readN < sentN
  /\ state' = IF Len(conn.buf) >= READ_BUFFER_SIZE THEN "closed" ELSE "read"
  /\ UNCHANGED <<script, sentN, readN, got, room, cut, conn, iov, have, told>>

Recv ==
  /\ state = "read"
  /\ LET left == READ_BUFFER_SIZE - Len(conn.buf)
         n == IF sentN - readN < left THEN sentN - readN ELSE left
     IN  \/ /\ left = 0 /\ state' = "closed"
            /\ UNCHANGED <<conn, readN>>
         \/ /\ left > 0 /\ n = 0
            /\ state' = "process" /\ conn' = [conn EXCEPT !.line = "OK"]
            /\ UNCHANGED readN
         \/ /\ left > 0 /\ n > 0
            /\ conn' = [conn EXCEPT !.buf = @ \o SubSeq(script.bytes, readN + 1, readN + n)]
            /\ readN' = readN + n
            /\ UNCHANGED state
  /\ UNCHANGED <<script, sentN, got, room, cut, iov, have, told>>

-----------------------------------------------------------------------------
(* process_read()                                                          *)

\* The first \r or \n from m_checked_idx on, or the end.
Break(c) == CHOOSE i \in c.checked .. Len(c.buf) :
              /\ i < Len(c.buf) => c.buf[i + 1] \in {"cr", "lf"}
              /\ \A j \in c.checked .. i - 1 : c.buf[j + 1] \notin {"cr", "lf"}

Is(c, i, b) == i < Len(c.buf) /\ c.buf[i + 1] = b
Ended(c, from, to) == [c EXCEPT !.line = "OK", !.checked = to,
                                !.buf = [@ EXCEPT ![from + 1] = "nul", ![from + 2] = "nul"]]

\* Mutant: a CRLF whose two bytes come apart is not put together.
LineAtWhole(c, at) ==
  CASE at = Len(c.buf) -> [c EXCEPT !.line = "OPEN", !.checked = at]
    [] Is(c, at, "cr") /\ at + 1 = Len(c.buf) -> [c EXCEPT !.line = "OPEN", !.checked = at + 1]
    [] Is(c, at, "cr") /\ Is(c, at + 1, "lf") -> Ended(c, at, at + 2)
    [] OTHER -> [c EXCEPT !.line = "BAD", !.checked = at]

LineAt(c, at) ==
  CASE at = Len(c.buf) -> [c EXCEPT !.line = "OPEN", !.checked = at]
    [] Is(c, at, "cr") /\ at + 1 = Len(c.buf) -> [c EXCEPT !.line = "OPEN", !.checked = at]
    [] Is(c, at, "cr") /\ Is(c, at + 1, "lf") -> Ended(c, at, at + 2)
    [] Is(c, at, "lf") /\ at > 1 /\ Is(c, at - 1, "cr") -> Ended(c, at - 1, at + 1)
    [] OTHER -> [c EXCEPT !.line = "BAD", !.checked = at]

parse_line(c) == LineAt(c, Break(c))

\* get_line(): the string at m_start_line, which ends before a '\0'.
get_line(c) ==
  LET end == CHOOSE i \in c.start + 1 .. Len(c.buf) + 1 :
               /\ i <= Len(c.buf) => c.buf[i] = "nul"
               /\ \A j \in c.start + 1 .. i - 1 : c.buf[j] # "nul"
  IN  SubSeq(c.buf, c.start + 1, end - 1)

\* Blanks are a part of the pieces; any other method or version is refused.
parse_request_line(text) == /\ Len(text) = 3
                            /\ text[1] \in {"GET", "GETt"} /\ text[2] \in DOMAIN Resources
                            /\ text[3] = "1.1"

parse_headers(c, text) == [c EXCEPT !.linger = @ \/ text = <<"KA">>,
                                    !.length = IF text = <<"len">> THEN BodyLen ELSE @]

\* m_checked_idx is where the body begins: parse_line() is not to have moved it.
parse_content(c) == Len(c.buf) >= c.length + c.checked

do_request(url) == CASE Resources[url] = "none" -> "404"
                     [] Resources[url] = "private" -> "403"
                     [] Resources[url] = "dir" -> "400"
                     [] Resources[url] = "file" -> "200"

\* process_write(): the header with the error's text, or with a file to follow.
Page(code) == IF code = "200" THEN [i \in 1..FileSize |-> "file"] ELSE <<>>
Response(code, linger) == <<code, "length", IF linger THEN "keep-alive" ELSE "close", "blank">>
                        \o (IF code = "200" THEN <<>> ELSE <<"form">>)

process_write(code) ==
  LET head == Response(code, conn.linger) IN
  /\ iov' = [head |-> head, file |-> Page(code), write_idx |-> Len(head)]
  /\ told' = told \o head \o Page(code)
  /\ state' = "out" /\ have' = 0

\* One turn of the loop in process_read(), and the end of process().
Process ==
  /\ state = "process"
  /\ \E c \in {IF conn.check = "CONTENT" /\ conn.line = "OK" THEN conn ELSE parse_line(conn)} :
     LET text == get_line(c)
         next == [c EXCEPT !.start = c.checked]
         Continue(d) == conn' = d /\ UNCHANGED <<iov, told, state, have>>
     IN  \/ /\ c.line # "OK"                      \* NO_REQUEST
            /\ conn' = c /\ state' = "in"
            /\ UNCHANGED <<iov, told, have>>
         \/ /\ c.line = "OK" /\ c.check = "REQUESTLINE" /\ parse_request_line(text)
            /\ Continue([next EXCEPT !.check = "HEADER", !.url = text[2]])
         \/ /\ c.line = "OK" /\ c.check = "REQUESTLINE" /\ ~parse_request_line(text)
            /\ conn' = next /\ process_write("400")
         \/ /\ c.line = "OK" /\ c.check = "HEADER" /\ text # <<>>
            /\ Continue(parse_headers(next, text))
         \/ /\ c.line = "OK" /\ c.check = "HEADER" /\ text = <<>> /\ c.length # 0
            /\ Continue([next EXCEPT !.check = "CONTENT"])
         \/ /\ c.line = "OK" /\ c.check = "HEADER" /\ text = <<>> /\ c.length = 0
            /\ conn' = next /\ process_write(do_request(c.url))
         \/ /\ c.line = "OK" /\ c.check = "CONTENT" /\ parse_content(next)
            /\ conn' = next /\ process_write(do_request(c.url))
         \/ /\ c.line = "OK" /\ c.check = "CONTENT" /\ ~parse_content(next)
            /\ Continue([next EXCEPT !.line = "OPEN"])
  /\ UNCHANGED <<script, sentN, readN, got, room, cut>>

-----------------------------------------------------------------------------
(* write()                                                                 *)

DealWrite ==
  /\ state = "out" /\ room
  /\ IF iov.write_idx = 0 THEN state' = "in" /\ conn' = EmptyConn
                          ELSE state' = "write" /\ UNCHANGED conn
  /\ have' = 0
  /\ UNCHANGED <<script, sentN, readN, got, room, cut, iov, told>>

\* bytes_to_send <= bytes_have_send, for what was sent in this call.
Finished(sum) == iov.write_idx - sum <= sum

\* One writev: m_iv is never moved, so it begins at the header each time.
Writev ==
  /\ state = "write"
  /\ LET all == iov.head \o iov.file IN
     \/ /\ ~room                                 \* EAGAIN
        /\ state' = "out"
        /\ UNCHANGED <<got, room, cut, conn, have, iov>>
     \/ \E n \in 1..Len(all) :
          /\ room /\ room' = (n = Len(all))
          /\ cut' = (cut \/ n < Len(all))
          /\ got' = IF cut' THEN <<>> ELSE got \o all
          /\ have' = have + n
          /\ IF ~Finished(have') THEN UNCHANGED <<state, conn, iov>>
             ELSE IF conn.linger
             THEN state' = "in" /\ conn' = EmptyConn /\ iov' = [iov EXCEPT !.write_idx = 0]
             ELSE state' = "closed" /\ UNCHANGED <<conn, iov>>
  /\ UNCHANGED <<script, sentN, readN, told>>

Server == DealRead \/ Recv \/ Process \/ DealWrite \/ Writev
Next == Accept \/ Send \/ Drain \/ Server
Spec == Init /\ [][Next]_vars

\* The server's threads run; the client sends all it has and takes what it gets.
Fairness == WF_vars(Server) /\ WF_vars(Drain) /\ WF_vars(Send)
FairSpec == Spec /\ Fairness
-----------------------------------------------------------------------------
\* The answers due to a client whose requests have no body and good lines.
Due ==
  LET upTo[n \in 0..Len(script.due)] ==
        IF n = 0 THEN <<>>
        ELSE upTo[n - 1] \o Response(script.due[n].code, script.due[n].keep) \o Page(script.due[n].code)
  IN  upTo[Len(script.due)]

\* However its requests are cut on the way, such a client receives exactly the
\* answers due, unless a writev was taken in part.
Answered == Due # <<>> ~> got = Due \/ cut
=============================================================================
